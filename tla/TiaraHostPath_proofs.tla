------------------------- MODULE TiaraHostPath_proofs -------------------------
(***************************************************************************)
(* Theorems about the host's way to the MP, for every width of a register, *)
(* every number of tasks and every delay of the MP and of the host.        *)
(***************************************************************************)
EXTENDS TiaraHostPath, SequenceTheorems, TLAPS

(* The two halves of a register are what it was joined of.                 *)
LEMMA HalvesOfJoined ==
    ASSUME NEW lo \in 0 .. HALF - 1, NEW hi \in Nat
    PROVE  /\ Joined(lo, hi) \in Nat
           /\ HalfOf(Joined(lo, hi), "lo") = lo
           /\ HalfOf(Joined(lo, hi), "hi") = hi
<1>1. HALF \in Nat \ {0} /\ HALF * hi \in Nat
  BY SlaveAssumption
<1>2. (HALF * hi + lo) % HALF = lo
  BY <1>1
<1>3. (HALF * hi + lo) \div HALF = hi
  BY <1>1
<1> QED BY <1>1, <1>2, <1>3 DEF Joined, HalfOf

Tasks == 1 .. MaxTasks
LEMMA Values ==
    ASSUME NEW k \in 0 .. MaxTasks, NEW i \in 0 .. NUM_ARGS
    PROVE  Value(k, i, "lo") \in 0 .. HALF - 1 /\ Value(k, i, "hi") \in 0 .. HALF - 1
  BY HostAssumption, SlaveAssumption DEF Value

LEMMA FunctionIsSeq ==
    ASSUME NEW U, NEW m \in Nat, NEW s \in [1 .. m -> U]
    PROVE  s \in Seq(U) /\ Len(s) = m
  OBVIOUS

(* Four sequences in a row.                                                *)
LEMMA TwoParts ==
    ASSUME NEW U, NEW l1 \in Nat, NEW l2 \in Nat,
           NEW s1 \in [1 .. l1 -> U], NEW s2 \in [1 .. l2 -> U]
    PROVE  /\ s1 \o s2 \in [1 .. l1 + l2 -> U]
           /\ \A j \in 1 .. l1 : (s1 \o s2)[j] = s1[j]
           /\ \A j \in 1 .. l2 : (s1 \o s2)[l1 + j] = s2[j]
<1>1. s1 \in Seq(U) /\ Len(s1) = l1 /\ s2 \in Seq(U) /\ Len(s2) = l2
  BY FunctionIsSeq
<1>2. /\ s1 \o s2 \in Seq(U) /\ Len(s1 \o s2) = l1 + l2
      /\ \A j \in 1 .. l1 + l2 : (s1 \o s2)[j] = IF j <= l1 THEN s1[j] ELSE s2[j - l1]
  BY <1>1, ConcatProperties
<1>3. s1 \o s2 \in [1 .. l1 + l2 -> U]
  BY <1>2, LenProperties
<1>4. \A j \in 1 .. l2 : l1 + j \in 1 .. l1 + l2 /\ ~(l1 + j <= l1) /\ (l1 + j) - l1 = j
  OBVIOUS
<1> QED BY <1>2, <1>3, <1>4

(* The accesses of a task, by their place.                                 *)
LEMMA Accesses ==
    ASSUME NEW k
    PROVE  /\ Access(k)[1] = Write("istore", 0, "lo", Value(k, 0, "lo"))
           /\ Access(k)[2] = Write("istore", 0, "hi", Value(k, 0, "hi"))
           /\ \A i \in 1 .. NUM_ARGS :
                /\ Access(k)[2 * i + 1] = Write("args", i, "lo", Value(k, i, "lo"))
                /\ Access(k)[2 * i + 2] = Write("args", i, "hi", Value(k, i, "hi"))
           /\ Access(k)[2 * NUM_ARGS + 3] = [kind |-> "free?", to |-> STATUS]
           /\ Access(k)[2 * NUM_ARGS + 4] = [kind |-> "write", to |-> CTRL, data |-> 1]
           /\ Access(k)[2 * NUM_ARGS + 5] = [kind |-> "done?", to |-> STATUS]
           /\ \A i \in 1 .. 4 :
                /\ Access(k)[2 * NUM_ARGS + 2 * i + 4] = Read("result", i, "lo")
                /\ Access(k)[2 * NUM_ARGS + 2 * i + 5] = Read("result", i, "hi")
<1> DEFINE n == NUM_ARGS
           op == <<Write("istore", 0, "lo", Value(k, 0, "lo")),
                   Write("istore", 0, "hi", Value(k, 0, "hi"))>>
           args == Halves(LAMBDA i, h : Write("args", i, h, Value(k, i, h)), NUM_ARGS)
           polls == <<[kind |-> "free?", to |-> STATUS], [kind |-> "write", to |-> CTRL, data |-> 1],
                      [kind |-> "done?", to |-> STATUS]>>
           reads == Halves(LAMBDA i, h : Read("result", i, h), 4)
           U == {op[j] : j \in 1 .. 2} \cup {args[j] : j \in 1 .. 2 * n}
                  \cup {polls[j] : j \in 1 .. 3} \cup {reads[j] : j \in 1 .. 8}
<1>1. n \in 1 .. 3
  BY HostAssumption
<1>2. /\ op = [j \in 1 .. 2 |-> op[j]] /\ args = [j \in 1 .. 2 * n |-> args[j]]
      /\ polls = [j \in 1 .. 3 |-> polls[j]] /\ reads = [j \in 1 .. 8 |-> reads[j]]
  <2>1. op = [j \in 1 .. 2 |-> op[j]] /\ polls = [j \in 1 .. 3 |-> polls[j]]
    OBVIOUS
  <2>2. args = [j \in 1 .. 2 * n |-> args[j]]
    BY Zenon DEF Halves
  <2>3. reads = [j \in 1 .. 8 |-> reads[j]]
    <3>1. 2 * 4 = 8
      OBVIOUS
    <3> QED BY <3>1, Zenon DEF Halves
  <2> QED BY <2>1, <2>2, <2>3
<1>3. \A i \in 1 .. n : /\ args[2 * i - 1] = Write("args", i, "lo", Value(k, i, "lo"))
                        /\ args[2 * i] = Write("args", i, "hi", Value(k, i, "hi"))
  BY <1>1 DEF Halves
<1>4. \A i \in 1 .. 4 : /\ reads[2 * i - 1] = Read("result", i, "lo")
                        /\ reads[2 * i] = Read("result", i, "hi")
  BY <1>1 DEF Halves
<1>5. /\ op[1] = Write("istore", 0, "lo", Value(k, 0, "lo"))
      /\ op[2] = Write("istore", 0, "hi", Value(k, 0, "hi"))
      /\ polls[1] = [kind |-> "free?", to |-> STATUS]
      /\ polls[2] = [kind |-> "write", to |-> CTRL, data |-> 1]
      /\ polls[3] = [kind |-> "done?", to |-> STATUS]
  OBVIOUS
<1>6. Access(k) = op \o args \o polls \o reads
  BY DEF Access
<1> HIDE DEF op, args, polls, reads
<1>7. /\ op \in [1 .. 2 -> U] /\ args \in [1 .. 2 * n -> U]
      /\ polls \in [1 .. 3 -> U] /\ reads \in [1 .. 8 -> U]
  BY <1>2
<1> HIDE DEF U
<1> DEFINE two == op \o args
           three == two \o polls
           all == three \o reads
<1>8. /\ two \in [1 .. 2 + 2 * n -> U]
      /\ \A j \in 1 .. 2 : two[j] = op[j]
      /\ \A j \in 1 .. 2 * n : two[2 + j] = args[j]
  <2>1. PICK l1 \in Nat, l2 \in Nat : l1 = 2 /\ l2 = 2 * n
    BY <1>1
  <2>2. op \in [1 .. l1 -> U] /\ args \in [1 .. l2 -> U]
    BY <1>7, <2>1
  <2>3. op \o args \in [1 .. l1 + l2 -> U]
    BY <2>2, TwoParts, Zenon
  <2>4. /\ \A j \in 1 .. l1 : (op \o args)[j] = op[j]
        /\ \A j \in 1 .. l2 : (op \o args)[l1 + j] = args[j]
    BY <2>2, TwoParts
  <2> QED BY <2>1, <2>3, <2>4
<1> HIDE DEF two
<1>9. /\ three \in [1 .. 2 + 2 * n + 3 -> U]
      /\ \A j \in 1 .. 2 + 2 * n : three[j] = two[j]
      /\ \A j \in 1 .. 3 : three[2 + 2 * n + j] = polls[j]
  <2>1. PICK l1 \in Nat, l2 \in Nat : l1 = 2 + 2 * n /\ l2 = 3
    BY <1>1
  <2>2. two \in [1 .. l1 -> U] /\ polls \in [1 .. l2 -> U]
    BY <1>7, <1>8, <2>1
  <2>3. two \o polls \in [1 .. l1 + l2 -> U]
    BY <2>2, TwoParts, Zenon
  <2>4. /\ \A j \in 1 .. l1 : (two \o polls)[j] = two[j]
        /\ \A j \in 1 .. l2 : (two \o polls)[l1 + j] = polls[j]
    BY <2>2, TwoParts
  <2> QED BY <2>1, <2>3, <2>4
<1> HIDE DEF three
<1>10. /\ \A j \in 1 .. 2 + 2 * n + 3 : all[j] = three[j]
       /\ \A j \in 1 .. 8 : all[2 + 2 * n + 3 + j] = reads[j]
  <2>1. PICK l1 \in Nat, l2 \in Nat : l1 = 2 + 2 * n + 3 /\ l2 = 8
    BY <1>1
  <2>2. three \in [1 .. l1 -> U] /\ reads \in [1 .. l2 -> U]
    BY <1>7, <1>9, <2>1
  <2>3. /\ \A j \in 1 .. l1 : (three \o reads)[j] = three[j]
        /\ \A j \in 1 .. l2 : (three \o reads)[l1 + j] = reads[j]
    BY <2>2, TwoParts
  <2> QED BY <2>1, <2>3
<1>11. Access(k) = all
  BY <1>6 DEF two, three
<1> HIDE DEF all
<1>12. /\ all[1] = op[1] /\ all[2] = op[2] /\ all[2 * n + 3] = polls[1]
       /\ all[2 * n + 4] = polls[2] /\ all[2 * n + 5] = polls[3]
  BY <1>1, <1>8, <1>9, <1>10
<1>13. \A i \in 1 .. n : all[2 * i + 1] = args[2 * i - 1] /\ all[2 * i + 2] = args[2 * i]
  <2>1. \A j \in 1 .. 2 * n : all[2 + j] = args[j]
    <3> TAKE j \in 1 .. 2 * n
    <3>1. 2 + j \in 1 .. 2 + 2 * n /\ 2 + j \in 1 .. 2 + 2 * n + 3
      BY <1>1
    <3>2. all[2 + j] = three[2 + j]
      BY <1>10, <3>1
    <3>3. three[2 + j] = two[2 + j]
      BY <1>9, <3>1
    <3> QED BY <1>8, <3>2, <3>3
  <2>2. \A i \in 1 .. n : /\ 2 * i - 1 \in 1 .. 2 * n /\ 2 + (2 * i - 1) = 2 * i + 1
                          /\ 2 * i \in 1 .. 2 * n /\ 2 + 2 * i = 2 * i + 2
    BY <1>1
  <2> QED BY <2>1, <2>2
<1>14. \A i \in 1 .. 4 : /\ all[2 * n + 2 * i + 4] = reads[2 * i - 1]
                         /\ all[2 * n + 2 * i + 5] = reads[2 * i]
  BY <1>1, <1>10
<1> QED BY <1>3, <1>4, <1>5, <1>11, <1>12, <1>13, <1>14
-----------------------------------------------------------------------------
(***************************************************************************)
(* The host and the core while the wire is quiet.                          *)
(***************************************************************************)
AtFree == 2 * NUM_ARGS + 3
AtStart == 2 * NUM_ARGS + 4
Taken == IF wstate = "W_RESP" THEN at ELSE at - 1    \* accesses that have had their effect
Operator(k) == Joined(Value(k, 0, "lo"), Value(k, 0, "hi"))
Args(k) == [i \in 1 .. NUM_ARGS |-> Joined(Value(k, i, "lo"), Value(k, i, "hi"))]
Answer(k) == [i \in 1 .. 4 |-> IF i - 1 <= NUM_ARGS
                               THEN Joined(Value(k, i - 1, "lo"), Value(k, i - 1, "hi")) ELSE 0]

(* One access at a time, on the channel of its kind.                       *)
ChannelInv ==
    /\ task \in 1 .. MaxTasks /\ at \in 1 .. Last0 + 1
    /\ wstate \in {"W_IDLE", "W_RESP"} /\ rstate \in {"R_IDLE", "R_RESP"}
    /\ wstate = "W_RESP" => rstate = "R_IDLE" /\ at <= AtStart /\ at # AtFree
    /\ rstate = "R_RESP" => at = AtFree \/ at \in AtDone .. Last0
    /\ load # NoAccess => at = 2 /\ wstate = "W_RESP"
    /\ mp_inv_valid => at = AtStart /\ wstate = "W_RESP"

(* What has been written is in the registers.                              *)
WrittenInv ==
    /\ Taken >= 1 => istore_lo = Value(task, 0, "lo")
    /\ Taken >= 2 => Operator(task) = IF load # NoAccess THEN load.data ELSE istore
    /\ arg_lo = [i \in 1 .. NUM_ARGS |-> arg_lo[i]]
    /\ arg_q = [i \in 1 .. NUM_ARGS |-> arg_q[i]]
    /\ \A i \in 1 .. NUM_ARGS :
         /\ Taken >= 2 * i + 1 => arg_lo[i] = Value(task, i, "lo")
         /\ Taken >= 2 * i + 2 => arg_q[i] = Args(task)[i]

(* A task on its way through the core.                                     *)
AtRest == dstate = "D_IDLE" /\ ~start.valid /\ mp = NoTask /\ ~task_done /\ ~done.valid
Starting == /\ dstate = "D_RUN" /\ start.valid /\ mp = NoTask /\ ~task_done /\ ~done.valid
            /\ start.args = Args(task)
Running == /\ dstate = "D_RUN" /\ ~start.valid /\ mp = Answer(task) /\ ~task_done /\ ~done.valid
Ending == /\ dstate = "D_RUN" /\ ~start.valid /\ mp = NoTask /\ task_done /\ ~done.valid
          /\ task_result = Answer(task)
Reporting == /\ dstate = "D_OUT" /\ ~start.valid /\ mp = NoTask /\ ~task_done /\ ~done.valid
             /\ done.result = Answer(task)
Pulsing == /\ dstate = "D_IDLE" /\ ~start.valid /\ mp = NoTask /\ ~task_done /\ done.valid
           /\ done.result = Answer(task)
Over == AtRest /\ done.result = Answer(task) /\ (err_sticky <=> done.err)

UnderWay == Starting \/ Running \/ Ending \/ Reporting \/ Pulsing

(* Before the access that starts the task the core rests; then it has been  *)
(* asked, or works on this task and nothing is sticky, or is over with it.  *)
CoreInv ==
    /\ err_sticky \in BOOLEAN /\ done.err \in BOOLEAN /\ task_err \in BOOLEAN
    /\ Taken < AtStart => AtRest
    /\ Taken >= AtStart => \/ mp_inv_valid /\ AtRest
                           \/ ~mp_inv_valid /\ ~done_sticky /\ ~err_sticky /\ UnderWay
                           \/ ~mp_inv_valid /\ Over

(* A done that has been read is that of this task, and so is what is read   *)
(* after it.                                                               *)
ReadInv ==
    /\ rdata.err \in BOOLEAN /\ sawErr \in BOOLEAN
    /\ rstate = "R_RESP" /\ at = AtDone /\ rdata.done => Over /\ (rdata.err <=> done.err)
    /\ rstate = "R_RESP" /\ at > AtDone => rdata.word = Expected(task)[at - AtDone]
    /\ at > AtDone => Over /\ (sawErr <=> done.err)
    /\ got = [j \in 1 .. (IF at > AtDone THEN at - AtDone - 1 ELSE 0) |-> Expected(task)[j]]

QuietInv == ~wire /\ ChannelInv /\ WrittenInv /\ CoreInv /\ ReadInv
HostInv == wireTasks \in Nat /\ (WireIsQuiet => QuietInv)

-----------------------------------------------------------------------------
(***************************************************************************)
(* Facts about tasks.                                                      *)
(***************************************************************************)
LEMMA Answers ==
    ASSUME NEW k \in Tasks
    PROVE  /\ Answer(k) \in [1 .. 4 -> Nat] /\ Answer(k) # NoTask
           /\ Args(k) \in [1 .. NUM_ARGS -> Nat] /\ Args(k) # NoInvocation
           /\ istore = Operator(k) => ResultOf(Args(k)) = Answer(k)
<1>1. \A i \in 0 .. NUM_ARGS : Joined(Value(k, i, "lo"), Value(k, i, "hi")) \in Nat
  <2>1. k \in 0 .. MaxTasks
    BY DEF Tasks
  <2> TAKE i \in 0 .. NUM_ARGS
  <2>2. Value(k, i, "lo") \in 0 .. HALF - 1 /\ Value(k, i, "hi") \in 0 .. HALF - 1
    BY <2>1, Values
  <2> QED BY <2>2, HalvesOfJoined
<1>2. Answer(k) \in [1 .. 4 -> Nat]
  <2>1. \A i \in 1 .. 4 : i - 1 <= NUM_ARGS => i - 1 \in 0 .. NUM_ARGS
    BY HostAssumption
  <2> QED BY <1>1, <2>1 DEF Answer
<1>3. Args(k) \in [1 .. NUM_ARGS -> Nat]
  BY <1>1, HostAssumption DEF Args
<1>4. ASSUME istore = Operator(k) PROVE ResultOf(Args(k)) = Answer(k)
  <2>1. \A i \in 1 .. 4 :
          (IF i = 1 THEN istore ELSE IF i - 1 \in 1 .. NUM_ARGS THEN Args(k)[i - 1] ELSE 0)
            = (IF i - 1 <= NUM_ARGS THEN Joined(Value(k, i - 1, "lo"), Value(k, i - 1, "hi")) ELSE 0)
    <3> TAKE i \in 1 .. 4
    <3>1. CASE i = 1
      <4>1. i - 1 = 0 /\ i - 1 <= NUM_ARGS
        BY <3>1, HostAssumption
      <4> QED BY <1>4, <3>1, <4>1 DEF Operator
    <3>2. CASE i # 1
      <4>1. i - 1 \in 1 .. NUM_ARGS <=> i - 1 <= NUM_ARGS
        BY <3>2, HostAssumption
      <4>2. i - 1 \in 1 .. NUM_ARGS
              => Args(k)[i - 1] = Joined(Value(k, i - 1, "lo"), Value(k, i - 1, "hi"))
        BY DEF Args
      <4> QED BY <3>2, <4>1, <4>2
    <3> QED BY <3>1, <3>2
  <2> QED BY <2>1, Zenon DEF ResultOf, Answer
<1> QED BY <1>2, <1>3, <1>4, HostAssumption

(* The window gives the registers in another order.                        *)
LEMMA Window ==
    ASSUME NEW i \in 1 .. 4
    PROVE  <<3, 4, 1, 2>>[i] = ResultAt(i) /\ ResultAt(i) \in 1 .. 4
<1>1. (1 + 1) % 4 = 2 /\ (2 + 1) % 4 = 3 /\ (3 + 1) % 4 = 0 /\ (4 + 1) % 4 = 1
  OBVIOUS
<1>2. CASE i = 1
  BY <1>1, <1>2 DEF ResultAt
<1>3. CASE i = 2
  BY <1>1, <1>3 DEF ResultAt
<1>4. CASE i = 3
  BY <1>1, <1>4 DEF ResultAt
<1>5. CASE i = 4
  BY <1>1, <1>5 DEF ResultAt
<1> QED BY <1>2, <1>3, <1>4, <1>5

(* What is to be read of a task.                                           *)
LEMMA Halfway ==
    ASSUME NEW k \in Tasks, NEW i \in 1 .. 4
    PROVE  /\ Expected(k)[2 * i - 1] = HalfOf(Answer(k)[ResultAt(i)], "lo")
           /\ Expected(k)[2 * i] = HalfOf(Answer(k)[ResultAt(i)], "hi")
<1>1. PICK r \in 1 .. 4 : r = ResultAt(i) /\ r = <<3, 4, 1, 2>>[i]
  BY Window
<1>2. /\ Expected(k)[2 * i - 1] = Result(k, r, "lo")
      /\ Expected(k)[2 * i] = Result(k, r, "hi")
  <2>1. /\ 2 * i - 1 \in 1 .. 2 * 4 /\ ((2 * i - 1) + 1) \div 2 = i /\ (2 * i - 1) % 2 = 1
        /\ 2 * i \in 1 .. 2 * 4 /\ (2 * i + 1) \div 2 = i /\ (2 * i) % 2 # 1
    OBVIOUS
  <2> QED BY <1>1, <2>1 DEF Expected, Halves
<1>3. CASE r - 1 <= NUM_ARGS
  <2>1. k \in 0 .. MaxTasks /\ r - 1 \in 0 .. NUM_ARGS
    BY <1>3, HostAssumption DEF Tasks
  <2>2. Value(k, r - 1, "lo") \in 0 .. HALF - 1 /\ Value(k, r - 1, "hi") \in 0 .. HALF - 1
    BY <2>1, Values
  <2>3. Answer(k)[r] = Joined(Value(k, r - 1, "lo"), Value(k, r - 1, "hi"))
    BY <1>3 DEF Answer
  <2>4. Value(k, r - 1, "hi") \in Nat
    BY <2>2, SlaveAssumption
  <2> QED BY <1>1, <1>2, <1>3, <2>2, <2>3, <2>4, HalvesOfJoined DEF Result
<1>4. CASE ~(r - 1 <= NUM_ARGS)
  <2>1. Answer(k)[r] = 0
    BY <1>4 DEF Answer
  <2>2. 0 % HALF = 0 /\ 0 \div HALF = 0
    BY SlaveAssumption
  <2> QED BY <1>1, <1>2, <1>4, <2>1, <2>2 DEF Result, HalfOf
<1> QED BY <1>3, <1>4

(* The places of a task's accesses.                                        *)
LEMMA Places ==
    ASSUME NEW a \in 1 .. Last0
    PROVE  \/ a = 1 \/ a = 2
           \/ \E i \in 1 .. NUM_ARGS : a = 2 * i + 1 \/ a = 2 * i + 2
           \/ a = AtFree \/ a = AtStart \/ a = AtDone
           \/ \E i \in 1 .. 4 : a = 2 * NUM_ARGS + 2 * i + 4 \/ a = 2 * NUM_ARGS + 2 * i + 5
<1>1. NUM_ARGS \in 1 .. 3 /\ a \in 1 .. 2 * NUM_ARGS + 13
  BY HostAssumption DEF Last0
<1>2. PICK h \in Nat : a = 2 * h \/ a = 2 * h + 1
  <2>1. a \div 2 \in Nat /\ (a = 2 * (a \div 2) \/ a = 2 * (a \div 2) + 1)
    BY <1>1
  <2> QED BY <2>1
<1>3. CASE a > 2 /\ a <= 2 * NUM_ARGS + 2
  <2>1. (a = 2 * h /\ h - 1 \in 1 .. NUM_ARGS /\ a = 2 * (h - 1) + 2) \/ (a = 2 * h + 1 /\ h \in 1 .. NUM_ARGS)
    BY <1>1, <1>2, <1>3
  <2> QED BY <2>1
<1>4. CASE a > AtDone
  <2> DEFINE m == h - NUM_ARGS - 2
  <2>1. (a = 2 * h /\ m \in 1 .. 4 /\ a = 2 * NUM_ARGS + 2 * m + 4)
          \/ (a = 2 * h + 1 /\ m \in 1 .. 4 /\ a = 2 * NUM_ARGS + 2 * m + 5)
    BY <1>1, <1>2, <1>4 DEF AtDone
  <2> HIDE DEF m
  <2> QED BY <2>1
<1> QED BY <1>1, <1>3, <1>4 DEF AtFree, AtStart, AtDone

-----------------------------------------------------------------------------
(***************************************************************************)
(* A cycle of the host and its registers, by what becomes of its access.    *)
(***************************************************************************)
Kept == UNCHANGED <<istore_lo, arg_lo, arg_q, rdata>> /\ NoPulses
Waiting == UNCHANGED <<task, at, got, sawErr>>
Resting == wstate = "W_IDLE" /\ rstate = "R_IDLE" /\ UNCHANGED <<wstate, rstate>> /\ Kept

Presented == wstate = "W_IDLE" /\ rstate = "R_IDLE" /\ at \in 1 .. Last0
Wrote == /\ Presented /\ Next0.kind = "write" /\ Waiting
         /\ TakeWrite([to |-> Next0.to, data |-> Next0.data]) /\ UNCHANGED <<rstate, rdata>>
Sampled == /\ Presented /\ Next0.kind # "write" /\ Waiting
           /\ rdata' = ReadData(Next0.to, inv_busy, done.result) /\ rstate' = "R_RESP"
           /\ UNCHANGED <<wstate, istore_lo, arg_lo, arg_q>> /\ NoPulses
Rested == Resting /\ Waiting
BeganTask == /\ Resting /\ at > Last0 /\ task < MaxTasks
             /\ task' = task + 1 /\ at' = 1 /\ got' = <<>> /\ sawErr' = FALSE
WriteAnswered == /\ wstate = "W_RESP" /\ Kept /\ UNCHANGED <<rstate, task, got, sawErr>>
                 /\ \/ wstate' = "W_IDLE" /\ at' = at + 1
                    \/ wstate' = "W_RESP" /\ at' = at
StillRead == /\ rstate = "R_RESP" /\ Kept /\ rstate' \in {"R_IDLE", "R_RESP"}
             /\ UNCHANGED wstate /\ Waiting
ReadAnswered == /\ rstate = "R_RESP" /\ Kept /\ rstate' = "R_IDLE" /\ UNCHANGED <<wstate, task>>
                /\ Satisfied /\ at' = at + 1
                /\ got' = IF Next0.kind = "read" THEN Append(got, rdata.word) ELSE got
                /\ sawErr' = IF Next0.kind = "done?" THEN rdata.err ELSE sawErr

HostCycle == \/ Wrote \/ Sampled \/ Rested \/ BeganTask
             \/ WriteAnswered \/ StillRead \/ ReadAnswered

(* What the accesses are for the registers.                                *)
LEMMA Kinds ==
    ASSUME ChannelInv, at \in 1 .. Last0
    PROVE  /\ Next0.to \in Addresses
           /\ Next0.kind = "write" <=> at <= AtStart /\ at # AtFree
           /\ Next0.kind = "write" => Next0.data \in Nat /\ [to |-> Next0.to, data |-> Next0.data] # NoAccess
           /\ Next0.kind = "read" <=> at > AtDone
           /\ Next0.kind = "done?" <=> at = AtDone
           /\ Next0.to # NoAccess
<1>1. task \in Tasks /\ task \in 0 .. MaxTasks /\ NUM_ARGS \in 1 .. 3
  BY HostAssumption DEF ChannelInv, Tasks
<1>2. \A i \in 0 .. NUM_ARGS : Value(task, i, "lo") \in Nat /\ Value(task, i, "hi") \in Nat
  BY <1>1 DEF Value
<1> USE DEF AtFree, AtStart, AtDone
<1> SUFFICES /\ Next0.to \in Addresses
             /\ Next0.kind = "write" <=> at <= AtStart /\ at # AtFree
             /\ Next0.kind = "write" => Next0.data \in Nat
             /\ Next0.kind = "read" <=> at > AtDone
             /\ Next0.kind = "done?" <=> at = AtDone
  BY SlaveAssumption DEF Words
<1>3. CASE at = 1 \/ at = 2
  <2>1. Next0 \in {Write("istore", 0, "lo", Value(task, 0, "lo")), Write("istore", 0, "hi", Value(task, 0, "hi"))}
    BY <1>3, Accesses DEF Next0
  <2> QED BY <1>1, <1>2, <1>3, <2>1 DEF Write, Address, Addresses
<1>4. ASSUME NEW i \in 1 .. NUM_ARGS, at = 2 * i + 1 \/ at = 2 * i + 2
      PROVE  /\ Next0.to \in Addresses /\ Next0.kind = "write" /\ Next0.data \in Nat
             /\ at < AtFree
  <2>1. Next0 \in {Write("args", i, "lo", Value(task, i, "lo")), Write("args", i, "hi", Value(task, i, "hi"))}
    BY <1>4, Accesses DEF Next0
  <2> QED BY <1>1, <1>2, <1>4, <2>1 DEF Write, Address, Addresses
<1>5. CASE at \in {AtFree, AtStart, AtDone}
  <2>1. Next0 = IF at = AtFree THEN [kind |-> "free?", to |-> STATUS]
                ELSE IF at = AtStart THEN [kind |-> "write", to |-> CTRL, data |-> 1]
                ELSE [kind |-> "done?", to |-> STATUS]
    BY <1>1, <1>5, Accesses DEF Next0
  <2> QED BY <1>1, <1>5, <2>1 DEF STATUS, CTRL, Address, Addresses
<1>6. ASSUME NEW i \in 1 .. 4,
             at = 2 * NUM_ARGS + 2 * i + 4 \/ at = 2 * NUM_ARGS + 2 * i + 5
      PROVE  Next0.to \in Addresses /\ Next0.kind = "read" /\ at > AtDone
  <2>1. Next0 \in {Read("result", i, "lo"), Read("result", i, "hi")}
    BY <1>6, Accesses DEF Next0
  <2> QED BY <1>1, <1>6, <2>1 DEF Read, Address, Addresses
<1> QED BY <1>1, <1>3, <1>4, <1>5, <1>6, Places

LEMMA CycleOfHost ==
    ASSUME ChannelInv, NEW drives, NEW ready, NEW finish, NEW failed, NEW invokes,
           Tick(drives, ready, finish, failed, invokes)
    PROVE  HostCycle
<1> DEFINE w == Written(drives)
           a == Asked(drives)
<1>1. /\ TakeWrite(w) \/ WriteRests(w) \/ WriteResponds(ready)
      /\ TakeRead(a, inv_busy, done.result) \/ ReadRests(a) \/ ReadResponds(ready)
      /\ HostStep(drives, ready)
  BY DEF Tick, SlaveStep
<1>2. /\ at <= Last0 => at \in 1 .. Last0
      /\ wstate \in {"W_IDLE", "W_RESP"} /\ rstate \in {"R_IDLE", "R_RESP"}
      /\ wstate = "W_RESP" => rstate = "R_IDLE" /\ at <= AtStart /\ at # AtFree /\ at \in 1 .. Last0
      /\ rstate = "R_RESP" => wstate = "W_IDLE" /\ at \in 1 .. Last0
  BY HostAssumption DEF ChannelInv, AtFree, AtStart, AtDone, Last0
<1> USE DEF HostCycle, Waiting, hostVars
<1>3. CASE Presents(drives) /\ Next0.kind = "write"
  <2>1. Presented
    BY <1>2, <1>3 DEF Presents, Idle0, Presented
  <2>2. w = [to |-> Next0.to, data |-> Next0.data] /\ a = NoAccess
    BY <1>3 DEF Written, Asked
  <2>3. w # NoAccess
    BY <1>3, <2>1, <2>2, Kinds DEF Presented
  <2> HIDE DEF w, a
  <2>4. TakeWrite(w) /\ ReadRests(a)
    BY <1>1, <2>1, <2>2, <2>3 DEF Presented, TakeRead, ReadResponds, WriteRests, WriteResponds
  <2>5. Waiting
    <3>1. ~(at > Last0) /\ Idle0
      BY <2>1, HostAssumption DEF Presented, Idle0, Last0
    <3> QED BY <1>1, <3>1 DEF HostStep
  <2> QED BY <1>3, <2>1, <2>2, <2>4, <2>5 DEF Wrote, ReadRests
<1>4. CASE Presents(drives) /\ Next0.kind # "write"
  <2>0. Presented
    BY <1>2, <1>4 DEF Presents, Idle0, Presented
  <2>1. w = NoAccess /\ a = Next0.to /\ a # NoAccess /\ Presented
    BY <1>4, <2>0, Kinds DEF Written, Asked, Presented
  <2> HIDE DEF w, a
  <2>2. WriteRests(w) /\ TakeRead(a, inv_busy, done.result)
    BY <1>1, <2>1 DEF Presented, TakeWrite, WriteResponds, ReadRests, ReadResponds
  <2>3. Waiting
    <3>1. ~(at > Last0) /\ Idle0
      BY <2>1, HostAssumption DEF Presented, Idle0, Last0
    <3> QED BY <1>1, <3>1 DEF HostStep
  <2> QED BY <1>4, <2>1, <2>2, <2>3 DEF Sampled, WriteRests, TakeRead
<1>5. CASE ~Presents(drives)
  <2>1. w = NoAccess /\ a = NoAccess
    BY <1>5 DEF Written, Asked
  <2> HIDE DEF w, a
  <2>2. CASE wstate = "W_IDLE" /\ rstate = "R_IDLE"
    <3>1. Resting
      BY <1>1, <2>1, <2>2 DEF Resting, Kept, TakeWrite, WriteRests, WriteResponds,
                              TakeRead, ReadRests, ReadResponds
    <3>2. Waiting \/ (/\ at > Last0 /\ task < MaxTasks
                      /\ task' = task + 1 /\ at' = 1 /\ got' = <<>> /\ sawErr' = FALSE)
      BY <1>1, <2>2 DEF HostStep, Idle0
    <3> QED BY <3>1, <3>2 DEF Rested, BeganTask
  <2>3. CASE wstate = "W_RESP"
    <3>1. WriteResponds(ready) /\ ReadRests(a)
      BY <1>1, <1>2, <2>1, <2>3 DEF TakeWrite, WriteRests, TakeRead, ReadResponds
    <3>2. ~(at > Last0) /\ ~Idle0 /\ Next0.kind = "write"
      BY <1>2, <2>3, Kinds, HostAssumption DEF Last0, Idle0
    <3>3. Satisfied
      BY <3>2 DEF Satisfied
    <3>4. CASE ready
      <4>1. at' = at + 1 /\ UNCHANGED <<task, got, sawErr>>
        BY <1>1, <3>2, <3>3, <3>4 DEF HostStep
      <4> QED BY <2>3, <3>1, <3>4, <4>1 DEF WriteAnswered, WriteResponds, ReadRests, Kept
    <3>5. CASE ~ready
      <4>1. UNCHANGED <<at, task, got, sawErr>>
        BY <1>1, <3>2, <3>3, <3>5 DEF HostStep
      <4> QED BY <2>3, <3>1, <3>5, <4>1 DEF WriteAnswered, WriteResponds, ReadRests, Kept
    <3> QED BY <3>4, <3>5
  <2>4. CASE rstate = "R_RESP"
    <3>1. WriteRests(w) /\ ReadResponds(ready)
      BY <1>1, <1>2, <2>1, <2>4 DEF TakeWrite, WriteResponds, TakeRead, ReadRests
    <3>2. ~(at > Last0) /\ ~Idle0
      BY <1>2, <2>4, HostAssumption DEF Last0, Idle0
    <3>3. CASE ready /\ Satisfied
      <4>1. /\ at' = at + 1 /\ UNCHANGED task
            /\ got' = IF Next0.kind = "read" THEN Append(got, rdata.word) ELSE got
            /\ sawErr' = IF Next0.kind = "done?" THEN rdata.err ELSE sawErr
        BY <1>1, <3>2, <3>3 DEF HostStep
      <4> QED BY <2>4, <3>1, <3>3, <4>1 DEF ReadAnswered, ReadResponds, WriteRests, Kept
    <3>4. CASE ~(ready /\ Satisfied)
      <4>1. Waiting
        BY <1>1, <3>2, <3>4 DEF HostStep
      <4> QED BY <2>4, <3>1, <4>1 DEF StillRead, ReadResponds, WriteRests, Kept
    <3> QED BY <3>3, <3>4
  <2> QED BY <1>2, <2>2, <2>3, <2>4
<1> QED BY <1>3, <1>4, <1>5

-----------------------------------------------------------------------------
(***************************************************************************)
(* The invariant, part by part.                                            *)
(***************************************************************************)
(* What an access writes.                                                  *)
Sets(lo, ld, alo, aq, valid) ==
    istore_lo' = lo /\ load' = ld /\ arg_lo' = alo /\ arg_q' = aq /\ mp_inv_valid' = valid
LoadOf(k) == [addr |-> 0, data |-> Joined(istore_lo, Value(k, 0, "hi"))]
WritesFor(k) ==
    \/ at = 1 /\ Sets(Value(k, 0, "lo"), NoAccess, arg_lo, arg_q, FALSE)
    \/ at = 2 /\ Sets(istore_lo, LoadOf(k), arg_lo, arg_q, FALSE)
    \/ \E i \in 1 .. NUM_ARGS :
         /\ at = 2 * i + 1
         /\ Sets(istore_lo, NoAccess, [arg_lo EXCEPT ![i] = Value(k, i, "lo")], arg_q, FALSE)
    \/ \E i \in 1 .. NUM_ARGS :
         /\ at = 2 * i + 2
         /\ Sets(istore_lo, NoAccess, arg_lo,
                 [arg_q EXCEPT ![i] = Joined(arg_lo[i], Value(k, i, "hi"))], FALSE)
    \/ at = AtStart /\ Sets(istore_lo, NoAccess, arg_lo, arg_q, TRUE)

LEMMA Written5 == ASSUME ChannelInv, Wrote PROVE WritesFor(task)
<1> DEFINE w == [to |-> Next0.to, data |-> Next0.data]
<1>1. TakeWrite(w) /\ w.to = Next0.to /\ w.data = Next0.data
  BY DEF Wrote
<1> HIDE DEF w
<1>2. at \in 1 .. Last0 /\ at <= AtStart /\ at # AtFree
  BY Kinds DEF Wrote, Presented
<1> DEFINE Hits(win, half) == w.to.win = win /\ w.to.half = half
<1>9. /\ istore_lo' = IF Hits("istore", "lo") THEN w.data ELSE istore_lo
      /\ load' = IF Hits("istore", "hi")
                 THEN [addr |-> w.to.idx, data |-> Joined(istore_lo, w.data)] ELSE NoAccess
      /\ arg_lo' = IF Hits("args", "lo") THEN [arg_lo EXCEPT ![w.to.idx] = w.data] ELSE arg_lo
      /\ arg_q' = IF Hits("args", "hi")
                  THEN [arg_q EXCEPT ![w.to.idx] = Joined(arg_lo[w.to.idx], w.data)] ELSE arg_q
      /\ mp_inv_valid' = (w.to = CTRL /\ w.data = 1)
  BY <1>1 DEF TakeWrite
<1> USE DEF WritesFor, Sets, LoadOf
<1>3. CASE at = 1
  <2>1. Next0 = Write("istore", 0, "lo", Value(task, 0, "lo"))
    BY <1>3, Accesses DEF Next0, AtStart
  <2>2. w.to = Address("istore", 0, "lo") /\ w.data = Value(task, 0, "lo")
    BY <1>1, <2>1 DEF Write, Address, CTRL
  <2>3. w.to.win = "istore" /\ w.to.half = "lo" /\ w.to.idx = 0 /\ w.to # CTRL
    BY <2>2 DEF Address, CTRL
  <2> QED BY <1>3, <1>9, <2>2, <2>3
<1>4. CASE at = 2
  <2>1. Next0 = Write("istore", 0, "hi", Value(task, 0, "hi"))
    BY <1>4, Accesses DEF Next0, AtStart
  <2>2. w.to = Address("istore", 0, "hi") /\ w.data = Value(task, 0, "hi")
    BY <1>1, <2>1 DEF Write, Address, CTRL
  <2>3. w.to.win = "istore" /\ w.to.half = "hi" /\ w.to.idx = 0 /\ w.to # CTRL
    BY <2>2 DEF Address, CTRL
  <2> QED BY <1>4, <1>9, <2>2, <2>3
<1>5. ASSUME NEW i \in 1 .. NUM_ARGS, at = 2 * i + 1 PROVE WritesFor(task)
  <2>1. Next0 = Write("args", i, "lo", Value(task, i, "lo"))
    BY <1>5, Accesses DEF Next0, AtStart
  <2>2. w.to = Address("args", i, "lo") /\ w.data = Value(task, i, "lo")
    BY <1>1, <2>1 DEF Write, Address, CTRL
  <2>3. w.to.win = "args" /\ w.to.half = "lo" /\ w.to.idx = i /\ w.to # CTRL
    BY <2>2 DEF Address, CTRL
  <2> QED BY <1>5, <1>9, <2>2, <2>3
<1>6. ASSUME NEW i \in 1 .. NUM_ARGS, at = 2 * i + 2 PROVE WritesFor(task)
  <2>1. Next0 = Write("args", i, "hi", Value(task, i, "hi"))
    BY <1>6, Accesses DEF Next0, AtStart
  <2>2. w.to = Address("args", i, "hi") /\ w.data = Value(task, i, "hi")
    BY <1>1, <2>1 DEF Write, Address, CTRL
  <2>3. w.to.win = "args" /\ w.to.half = "hi" /\ w.to.idx = i /\ w.to # CTRL
    BY <2>2 DEF Address, CTRL
  <2> QED BY <1>6, <1>9, <2>2, <2>3
<1>7. CASE at = AtStart
  <2>1. Next0 = [kind |-> "write", to |-> CTRL, data |-> 1]
    BY <1>7, Accesses DEF Next0, AtStart
  <2>2. w.to = CTRL /\ w.data = 1
    BY <1>1, <2>1 DEF Write, Address, CTRL
  <2>3. w.to.win = "ctrl"
    BY <2>2 DEF Address, CTRL
  <2> QED BY <1>7, <1>9, <2>2, <2>3
<1>8. \/ at = 1 \/ at = 2 \/ at = AtStart
      \/ \E i \in 1 .. NUM_ARGS : at = 2 * i + 1 \/ at = 2 * i + 2
  <2>1. NUM_ARGS \in 1 .. 3
    BY HostAssumption
  <2>2. ASSUME NEW i \in 1 .. 4,
               at = 2 * NUM_ARGS + 2 * i + 4 \/ at = 2 * NUM_ARGS + 2 * i + 5
        PROVE  at > AtStart
    BY <2>1, <2>2 DEF AtStart
  <2>3. AtDone > AtStart
    BY <2>1 DEF AtStart, AtDone
  <2>4. at \in Nat /\ AtStart \in Nat /\ ~(at > AtStart)
    BY <1>2, <2>1 DEF AtStart, Last0
  <2> QED BY <1>2, <2>2, <2>3, <2>4, Places
<1> QED BY <1>3, <1>4, <1>5, <1>6, <1>7, <1>8

LEMMA ChannelStep == ASSUME ChannelInv, HostCycle PROVE ChannelInv'
<1> USE HostAssumption DEF ChannelInv, AtFree, AtStart, AtDone, Last0
<1>1. at \in 1 .. Last0 => Next0.kind = "write" <=> at <= AtStart /\ at # AtFree
  BY Kinds
<1>2. CASE Wrote
  <2>1. (load' # NoAccess => at = 2) /\ (mp_inv_valid' => at = AtStart)
    BY <1>2, Written5 DEF WritesFor, Sets
  <2> QED BY <1>1, <1>2, <2>1 DEF Wrote, Presented, Waiting, TakeWrite
<1>3. CASE Sampled
  BY <1>1, <1>3 DEF Sampled, Presented, Waiting, NoPulses
<1>4. CASE Rested
  BY <1>4 DEF Rested, Resting, Kept, Waiting, NoPulses
<1>5. CASE BeganTask
  BY <1>5 DEF BeganTask, Resting, Kept, NoPulses
<1>6. CASE WriteAnswered
  BY <1>6 DEF WriteAnswered, Kept, NoPulses
<1>7. CASE StillRead
  BY <1>7 DEF StillRead, Kept, Waiting, NoPulses
<1>8. CASE ReadAnswered
  BY <1>8 DEF ReadAnswered, Kept, NoPulses
<1> QED BY <1>2, <1>3, <1>4, <1>5, <1>6, <1>7, <1>8 DEF HostCycle

(* How far the task is after a cycle.                                      *)
LEMMA TakenStep ==
    ASSUME ChannelInv, HostCycle
    PROVE  /\ Wrote => Taken' = at /\ Taken = at - 1 /\ task' = task
           /\ ReadAnswered => Taken' = at /\ Taken = at - 1 /\ task' = task /\ (at = AtFree \/ at >= AtDone)
           /\ BeganTask => Taken' = 0 /\ Taken = Last0
           /\ Sampled \/ Rested \/ WriteAnswered \/ StillRead => Taken' = Taken /\ task' = task
<1> USE HostAssumption DEF ChannelInv, Taken, AtFree, AtStart, AtDone, Last0
<1>1. Wrote => Taken' = at /\ Taken = at - 1 /\ task' = task
  BY DEF Wrote, Presented, Waiting, TakeWrite
<1>2. ReadAnswered => Taken' = at /\ Taken = at - 1 /\ task' = task /\ (at = AtFree \/ at >= AtDone)
  BY DEF ReadAnswered
<1>3. BeganTask => Taken' = 0 /\ Taken = Last0
  BY DEF BeganTask, Resting
<1>4. Sampled => Taken' = Taken /\ task' = task
  BY DEF Sampled, Presented, Waiting
<1>5. Rested => Taken' = Taken /\ task' = task
  BY DEF Rested, Resting, Waiting
<1>6. WriteAnswered => Taken' = Taken /\ task' = task
  BY DEF WriteAnswered
<1>7. StillRead => Taken' = Taken /\ task' = task
  BY DEF StillRead, Waiting
<1> QED BY <1>1, <1>2, <1>3, <1>4, <1>5, <1>6, <1>7

LEMMA WrittenStep ==
    ASSUME ChannelInv, WrittenInv, HostCycle,
           istore' = IF load # NoAccess THEN load.data ELSE istore
    PROVE  WrittenInv'
<1>1. task \in Tasks /\ NUM_ARGS \in 1 .. 3
  BY HostAssumption DEF ChannelInv, Tasks
<1>2. at \in Nat /\ Taken \in Int
  BY HostAssumption DEF ChannelInv, Taken, Last0
<1>3. ASSUME UNCHANGED <<istore_lo, arg_lo, arg_q>>, NoPulses, task' = task,
             Taken' = Taken \/ (Taken' = Taken + 1 /\ Taken >= 2 * NUM_ARGS + 2)
      PROVE  WrittenInv'
  <2>1. \A n \in 1 .. 2 * NUM_ARGS + 2 : Taken' >= n => Taken >= n
    BY <1>1, <1>2, <1>3
  <2>2. Taken >= 2 => istore' = Operator(task)
    BY DEF WrittenInv
  <2>3. \A i \in 1 .. NUM_ARGS : 2 * i + 1 \in 1 .. 2 * NUM_ARGS + 2 /\ 2 * i + 2 \in 1 .. 2 * NUM_ARGS + 2
    BY <1>1
  <2>4. 1 \in 1 .. 2 * NUM_ARGS + 2 /\ 2 \in 1 .. 2 * NUM_ARGS + 2
    BY <1>1
  <2>5. Taken' >= 1 => istore_lo' = Value(task, 0, "lo")
    BY <1>3, <2>1, <2>4 DEF WrittenInv
  <2>6. Taken' >= 2 => istore' = Operator(task) /\ load' = NoAccess
    BY <1>3, <2>1, <2>2, <2>4 DEF NoPulses
  <2>7. \A i \in 1 .. NUM_ARGS :
          /\ Taken' >= 2 * i + 1 => arg_lo'[i] = Value(task, i, "lo")
          /\ Taken' >= 2 * i + 2 => arg_q'[i] = Args(task)[i]
    BY <1>3, <2>1, <2>3 DEF WrittenInv
  <2>8. arg_lo' = [i \in 1 .. NUM_ARGS |-> arg_lo'[i]] /\ arg_q' = [i \in 1 .. NUM_ARGS |-> arg_q'[i]]
    BY <1>3 DEF WrittenInv
  <2> QED BY <1>3, <2>5, <2>6, <2>7, <2>8 DEF WrittenInv, Operator, Args, Value
<1>4. CASE Sampled \/ Rested \/ WriteAnswered \/ StillRead
  BY <1>3, <1>4, TakenStep DEF Sampled, Rested, Resting, WriteAnswered, StillRead, Kept
<1>5. CASE ReadAnswered
  <2>1. Taken' = Taken + 1 /\ Taken >= 2 * NUM_ARGS + 2
    BY <1>1, <1>2, <1>5, TakenStep DEF AtFree, AtDone
  <2> QED BY <1>3, <1>5, <2>1 DEF ReadAnswered, Kept
<1>6. CASE BeganTask
  <2>1. Taken' = 0 /\ UNCHANGED <<arg_lo, arg_q>>
    BY <1>6, TakenStep DEF BeganTask, Resting, Kept
  <2> QED BY <1>1, <2>1 DEF WrittenInv
<1>7. CASE Wrote
  <2>1. WritesFor(task) /\ Taken' = at /\ Taken = at - 1 /\ task' = task
    BY <1>7, Written5, TakenStep
  <2>2. \A i \in 1 .. NUM_ARGS : Args(task)[i] = Joined(Value(task, i, "lo"), Value(task, i, "hi"))
    BY DEF Args
  <2> SUFFICES /\ at >= 1 => istore_lo' = Value(task, 0, "lo")
               /\ at >= 2 => Operator(task) = IF load' # NoAccess THEN load'.data ELSE istore'
               /\ arg_lo' = [i \in 1 .. NUM_ARGS |-> arg_lo'[i]]
               /\ arg_q' = [i \in 1 .. NUM_ARGS |-> arg_q'[i]]
               /\ \A i \in 1 .. NUM_ARGS :
                    /\ at >= 2 * i + 1 => arg_lo'[i] = Value(task, i, "lo")
                    /\ at >= 2 * i + 2 => arg_q'[i] = Args(task)[i]
    BY <2>1 DEF WrittenInv, Operator, Args, Value
  <2>3. load = NoAccess
    BY <1>7 DEF Wrote, Presented, ChannelInv
  <2>4. /\ at >= 2 => istore_lo = Value(task, 0, "lo")
        /\ at >= 3 => Operator(task) = istore
        /\ \A i \in 1 .. NUM_ARGS :
             /\ at >= 2 * i + 2 => arg_lo[i] = Value(task, i, "lo")
             /\ at >= 2 * i + 3 => arg_q[i] = Args(task)[i]
    BY <1>1, <1>2, <2>1, <2>3 DEF WrittenInv
  <2> USE DEF Sets
  <2>5. CASE at = 1 /\ Sets(Value(task, 0, "lo"), NoAccess, arg_lo, arg_q, FALSE)
    BY <1>1, <2>5 DEF WrittenInv
  <2>6. CASE at = 2 /\ Sets(istore_lo, LoadOf(task), arg_lo, arg_q, FALSE)
    <3>1. load' = [addr |-> 0, data |-> Operator(task)]
      BY <2>4, <2>6 DEF LoadOf, Operator
    <3>2. Operator(task) \in Nat
      <4>1. 1 - 1 = 0 /\ 0 <= NUM_ARGS
        BY HostAssumption
      <4>2. Answer(task)[1] \in Nat /\ Answer(task)[1] = Joined(Value(task, 0, "lo"), Value(task, 0, "hi"))
        BY <1>1, <4>1, Answers DEF Answer
      <4> QED BY <4>2 DEF Operator
    <3>3. load' # NoAccess
      BY <3>1, <3>2, SlaveAssumption DEF Instruction
    <3> QED BY <1>1, <2>4, <2>6, <3>1, <3>3 DEF WrittenInv
  <2>7. ASSUME NEW j \in 1 .. NUM_ARGS, at = 2 * j + 1,
               Sets(istore_lo, NoAccess, [arg_lo EXCEPT ![j] = Value(task, j, "lo")], arg_q, FALSE)
        PROVE  /\ at >= 1 => istore_lo' = Value(task, 0, "lo")
               /\ at >= 2 => Operator(task) = IF load' # NoAccess THEN load'.data ELSE istore'
               /\ arg_lo' = [i \in 1 .. NUM_ARGS |-> arg_lo'[i]]
               /\ arg_q' = [i \in 1 .. NUM_ARGS |-> arg_q'[i]]
               /\ \A i \in 1 .. NUM_ARGS :
                    /\ at >= 2 * i + 1 => arg_lo'[i] = Value(task, i, "lo")
                    /\ at >= 2 * i + 2 => arg_q'[i] = Args(task)[i]
    <3>1. istore_lo' = Value(task, 0, "lo") /\ load' = NoAccess /\ istore' = Operator(task)
      BY <1>1, <2>3, <2>4, <2>7
    <3>2. /\ arg_lo' = [i \in 1 .. NUM_ARGS |-> IF i = j THEN Value(task, j, "lo") ELSE arg_lo[i]]
          /\ arg_q' = arg_q
      BY <2>7 DEF WrittenInv
    <3>3. \A i \in 1 .. NUM_ARGS : at >= 2 * i + 1 => arg_lo'[i] = Value(task, i, "lo")
      BY <1>1, <2>4, <2>7, <3>2
    <3>4. \A i \in 1 .. NUM_ARGS : at >= 2 * i + 2 => arg_q'[i] = Args(task)[i]
      BY <1>1, <2>4, <2>7, <3>2
    <3> QED BY <3>1, <3>2, <3>3, <3>4 DEF WrittenInv
  <2>8. ASSUME NEW j \in 1 .. NUM_ARGS, at = 2 * j + 2,
               Sets(istore_lo, NoAccess, arg_lo,
                    [arg_q EXCEPT ![j] = Joined(arg_lo[j], Value(task, j, "hi"))], FALSE)
        PROVE  /\ at >= 1 => istore_lo' = Value(task, 0, "lo")
               /\ at >= 2 => Operator(task) = IF load' # NoAccess THEN load'.data ELSE istore'
               /\ arg_lo' = [i \in 1 .. NUM_ARGS |-> arg_lo'[i]]
               /\ arg_q' = [i \in 1 .. NUM_ARGS |-> arg_q'[i]]
               /\ \A i \in 1 .. NUM_ARGS :
                    /\ at >= 2 * i + 1 => arg_lo'[i] = Value(task, i, "lo")
                    /\ at >= 2 * i + 2 => arg_q'[i] = Args(task)[i]
    <3>1. istore_lo' = Value(task, 0, "lo") /\ load' = NoAccess /\ istore' = Operator(task)
      BY <1>1, <2>3, <2>4, <2>8
    <3>2. /\ arg_q' = [i \in 1 .. NUM_ARGS |-> IF i = j THEN Args(task)[j] ELSE arg_q[i]]
          /\ arg_lo' = arg_lo
      <4>1. arg_lo[j] = Value(task, j, "lo")
        BY <1>1, <2>4, <2>8
      <4> QED BY <2>2, <2>8, <4>1 DEF WrittenInv
    <3>3. \A i \in 1 .. NUM_ARGS : at >= 2 * i + 1 => arg_lo'[i] = Value(task, i, "lo")
      BY <1>1, <2>4, <2>8, <3>2
    <3>4. \A i \in 1 .. NUM_ARGS : at >= 2 * i + 2 => arg_q'[i] = Args(task)[i]
      BY <1>1, <2>4, <2>8, <3>2
    <3> QED BY <3>1, <3>2, <3>3, <3>4 DEF WrittenInv
  <2>9. CASE at = AtStart /\ Sets(istore_lo, NoAccess, arg_lo, arg_q, TRUE)
    BY <1>1, <2>3, <2>4, <2>9 DEF WrittenInv, AtStart
  <2> QED BY <2>1, <2>5, <2>6, <2>7, <2>8, <2>9 DEF WritesFor
<1> QED BY <1>4, <1>5, <1>6, <1>7 DEF HostCycle

(* The core and the sticky bits in a cycle with the wire quiet.            *)
LEMMA CoreCycle ==
    ASSUME NEW drives, NEW ready, NEW finish, NEW failed \in BOOLEAN, NEW invokes,
           Tick(drives, ready, finish, failed, invokes), ~wire,
           err_sticky \in BOOLEAN, done.err \in BOOLEAN, task_err \in BOOLEAN,
           task \in Tasks, task' \in Tasks
    PROVE  /\ err_sticky' \in BOOLEAN /\ done'.err \in BOOLEAN /\ task_err' \in BOOLEAN
           /\ AtRest /\ ~mp_inv_valid =>
                /\ AtRest' /\ done'.result = done.result /\ done'.err = done.err
                /\ err_sticky' <=> err_sticky
           /\ AtRest /\ mp_inv_valid /\ arg_q = Args(task) /\ task' = task =>
                Starting' /\ ~done_sticky' /\ ~err_sticky'
           /\ ~done_sticky /\ ~err_sticky /\ task' = task =>
                /\ Starting /\ istore = Operator(task) => Running' /\ ~done_sticky' /\ ~err_sticky'
                /\ Running => (Running' \/ Ending') /\ ~done_sticky' /\ ~err_sticky'
                /\ Ending => Reporting' /\ ~done_sticky' /\ ~err_sticky'
                /\ Reporting => Pulsing' /\ ~done_sticky' /\ ~err_sticky'
                /\ Pulsing /\ ~mp_inv_valid => Over'
<1>1. D!Dispatch(Invocation) /\ MPStep(finish, failed) /\ Sticky(done)
  BY DEF Tick, SlaveStep
<1>2. Invocation = IF mp_inv_valid THEN arg_q ELSE NoInvocation
  BY DEF Invocation
<1>3. Answer(task) # NoTask /\ Args(task) # NoInvocation
      /\ (istore = Operator(task) => ResultOf(Args(task)) = Answer(task))
  BY Answers
<1>4. task' = task => Answer(task') = Answer(task) /\ Args(task') = Args(task)
  OBVIOUS
<1>5. /\ err_sticky' \in BOOLEAN
      /\ ~done.valid /\ ~mp_inv_valid => (err_sticky' <=> err_sticky)
      /\ ~done.valid /\ mp_inv_valid => ~err_sticky' /\ ~done_sticky'
      /\ ~done.valid /\ ~err_sticky /\ ~done_sticky => ~err_sticky' /\ ~done_sticky'
      /\ done.valid /\ ~err_sticky => (err_sticky' <=> done.err)
  BY <1>1 DEF Sticky, clr_done_invoke
<1>6. task_err' \in BOOLEAN
  BY <1>1 DEF MPStep
<1>7. /\ dstate = "D_IDLE" /\ Invocation = NoInvocation =>
           /\ dstate' = "D_IDLE" /\ ~start'.valid /\ ~done'.valid
           /\ done'.result = done.result /\ done'.err = done.err
      /\ dstate = "D_IDLE" /\ Invocation # NoInvocation =>
           dstate' = "D_RUN" /\ start'.valid /\ start'.args = Invocation /\ ~done'.valid
  BY <1>1 DEF D!Dispatch, D!Invoke, D!NoInvoke, D!AwaitDone, D!PulseDone, D!NoStart, D!DonePort
<1>8. /\ dstate = "D_RUN" /\ ~task_done => dstate' = "D_RUN" /\ ~start'.valid /\ ~done'.valid
      /\ dstate = "D_RUN" /\ task_done => /\ dstate' = "D_OUT" /\ ~start'.valid /\ ~done'.valid
                                          /\ done'.result = task_result
      /\ dstate = "D_OUT" => /\ dstate' = "D_IDLE" /\ ~start'.valid /\ done'.valid
                             /\ done'.result = done.result
  BY <1>1 DEF D!Dispatch, D!Invoke, D!NoInvoke, D!AwaitDone, D!PulseDone, D!NoStart, D!DonePort
<1>9. done'.err = done.err \/ done'.err = task_err
  BY <1>1 DEF D!Dispatch, D!Invoke, D!NoInvoke, D!AwaitDone, D!PulseDone, D!NoStart, D!DonePort
<1>10. /\ mp = NoTask /\ ~start.valid => mp' = NoTask /\ ~task_done'
       /\ mp = NoTask /\ start.valid => mp' = ResultOf(start.args) /\ ~task_done'
       /\ mp # NoTask /\ finish => mp' = NoTask /\ task_done' /\ task_result' = mp
       /\ mp # NoTask /\ ~finish => mp' = mp /\ ~task_done'
  BY <1>1 DEF MPStep
<1>11. AtRest /\ ~mp_inv_valid =>
         /\ AtRest' /\ done'.result = done.result /\ done'.err = done.err
         /\ err_sticky' <=> err_sticky
  BY <1>2, <1>5, <1>7, <1>10 DEF AtRest
<1>12. AtRest /\ mp_inv_valid /\ arg_q = Args(task) /\ task' = task =>
         Starting' /\ ~done_sticky' /\ ~err_sticky'
  BY <1>2, <1>3, <1>4, <1>5, <1>7, <1>10 DEF AtRest, Starting
<1>13. ASSUME ~done_sticky, ~err_sticky, task' = task
       PROVE  /\ Starting /\ istore = Operator(task) => Running' /\ ~done_sticky' /\ ~err_sticky'
              /\ Running => (Running' \/ Ending') /\ ~done_sticky' /\ ~err_sticky'
              /\ Ending => Reporting' /\ ~done_sticky' /\ ~err_sticky'
              /\ Reporting => Pulsing' /\ ~done_sticky' /\ ~err_sticky'
              /\ Pulsing /\ ~mp_inv_valid => Over'
  <2>1. Starting /\ istore = Operator(task) => Running' /\ ~done_sticky' /\ ~err_sticky'
    BY <1>3, <1>4, <1>5, <1>8, <1>10, <1>13 DEF Starting, Running
  <2>2. Running => (Running' \/ Ending') /\ ~done_sticky' /\ ~err_sticky'
    BY <1>3, <1>4, <1>5, <1>8, <1>10, <1>13 DEF Running, Ending
  <2>3. Ending => Reporting' /\ ~done_sticky' /\ ~err_sticky'
    BY <1>4, <1>5, <1>8, <1>10, <1>13 DEF Ending, Reporting
  <2>4. Reporting => Pulsing' /\ ~done_sticky' /\ ~err_sticky'
    BY <1>4, <1>5, <1>8, <1>10, <1>13 DEF Reporting, Pulsing
  <2>5. Pulsing /\ ~mp_inv_valid => Over'
    BY <1>2, <1>4, <1>5, <1>7, <1>10, <1>13 DEF Pulsing, Over, AtRest
  <2> QED BY <2>1, <2>2, <2>3, <2>4, <2>5
<1> QED BY <1>5, <1>6, <1>9, <1>11, <1>12, <1>13

LEMMA CoreStep ==
    ASSUME QuietInv, HostCycle, ChannelInv', NEW drives, NEW ready, NEW finish,
           NEW failed \in BOOLEAN, NEW invokes, Tick(drives, ready, finish, failed, invokes)
    PROVE  CoreInv'
<1> USE DEF QuietInv
<1>1. /\ task \in Tasks /\ task' \in Tasks /\ NUM_ARGS \in 1 .. 3 /\ at \in Nat /\ Taken \in Int
      /\ err_sticky \in BOOLEAN /\ done.err \in BOOLEAN /\ task_err \in BOOLEAN /\ ~wire
  BY HostAssumption DEF ChannelInv, CoreInv, Tasks, Taken, Last0
<1>2. err_sticky' \in BOOLEAN /\ done'.err \in BOOLEAN /\ task_err' \in BOOLEAN
  BY <1>1, CoreCycle
<1>3. Over /\ ~mp_inv_valid => AtRest' /\ (task' = task => Over')
  BY <1>1, CoreCycle DEF Over, Answer
<1>4. ASSUME Taken >= AtStart
      PROVE  /\ load = NoAccess /\ istore = Operator(task)
             /\ arg_q = Args(task)
  <2>1. load = NoAccess
    BY <1>1, <1>4 DEF ChannelInv, Taken, AtStart
  <2>2. Taken >= 2 /\ \A i \in 1 .. NUM_ARGS : Taken >= 2 * i + 2
    BY <1>1, <1>4 DEF AtStart
  <2> QED BY <2>1, <2>2 DEF WrittenInv, Args
<1>5. Taken' \in Int /\ AtStart \in Nat /\ at' \in Nat
  BY <1>1, HostAssumption DEF ChannelInv, Taken, Last0, AtStart
<1>6. mp_inv_valid => Taken = AtStart /\ wstate = "W_RESP"
  BY DEF ChannelInv, Taken
<1>7. mp_inv_valid' => Wrote /\ at = AtStart
  <2>1. CASE Wrote
    BY <1>1, <2>1, Written5 DEF WritesFor, Sets
  <2>2. CASE ~Wrote
    BY <2>2 DEF HostCycle, Sampled, Rested, Resting, BeganTask, WriteAnswered, StillRead,
                ReadAnswered, Kept, NoPulses
  <2> QED BY <2>1, <2>2
<1>8. CASE Taken < AtStart
  <2>1. AtRest /\ ~mp_inv_valid
    BY <1>1, <1>5, <1>6, <1>8 DEF CoreInv
  <2>2. AtRest'
    BY <1>1, <2>1, CoreCycle
  <2>3. CASE Taken' < AtStart
    BY <1>1, <1>2, <1>5, <2>2, <2>3 DEF CoreInv, AtStart
  <2>4. CASE Taken' >= AtStart
    <3>1. ~(Sampled \/ Rested \/ WriteAnswered \/ StillRead \/ BeganTask)
      BY <1>1, <1>5, <1>8, <2>4, TakenStep DEF AtStart
    <3>2. ~ReadAnswered
      BY <1>1, <1>5, <1>8, <2>4, TakenStep DEF AtFree, AtStart, AtDone
    <3>3. Wrote
      BY <3>1, <3>2 DEF HostCycle
    <3>4. at = AtStart
      BY <1>1, <1>5, <1>8, <2>4, <3>3, TakenStep
    <3>5. mp_inv_valid'
      <4>1. /\ WritesFor(task) /\ at # 1 /\ at # 2
            /\ \A i \in 1 .. NUM_ARGS : at # 2 * i + 1 /\ at # 2 * i + 2
        BY <1>1, <3>3, <3>4, Written5 DEF AtStart
      <4> QED BY <4>1 DEF WritesFor, Sets
    <3> QED BY <1>2, <2>2, <2>4, <3>5, <1>5 DEF CoreInv, AtStart
  <2> QED BY <1>5, <2>3, <2>4
<1>9. CASE Taken >= AtStart /\ BeganTask
  <2>1. at > AtDone /\ Taken' = 0 /\ Taken = Last0
    <3>1. at > Last0 /\ Last0 > AtDone
      BY <1>1, <1>9 DEF BeganTask, AtDone, Last0
    <3>2. AtDone \in Nat /\ Last0 \in Nat
      BY <1>1 DEF AtDone, Last0
    <3> QED BY <1>1, <1>9, <3>1, <3>2, TakenStep
  <2>2. Over /\ ~mp_inv_valid
    BY <1>1, <1>6, <1>9, <2>1 DEF ReadInv, BeganTask, AtStart, Last0
  <2> QED BY <1>1, <1>2, <1>3, <2>1, <2>2 DEF CoreInv, AtStart
<1>10. CASE Taken >= AtStart /\ ~BeganTask
  <2>1. task' = task /\ Taken' >= AtStart
    BY <1>1, <1>5, <1>10, TakenStep DEF HostCycle
  <2>2. ~mp_inv_valid'
    <3>1. Wrote => Taken = at - 1
      BY TakenStep
    <3> QED BY <1>1, <1>5, <1>7, <1>10, <3>1
  <2>3. AtRest /\ mp_inv_valid => Starting' /\ ~done_sticky' /\ ~err_sticky'
    BY <1>1, <1>4, <1>10, <2>1, CoreCycle
  <2>4. ASSUME ~mp_inv_valid, ~done_sticky, ~err_sticky, UnderWay
        PROVE  (~done_sticky' /\ ~err_sticky' /\ UnderWay') \/ Over'
    BY <1>1, <1>4, <1>10, <2>1, <2>4, CoreCycle DEF UnderWay
  <2>5. \/ ~done_sticky' /\ ~err_sticky' /\ UnderWay'
        \/ Over'
    BY <1>3, <1>10, <2>1, <2>3, <2>4 DEF CoreInv, UnderWay
  <2>6. ~(Taken' < AtStart)
    BY <1>5, <2>1
  <2> QED BY <1>2, <2>2, <2>5, <2>6 DEF CoreInv, AtStart
<1> QED BY <1>1, <1>5, <1>8, <1>9, <1>10

(* What a read of the result gives when the task is over.                  *)
LEMMA ResultRead ==
    ASSUME task \in Tasks, at \in AtDone + 1 .. Last0, NEW busy
    PROVE  ReadData(Next0.to, busy, Answer(task)).word = Expected(task)[at - AtDone]
<1>1. NUM_ARGS \in 1 .. 3
  BY HostAssumption
<1>2. PICK i \in 1 .. 4 :
        at = 2 * NUM_ARGS + 2 * i + 4 \/ at = 2 * NUM_ARGS + 2 * i + 5
  <2>1. at \in 1 .. Last0 /\ at > AtDone
    BY <1>1 DEF AtDone, Last0
  <2> QED BY <1>1, <2>1, Places DEF AtFree, AtStart, AtDone
<1>3. ASSUME NEW h \in {"lo", "hi"}
      PROVE  ReadData(Address("result", i, h), busy, Answer(task)).word
               = HalfOf(Answer(task)[ResultAt(i)], h)
  <2>1. Address("result", i, h) # STATUS /\ Address("result", i, h).win = "result"
        /\ Address("result", i, h).idx = i /\ Address("result", i, h).half = h
    BY DEF Address, STATUS
  <2> QED BY <2>1 DEF ReadData, NoData
<1>4. CASE at = 2 * NUM_ARGS + 2 * i + 4
  <2>1. Next0.to = Address("result", i, "lo")
    <3>1. Access(task)[at] = Read("result", i, "lo")
      BY <1>4, Accesses
    <3> QED BY <3>1 DEF Next0, Read
  <2>2. at - AtDone = 2 * i - 1
    BY <1>1, <1>4 DEF AtDone
  <2> QED BY <1>3, <2>1, <2>2, Halfway
<1>5. CASE at = 2 * NUM_ARGS + 2 * i + 5
  <2>1. Next0.to = Address("result", i, "hi")
    <3>1. Access(task)[at] = Read("result", i, "hi")
      BY <1>5, Accesses
    <3> QED BY <3>1 DEF Next0, Read
  <2>2. at - AtDone = 2 * i
    BY <1>1, <1>5 DEF AtDone
  <2> QED BY <1>3, <2>1, <2>2, Halfway
<1> QED BY <1>2, <1>4, <1>5

(* One word more.                                                          *)
LEMMA OneMore ==
    ASSUME NEW f, NEW m \in Nat
    PROVE  Append([j \in 1 .. m |-> f[j]], f[m + 1]) = [j \in 1 .. m + 1 |-> f[j]]
<1> DEFINE s == [j \in 1 .. m |-> f[j]]
           U == {f[j] : j \in 1 .. m + 1}
<1>1. s \in Seq(U) /\ Len(s) = m /\ f[m + 1] \in U
  BY FunctionIsSeq
<1>2. Append(s, f[m + 1]) = [j \in 1 .. m + 1 |-> IF j <= m THEN s[j] ELSE f[m + 1]]
  BY <1>1
<1>3. \A j \in 1 .. m + 1 : (IF j <= m THEN s[j] ELSE f[m + 1]) = f[j]
  OBVIOUS
<1> HIDE DEF s
<1> QED BY <1>2, <1>3

LEMMA ReadStep ==
    ASSUME QuietInv, HostCycle, NEW drives, NEW ready, NEW finish,
           NEW failed \in BOOLEAN, NEW invokes, Tick(drives, ready, finish, failed, invokes)
    PROVE  ReadInv'
<1> USE DEF QuietInv
<1>1. /\ task \in Tasks /\ NUM_ARGS \in 1 .. 3 /\ at \in 1 .. Last0 + 1 /\ at \in Nat
      /\ AtFree \in Nat /\ AtStart = AtFree + 1 /\ AtDone = AtStart + 1 /\ Last0 > AtDone /\ Last0 \in Nat
      /\ err_sticky \in BOOLEAN /\ done.err \in BOOLEAN /\ task_err \in BOOLEAN /\ ~wire
  BY HostAssumption DEF ChannelInv, CoreInv, Tasks, Last0, AtFree, AtStart, AtDone
<1>2. Over /\ ~mp_inv_valid /\ task' = task /\ task \in Tasks =>
        Over' /\ done'.err = done.err
  BY <1>1, CoreCycle DEF Over, Answer
<1>3. mp_inv_valid => at = AtStart
  BY DEF ChannelInv
<1>4. at > AtDone => Over /\ (sawErr <=> done.err)
  BY DEF ReadInv
<1> DEFINE Gets(k, a) == [j \in 1 .. (IF a > AtDone THEN a - AtDone - 1 ELSE 0) |-> Expected(k)[j]]
<1>5. got = Gets(task, at)
  BY DEF ReadInv
<1>6. SUFFICES /\ rdata'.err \in BOOLEAN /\ sawErr' \in BOOLEAN
               /\ rstate' = "R_RESP" /\ at' = AtDone /\ rdata'.done => Over' /\ (rdata'.err <=> done'.err)
               /\ rstate' = "R_RESP" /\ at' > AtDone => rdata'.word = Expected(task')[at' - AtDone]
               /\ at' > AtDone => Over' /\ (sawErr' <=> done'.err)
               /\ got' = Gets(task', at')
  BY DEF ReadInv, Expected, Result, Halves, Value, AtDone
<1> HIDE DEF Gets
<1>7. ASSUME UNCHANGED <<task, at, got, sawErr, rdata>>, rstate' = "R_RESP" => rstate = "R_RESP"
      PROVE  /\ rdata'.err \in BOOLEAN /\ sawErr' \in BOOLEAN
             /\ rstate' = "R_RESP" /\ at' = AtDone /\ rdata'.done => Over' /\ (rdata'.err <=> done'.err)
             /\ rstate' = "R_RESP" /\ at' > AtDone => rdata'.word = Expected(task')[at' - AtDone]
             /\ at' > AtDone => Over' /\ (sawErr' <=> done'.err)
             /\ got' = Gets(task', at')
  <2>1. at >= AtDone /\ Over => Over' /\ done'.err = done.err
    BY <1>1, <1>2, <1>3, <1>7
  <2> QED BY <1>1, <1>5, <1>7, <2>1 DEF ReadInv
<1>8. CASE Wrote \/ Rested \/ StillRead
  <2>1. UNCHANGED <<task, at, got, sawErr, rdata>> /\ (rstate' = "R_RESP" => rstate = "R_RESP")
    BY <1>8 DEF Wrote, Rested, Resting, StillRead, Kept, Waiting
  <2> QED BY <1>7, <2>1
<1>9. CASE WriteAnswered
  <2>1. rstate' # "R_RESP" /\ at' <= AtDone /\ UNCHANGED <<got, sawErr, task, rdata>>
        /\ at <= AtDone /\ at' \in Nat
    BY <1>1, <1>9 DEF WriteAnswered, ChannelInv, Kept
  <2>2. Gets(task, at) = Gets(task, at')
    BY <1>1, <2>1 DEF Gets
  <2> QED BY <1>1, <1>5, <2>1, <2>2 DEF ReadInv
<1>10. CASE BeganTask
  <2>1. rstate' # "R_RESP" /\ at' = 1 /\ got' = <<>> /\ sawErr' = FALSE /\ rdata' = rdata
    BY <1>10 DEF BeganTask, Resting, Kept
  <2>2. Gets(task', at') = <<>>
    BY <1>1, <2>1 DEF Gets
  <2>3. rdata'.err \in BOOLEAN /\ ~(at' > AtDone)
    BY <1>1, <2>1 DEF ReadInv
  <2> QED BY <2>1, <2>2, <2>3
<1>11. CASE Sampled
  <2>1. /\ rdata' = ReadData(Next0.to, inv_busy, done.result) /\ UNCHANGED <<task, at, got, sawErr>>
        /\ at \in 1 .. Last0 /\ at >= AtFree /\ at # AtStart /\ ~mp_inv_valid
        /\ Taken = at - 1
    BY <1>1, <1>11, Kinds DEF Sampled, Presented, Waiting, ChannelInv, Taken
  <2>2. rdata'.err \in BOOLEAN /\ (Next0.to = STATUS => rdata'.done = done_sticky /\ rdata'.err = err_sticky)
    <3>1. CASE Next0.to = STATUS
      <4>1. STATUS.win = "status"
        BY DEF STATUS, Address
      <4> QED BY <1>1, <2>1, <3>1, <4>1 DEF ReadData, NoData
    <3>2. CASE Next0.to # STATUS
      <4>1. rdata'.err = FALSE
        BY <2>1, <3>2 DEF ReadData, NoData
      <4> QED BY <3>2, <4>1
    <3> QED BY <3>1, <3>2
  <2>3. ASSUME at = AtDone, rdata'.done PROVE Over' /\ (rdata'.err <=> done'.err)
    <3>1. Next0.to = STATUS
      BY <2>3, Accesses DEF Next0, AtDone
    <3>2. done_sticky /\ (rdata'.err <=> err_sticky)
      BY <2>2, <2>3, <3>1
    <3>3. Over
      BY <1>1, <2>1, <2>3, <3>2 DEF CoreInv
    <3> QED BY <1>1, <1>2, <2>1, <3>2, <3>3 DEF Over
  <2>4. ASSUME at > AtDone PROVE rdata'.word = Expected(task)[at - AtDone]
    <3>1. done.result = Answer(task) /\ at \in AtDone + 1 .. Last0
      BY <1>1, <1>4, <2>1, <2>4 DEF Over
    <3> QED BY <1>1, <2>1, <3>1, ResultRead
  <2>5. at > AtDone => Over' /\ (sawErr <=> done'.err)
    BY <1>1, <1>2, <1>4, <2>1
  <2> QED BY <1>5, <2>1, <2>2, <2>3, <2>4, <2>5 DEF ReadInv
<1>12. CASE ReadAnswered
  <2>1. /\ rstate = "R_RESP" /\ rstate' = "R_IDLE" /\ UNCHANGED <<rdata, task>> /\ Satisfied /\ at' = at + 1
        /\ got' = (IF Next0.kind = "read" THEN Append(got, rdata.word) ELSE got)
        /\ sawErr' = (IF Next0.kind = "done?" THEN rdata.err ELSE sawErr)
        /\ at = AtFree \/ at \in AtDone .. Last0
    BY <1>12 DEF ReadAnswered, Kept, ChannelInv
  <2>2. at \in 1 .. Last0 /\ ~mp_inv_valid
    BY <1>1, <1>3, <2>1
  <2>3. /\ Next0.kind = "read" <=> at > AtDone
        /\ Next0.kind = "done?" <=> at = AtDone
    BY <2>2, Kinds
  <2>4. rdata'.err \in BOOLEAN /\ sawErr' \in BOOLEAN
    BY <2>1 DEF ReadInv
  <2>5. CASE at = AtFree
    <3>1. got' = got /\ at' <= AtDone /\ at <= AtDone /\ at' \in Nat
      BY <1>1, <2>1, <2>3, <2>5
    <3>2. Gets(task, at) = Gets(task, at')
      BY <1>1, <3>1 DEF Gets
    <3> QED BY <1>1, <1>5, <2>1, <2>4, <3>1, <3>2
  <2>6. CASE at = AtDone
    <3>1. got' = got /\ (sawErr' <=> rdata.err) /\ rdata.done /\ at' = AtDone + 1
      BY <1>1, <2>1, <2>3, <2>6 DEF Satisfied
    <3>2. Over /\ (rdata.err <=> done.err)
      BY <2>1, <2>6, <3>1 DEF ReadInv
    <3>3. Over' /\ done'.err = done.err
      BY <1>1, <1>2, <2>1, <2>2, <3>2
    <3>4. Gets(task, at) = Gets(task, at')
      BY <1>1, <2>6, <3>1 DEF Gets
    <3> QED BY <1>1, <1>5, <2>1, <2>4, <3>1, <3>2, <3>3, <3>4
  <2>7. CASE at > AtDone
    <3>1. rdata.word = Expected(task)[at - AtDone]
      BY <2>1, <2>7 DEF ReadInv
    <3>2. got' = Append(got, rdata.word) /\ sawErr' = sawErr
      BY <1>1, <2>1, <2>3, <2>7
    <3>3. PICK m \in Nat : m = at - AtDone - 1 /\ m + 1 = at - AtDone /\ m + 1 = at' - AtDone - 1
      BY <1>1, <2>1, <2>7
    <3>4. /\ Gets(task, at) = [j \in 1 .. m |-> Expected(task)[j]]
          /\ Gets(task, at') = [j \in 1 .. m + 1 |-> Expected(task)[j]]
      BY <1>1, <2>1, <2>7, <3>3 DEF Gets
    <3>5. got' = Gets(task, at')
      BY <1>5, <3>1, <3>2, <3>3, <3>4, OneMore
    <3>6. Over' /\ (sawErr <=> done'.err)
      BY <1>1, <1>2, <1>4, <2>1, <2>2, <2>7
    <3> QED BY <2>1, <2>4, <3>2, <3>5, <3>6
  <2> QED BY <1>1, <2>1, <2>5, <2>6, <2>7
<1> QED BY <1>8, <1>9, <1>10, <1>11, <1>12 DEF HostCycle

-----------------------------------------------------------------------------
(***************************************************************************)
(* The theorems.                                                           *)
(***************************************************************************)
LEMMA HostInit == Init => HostInv
<1> SUFFICES ASSUME Init PROVE HostInv
  OBVIOUS
<1>1. NUM_ARGS \in 1 .. 3 /\ MaxTasks \in Nat \ {0}
  BY HostAssumption
<1>2. ChannelInv /\ Taken = 0
  BY <1>1 DEF Init, SlaveInit, ChannelInv, Taken, Last0
<1>3. WrittenInv
  BY <1>1, <1>2 DEF Init, SlaveInit, WrittenInv
<1>4. CoreInv
  <2>1. /\ dstate = "D_IDLE" /\ ~start.valid /\ ~done.valid /\ done.err = FALSE
        /\ mp = NoTask /\ ~task_done /\ task_err = FALSE /\ err_sticky = FALSE
    BY DEF Init, SlaveInit, D!DispatchInit
  <2>2. Taken < AtStart /\ ~(Taken >= AtStart)
    BY <1>1, <1>2 DEF AtStart
  <2>3. AtRest
    BY <2>1 DEF AtRest
  <2> QED BY <2>1, <2>2, <2>3 DEF CoreInv
<1>5. ReadInv
  <2>1. /\ at = 1 /\ got = <<>> /\ sawErr = FALSE /\ rstate = "R_IDLE" /\ rdata.err = FALSE
        /\ ~(at > AtDone)
    BY <1>1 DEF Init, SlaveInit, NoData, AtDone
  <2>2. got = [j \in 1 .. 0 |-> Expected(task)[j]]
    BY <2>1
  <2> QED BY <2>1, <2>2 DEF ReadInv
<1> QED BY <1>2, <1>3, <1>4, <1>5 DEF Init, HostInv, QuietInv

LEMMA HostNext == HostInv /\ [Next]_vars => HostInv'
<1> SUFFICES ASSUME HostInv, [Next]_vars PROVE HostInv'
  OBVIOUS
<1>1. CASE UNCHANGED vars
  <2>1. /\ UNCHANGED <<istore_lo, load, arg_lo, arg_q, mp_inv_valid, wstate, clr_done_read, rstate,
                       ar_q, rdata, done_sticky, err_sticky>>
        /\ UNCHANGED <<istore, mp, task_done, task_result, task_err, dstate, start, inv_busy, done>>
        /\ UNCHANGED <<wire, wireTasks, task, at, got, sawErr>>
    BY <1>1 DEF vars, slaveVars, writeVars, readVars, mpVars, hostVars, D!dispatchVars
  <2>2. ChannelInv => ChannelInv'
    BY <2>1 DEF ChannelInv, Last0, AtStart, AtFree, AtDone
  <2>3. WrittenInv => WrittenInv'
    BY <2>1 DEF WrittenInv, Taken, Operator, Args, Value
  <2>4. CoreInv => CoreInv'
    BY <2>1 DEF CoreInv, Taken, AtStart, AtRest, Over, UnderWay, Starting, Running, Ending, Reporting,
                Pulsing, Answer, Args, Value
  <2>5. ReadInv => ReadInv'
    BY <2>1 DEF ReadInv, AtDone, Over, AtRest, Answer, Expected, Result, Halves, Value
  <2> QED BY <2>1, <2>2, <2>3, <2>4, <2>5 DEF HostInv, QuietInv, WireIsQuiet
<1>2. CASE Next
  <2>1. PICK drives \in BOOLEAN, ready \in BOOLEAN, finish \in MayFinish, failed \in MayFinish,
             invokes \in MayInvoke : Tick(drives, ready, finish, failed, invokes)
    BY <1>2 DEF Next
  <2>2. /\ wireTasks' = wireTasks + (IF invokes THEN 1 ELSE 0) /\ wire' = invokes
        /\ istore' = IF load # NoAccess THEN load.data ELSE istore
    BY <2>1 DEF Tick, WireStep, MPStep
  <2>3. wireTasks' \in Nat
    BY <2>2 DEF HostInv
  <2>4. ASSUME WireIsQuiet' PROVE QuietInv'
    <3>1. QuietInv /\ ~wire'
      BY <2>2, <2>4 DEF HostInv, WireIsQuiet
    <3>2. failed \in BOOLEAN
      BY DEF MayFinish
    <3>3. HostCycle
      BY <2>1, <3>1, CycleOfHost DEF QuietInv
    <3>4. ChannelInv'
      BY <3>1, <3>3, ChannelStep DEF QuietInv
    <3>5. WrittenInv'
      BY <2>2, <3>1, <3>3, WrittenStep DEF QuietInv
    <3>6. CoreInv'
      BY <2>1, <3>1, <3>2, <3>3, <3>4, CoreStep
    <3>7. ReadInv'
      BY <2>1, <3>1, <3>2, <3>3, ReadStep
    <3> QED BY <3>1, <3>4, <3>5, <3>6, <3>7 DEF QuietInv
  <2> QED BY <2>3, <2>4 DEF HostInv
<1> QED BY <1>1, <1>2

(* As long as the wire has invoked nothing, every cycle of the host, its     *)
(* registers, the dispatcher and the MP leaves each access of the task with *)
(* its effect, and the core in the stage that follows from it.             *)
THEOREM HostInvariant == Spec => []HostInv
<1>1. Init => HostInv
  BY HostInit
<1>2. HostInv /\ [Next]_vars => HostInv'
  BY HostNext
<1> QED BY <1>1, <1>2, PTL DEF Spec

(* With the wire quiet, whatever the lengths of tasks and of the host's      *)
(* pauses: the words the host has read when it is through are the halves of *)
(* its task's third, fourth, first and second result, which are those of    *)
(* the operator and of the arguments it wrote, and the error flag it saw is *)
(* that of the completion (tiara_axil_slave.sv 91-120, 231-241).           *)
THEOREM HostGetsResult == Spec => []HostGetsItsResult
<1>1. HostInv => HostGetsItsResult
  <2> SUFFICES ASSUME HostInv, at > Last0, WireIsQuiet
               PROVE  got = Expected(task) /\ sawErr = done.err
    BY DEF HostGetsItsResult
  <2>1. ChannelInv /\ CoreInv /\ ReadInv
    BY DEF HostInv, QuietInv
  <2>2. NUM_ARGS \in 1 .. 3
    BY HostAssumption
  <2>3. at = Last0 + 1 /\ at > AtDone /\ at - AtDone - 1 = 2 * 4
    BY <2>1, <2>2 DEF ChannelInv, Last0, AtDone
  <2>4. got = [j \in 1 .. 2 * 4 |-> Expected(task)[j]]
    BY <2>1, <2>3 DEF ReadInv
  <2>5. Expected(task) = [j \in 1 .. 2 * 4 |-> Expected(task)[j]]
    BY DEF Expected, Halves
  <2>6. sawErr \in BOOLEAN /\ done.err \in BOOLEAN /\ (sawErr <=> done.err)
    BY <2>1, <2>3 DEF ReadInv, CoreInv
  <2> QED BY <2>4, <2>5, <2>6
<1> QED BY <1>1, HostInvariant, PTL

(* With the wire quiet the pulse that starts a task meets a dispatcher that  *)
(* takes it, so no task of the host is dropped without a word               *)
(* (mqnic_app_block.sv 932-937, tiara_dispatcher.sv 62-65).                *)
THEOREM OnlyTheWireTakes == Spec => []LostOnlyToWire
<1>1. HostInv => LostOnlyToWire
  <2> SUFFICES ASSUME HostInv, mp_inv_valid, dstate # "D_IDLE", WireIsQuiet PROVE FALSE
    BY DEF LostOnlyToWire
  <2>1. ChannelInv /\ CoreInv
    BY DEF HostInv, QuietInv
  <2>2. Taken >= AtStart
    BY <2>1, HostAssumption DEF ChannelInv, Taken, AtStart
  <2> QED BY <2>1, <2>2 DEF CoreInv, AtRest
<1> QED BY <1>1, HostInvariant, PTL
=============================================================================
