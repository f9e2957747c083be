--------------------------- MODULE TiaraDispatcher ---------------------------
(***************************************************************************)
(* rtl/tiara_nic/tiara_dispatcher.sv: the single-MP dispatcher.  D_IDLE    *)
(* takes an invocation and pulses mp_start, D_RUN waits for the MP's done  *)
(* pulse, D_OUT pulses done.  An invocation that is driven in any other    *)
(* state is not looked at, and nothing tells its caller.                   *)
(***************************************************************************)
EXTENDS Naturals

CONSTANTS NUM_ARGS,
          NoInvocation    \* "the host drives no invocation in this cycle"

VARIABLES task_done,      \* from the MP: its done pulse,
          task_result,    \* ... r1..r4,
          task_err,       \* ... and its error flag
          dstate,         \* dispatcher FSM: "D_IDLE", "D_RUN" or "D_OUT"
          start,          \* mp_start pulse, start pc and arguments
          inv_busy,
          done            \* the done port: pulse, result and error flag

dispatchVars == <<dstate, start, inv_busy, done>>

DispatchInit ==
    /\ dstate = "D_IDLE" /\ inv_busy = FALSE
    /\ start = [valid |-> FALSE, pc |-> 0, args |-> [i \in 1 .. NUM_ARGS |-> 0]]
    /\ done = [valid |-> FALSE, result |-> [i \in 1 .. 4 |-> 0], err |-> FALSE]

(* The ports at the end of a cycle; what a pulse carries stays on the port. *)
NoStart == start' = [valid |-> FALSE, pc |-> start.pc, args |-> start.args]
DonePort(pulse) == done' = [valid |-> pulse, result |-> done.result, err |-> done.err]

\* Mutant of Invoke: taken in any state.
InvokeAnytime(args) ==
    /\ args # NoInvocation
    /\ start' = [valid |-> TRUE, pc |-> 0, args |-> args]
    /\ DonePort(FALSE)
    /\ inv_busy' = TRUE
    /\ dstate' = "D_RUN"

(* An invocation is an argument vector; operators start at address 0.       *)
Invoke(args) ==
    /\ dstate = "D_IDLE" /\ args # NoInvocation
    /\ start' = [valid |-> TRUE, pc |-> 0, args |-> args]
    /\ DonePort(FALSE)
    /\ inv_busy' = TRUE
    /\ dstate' = "D_RUN"

NoInvoke(args) ==
    /\ dstate = "D_IDLE" /\ args = NoInvocation
    /\ NoStart /\ DonePort(FALSE)
    /\ UNCHANGED <<dstate, inv_busy>>

\* Mutant of AwaitDone: the port follows the MP's registers.
AwaitDoneFollowing ==
    /\ dstate = "D_RUN"
    /\ NoStart
    /\ done' = [valid |-> FALSE, result |-> task_result, err |-> task_err]
    /\ dstate' = IF task_done THEN "D_OUT" ELSE dstate
    /\ UNCHANGED inv_busy

\* Mutant of AwaitDone: busy falls a cycle early.
AwaitDoneEarly ==
    /\ dstate = "D_RUN"
    /\ NoStart
    /\ IF task_done
       THEN /\ done' = [valid |-> FALSE, result |-> task_result, err |-> task_err]
            /\ dstate' = "D_OUT"
       ELSE DonePort(FALSE) /\ UNCHANGED dstate
    /\ inv_busy' = ~task_done

AwaitDone ==
    /\ dstate = "D_RUN"
    /\ NoStart
    /\ IF task_done
       THEN /\ done' = [valid |-> FALSE, result |-> task_result, err |-> task_err]
            /\ dstate' = "D_OUT"
       ELSE DonePort(FALSE) /\ UNCHANGED dstate
    /\ UNCHANGED inv_busy

PulseDone ==
    /\ dstate = "D_OUT"
    /\ NoStart
    /\ DonePort(TRUE)
    /\ inv_busy' = FALSE
    /\ dstate' = "D_IDLE"

Dispatch(args) == Invoke(args) \/ NoInvoke(args) \/ AwaitDone \/ PulseDone
=============================================================================
