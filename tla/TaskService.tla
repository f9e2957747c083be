----------------------------- MODULE TaskService -----------------------------
(***************************************************************************)
(* What a Tiara dispatcher promises its caller, independently of how many  *)
(* memory processors (MPs) stand behind it: an invocation that is accepted *)
(* under a tag is answered by one done-event that carries that tag, and no *)
(* done-event carries a tag that is not being served.                      *)
(*                                                                         *)
(* One step is one clock cycle, in which the service may accept one        *)
(* invocation and may report one completion.                               *)
(***************************************************************************)
CONSTANTS Tags,      \* the tags a caller may use (operator id and task id)
          NoTag      \* "no done-event in this cycle"

VARIABLES tasks,     \* tags accepted and not reported yet
          event      \* the tag on the done port in this cycle, or NoTag

svars == <<tasks, event>>

ServiceTypeOK == tasks \subseteq Tags /\ event \in Tags \cup {NoTag}

ServiceInit == tasks = {} /\ event = NoTag

Quiet == event' = NoTag /\ tasks' = tasks

Accept(t) ==
    /\ t \notin tasks
    /\ tasks' = tasks \cup {t}
    /\ event' = NoTag

Report(t) ==
    /\ t \in tasks
    /\ tasks' = tasks \ {t}
    /\ event' = t

AcceptAndReport(t, u) ==
    /\ t \notin tasks
    /\ u \in tasks
    /\ tasks' = (tasks \ {u}) \cup {t}
    /\ event' = u

ServiceNext ==
    \/ Quiet
    \/ \E t \in Tags : Accept(t)
    \/ \E t \in Tags : Report(t)
    \/ \E t, u \in Tags : AcceptAndReport(t, u)

\* The safety half of the promise: done-events answer accepted tasks, once.
ServiceSafe == ServiceInit /\ [][ServiceNext]_svars

\* The liveness half: an accepted task is reported in the end.
EveryTaskReported == \A t \in Tags : (t \in tasks) ~> (event = t)
=============================================================================
