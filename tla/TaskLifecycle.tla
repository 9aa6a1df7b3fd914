--------------------------- MODULE TaskLifecycle ---------------------------
(***************************************************************************)
(* What the task subsystem promises to the rest of MailLlama, with no       *)
(* worker threads, queues, transactions or locks: every submitted task goes *)
(* once through pending, running and one of completed or failed, and a      *)
(* watching client is told at most one outcome, which is the one its own    *)
(* task's row already has and keeps.                                        *)
(*                                                                         *)
(* TaskRunner implements it (TaskRunner!Implements).                        *)
(***************************************************************************)
CONSTANTS Tasks, Clients, NoTask

VARIABLES
    status,     \* TaskRecord.status of every task
    watching,   \* the task whose stream a client opened, or NoTask
    told        \* the outcome the client was told, or "nothing"

vars == <<status, watching, told>>

Outcomes == {"completed", "failed"}

Init ==
    /\ status = [t \in Tasks |-> "absent"]
    /\ watching = [c \in Clients |-> NoTask]
    /\ told = [c \in Clients |-> "nothing"]

Advance(t, from, to) ==
    /\ status[t] = from
    /\ status' = [status EXCEPT ![t] = to]
    /\ UNCHANGED <<watching, told>>

Submit(t) == Advance(t, "absent", "pending")

Start(t) == Advance(t, "pending", "running")

Finish(t) == \E o \in Outcomes : Advance(t, "running", o)

Watch(c, t) ==
    /\ watching[c] = NoTask
    /\ watching' = [watching EXCEPT ![c] = t]
    /\ UNCHANGED <<status, told>>

Tell(c) ==
    /\ told[c] = "nothing"
    /\ watching[c] # NoTask
    /\ status[watching[c]] \in Outcomes
    /\ told' = [told EXCEPT ![c] = status[watching[c]]]
    /\ UNCHANGED <<status, watching>>

Next ==
    \/ \E t \in Tasks : Submit(t) \/ Start(t) \/ Finish(t)
    \/ \E c \in Clients, t \in Tasks : Watch(c, t)
    \/ \E c \in Clients : Tell(c)

Spec == Init /\ [][Next]_vars
=============================================================================
