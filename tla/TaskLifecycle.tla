---------------------------- MODULE TaskLifecycle ----------------------------
(***************************************************************************)
(* What a client of the task API is promised about one analysis task,      *)
(* whatever the server does behind it: the row of analysis_tasks moves     *)
(* pending -> running -> completed or failed (a cached answer skips        *)
(* "running"), a restart may put running rows back to pending, and once a  *)
(* row is completed or failed neither its status nor its answer changes.   *)
(***************************************************************************)
CONSTANTS Task,       \* task ids
          Answer,     \* what GetResult may return
          NoAnswer    \* no row in analysis_results

VARIABLES status,     \* analysis_tasks.status, "none" before the row exists
          answer      \* the newest analysis_results row of the task

vars == <<status, answer>>

Terminal == {"completed", "failed"}
Open == {"pending", "running"}
Status == {"none"} \cup Open \cup Terminal

Init ==
    /\ status = [t \in Task |-> "none"]
    /\ answer = [t \in Task |-> NoAnswer]

Create(t) ==
    /\ status[t] = "none"
    /\ status' = [status EXCEPT ![t] = "pending"]
    /\ UNCHANGED answer

Begin(t) ==
    /\ status[t] = "pending"
    /\ status' = [status EXCEPT ![t] = "running"]
    /\ UNCHANGED answer

Save(t) ==
    /\ status[t] \in Open
    /\ \E r \in Answer : answer' = [answer EXCEPT ![t] = r]
    /\ UNCHANGED status

Conclude(t) ==
    /\ status[t] \in Open
    /\ \E s \in Terminal : status' = [status EXCEPT ![t] = s]
    /\ UNCHANGED answer

\* A restart puts every row a dead process left running back in the queue.
Requeue ==
    /\ \E t \in Task : status[t] = "running"
    /\ status' = [t \in Task |->
                    IF status[t] = "running" THEN "pending" ELSE status[t]]
    /\ UNCHANGED answer

Next ==
    \/ \E t \in Task : Create(t) \/ Begin(t) \/ Save(t) \/ Conclude(t)
    \/ Requeue

Spec == Init /\ [][Next]_vars
=============================================================================
