------------------------------- MODULE MCTop -------------------------------
(* Three panes over small boards.  Task 2 depends on 1 and on a task that   *)
(* never came in; 3 is what may be captured, or depends on 2.                *)
EXTENDS Top, TLC

TaskOfs == 1 :> 1 @@ 2 :> 1
DepsOf  == 1 :> <<>> @@ 2 :> <<1, 9>> @@ 3 :> <<2>>

\* Work that nobody gave a priority has no labels either.
T(status, claimed, prio) ==
    [status |-> status, claimed |-> claimed, prio |-> prio,
     closed |-> IF Terminal(status) THEN 1 ELSE 0, title |-> "old",
     labels |-> IF prio = Unset THEN "" ELSE "old", description |-> "old"]

B(tasks, open) == [tasks |-> tasks, open |-> open, raised |-> open]

\* Every situation of three tasks, with and without a question.
AnyBoards ==
    {B(<<first, T(s, FALSE, Unset), T(u, FALSE, 1)>>, open) :
        first \in {T(v, FALSE, 2) : v \in Statuses} \cup {T("open", TRUE, 2)},
        s \in Statuses, u \in {"open", "cancelled"}, open \in {{}, {1}}}

Busy == B(<<T("open", TRUE, Unset), T("open", FALSE, 1)>>, {1})
Idle == B(<<T("open", FALSE, Unset), T("open", FALSE, 1)>>, {})

Pane(armed, boards, versions, sent, others, edits) ==
    [armed |-> armed, boards |-> boards, maxVersion |-> versions,
     maxWrites |-> sent, maxHops |-> 1, others |-> others, edits |-> edits]

Panes ==
    {Pane(FALSE, {Busy, Idle}, 3, 1, {"work", "ask", "answer", "done"}, {}),
     Pane(TRUE, AnyBoards, 1, 0, {}, {}),
     Pane(TRUE, {Busy}, 2, 1, {"work", "ask", "answer"}, {}),
     Pane(TRUE, {Idle}, 2, 1, {"done"}, {"other"})}
=============================================================================
