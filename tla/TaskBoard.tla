------------------------------ MODULE TaskBoard ------------------------------
(***************************************************************************)
(* What the tasks of a team promise: a shared board on which every         *)
(* operation is one step.  A new task takes a free place; an update sets   *)
(* the status and the owner, both, and clears the one it does not name; a  *)
(* plan is judged only while the task is in planning and has one, and      *)
(* stays there when it is rejected; a deleted task is gone.  The board may *)
(* lose a task: then it says nothing of that place any more.  Abstract: no *)
(* files, no locks.                                                        *)
(***************************************************************************)
EXTENDS Integers

CONSTANTS Ids, Owners, Statuses, None

VARIABLES
  board,  \* the task with each id, None when there is no such task
  lost    \* ids of the tasks it lost

Tasks == [status : Statuses \cup {None}, owner : Owners \cup {None},
          plan : BOOLEAN, feedback : BOOLEAN]

Init == board = [i \in Ids |-> None] /\ lost = {}

Fresh == [status |-> "pending", owner |-> None, plan |-> FALSE, feedback |-> FALSE]

Create(i) ==
  /\ board[i] = None /\ i \notin lost
  /\ board' = [board EXCEPT ![i] = Fresh]

Delete(i) ==
  /\ board[i] # None
  /\ board' = [board EXCEPT ![i] = None]

Update(i) ==
  /\ board[i] # None
  /\ \E s \in Statuses \cup {None}, o \in Owners \cup {None} :
       board' = [board EXCEPT ![i].status = s, ![i].owner = o]

Submit(i) ==
  /\ board[i] # None
  /\ board' = [board EXCEPT ![i].status = "planning", ![i].plan = TRUE]

Judged(i) == board[i] # None /\ board[i].status = "planning" /\ board[i].plan

Approve(i) ==
  /\ Judged(i)
  /\ board' = [board EXCEPT ![i].status = "in_progress", ![i].feedback = FALSE]

Reject(i) ==
  /\ Judged(i)
  /\ board' = [board EXCEPT ![i].status = "planning", ![i].feedback = TRUE]

Operation(i) ==
  Create(i) \/ Delete(i) \/ Update(i) \/ Submit(i) \/ Approve(i) \/ Reject(i)

Lose(i) ==
  /\ lost' = lost \cup {i}
  /\ board' = [board EXCEPT ![i] = None]

Next == \E i \in Ids : Lose(i) \/ (Operation(i) /\ UNCHANGED lost)

Spec == Init /\ [][Next]_<<board, lost>>
=============================================================================
