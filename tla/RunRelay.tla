------------------------------ MODULE RunRelay ------------------------------
(***************************************************************************)
(* What the relay of a durable chat run may rely on.  The relay keeps one  *)
(* record of the assistant message per run (every post carries the same    *)
(* idempotency key, so a later post replaces an earlier one) and the       *)
(* status that closes the run.  Abstract: no timer, no queue of posts.     *)
(***************************************************************************)
EXTENDS Integers

VARIABLES produced,  \* events of the run so far
          stored,    \* how many of them the relay's record is as fresh as
          status,    \* "open", or the status that closed the run
          late       \* output was produced while the run was being closed

Statuses == {"completed", "interrupted", "failed"}

Init == produced = 0 /\ stored = 0 /\ status = "open" /\ late = FALSE

Produce ==
  /\ status = "open"
  /\ produced' = produced + 1
  /\ late' \in {late, TRUE}
  /\ UNCHANGED <<stored, status>>

\* The record only moves forward, and only while the run is open: late
\* output alone may reach it afterwards.
Store ==
  /\ status = "open" \/ late
  /\ stored' \in (stored + 1)..produced
  /\ UNCHANGED <<produced, status, late>>

\* The run is closed once; "completed" promises that the record is whole.
Close(s) ==
  /\ status = "open"
  /\ s = "completed" /\ ~late => stored = produced
  /\ status' = s
  /\ UNCHANGED <<produced, stored, late>>

Next == Produce \/ Store \/ \E s \in Statuses : Close(s)

Spec == Init /\ [][Next]_<<produced, stored, status, late>>
=============================================================================
