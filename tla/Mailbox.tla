------------------------------- MODULE Mailbox -------------------------------
(***************************************************************************)
(* What a teammate's inbox promises: a message that is sent stays where it *)
(* is in the order of sending, and is read once, with all that were sent   *)
(* before, until a process is killed.  Abstract: no files, no locks.       *)
(***************************************************************************)
EXTENDS Sequences

CONSTANT Senders  \* each of them sends one message

VARIABLES mail,   \* the messages, oldest first
          read,   \* positions of those that were read
          intact  \* no process was killed: the promise holds

Init == mail = <<>> /\ read = {} /\ intact = TRUE

Send(s) ==
  /\ \A i \in DOMAIN mail : mail[i] # s
  /\ mail' = Append(mail, s)
  /\ UNCHANGED <<read, intact>>

Fetch ==
  /\ read # DOMAIN mail
  /\ read' = DOMAIN mail
  /\ UNCHANGED <<mail, intact>>

\* What a process that is killed was writing is lost, the old entries too.
Break == intact' = FALSE

Next ==
  \/ intact /\ (Fetch \/ Break \/ \E s \in Senders : Send(s))
  \/ ~intact /\ ~intact'

Spec == Init /\ [][Next]_<<mail, read, intact>>
=============================================================================
