------------------------------ MODULE Delivery ------------------------------
(***************************************************************************)
(* What the C server promises about a message it has taken: it has one     *)
(* fate at a time, and never goes back to an earlier one.  A message may   *)
(* be held for its addressee, queued on a connection of the addressee, or  *)
(* passed to that connection.  While the process runs, a message that is   *)
(* held stays so until it is queued or the addressee's account is removed, *)
(* and others are lost only with their connection or because they must not *)
(* or cannot be stored.  When the process dies everything queued is lost,  *)
(* and of what is held at most the messages of one user, whose directory   *)
(* it was working on.  Mail shows that src/c/src/message.c implements      *)
(* this.                                                                   *)
(***************************************************************************)
EXTENDS Naturals, Sequences

CONSTANTS MaxMsgs, Users

VARIABLES
  fate,       \* [message -> its fate]
  to,         \* the addressees of the messages sent so far
  accounts,   \* the users that have an account
  run         \* changes when the process dies and is started again

vars == <<fate, to, accounts, run>>

Msgs == 1..MaxMsgs
Fates == {"new", "held", "queued", "passed", "lost"}

Init ==
  /\ fate = [m \in Msgs |-> "new"]
  /\ to = << >>
  /\ accounts \in SUBSET Users
  /\ run = 0

(* At most one message is sent in a step, to a user that has an account. *)
Sends == to' = to \/ \E u \in accounts : to' = Append(to, u)

(* Where a message can be after one step of a process that goes on, ... *)
Step == [f \in Fates |->
  CASE f = "new" -> Fates \ {"passed"}
    [] f = "held" -> {"held", "queued"}
    [] f = "queued" -> {"queued", "passed", "lost"}
    [] OTHER -> {f}]

(* ... and after the process has died. *)
Death == [f \in Fates |->
  CASE f = "new" -> {"new", "lost"}
    [] f = "held" -> {"held", "lost"}
    [] f = "queued" -> {"lost"}
    [] OTHER -> {f}]

Move ==
  /\ Sends
  /\ \A m \in Msgs : fate'[m] \in Step[fate[m]]
  /\ accounts \subseteq accounts'
  /\ run' = run

Remove(u) ==
  /\ u \in accounts
  /\ accounts' = accounts \ {u}
  /\ fate' = [m \in Msgs |-> IF fate[m] = "held" /\ to[m] = u THEN "lost" ELSE fate[m]]
  /\ UNCHANGED <<to, run>>

LosesHeld(m) == fate[m] = "held" /\ fate'[m] = "lost"

Die ==
  /\ Sends
  /\ \A m \in Msgs : fate'[m] \in Death[fate[m]]
  /\ \A m, n \in Msgs : LosesHeld(m) /\ LosesHeld(n) => to[m] = to[n]
  /\ accounts' \subseteq accounts
  /\ run' = 1 - run

Next == Move \/ (\E u \in Users : Remove(u)) \/ Die

Spec == Init /\ [][Next]_vars
=============================================================================
