------------------------------- MODULE Inbox -------------------------------
(***************************************************************************)
(* What Telegramer's users are promised about their messages: the updates  *)
(* 1, 2, 3, ... are handed to the handlers in that order, none skipped.    *)
(* A restart of the bot may hand over again the last few of them; only a   *)
(* crash of the daemon may skip some.                                      *)
(***************************************************************************)
EXTENDS Naturals

CONSTANT Window      \* how many updates a restart may hand over again

VARIABLES
  sent,        \* how many updates there are
  next,        \* the update that is handed over next
  calls,       \* how often an update was handed over
  restarts,
  crashes

ivars == <<sent, next, calls, restarts, crashes>>

Init == sent = 0 /\ next = 1 /\ calls = 0 /\ restarts = 0 /\ crashes = 0

Send == sent' = sent + 1 /\ UNCHANGED <<next, calls, restarts, crashes>>

Hand ==
  /\ next <= sent
  /\ next' = next + 1
  /\ calls' = calls + 1
  /\ UNCHANGED <<sent, restarts, crashes>>

Restart ==
  /\ next' \in 1 .. next
  /\ next <= next' + Window
  /\ restarts' = restarts + 1
  /\ UNCHANGED <<sent, calls, crashes>>

Crash ==
  /\ next' \in 1 .. sent + 1
  /\ crashes' = crashes + 1
  /\ UNCHANGED <<sent, calls, restarts>>

Next == Send \/ Hand \/ Restart \/ Crash

Spec == Init /\ [][Next]_ivars

(* Unless the daemon crashed, an update comes again at most once for every *)
(* restart, and a restart brings at most Window of them again.             *)
RepeatsAreFew == crashes = 0 => calls <= next - 1 + restarts * Window
=============================================================================
