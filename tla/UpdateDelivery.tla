--------------------------- MODULE UpdateDelivery ---------------------------
(***************************************************************************)
(* How an update comes from Telegram to the handlers, and what a restart   *)
(* of the bot does to those that are under way.  Three threads take part:  *)
(*   the poller     Updater._start_polling: asks Telegram, fills the queue *)
(*   the dispatcher Dispatcher.start: empties the queue into the handlers  *)
(*   the reactor    Core.disable and Core.enable: Updater.stop, and a new  *)
(*                  Updater with a queue and threads of its own            *)
(* Telegram keeps an update until a get_updates asks for later ones.       *)
(*                                                                         *)
(* Updates are numbered in the order they are sent.  Between them, the     *)
(* queue holds the errors of the network, on their way to Core.error.      *)
(*                                                                         *)
(* A definition marked "Faulty" is a variant of the next one with a bug;   *)
(* no action uses it.                                                      *)
(***************************************************************************)
EXTENDS Naturals, Sequences, FiniteSets

CONSTANTS
  Limit,        \* the most updates that one get_updates returns
  Stalls,       \* may a thread be held up for a poll interval between two
                \* bytecodes?
  MayDie,       \* where the poller may meet an exception it does not catch
  MaxUpdates, MaxRestarts, MaxCrashes,  \* bounds of an instance
  MaxErrors,    \* bound of an instance: errors in the queue at a time
  Error,        \* a TelegramError in the place of an update
  None

ASSUME LimitAssumption == Limit \in Nat \ {0}
ASSUME StallsAssumption == Stalls \in BOOLEAN
ASSUME MayDieAssumption == MayDie \subseteq {"bootstrap", "polling"}
ASSUME BoundsAssumption ==
  /\ MaxUpdates \in Nat /\ MaxRestarts \in Nat /\ MaxCrashes \in Nat
  /\ MaxErrors \in Nat
ASSUME NoneAssumption == None \notin Nat /\ Error \notin Nat /\ Error # None

VARIABLES
  sent,            \* Telegram: the updates 1..sent were sent to the bot
  acked,           \* Telegram: the updates 1..acked are forgotten
  poller,          \* the polling thread is at this point
  last_update_id,  \* Updater.last_update_id
  batch,           \* updates: the reply, without what was put already
  running,         \* Updater.running
  queue,           \* update_queue
  dispatcher,      \* the dispatcher thread is at this point
  hand,            \* what process_update works on
  stop_event,      \* Dispatcher.__stop_event
  exception_event, \* Dispatcher.__exception_event
  reactor,         \* the reactor's thread is at this point
  listed,          \* whether Core.whitelist is filled
  upto,            \* history: the last update this Updater has handed over
  calls,           \* history: how often process_update was called
  heeded, ignored, \* history: updates handled with and without a whitelist
  restarts, crashes

telegram == <<sent, acked>>
polling == <<poller, last_update_id, batch>>
dispatching == <<dispatcher, hand, upto, calls, heeded, ignored>>
events == <<running, stop_event, exception_event>>
restarting == <<reactor, listed, restarts>>
vars == <<sent, acked, poller, last_update_id, batch, running, queue, dispatcher,
          hand, stop_event, exception_event, reactor, listed, upto, calls,
          heeded, ignored, restarts, crashes>>

Updates == 1 .. MaxUpdates
Stopping == {"disable", "stop", "stop_dispatcher", "join"}

TypeOK ==
  /\ sent \in 0 .. MaxUpdates
  /\ acked \in 0 .. sent
  /\ poller \in {"ended", "bootstrap", "unready", "pause", "loop", "asking",
                 "asked", "got", "putting"}
  /\ last_update_id \in 0 .. MaxUpdates + 1
  /\ batch \in Seq(Updates)
  /\ running \in BOOLEAN
  /\ queue \in Seq(Updates \union {Error})
  /\ dispatcher \in {"ended", "waiting", "empty", "handling"}
  /\ hand \in Updates \union {Error, None}
  /\ stop_event \in BOOLEAN
  /\ exception_event \in BOOLEAN
  /\ reactor \in Stopping \union {"stopped", "enable", "start", "idle"}
  /\ listed \in BOOLEAN
  /\ upto \in 0 .. sent
  /\ calls \in Nat
  /\ heeded \subseteq Updates
  /\ ignored \subseteq Updates
  /\ restarts \in Nat
  /\ crashes \in Nat

Init ==
  /\ sent = 0 /\ acked = 0
  /\ poller = "ended" /\ last_update_id = 0 /\ batch = <<>>
  /\ running = FALSE /\ stop_event = FALSE /\ exception_event = FALSE
  /\ queue = <<>>
  /\ dispatcher = "ended" /\ hand = None
  /\ reactor = "stopped" /\ listed = FALSE
  /\ upto = 0 /\ calls = 0 /\ heeded = {} /\ ignored = {}
  /\ restarts = 0 /\ crashes = 0

(* -------------------------------------------------------------- People *)

Send ==
  /\ sent < MaxUpdates
  /\ sent' = sent + 1
  /\ UNCHANGED <<acked, polling, dispatching, events, restarting, queue, crashes>>

(* ---------------------------------------------------- The polling thread *)

(* _bootstrap: delete_webhook is tried until it succeeds; an exception of  *)
(* another kind than a network error ends the thread before it is ready.   *)
FaultyBootstrap ==
  /\ poller = "bootstrap"
  /\ poller' = "loop"
  /\ acked' = sent
  /\ UNCHANGED <<sent, last_update_id, batch, events, queue, dispatching,
                 restarting, crashes>>

Bootstrap ==
  /\ poller = "bootstrap"
  /\ \/ poller' = "loop" /\ UNCHANGED exception_event
     \/ "bootstrap" \in MayDie /\ poller' = "unready" /\ exception_event' = TRUE
  /\ UNCHANGED <<telegram, last_update_id, batch, running, stop_event, queue,
                 dispatching, restarting, crashes>>

(* while self.running: at once after the start and after a time-out, else  *)
(* after the poll interval.                                                *)
FaultyLoop ==
  /\ poller \in {"loop", "pause"}
  /\ poller = "loop" \/ Stalls \/ dispatcher # "empty"
  /\ poller' = "asking"
  /\ UNCHANGED <<telegram, last_update_id, batch, events, queue, dispatching,
                 restarting, crashes>>

Loop ==
  /\ poller \in {"loop", "pause"}
  /\ poller = "loop" \/ Stalls \/ dispatcher # "empty"
  /\ poller' = IF running THEN "asking" ELSE "ended"
  /\ UNCHANGED <<telegram, last_update_id, batch, events, queue, dispatching,
                 restarting, crashes>>

FaultyAsk ==
  /\ poller = "asking"
  /\ poller' = "asked"
  /\ acked' = IF last_update_id > acked THEN last_update_id ELSE acked
  /\ UNCHANGED <<sent, last_update_id, batch, events, queue, dispatching,
                 restarting, crashes>>

(* The request reaches Telegram, which forgets what came before its offset. *)
Ask ==
  /\ poller = "asking"
  /\ poller' = "asked"
  /\ acked' = IF last_update_id > acked + 1 THEN last_update_id - 1 ELSE acked
  /\ UNCHANGED <<sent, last_update_id, batch, events, queue, dispatching,
                 restarting, crashes>>

(* Telegram answers with what it has, which may be nothing.                *)
Answer ==
  LET Due == IF sent - acked < Limit THEN sent - acked ELSE Limit IN
  /\ poller = "asked"
  /\ batch' = [k \in 1 .. Due |-> acked + k]
  /\ poller' = IF Due = 0 THEN "pause" ELSE "got"
  /\ UNCHANGED <<telegram, last_update_id, events, queue, dispatching, restarting,
                 crashes>>

(* Request or reply are lost, or take too long: asked again, after a pause *)
(* if it is a RetryAfter.                                                  *)
TimedOut ==
  /\ poller \in {"asking", "asked"}
  /\ poller' \in {"loop", "pause"}
  /\ UNCHANGED <<telegram, last_update_id, batch, events, queue, dispatching,
                 restarting, crashes>>

(* Another TelegramError takes its turn in the queue (polling_onerr_cb).   *)
NetworkError ==
  /\ poller \in {"asking", "asked"}
  /\ Cardinality({k \in DOMAIN queue : queue[k] = Error}) < MaxErrors
  /\ poller' = "pause"
  /\ queue' = Append(queue, Error)
  /\ UNCHANGED <<telegram, last_update_id, batch, events, dispatching, restarting,
                 crashes>>

(* InvalidToken ends the thread; the dispatcher is told.                   *)
InvalidToken ==
  /\ "polling" \in MayDie
  /\ poller \in {"asking", "asked"}
  /\ poller' = "ended"
  /\ exception_event' = TRUE
  /\ UNCHANGED <<telegram, last_update_id, batch, running, stop_event, queue,
                 dispatching, restarting, crashes>>

(* if not self.running: the reply is dropped, and not acknowledged.        *)
CheckRunning ==
  /\ poller = "got"
  /\ IF running THEN poller' = "putting" /\ UNCHANGED batch
                ELSE poller' = "pause" /\ batch' = <<>>
  /\ UNCHANGED <<telegram, last_update_id, events, queue, dispatching, restarting,
                 crashes>>

(* The last update of the reply sets last_update_id.                       *)
FaultyPut ==
  /\ poller = "putting"
  /\ queue' = Append(queue, Head(batch))
  /\ batch' = Tail(batch)
  /\ IF Len(batch) = 1
       THEN last_update_id' = Head(batch) /\ poller' = "pause"
       ELSE UNCHANGED <<last_update_id, poller>>
  /\ UNCHANGED <<telegram, events, dispatching, restarting, crashes>>

Put ==
  /\ poller = "putting"
  /\ queue' = Append(queue, Head(batch))
  /\ batch' = Tail(batch)
  /\ IF Len(batch) = 1
       THEN last_update_id' = Head(batch) + 1 /\ poller' = "pause"
       ELSE UNCHANGED <<last_update_id, poller>>
  /\ UNCHANGED <<telegram, events, dispatching, restarting, crashes>>

(* ------------------------------------------------- The dispatcher thread *)

Get ==
  /\ dispatcher = "waiting"
  /\ queue # <<>>
  /\ hand' = Head(queue)
  /\ queue' = Tail(queue)
  /\ dispatcher' = "handling"
  /\ UNCHANGED <<telegram, polling, events, upto, calls, heeded, ignored,
                 restarting, crashes>>

(* get(True, 1) raises Empty ...                                           *)
GetEmpty ==
  /\ dispatcher = "waiting"
  /\ queue = <<>>
  /\ dispatcher' = "empty"
  /\ UNCHANGED <<telegram, polling, events, queue, hand, upto, calls, heeded, ignored,
                 restarting, crashes>>

(* ... and then the events are read.                                       *)
FaultyCheckEvents ==
  /\ dispatcher = "empty"
  /\ dispatcher' = IF exception_event THEN "ended" ELSE "waiting"
  /\ UNCHANGED <<telegram, polling, events, queue, hand, upto, calls, heeded, ignored,
                 restarting, crashes>>

CheckEvents ==
  /\ dispatcher = "empty"
  /\ dispatcher' = IF stop_event \/ exception_event THEN "ended" ELSE "waiting"
  /\ UNCHANGED <<telegram, polling, events, queue, hand, upto, calls, heeded, ignored,
                 restarting, crashes>>

(* process_update: every callback first looks the chat up in the whitelist. *)
Process ==
  /\ dispatcher = "handling"
  /\ hand # Error
  /\ dispatcher' = "waiting"
  /\ hand' = None
  /\ upto' = hand
  /\ calls' = calls + 1
  /\ IF listed THEN heeded' = heeded \union {hand} /\ UNCHANGED ignored
               ELSE ignored' = ignored \union {hand} /\ UNCHANGED heeded
  /\ UNCHANGED <<telegram, polling, events, queue, restarting, crashes>>

(* dispatch_error: Core.error, which only logs.                            *)
ProcessError ==
  /\ dispatcher = "handling"
  /\ hand = Error
  /\ dispatcher' = "waiting"
  /\ hand' = None
  /\ UNCHANGED <<telegram, polling, events, queue, upto, calls, heeded, ignored,
                 restarting, crashes>>

(* ----------------------------------------------- The reactor: disable() *)

disable ==
  /\ reactor = "idle"
  /\ restarts < MaxRestarts
  /\ reactor' = "disable"
  /\ listed' = FALSE
  /\ UNCHANGED <<telegram, polling, dispatching, events, queue, restarts, crashes>>

(* Updater.stop: first running, then Dispatcher.stop.                      *)
FaultyClearRunning ==
  /\ reactor = "disable"
  /\ reactor' = "stop"
  /\ UNCHANGED <<telegram, polling, dispatching, running, stop_event,
                 exception_event, queue, listed, restarts, crashes>>

ClearRunning ==
  /\ reactor = "disable"
  /\ reactor' = "stop"
  /\ running' = FALSE
  /\ UNCHANGED <<telegram, polling, dispatching, stop_event, exception_event,
                 queue, listed, restarts, crashes>>

StopDispatcher ==
  /\ reactor = "stop"
  /\ IF dispatcher = "ended"
       THEN reactor' = "join" /\ UNCHANGED stop_event
       ELSE reactor' = "stop_dispatcher" /\ stop_event' = TRUE
  /\ UNCHANGED <<telegram, polling, dispatching, running, exception_event, queue,
                 listed, restarts, crashes>>

DispatcherStopped ==
  /\ reactor = "stop_dispatcher"
  /\ dispatcher = "ended"
  /\ reactor' = "join"
  /\ stop_event' = FALSE
  /\ UNCHANGED <<telegram, polling, dispatching, running, exception_event, queue,
                 listed, restarts, crashes>>

FaultyJoin ==
  /\ reactor = "join"
  /\ reactor' = "stopped"
  /\ UNCHANGED <<telegram, polling, dispatching, events, queue, listed, restarts,
                 crashes>>

Join ==
  /\ reactor = "join"
  /\ poller \in {"ended", "unready"}
  /\ reactor' = "stopped"
  /\ UNCHANGED <<telegram, polling, dispatching, events, queue, listed, restarts,
                 crashes>>

(* ------------------------------------------------ The reactor: enable() *)

FaultyFillWhitelist ==
  /\ reactor = "stopped"
  /\ reactor' = "enable"
  /\ UNCHANGED <<telegram, polling, dispatching, events, queue, listed, restarts,
                 crashes>>

FillWhitelist ==
  /\ reactor = "stopped"
  /\ reactor' = "enable"
  /\ listed' = TRUE
  /\ UNCHANGED <<telegram, polling, dispatching, events, queue, restarts, crashes>>

(* A new Updater: nothing is left of the old one.                          *)
start_polling ==
  /\ reactor = "enable"
  /\ reactor' = "start"
  /\ restarts' = restarts + 1
  /\ running' = TRUE /\ stop_event' = FALSE /\ exception_event' = FALSE
  /\ queue' = <<>>
  /\ poller' = "bootstrap" /\ last_update_id' = 0 /\ batch' = <<>>
  /\ dispatcher' = "waiting" /\ hand' = None
  /\ upto' = acked
  /\ UNCHANGED <<telegram, listed, calls, heeded, ignored, crashes>>

(* dispatcher_ready.wait(), polling_ready.wait()                           *)
Ready ==
  /\ reactor = "start"
  /\ poller \notin {"bootstrap", "unready"}
  /\ reactor' = "idle"
  /\ UNCHANGED <<telegram, polling, dispatching, events, queue, listed, restarts,
                 crashes>>

(* The daemon dies, and will run enable() when it is started again.        *)
Crash ==
  /\ crashes < MaxCrashes
  /\ crashes' = crashes + 1
  /\ reactor' = "stopped" /\ listed' = FALSE
  /\ running' = FALSE /\ stop_event' = FALSE /\ exception_event' = FALSE
  /\ queue' = <<>>
  /\ poller' = "ended" /\ last_update_id' = 0 /\ batch' = <<>>
  /\ dispatcher' = "ended" /\ hand' = None
  /\ upto' = acked
  /\ UNCHANGED <<telegram, calls, heeded, ignored, restarts>>

Poller == Bootstrap \/ Loop \/ Ask \/ Answer \/ TimedOut \/ NetworkError
          \/ InvalidToken \/ CheckRunning \/ Put
Dispatcher == Get \/ GetEmpty \/ CheckEvents \/ Process \/ ProcessError
Stop == ClearRunning \/ StopDispatcher \/ DispatcherStopped \/ Join
Start == FillWhitelist \/ start_polling \/ Ready

Next == Send \/ Poller \/ Dispatcher \/ disable \/ Stop \/ Start \/ Crash

Spec == Init /\ [][Next]_vars

(***************************************************************************)
(* The threads run, handlers return, a disable() is followed by an         *)
(* enable(), and a network that fails again and again also answers again   *)
(* and again.  Loop is strong only because of what Stalls rules out.       *)
(***************************************************************************)
LiveSpec ==
  /\ Spec
  /\ WF_vars(Bootstrap) /\ WF_vars(CheckRunning) /\ WF_vars(Put)
  /\ SF_vars(Loop) /\ SF_vars(Ask) /\ SF_vars(Answer)
  /\ WF_vars(Dispatcher)
  /\ WF_vars(Stop) /\ WF_vars(Start)

(* ---------------------------------------------------------- Properties *)

(* Updates that the dispatcher left in the queue when it stopped have not  *)
(* been acknowledged: the next Updater pulls them again.  This is why      *)
(* stop() clears running before it stops the dispatcher, and why the       *)
(* dispatcher stops only when the queue is empty.                          *)
PulledAgain ==
  dispatcher = "ended" =>
    \A k \in DOMAIN queue : queue[k] # Error => queue[k] > acked

(* Only the whitelist that disable() has emptied turns chats away: the     *)
(* dispatcher of a new Updater never finds it empty.                       *)
OnlyDrainIgnores ==
  [][ignored' # ignored => reactor \in Stopping]_vars

(* Once stop() has returned, nobody takes part any more: no old poller     *)
(* asks Telegram, no old dispatcher calls handlers.                        *)
StopIsFinal ==
  reactor \in {"stopped", "enable"} =>
    poller \in {"ended", "unready"} /\ dispatcher = "ended"

(* The threads deliver what Inbox promises: in order, nothing skipped      *)
(* except by a crash, and after a restart no more than one reply again.    *)
inbox == INSTANCE Inbox WITH Window <- Limit, next <- upto + 1
DeliversInOrder == inbox!Spec

(* No update that Telegram has forgotten is lost on the way: it has been   *)
(* handled, or the dispatcher has it, or it waits in the queue, whatever   *)
(* restarts came in between.  Only a crash of the daemon loses updates.    *)
NothingLost ==
  crashes = 0 =>
    \A i \in 1 .. acked :
      i \in heeded \union ignored \union {hand} \/ \E k \in DOMAIN queue : queue[k] = i

(* Without a crash, a restart makes the handlers see at most one reply's   *)
(* worth of updates once more: Inbox promises it, the threads keep it.     *)
RepeatsAreFew == inbox!RepeatsAreFew

(* How many steps the threads may still take before stop() returns: those  *)
(* of the poller, each update of its reply and the error of its request    *)
(* being some for the dispatcher too, those of the dispatcher, and those   *)
(* of the reactor                                                          *)
PollerSteps ==
  CASE poller \in {"ended", "unready"}   -> 0
    [] poller \in {"pause", "loop"}      -> 1
    [] poller \in {"bootstrap", "got"}   -> 2
    [] poller = "asked"                  -> 4
    [] poller = "asking"                 -> 5
    [] poller = "putting"                -> 1 + 3 * Len(batch)

DispatcherSteps ==
  2 * Len(queue) +
    CASE dispatcher = "ended"    -> 0
      [] dispatcher = "empty"    -> 1
      [] dispatcher = "waiting"  -> 2
      [] dispatcher = "handling" -> 3

ReactorSteps ==
  CASE reactor = "stop_dispatcher" -> 2
    [] reactor = "join"            -> 1
    [] OTHER                       -> 0

Remaining == PollerSteps + DispatcherSteps + ReactorSteps

(* From the moment stop_event is set, whatever a thread does brings stop() *)
(* nearer to its return: the poller asks no more once it sees running, and *)
(* what it still puts in the queue, updates or the error of its request,   *)
(* is less work than it had in hand.                                       *)
StopGetsCloser ==
  [][(reactor \in {"stop_dispatcher", "join"}) =>
       \/ Remaining' < Remaining
       \/ UNCHANGED <<polling, dispatching, events, queue, restarting>>]_vars

(* Whatever the threads' speed, an Updater that runs hands over one update *)
(* after the other: only where another takes its place may some be skipped *)
(* or come again, as if the daemon had crashed.                            *)
anyspeed == INSTANCE Inbox WITH Window <- Limit, next <- upto + 1,
                                restarts <- 0, crashes <- crashes + restarts
SkipsOnlyBetweenUpdaters == anyspeed!Spec

(* disable() comes to its end, for the poller notices running and the      *)
(* dispatcher runs out of updates.                                         *)
StopEnds == reactor \in Stopping ~> reactor = "stopped"

(* Whoever sends something is heeded, or ignored by a bot that is being    *)
(* stopped; a restart loses nothing in between.  A crash may, and a poller *)
(* that has died of its token asks no more.                                *)
EveryUpdateIsHandled ==
  \A i \in Updates :
    sent >= i ~> i \in heeded \union ignored \/ crashes > 0 \/ exception_event
=============================================================================
