-------------------------- MODULE PluginLifecycle --------------------------
(***************************************************************************)
(* How the plugin is switched on and off, configured and restarted.  All   *)
(* of it happens in the reactor's thread, one call after the other, but    *)
(* enable() and disable() are long: they stop where something raises, they *)
(* leave work for two seconds later (connect_events, disconnect_events),   *)
(* and start_polling waits for Telegram.                                   *)
(*                                                                         *)
(* Deluge makes a new Core each time the plugin is switched on; what the   *)
(* old one left behind (an Updater that was not stopped, calls that are    *)
(* still to run, event handlers) stays.                                    *)
(*                                                                         *)
(* A definition marked "Faulty" is a variant of the next one with a bug;   *)
(* no action uses it.                                                      *)
(***************************************************************************)
EXTENDS Naturals, Sequences

CONSTANTS
  Tokens,      \* tokens that Bot() accepts
  Profiles,    \* the lists that the keys telegram_user(s) describe
  MayFail,     \* the calls of enable() that may raise in this instance
  MayRaise,    \* the keys that set_config() may raise at
  Sent,        \* the sets of keys that come in one set_config()
  MaxCores, MaxPending, MaxOrphans,  \* bounds of an instance
  None

ASSUME ProfilesAssumption == \A p \in Profiles : DOMAIN p = {"white", "notify"}
ASSUME TokensAssumption == {"default", "malformed"} \intersect Tokens = {}
ASSUME MayFailAssumption == MayFail \subseteq {"get_me"}
ASSUME LifecycleBounds ==
  MaxCores \in Nat /\ MaxPending \in Nat /\ MaxOrphans \in Nat
ASSUME NoneAssumption == None \notin Tokens \union {"default", "malformed"}

VARIABLES
  config,      \* Core.config: the keys that matter here
  on,          \* whether the plugin is switched on in Deluge
  core,        \* the Core of the last switching on
  reactor,     \* "idle", or inside of a call
  whitelist, notifylist, timer, bot,  \* attributes of that Core
  updater,     \* Core.updater
  token,       \* the token that updater polls with
  orphans,     \* how many Updaters poll that no Core refers to
  pending,     \* the calls that callLater has yet to make, in order
  connected,   \* the Cores whose handlers are registered for Deluge's events
  started,     \* history: the config that the last enable() read
  aborted,     \* history: a disable() ended at the timer
  partial      \* history: a set_config() failed half-way since the last restart

attributes == <<whitelist, notifylist, timer, bot, updater, token>>
vars == <<config, on, core, reactor, whitelist, notifylist, timer, bot, updater,
          token, orphans, pending, connected, started, aborted, partial>>

(* The order in which the preferences dialog sends the keys.               *)
Position == [telegram_token |-> 1, users |-> 2, minimum_speed |-> 3,
             user_timer |-> 4, proxy_url |-> 5]
Keys == DOMAIN Position

Configs == [telegram_token : Tokens \union {"default", "malformed"},
            users : Profiles,
            minimum_speed : {"off", "on"},
            user_timer : {"positive", "negative"},
            proxy_url : {"usable", "unusable"}]

Calls == [core : 1 .. MaxCores, connect : BOOLEAN]

ASSUME KeysAssumption == MayRaise \subseteq Keys /\ Sent \subseteq SUBSET Keys

White == UNION {p.white : p \in Profiles}
Notify == UNION {p.notify : p \in Profiles}

TypeOK ==
  /\ config \in Configs
  /\ on \in BOOLEAN
  /\ core \in 0 .. MaxCores
  /\ reactor \in {"idle", "disable", "enable", "waiting"}
  /\ whitelist \subseteq White
  /\ notifylist \subseteq Notify
  /\ timer \in {"none", "failed", "running", "stopped"}
  /\ bot \in Tokens \union {None}
  /\ updater \in {"none", "running", "no threads", "stopped"}
  /\ token \in Tokens \union {None}
  /\ orphans \in Nat
  /\ pending \in Seq(Calls)
  /\ connected \subseteq 1 .. MaxCores
  /\ started \in Configs
  /\ aborted \in BOOLEAN
  /\ partial \in BOOLEAN

Init ==
  /\ config \in {c \in Configs :
                   /\ c.telegram_token = "default" /\ c.proxy_url = "usable"
                   /\ c.minimum_speed = "off" /\ c.user_timer = "positive"}
  /\ on = FALSE /\ core = 0 /\ reactor = "idle"
  /\ whitelist = {} /\ notifylist = {} /\ timer = "none"
  /\ bot = None /\ updater = "none" /\ token = None
  /\ orphans = 0 /\ pending = <<>> /\ connected = {}
  /\ started = config /\ aborted = FALSE /\ partial = FALSE

Later(connect) == pending' = Append(pending, [core |-> core, connect |-> connect])

(* ------------------------------------------------------------- enable() *)

(* Request() takes the proxy and Bot() the token.                          *)
Usable(c) == c.telegram_token \in Tokens /\ c.proxy_url = "usable"

StartTimer ==
  timer' = IF config.minimum_speed = "off" THEN "none"
           ELSE IF config.user_timer = "positive" THEN "running" ELSE "failed"

(* The Updater takes the place of another, which is not told.              *)
NewUpdater ==
  /\ bot' = config.telegram_token
  /\ token' = config.telegram_token
  /\ orphans' = IF updater = "running" THEN orphans + 1 ELSE orphans

(* No token: the lists are emptied and nothing is started.                 *)
enable_without_token ==
  /\ reactor = "enable" /\ started' = config
  /\ config.telegram_token = "default"
  /\ whitelist' = {} /\ notifylist' = {} /\ timer' = "none"
  /\ reactor' = "idle"
  /\ UNCHANGED <<config, on, core, bot, updater, token, orphans, pending,
                 connected, aborted, partial>>

FaultyEnableWithoutBot ==
  /\ reactor = "enable" /\ started' = config
  /\ config.telegram_token # "default" /\ ~Usable(config)
  /\ whitelist' = config.users.white /\ notifylist' = config.users.notify
  /\ Later(TRUE)
  /\ StartTimer
  /\ bot' = config.telegram_token
  /\ reactor' = "idle"
  /\ UNCHANGED <<config, on, core, updater, token, orphans, connected, aborted,
                 partial>>

(* Request() or Bot() raise, for a proxy of a kind it cannot use or a       *)
(* malformed token: connect_events will run and the timer runs, but bot    *)
(* and updater are those of before.                                        *)
enable_without_bot ==
  /\ reactor = "enable" /\ started' = config
  /\ config.telegram_token # "default" /\ ~Usable(config)
  /\ whitelist' = config.users.white /\ notifylist' = config.users.notify
  /\ Later(TRUE)
  /\ StartTimer
  /\ reactor' = "idle"
  /\ UNCHANGED <<config, on, core, bot, updater, token, orphans, connected,
                 aborted, partial>>

(* start_polling raises, for the names of the threads need get_me: the     *)
(* Updater says that it runs and has no threads.                           *)
enable_without_threads ==
  /\ reactor = "enable" /\ started' = config
  /\ Usable(config)
  /\ "get_me" \in MayFail
  /\ whitelist' = config.users.white /\ notifylist' = config.users.notify
  /\ Later(TRUE)
  /\ StartTimer
  /\ NewUpdater
  /\ updater' = "no threads"
  /\ reactor' = "idle"
  /\ UNCHANGED <<config, on, core, connected, aborted, partial>>

(* start_polling starts the threads and waits for them.                    *)
enable ==
  /\ reactor = "enable" /\ started' = config
  /\ Usable(config)
  /\ whitelist' = config.users.white /\ notifylist' = config.users.notify
  /\ Later(TRUE)
  /\ StartTimer
  /\ NewUpdater
  /\ updater' = "running"
  /\ reactor' = "waiting"
  /\ UNCHANGED <<config, on, core, connected, aborted, partial>>

(* The bootstrap of the polling thread has reached Telegram.               *)
polling_ready ==
  /\ reactor = "waiting"
  /\ reactor' = "idle"
  /\ UNCHANGED <<config, on, core, attributes, orphans, pending, connected,
                 started, aborted, partial>>

(* ------------------------------------------------------------ disable() *)

(* LoopingCall.stop() raises if the timer does not run.                    *)
StopTimer ==
  \/ timer = "none" /\ UNCHANGED timer
  \/ timer = "running" /\ timer' = "stopped"

(* telegram_poll_stop                                                      *)
StopUpdater == updater' = IF updater = "none" THEN "none" ELSE "stopped"

FaultyEventsDisable ==
  /\ reactor = "disable"
  /\ StopTimer
  /\ connected' = connected \ {core}
  /\ whitelist' = {}
  /\ StopUpdater
  /\ reactor' = IF on THEN "enable" ELSE "idle"
  /\ UNCHANGED <<config, on, core, notifylist, bot, token, orphans, pending,
                 started, aborted, partial>>

FaultyDisable ==
  /\ reactor = "disable"
  /\ StopTimer
  /\ Later(FALSE)
  /\ whitelist' = {}
  /\ reactor' = IF on THEN "enable" ELSE "idle"
  /\ UNCHANGED <<config, on, core, notifylist, bot, updater, token, orphans,
                 connected, started, aborted, partial>>

(* In a restart enable() follows; a plugin that is switched off stays so.  *)
disable ==
  /\ reactor = "disable"
  /\ StopTimer
  /\ Later(FALSE)
  /\ whitelist' = {}
  /\ StopUpdater
  /\ reactor' = IF on THEN "enable" ELSE "idle"
  /\ UNCHANGED <<config, on, core, notifylist, bot, token, orphans, connected,
                 started, aborted, partial>>

(* What follows a stop() that raises is not done.                          *)
disable_aborted ==
  /\ reactor = "disable"
  /\ timer \in {"failed", "stopped"}
  /\ aborted' = TRUE
  /\ reactor' = IF on THEN "enable" ELSE "idle"
  /\ UNCHANGED <<config, on, core, attributes, orphans, pending, connected,
                 started, partial>>

(* ------------------------------------------------------ Deluge and users *)

(* enable() and disable() leave one call each.                              *)
Room(calls) == Len(pending) + calls <= MaxPending /\ orphans < MaxOrphans

(* A new Core; the Updater of the old one may still be running.            *)
switch_on ==
  /\ reactor = "idle" /\ ~on
  /\ Room(1) /\ core < MaxCores
  /\ on' = TRUE /\ core' = core + 1 /\ reactor' = "enable"
  /\ bot' = None /\ updater' = "none" /\ token' = None
  /\ whitelist' = {} /\ notifylist' = {} /\ timer' = "none"
  /\ orphans' = IF updater = "running" THEN orphans + 1 ELSE orphans
  /\ UNCHANGED <<config, pending, connected, started, aborted, partial>>

switch_off ==
  /\ reactor = "idle" /\ on
  /\ Room(1)
  /\ on' = FALSE /\ reactor' = "disable" /\ partial' = FALSE
  /\ UNCHANGED <<config, core, attributes, orphans, pending, connected,
                 started, aborted>>

FaultyRestart ==
  /\ reactor = "idle" /\ on
  /\ Room(2)
  /\ reactor' = "enable" /\ partial' = FALSE
  /\ UNCHANGED <<config, on, core, attributes, orphans, pending, connected,
                 started, aborted>>

restart_telegramer ==
  /\ reactor = "idle" /\ on
  /\ Room(2)
  /\ reactor' = "disable" /\ partial' = FALSE
  /\ UNCHANGED <<config, on, core, attributes, orphans, pending, connected,
                 started, aborted>>

(* The dialog of GTK sends all keys, and numbers as text, so that one of   *)
(* them always differs; the web page sends the keys that were changed.     *)
FaultyDirty(new, keys) ==
  new.user_timer # config.user_timer

Dirty(new, keys) ==
  keys = Keys \/ \E k \in keys : new[k] # config[k]

set_config(new, keys) ==
  /\ reactor = "idle" /\ on
  /\ Room(2)
  /\ config' = [k \in Keys |-> IF k \in keys THEN new[k] ELSE config[k]]
  /\ IF Dirty(new, keys) THEN reactor' = "disable" /\ partial' = FALSE
                         ELSE UNCHANGED <<reactor, partial>>
  /\ UNCHANGED <<on, core, attributes, orphans, pending, connected, started, aborted>>

(* A text where a number belongs, or a key there is not: the keys before   *)
(* it are stored, nothing is restarted.                                    *)
set_config_raises(new, keys, bad) ==
  LET stored == {k \in keys : Position[k] < Position[bad]} IN
  /\ reactor = "idle" /\ on
  /\ config' = [k \in Keys |-> IF k \in stored THEN new[k] ELSE config[k]]
  /\ partial' = (partial \/ config' # config)
  /\ UNCHANGED <<on, core, reactor, attributes, orphans, pending, connected,
                 started, aborted>>

(* Two seconds later.                                                      *)
connect_events ==
  /\ reactor = "idle" /\ pending # <<>>
  /\ Head(pending).connect
  /\ connected' = connected \union {Head(pending).core}
  /\ pending' = Tail(pending)
  /\ UNCHANGED <<config, on, core, reactor, attributes, orphans, started, aborted,
                 partial>>

disconnect_events ==
  /\ reactor = "idle" /\ pending # <<>>
  /\ ~Head(pending).connect
  /\ connected' = connected \ {Head(pending).core}
  /\ pending' = Tail(pending)
  /\ UNCHANGED <<config, on, core, reactor, attributes, orphans, started, aborted,
                 partial>>

Next ==
  \/ enable_without_token \/ enable_without_bot \/ enable_without_threads \/ enable
  \/ polling_ready
  \/ disable \/ disable_aborted
  \/ switch_on \/ switch_off \/ restart_telegramer
  \/ \E new \in Configs, keys \in Sent :
       \/ set_config(new, keys)
       \/ \E bad \in keys \intersect MayRaise : set_config_raises(new, keys, bad)
  \/ connect_events \/ disconnect_events

Spec == Init /\ [][Next]_vars

(* ---------------------------------------------------------- Properties *)

(* A restart stops the bot it replaces: no second Updater polls with the   *)
(* same or with an older token, whatever has failed in enable(), as long   *)
(* as the timer could be stopped.                                          *)
NoOrphans == ~aborted => orphans = 0

(* restart_telegramer and set_config replace the bot (core.py 1139, 1145:  *)
(* "Restart bot service", "Disable and enable plugin").                    *)
BotIsReplaced == orphans = 0

(* Between the calls, the lists and the bot are those of one and the same  *)
(* preferences, the ones that enable() last read; these are the stored     *)
(* ones, unless a set_config has stopped half-way since.  Where they make  *)
(* no bot, the one of before does not go on polling with the new lists,    *)
(* unless disable() was cut off at the timer.                              *)
AsConfigured ==
  reactor = "idle" /\ on =>
    /\ started = config \/ partial
    /\ <<whitelist, notifylist>> =
         IF started.telegram_token = "default" THEN <<{}, {}>>
                                               ELSE <<started.users.white, started.users.notify>>
    /\ IF Usable(started)
         THEN token = started.telegram_token /\ bot = started.telegram_token
         ELSE updater = "running" => aborted

(* Once the delayed calls are made, the handlers of Deluge's events are    *)
(* those of the running bot and no others, in whatever order enable() and  *)
(* disable() came.                                                         *)
EventsFollow ==
  reactor = "idle" /\ pending = <<>> /\ ~aborted =>
    /\ connected \subseteq (IF on THEN {core} ELSE {})
    /\ on /\ updater = "running" => core \in connected

(* The bot that serves, and what it does: Service says what is promised    *)
Serving ==
  IF updater = "running"
    THEN [token |-> token, white |-> whitelist, notify |-> notifylist]
    ELSE None

(* One bot at a time serves, with the preferences it was started with and  *)
(* none of before or after, until it is stopped; whatever fails in         *)
(* enable() and however restarts, set_config and switching are mixed, only *)
(* a timer that will not stop breaks this.                                 *)
service == INSTANCE Service WITH bot <- Serving, broken <- aborted
ServesAsPromised == service!Spec

(* A plugin that is switched off neither listens nor looks at speeds.      *)
OffIsOff ==
  reactor = "idle" /\ ~on /\ ~aborted =>
    updater # "running" /\ whitelist = {} /\ timer # "running"
=============================================================================
