--------------------------- MODULE Notifications ---------------------------
(***************************************************************************)
(* The messages that nobody asked for: a torrent was added, has finished,  *)
(* is slow.  Deluge's events and the timer run in the reactor's thread;    *)
(* what they say is sent by telegram_send (module Outbox), which may fail. *)
(* When the daemon starts, Deluge adds every torrent it knows again, with  *)
(* the same event as a new one.                                            *)
(***************************************************************************)
EXTENDS Outbox

CONSTANTS
  Window,       \* 300 s: how long a torrent counts as new
  Wanted,       \* the preferences telegram_notify_added, telegram_notify_finished
  MaxTime, MaxRestarts  \* bounds of an instance

ASSUME TimesAssumption == Window \in Nat /\ MaxTime \in Nat /\ MaxRestarts \in Nat
ASSUME ClockAssumption == None \notin 0 .. MaxTime
ASSUME TorrentsAssumption == IsFiniteSet(Torrents)
ASSUME WantedAssumption == Wanted \subseteq {"added", "finished"}

VARIABLES
  now,
  time_added,  \* Deluge: when each torrent was added
  loading,     \* Deluge: the torrents that the starting daemon has yet to add
  connected,   \* the handlers are registered
  slow,        \* check_speed: the slow torrents it has yet to speak about
  checked,     \* history: what the last check_speed found, its first message
  starts       \* history: when the daemon was started

nvars == <<now, time_added, loading, connected, slow, checked, starts>>
vars == <<ovars, nvars>>

TypeOK ==
  /\ OutboxTypeOK
  /\ now \in 0 .. MaxTime
  /\ time_added \in [Torrents -> (0 .. MaxTime) \union {None}]
  /\ loading \subseteq Torrents
  /\ connected \in BOOLEAN
  /\ slow \in Seq(Torrents)
  /\ checked \in [from : Nat, torrents : SUBSET Torrents]
  /\ starts \in Seq(0 .. MaxTime)

NoCheck == [from |-> 1, torrents |-> {}]

Init ==
  /\ OutboxInit
  /\ now = 0
  /\ time_added = [t \in Torrents |-> None]
  /\ loading = {}
  /\ connected = FALSE
  /\ slow = <<>>
  /\ checked = NoCheck
  /\ starts = <<>>

Known == {t \in Torrents : time_added[t] # None}

(* The reactor's thread is not in a call of its own.                       *)
ReactorFree == call["reactor"] = None /\ slow = <<>>

Orders(S) ==
  {s \in [1 .. Cardinality(S) -> S] : \A j, k \in DOMAIN s : j # k => s[j] # s[k]}

(* telegram_send(message, to=self.notifylist); with an empty list to is    *)
(* config["telegram_user"], and then there is none either.                 *)
Notify(what, t) ==
  \E to \in Orders(notifylist) :
    Say("reactor", <<1>>, [what |-> what, torrent |-> t], to)

FaultyOnTorrentAdded(t, time) ==
  IF "added" \in Wanted THEN Notify("added", t) ELSE UNCHANGED ovars

(* Older torrents come from a restart of the daemon.                       *)
on_torrent_added(t, time) ==
  IF "added" \in Wanted /\ time + Window >= now THEN Notify("added", t)
                                               ELSE UNCHANGED ovars

AddTorrent(t) ==
  /\ ReactorFree /\ time_added[t] = None
  /\ time_added' = [time_added EXCEPT ![t] = now]
  /\ IF connected THEN on_torrent_added(t, now) ELSE UNCHANGED ovars
  /\ UNCHANGED <<now, loading, connected, slow, checked, starts>>

LoadTorrent(t) ==
  /\ ReactorFree /\ t \in loading
  /\ loading' = loading \ {t}
  /\ IF connected THEN on_torrent_added(t, time_added[t]) ELSE UNCHANGED ovars
  /\ UNCHANGED <<now, time_added, connected, slow, checked, starts>>

on_torrent_finished(t) ==
  /\ ReactorFree /\ t \in Known \ loading
  /\ connected /\ "finished" \in Wanted
  /\ Notify("finished", t)
  /\ UNCHANGED nvars

(* The timer: one message for each slow torrent, one after the other.      *)
check_speed(S) ==
  /\ ReactorFree
  /\ S # {} /\ S \subseteq Known \ loading
  /\ \E order \in Orders(S) : Notify("slow", Head(order)) /\ slow' = Tail(order)
  /\ checked' = [from |-> Len(messages) + 1, torrents |-> S]
  /\ UNCHANGED <<now, time_added, loading, connected, starts>>

LastNotice == Max({m \in DOMAIN messages : messages[m].about.what # "listing"})

NextSlow ==
  /\ slow # <<>> /\ call["reactor"] = None
  /\ LastNotice \notin failed
  /\ Notify("slow", Head(slow))
  /\ slow' = Tail(slow)
  /\ UNCHANGED <<now, time_added, loading, connected, checked, starts>>

(* An exception of telegram_send ends all of this check_speed.             *)
FaultySlowFails ==
  /\ slow # <<>> /\ call["reactor"] = None
  /\ failed # {}
  /\ slow' = <<>>
  /\ UNCHANGED <<ovars, now, time_added, loading, connected, checked, starts>>

SlowFails ==
  /\ slow # <<>> /\ call["reactor"] = None
  /\ LastNotice \in failed
  /\ slow' = <<>>
  /\ UNCHANGED <<ovars, now, time_added, loading, connected, checked, starts>>

(* enable() has run two seconds ago.                                       *)
connect_events ==
  /\ ReactorFree /\ ~connected
  /\ connected' = TRUE
  /\ UNCHANGED <<ovars, now, time_added, loading, slow, checked, starts>>

Restart == ReactorFree /\ (disable \/ enable) /\ UNCHANGED nvars

(* The daemon is started again: no call, no handler is left of before.     *)
StartDaemon ==
  /\ Len(starts) < MaxRestarts
  /\ starts' = Append(starts, now)
  /\ loading' = Known
  /\ connected' = FALSE
  /\ slow' = <<>>
  /\ checked' = NoCheck
  /\ call' = [t \in Threads |-> None]
  /\ failed' = failed \union {call[t].id : t \in {t \in Threads : call[t] # None}}
  /\ stopping' = FALSE
  /\ \E l \in Lists : whitelist' = l.white /\ notifylist' = l.notify
  /\ UNCHANGED <<messages, sent, skipped, now, time_added>>

(* Sending does not read the clock, so time may as well wait for it.       *)
Tick ==
  /\ ReactorFree /\ now < MaxTime
  /\ now' = now + 1
  /\ UNCHANGED <<ovars, time_added, loading, connected, slow, checked, starts>>

Next ==
  \/ \E u \in Chats, lines \in Listings : cmd_list(u, lines) /\ UNCHANGED nvars
  \/ \E t \in Threads : telegram_send(t) /\ UNCHANGED nvars
  \/ Restart
  \/ \E t \in Torrents : AddTorrent(t) \/ LoadTorrent(t) \/ on_torrent_finished(t)
  \/ \E S \in SUBSET Torrents : check_speed(S)
  \/ NextSlow \/ SlowFails
  \/ connect_events \/ StartDaemon \/ Tick

Spec == Init /\ [][Next]_vars

(* ---------------------------------------------------------- Properties *)

Announcements(t) ==
  {m \in DOMAIN messages : messages[m].about = [what |-> "added", torrent |-> t]}

(* check_speed speaks about every slow torrent it has found, unless a      *)
(* message of this very check raised: what failed in an earlier check, in  *)
(* another notification, or meanwhile in the dispatcher's thread silences  *)
(* no torrent.                                                             *)
EverySlowIsTold ==
  slow = <<>> /\ (\A m \in failed : m < checked.from \/ messages[m].about.what # "slow") =>
    \A t \in checked.torrents : \E m \in DOMAIN messages :
      m >= checked.from /\ messages[m].about = [what |-> "slow", torrent |-> t]

(* A torrent is announced once, and once more for each start of the daemon *)
(* that comes before it stops being new; later starts are silent.          *)
OldTorrentsAreQuiet ==
  \A t \in Known :
    Cardinality(Announcements(t)) <=
      1 + Cardinality({k \in DOMAIN starts : starts[k] <= time_added[t] + Window
                                             /\ starts[k] >= time_added[t]})
=============================================================================
