----------------------- MODULE PluginLifecycleProofs -----------------------
(***************************************************************************)
(* What holds of PluginLifecycle for any tokens, lists, failing calls and  *)
(* sequences of calls, however long.                                       *)
(***************************************************************************)
EXTENDS PluginLifecycle, SequenceTheorems, TLAPS

(* ------------------------------------------------ The inductive invariant *)

\* Where the reactor's thread may be
Place ==
  /\ reactor \in {"enable", "waiting"} => on
  /\ reactor # "idle" \/ on => core \in 1 .. MaxCores

\* No Updater runs when one is about to be made, unless the timer has kept
\* disable() from stopping it
Alone ==
  ~aborted =>
    /\ orphans = 0
    /\ reactor = "enable" => updater # "running"
    /\ reactor = "idle" /\ ~on =>
         updater # "running" /\ whitelist = {} /\ timer # "running"

\* The lists and the bot are those of the preferences that enable() read, as
\* soon as it has made them; without a bot to make, none was running
Configured ==
  reactor \in {"idle", "waiting"} /\ on =>
    /\ started = config \/ partial
    /\ <<whitelist, notifylist>> =
         IF started.telegram_token = "default" THEN <<{}, {}>>
                                               ELSE <<started.users.white, started.users.notify>>
    /\ IF Usable(started)
         THEN token = started.telegram_token /\ bot = started.telegram_token
         ELSE updater = "running" => aborted

\* Whether core c hears Deluge's events when the calls of p have been made
Hears(p, s, c) ==
  \/ \E k \in 1 .. Len(p) :
       p[k].core = c /\ p[k].connect = TRUE /\ \A j \in k + 1 .. Len(p) : p[j].core # c
  \/ (\A k \in 1 .. Len(p) : p[k].core # c) /\ c \in s

\* Every Core but the one in use will have been disconnected, and the one in
\* use connected, however the delayed calls are mixed
Hearing ==
  ~aborted =>
    /\ \A c \in 1 .. MaxCores :
         c # core \/ (reactor = "idle" /\ ~on) => ~Hears(pending, connected, c)
    /\ reactor \in {"idle", "waiting"} /\ on /\ updater = "running" =>
         Hears(pending, connected, core)

IInv == TypeOK /\ Place /\ Alone /\ Configured /\ Hearing

(* ------------------------------------------------------------- Type facts *)

\* The lists a config describes
LEMMA Lists ==
  ASSUME TypeOK
  PROVE  config.users.white \subseteq White /\ config.users.notify \subseteq Notify
<1>1. config.users \in Profiles
  BY DEF TypeOK, Configs
<1> QED BY <1>1 DEF White, Notify

LEMMA Numbers ==
  ASSUME TypeOK
  PROVE  core \in 0 .. MaxCores /\ orphans \in Nat
BY DEF TypeOK

LEMMA NewCore ==
  ASSUME TypeOK, switch_on
  PROVE  core' \in 1 .. MaxCores /\ orphans' \in Nat
<1>1. /\ core' = core + 1 /\ core < MaxCores
      /\ orphans' = orphans + 1 \/ orphans' = orphans
  BY DEF switch_on
<1> QED BY <1>1, Numbers, LifecycleBounds

\* A call that callLater is given
LEMMA LaterType ==
  ASSUME TypeOK, Place, reactor \in {"enable", "disable"}, NEW connect \in BOOLEAN,
         Later(connect)
  PROVE  pending' \in Seq(Calls)
<1>1. core \in 1 .. MaxCores
  BY DEF Place
<1>2. [core |-> core, connect |-> connect] \in Calls
  BY <1>1 DEF Calls
<1>3. pending \in Seq(Calls)
  BY DEF TypeOK
<1> QED BY <1>2, <1>3 DEF Later

\* A set_config leaves a config
LEMMA ConfigType ==
  ASSUME TypeOK, NEW new \in Configs, NEW keys \in SUBSET Keys
  PROVE  [k \in Keys |-> IF k \in keys THEN new[k] ELSE config[k]] \in Configs
<1>1. Keys = {"telegram_token", "users", "minimum_speed", "user_timer", "proxy_url"}
  BY DEF Keys, Position
<1>2. config \in Configs
  BY DEF TypeOK
<1> DEFINE made == [k \in Keys |-> IF k \in keys THEN new[k] ELSE config[k]]
<1>3. made = [telegram_token |-> made.telegram_token, users |-> made.users,
              minimum_speed |-> made.minimum_speed, user_timer |-> made.user_timer,
              proxy_url |-> made.proxy_url]
  BY <1>1
<1>4. /\ made.telegram_token \in Tokens \union {"default", "malformed"}
      /\ made.users \in Profiles
      /\ made.minimum_speed \in {"off", "on"}
      /\ made.user_timer \in {"positive", "negative"}
      /\ made.proxy_url \in {"usable", "unusable"}
  BY <1>1, <1>2 DEF Configs
<1> HIDE DEF made
<1>5. made \in Configs
  BY <1>3, <1>4 DEF Configs
<1> QED BY <1>5 DEF made

LEMMA TypeInit == Init => TypeOK
<1> SUFFICES ASSUME Init PROVE TypeOK
  OBVIOUS
<1>1. pending \in Seq(Calls)
  BY DEF Init
<1>2. core \in 0 .. MaxCores /\ orphans \in Nat
  BY LifecycleBounds DEF Init
<1>3. config \in Configs
  BY DEF Init
<1> QED BY <1>1, <1>2, <1>3 DEF Init, TypeOK

LEMMA TypeStep ==
  ASSUME TypeOK, Place, [Next]_vars
  PROVE  TypeOK'
<1>1. CASE enable_without_token
  BY <1>1 DEF enable_without_token, TypeOK
<1>2. CASE enable_without_bot
  BY <1>2, Lists, LaterType DEF enable_without_bot, StartTimer, TypeOK
<1>3. CASE enable_without_threads \/ enable
  <2>1. orphans' \in Nat
    <3>1. orphans' = orphans + 1 \/ orphans' = orphans
      BY <1>3 DEF enable_without_threads, enable, NewUpdater
    <3> QED BY <3>1, Numbers
  <2>2. pending' \in Seq(Calls)
    BY <1>3, LaterType DEF enable_without_threads, enable
  <2>3. whitelist' \subseteq White /\ notifylist' \subseteq Notify
    BY <1>3, Lists DEF enable_without_threads, enable
  <2>4. bot' \in Tokens /\ token' \in Tokens /\ updater' \in {"running", "no threads"}
        /\ reactor' \in {"idle", "waiting"} /\ started' = config
    BY <1>3 DEF enable_without_threads, enable, NewUpdater, Usable
  <2>5. timer' \in {"none", "failed", "running", "stopped"}
    BY <1>3 DEF enable_without_threads, enable, StartTimer
  <2>6. UNCHANGED <<config, on, core, connected, aborted, partial>>
    BY <1>3 DEF enable_without_threads, enable
  <2> QED BY <2>1, <2>2, <2>3, <2>4, <2>5, <2>6 DEF TypeOK
<1>4. CASE polling_ready
  BY <1>4 DEF polling_ready, attributes, TypeOK
<1>5. CASE disable
  BY <1>5, LaterType DEF disable, StopTimer, StopUpdater, TypeOK
<1>6. CASE disable_aborted
  BY <1>6 DEF disable_aborted, attributes, TypeOK
<1>7. CASE switch_on
  <2>1. core' \in 0 .. MaxCores /\ orphans' \in Nat
    BY <1>7, NewCore, LifecycleBounds
  <2> QED BY <1>7, <2>1 DEF switch_on, TypeOK
<1>8. CASE switch_off \/ restart_telegramer
  BY <1>8 DEF switch_off, restart_telegramer, attributes, TypeOK
<1>9. ASSUME NEW new \in Configs, NEW keys \in Sent, set_config(new, keys)
      PROVE  TypeOK'
  <2>1. config' \in Configs
    BY <1>9, ConfigType, KeysAssumption DEF set_config
  <2> QED BY <1>9, <2>1 DEF set_config, attributes, TypeOK
<1>10. ASSUME NEW new \in Configs, NEW keys \in Sent, NEW bad \in keys \intersect MayRaise,
              set_config_raises(new, keys, bad)
       PROVE  TypeOK'
  <2>1. {k \in keys : Position[k] < Position[bad]} \in SUBSET Keys
    BY KeysAssumption
  <2>2. config' \in Configs
    BY <1>10, <2>1, ConfigType DEF set_config_raises
  <2>3. partial' \in BOOLEAN
    BY <1>10 DEF set_config_raises, TypeOK
  <2> QED BY <1>10, <2>2, <2>3 DEF set_config_raises, attributes, TypeOK
<1>11. CASE connect_events \/ disconnect_events
  <2>1. pending # <<>> /\ pending' = Tail(pending)
    BY <1>11 DEF connect_events, disconnect_events
  <2>2. pending \in Seq(Calls)
    BY DEF TypeOK
  <2>3. pending' \in Seq(Calls) /\ Head(pending) \in Calls
    BY <2>1, <2>2
  <2>4. connected' \subseteq 1 .. MaxCores
    BY <1>11, <2>3 DEF connect_events, disconnect_events, TypeOK, Calls
  <2> QED BY <1>11, <2>3, <2>4 DEF connect_events, disconnect_events, attributes, TypeOK
<1>12. CASE UNCHANGED vars
  <2>1. UNCHANGED <<config, on, core, reactor, whitelist, notifylist, timer, bot, updater,
                    token, orphans, pending, connected, started, aborted, partial>>
    BY <1>12 DEF vars
  <2> QED BY <2>1, ZenonT(30) DEF TypeOK
<1> QED BY <1>1, <1>2, <1>3, <1>4, <1>5, <1>6, <1>7, <1>8, <1>9, <1>10, <1>11, <1>12
        DEF Next

LEMMA PlaceStep ==
  ASSUME TypeOK, Place, [Next]_vars
  PROVE  Place'
<1>1. CASE switch_on
  <2>1. core' \in 1 .. MaxCores
    BY <1>1, NewCore
  <2> QED BY <1>1, <2>1 DEF switch_on, Place
<1>2. CASE ~switch_on
  <2>1. core' = core
    BY <1>2 DEF Next, vars, enable_without_token, enable_without_bot,
      enable_without_threads, enable, polling_ready, disable, disable_aborted,
      switch_off, restart_telegramer, set_config, set_config_raises, connect_events,
      disconnect_events
  <2>2. reactor' # "idle" \/ on' => reactor # "idle" \/ on
    BY <1>2 DEF Next, vars, enable_without_token, enable_without_bot,
      enable_without_threads, enable, polling_ready, disable, disable_aborted,
      switch_off, restart_telegramer, set_config, set_config_raises, connect_events,
      disconnect_events
  <2>3. reactor' \in {"enable", "waiting"} => on'
    BY <1>2 DEF Place, Next, vars, enable_without_token, enable_without_bot,
      enable_without_threads, enable, polling_ready, disable, disable_aborted,
      switch_off, restart_telegramer, set_config, set_config_raises, connect_events,
      disconnect_events
  <2> QED BY <2>1, <2>2, <2>3 DEF Place
<1> QED BY <1>1, <1>2

(* --------------------------------------------------------- One Updater only *)

\* A restart goes through disable(), which stops what enable() would forget
LEMMA AloneStep ==
  ASSUME TypeOK, Place, Alone, [Next]_vars
  PROVE  Alone'
<1>1. CASE enable_without_token \/ enable_without_bot
  BY <1>1 DEF enable_without_token, enable_without_bot, Place, Alone
<1>2. CASE enable_without_threads \/ enable
  BY <1>2 DEF enable_without_threads, enable, NewUpdater, Place, Alone
<1>3. CASE disable
  BY <1>3 DEF disable, StopTimer, StopUpdater, Alone
<1>4. CASE disable_aborted
  BY <1>4 DEF disable_aborted, Alone
<1>5. CASE switch_on
  BY <1>5 DEF switch_on, Alone
<1>6. CASE polling_ready \/ switch_off \/ restart_telegramer
           \/ connect_events \/ disconnect_events
  BY <1>6 DEF polling_ready, switch_off, restart_telegramer, connect_events,
    disconnect_events, attributes, Place, Alone
<1>7. ASSUME NEW new, NEW keys, set_config(new, keys) \/ \E bad : set_config_raises(new, keys, bad)
      PROVE  Alone'
  BY <1>7 DEF set_config, set_config_raises, attributes, Alone
<1>8. CASE UNCHANGED vars
  BY <1>8 DEF vars, Alone
<1> QED BY <1>1, <1>2, <1>3, <1>4, <1>5, <1>6, <1>7, <1>8 DEF Next

(* --------------------------------------------------- The configured bot *)

\* A config that is not dirty is the config of before
LEMMA CleanConfig ==
  ASSUME TypeOK, NEW new \in Configs, NEW keys \in Sent, ~Dirty(new, keys)
  PROVE  [k \in Keys |-> IF k \in keys THEN new[k] ELSE config[k]] = config
<1>1. Keys = {"telegram_token", "users", "minimum_speed", "user_timer", "proxy_url"}
  BY DEF Keys, Position
<1>2. \A k \in keys : new[k] = config[k]
  BY DEF Dirty
<1>3. config = [k \in Keys |-> config[k]]
  BY <1>1 DEF TypeOK, Configs
<1> QED BY <1>2, <1>3

LEMMA ConfiguredStep ==
  ASSUME TypeOK, Place, Alone, Configured, [Next]_vars
  PROVE  Configured'
<1>1. CASE enable_without_token \/ enable_without_bot
  <2>1. /\ on /\ reactor = "enable" /\ started' = config /\ config' = config
        /\ UNCHANGED <<updater, aborted>>
    BY <1>1 DEF enable_without_token, enable_without_bot, Place
  <2>2. <<whitelist', notifylist'>> =
          IF config.telegram_token = "default" THEN <<{}, {}>>
                                               ELSE <<config.users.white, config.users.notify>>
    BY <1>1 DEF enable_without_token, enable_without_bot
  <2>3. ~Usable(config)
    BY <1>1, TokensAssumption DEF enable_without_token, enable_without_bot, Usable
  <2>4. updater = "running" => aborted
    BY <2>1 DEF Alone
  <2> QED BY <2>1, <2>2, <2>3, <2>4 DEF Configured, Usable
<1>2. CASE enable_without_threads \/ enable
  <2>1. /\ started' = config /\ config' = config /\ Usable(config)
        /\ whitelist' = config.users.white /\ notifylist' = config.users.notify
        /\ bot' = config.telegram_token /\ token' = config.telegram_token
    BY <1>2 DEF enable_without_threads, enable, NewUpdater
  <2>2. config.telegram_token # "default"
    BY <2>1, TokensAssumption DEF Usable
  <2> QED BY <2>1, <2>2 DEF Configured, Usable
<1>3. CASE disable \/ disable_aborted \/ switch_on
  BY <1>3 DEF disable, disable_aborted, switch_on, Place, Usable, Configured
<1>4. CASE switch_off \/ restart_telegramer
  BY <1>4 DEF switch_off, restart_telegramer, Configured
<1>5. CASE polling_ready \/ connect_events \/ disconnect_events
  <2>1. /\ UNCHANGED <<config, on, started, partial, attributes, aborted>>
        /\ reactor \in {"idle", "waiting"}
    BY <1>5 DEF polling_ready, connect_events, disconnect_events
  <2> QED BY <2>1 DEF attributes, Usable, Configured
<1>6. ASSUME NEW new \in Configs, NEW keys \in Sent, set_config(new, keys)
      PROVE  Configured'
  <2>1. CASE Dirty(new, keys)
    BY <1>6, <2>1 DEF set_config, Usable, Configured
  <2>2. CASE ~Dirty(new, keys)
    BY <1>6, <2>2, CleanConfig DEF set_config, attributes, Usable, Configured
  <2> QED BY <2>1, <2>2
<1>7. ASSUME NEW new, NEW keys, NEW bad, set_config_raises(new, keys, bad)
      PROVE  Configured'
  <2>1. partial' = (partial \/ config' # config)
    BY <1>7 DEF set_config_raises
  <2> QED BY <1>7, <2>1 DEF set_config_raises, attributes, Usable, Configured
<1>8. CASE UNCHANGED vars
  BY <1>8 DEF vars, Usable, Configured
<1> QED BY <1>1, <1>2, <1>3, <1>4, <1>5, <1>6, <1>7, <1>8 DEF Next

(* ------------------------------------------------------ The delayed calls *)

\* One more call decides for its core alone
LEMMA AppendHears ==
  ASSUME NEW p \in Seq(Calls), NEW e \in Calls, NEW s, NEW c
  PROVE  Hears(Append(p, e), s, c) <=> IF e.core = c THEN e.connect = TRUE ELSE Hears(p, s, c)
<1> DEFINE q == Append(p, e)
<1>1. /\ Len(p) \in Nat /\ Len(q) = Len(p) + 1
      /\ q[Len(p) + 1] = e /\ \A k \in 1 .. Len(p) : q[k] = p[k]
  OBVIOUS
<1>2. CASE e.core = c
  BY <1>1, <1>2 DEF Hears
<1>3. CASE e.core # c
  <2>1. \A k \in 1 .. Len(q) : k = Len(p) + 1 \/ k \in 1 .. Len(p)
    BY <1>1
  <2>2. (\A k \in 1 .. Len(q) : q[k].core # c) <=> (\A k \in 1 .. Len(p) : p[k].core # c)
    BY <1>1, <1>3, <2>1
  <2>3. ASSUME NEW k \in 1 .. Len(p)
        PROVE  (\A j \in k + 1 .. Len(q) : q[j].core # c) <=> (\A j \in k + 1 .. Len(p) : p[j].core # c)
    BY <1>1, <1>3
  <2> HIDE DEF q
  <2>4. (\E k \in 1 .. Len(q) :
           q[k].core = c /\ q[k].connect = TRUE /\ \A j \in k + 1 .. Len(q) : q[j].core # c)
        <=> (\E k \in 1 .. Len(p) :
           p[k].core = c /\ p[k].connect = TRUE /\ \A j \in k + 1 .. Len(p) : p[j].core # c)
    <3>1. \A k \in 1 .. Len(q) : q[k].core = c => k \in 1 .. Len(p) /\ q[k] = p[k]
      BY <1>1, <1>3, <2>1
    <3>2. \A k \in 1 .. Len(p) : k \in 1 .. Len(q) /\ q[k] = p[k]
      BY <1>1
    <3> QED BY <2>3, <3>1, <3>2, Zenon
  <2>5. Hears(q, s, c) <=> Hears(p, s, c)
    BY <2>2, <2>4 DEF Hears
  <2> QED BY <2>5, <1>3 DEF q
<1> QED BY <1>2, <1>3

\* The call that is made next was counted already
LEMMA TailHears ==
  ASSUME NEW p \in Seq(Calls), p # <<>>, NEW s, NEW t, NEW c,
         t = IF Head(p).connect = TRUE THEN s \union {Head(p).core} ELSE s \ {Head(p).core}
  PROVE  Hears(Tail(p), t, c) <=> Hears(p, s, c)
<1> DEFINE q == Tail(p)
<1>1. /\ Len(p) \in Nat \ {0} /\ Len(q) = Len(p) - 1 /\ Head(p) = p[1]
      /\ \A k \in 1 .. Len(q) : q[k] = p[k + 1]
  OBVIOUS
<1> HIDE DEF q
<1>2. (\A k \in 1 .. Len(p) : p[k].core # c)
      <=> p[1].core # c /\ \A k \in 1 .. Len(q) : q[k].core # c
  <2>1. \A k \in 1 .. Len(p) : k = 1 \/ (k - 1 \in 1 .. Len(q) /\ p[k] = q[k - 1])
    BY <1>1
  <2>2. \A k \in 1 .. Len(q) : k + 1 \in 1 .. Len(p) /\ q[k] = p[k + 1]
    BY <1>1
  <2>3. 1 \in 1 .. Len(p)
    BY <1>1
  <2> QED BY <2>1, <2>2, <2>3, Zenon
<1>3. ASSUME NEW k \in 1 .. Len(q)
      PROVE  (\A j \in k + 1 .. Len(q) : q[j].core # c)
             <=> (\A j \in k + 2 .. Len(p) : p[j].core # c)
  <2>1. \A j \in k + 2 .. Len(p) : j - 1 \in k + 1 .. Len(q) /\ p[j] = q[j - 1]
    BY <1>1
  <2>2. \A j \in k + 1 .. Len(q) : j + 1 \in k + 2 .. Len(p) /\ q[j] = p[j + 1]
    BY <1>1
  <2> QED BY <2>1, <2>2
<1>4. (\E k \in 1 .. Len(p) : k # 1 /\
         p[k].core = c /\ p[k].connect = TRUE /\ \A j \in k + 1 .. Len(p) : p[j].core # c)
      <=> (\E k \in 1 .. Len(q) :
         q[k].core = c /\ q[k].connect = TRUE /\ \A j \in k + 1 .. Len(q) : q[j].core # c)
  <2>1. ASSUME NEW k \in 1 .. Len(p), k # 1, p[k].core = c, p[k].connect = TRUE,
               \A j \in k + 1 .. Len(p) : p[j].core # c
        PROVE  \E i \in 1 .. Len(q) : q[i].core = c /\ q[i].connect = TRUE
                                      /\ \A j \in i + 1 .. Len(q) : q[j].core # c
    <3>1. k - 1 \in 1 .. Len(q) /\ q[k - 1] = p[k] /\ (k - 1) + 2 = k + 1
      BY <1>1, <2>1
    <3> QED BY <2>1, <3>1, <1>3
  <2>2. ASSUME NEW k \in 1 .. Len(q), q[k].core = c, q[k].connect = TRUE,
               \A j \in k + 1 .. Len(q) : q[j].core # c
        PROVE  \E i \in 1 .. Len(p) : i # 1 /\ p[i].core = c /\ p[i].connect = TRUE
                                      /\ \A j \in i + 1 .. Len(p) : p[j].core # c
    <3>1. k + 1 \in 1 .. Len(p) /\ k + 1 # 1 /\ p[k + 1] = q[k] /\ (k + 1) + 1 = k + 2
      BY <1>1, <2>2
    <3> QED BY <2>2, <3>1, <1>3
  <2> QED BY <2>1, <2>2
<1>5. (\A j \in 1 + 1 .. Len(p) : p[j].core # c) <=> \A k \in 1 .. Len(q) : q[k].core # c
  <2>1. \A j \in 2 .. Len(p) : j - 1 \in 1 .. Len(q) /\ p[j] = q[j - 1]
    BY <1>1
  <2>2. \A k \in 1 .. Len(q) : k + 1 \in 2 .. Len(p)
    BY <1>1
  <2> QED BY <1>1, <2>1, <2>2
<1>6. 1 \in 1 .. Len(p)
  BY <1>1
<1>7. Hears(p, s, c) <=>
        \/ p[1].core = c /\ p[1].connect = TRUE /\ \A k \in 1 .. Len(q) : q[k].core # c
        \/ \E k \in 1 .. Len(q) :
             q[k].core = c /\ q[k].connect = TRUE /\ \A j \in k + 1 .. Len(q) : q[j].core # c
        \/ p[1].core # c /\ (\A k \in 1 .. Len(q) : q[k].core # c) /\ c \in s
  BY <1>2, <1>4, <1>5, <1>6 DEF Hears
<1>8. c \in t <=> (p[1].core = c /\ p[1].connect = TRUE) \/ (p[1].core # c /\ c \in s)
  BY <1>1
<1>9. Hears(q, t, c) <=> Hears(p, s, c)
  BY <1>7, <1>8 DEF Hears
<1> QED BY <1>9 DEF q
\* A call that enable() or disable() leaves decides for the core in use
LEMMA LaterHears ==
  ASSUME TypeOK, Place, reactor \in {"enable", "disable"}, NEW connect \in BOOLEAN,
         Later(connect), UNCHANGED <<core, connected>>
  PROVE  /\ Hears(pending', connected', core') <=> connect = TRUE
         /\ \A c : c # core => (Hears(pending', connected', c) <=> Hears(pending, connected, c))
<1> DEFINE e == [core |-> core, connect |-> connect]
<1>1. core \in 1 .. MaxCores
  BY DEF Place
<1>2. e \in Calls /\ e.core = core /\ e.connect = connect
  BY <1>1 DEF Calls
<1>3. pending \in Seq(Calls)
  BY DEF TypeOK
<1>4. pending' = Append(pending, e)
  BY DEF Later
<1> HIDE DEF e
<1>5. \A c : Hears(pending', connected, c)
             <=> IF e.core = c THEN e.connect = TRUE ELSE Hears(pending, connected, c)
  BY <1>2, <1>3, <1>4, AppendHears
<1> QED BY <1>2, <1>5

LEMMA HearingStep ==
  ASSUME TypeOK, Place, Alone, Hearing, [Next]_vars
  PROVE  Hearing'
<1>1. CASE enable_without_token
  BY <1>1 DEF enable_without_token, Place, Alone, Hearing
<1>2. CASE enable_without_bot \/ enable_without_threads \/ enable
  <2>1. /\ reactor = "enable" /\ Later(TRUE)
        /\ UNCHANGED <<on, core, connected, aborted>>
    BY <1>2 DEF enable_without_bot, enable_without_threads, enable
  <2>2. on
    BY <2>1 DEF Place
  <2>3. Hears(pending', connected', core')
    BY <2>1, LaterHears
  <2>4. \A c : c # core => (Hears(pending', connected', c) <=> Hears(pending, connected, c))
    BY <2>1, LaterHears
  <2> QED BY <2>1, <2>2, <2>3, <2>4 DEF Hearing
<1>3. CASE disable
  <2>1. /\ reactor = "disable" /\ Later(FALSE)
        /\ UNCHANGED <<on, core, connected, aborted>>
        /\ reactor' = IF on THEN "enable" ELSE "idle"
    BY <1>3 DEF disable
  <2>2. ~Hears(pending', connected', core')
    BY <2>1, LaterHears
  <2>3. \A c : c # core => (Hears(pending', connected', c) <=> Hears(pending, connected, c))
    BY <2>1, LaterHears
  <2> QED BY <2>1, <2>2, <2>3 DEF Hearing
<1>4. CASE disable_aborted
  BY <1>4 DEF disable_aborted, Hearing
<1>5. CASE switch_on
  <2>1. /\ reactor = "idle" /\ ~on /\ reactor' = "enable" /\ on'
        /\ UNCHANGED <<pending, connected, aborted>>
    BY <1>5 DEF switch_on
  <2> QED BY <2>1 DEF Hearing
<1>6. CASE polling_ready \/ switch_off \/ restart_telegramer
  BY <1>6 DEF polling_ready, switch_off, restart_telegramer, attributes, Place, Hearing
<1>7. ASSUME NEW new, NEW keys, set_config(new, keys) \/ \E bad : set_config_raises(new, keys, bad)
      PROVE  Hearing'
  BY <1>7 DEF set_config, set_config_raises, attributes, Hearing
<1>8. CASE connect_events \/ disconnect_events
  <2>1. /\ pending # <<>> /\ pending' = Tail(pending)
        /\ UNCHANGED <<on, core, reactor, updater, aborted>>
    BY <1>8 DEF connect_events, disconnect_events, attributes
  <2>2. connected' = IF Head(pending).connect = TRUE THEN connected \union {Head(pending).core}
                                                     ELSE connected \ {Head(pending).core}
    <3>1. Head(pending) \in Calls
      <4>1. pending \in Seq(Calls) /\ pending # <<>>
        BY <2>1 DEF TypeOK
      <4> QED BY <4>1
    <3> QED BY <1>8, <3>1 DEF connect_events, disconnect_events, Calls
  <2>3. pending \in Seq(Calls)
    BY DEF TypeOK
  <2>4. \A c : Hears(pending', connected', c) <=> Hears(pending, connected, c)
    BY <2>1, <2>2, <2>3, TailHears
  <2> QED BY <2>1, <2>4 DEF Hearing
<1>9. CASE UNCHANGED vars
  BY <1>9 DEF vars, Hearing
<1> QED BY <1>1, <1>2, <1>3, <1>4, <1>5, <1>6, <1>7, <1>8, <1>9 DEF Next

LEMMA HearingInit == Init => Hearing
<1> SUFFICES ASSUME Init PROVE Hearing
  OBVIOUS
<1>1. \A c : ~Hears(pending, connected, c)
  BY DEF Init, Hears
<1> QED BY <1>1 DEF Init, Hearing

LEMMA Inductive == Spec => []IInv
<1>1. Init => IInv
  BY TypeInit, HearingInit DEF Init, IInv, Place, Alone, Configured
<1>2. IInv /\ [Next]_vars => IInv'
  BY TypeStep, PlaceStep, AloneStep, ConfiguredStep, HearingStep DEF IInv
<1> QED BY <1>1, <1>2, PTL DEF Spec

(* ---------------------------------------------------------- The theorems *)

\* The attributes of Core hold what enable() and disable() can store in them,
\* whatever raised in them
THEOREM TypeCorrect == Spec => []TypeOK
<1>1. IInv => TypeOK
  BY DEF IInv
<1> QED BY <1>1, Inductive, PTL

\* No restart, no switching off and on, and no failure but that of the timer
\* leaves an Updater polling that the plugin has lost
THEOREM OneUpdater == Spec => []NoOrphans
<1>1. IInv => NoOrphans
  BY DEF IInv, Alone, NoOrphans
<1> QED BY <1>1, Inductive, PTL

\* Between the calls the lists and the bot are those of one and the same
\* preferences, the stored ones unless a set_config has failed half-way, and
\* where the preferences make no bot none polls that disable() could stop
THEOREM BotAsConfigured == Spec => []AsConfigured
<1>1. IInv => AsConfigured
  BY DEF IInv, Configured, AsConfigured
<1> QED BY <1>1, Inductive, PTL

\* When no delayed call is left, the running bot hears Deluge's events and no
\* other Core does, for any number of restarts within the two seconds
THEOREM EventsAreHeard == Spec => []EventsFollow
<1>1. IInv => EventsFollow
  <2> SUFFICES ASSUME IInv, reactor = "idle", pending = <<>>, ~aborted
               PROVE  /\ connected \subseteq (IF on THEN {core} ELSE {})
                      /\ on /\ updater = "running" => core \in connected
    BY DEF EventsFollow
  <2>1. \A c : Hears(pending, connected, c) <=> c \in connected
    BY DEF Hears
  <2>2. connected \subseteq 1 .. MaxCores
    BY DEF IInv, TypeOK
  <2> QED BY <2>1, <2>2 DEF IInv, Hearing
<1> QED BY <1>1, Inductive, PTL

\* A plugin that is off polls nothing, listens to nobody and has no timer
THEOREM OffStaysOff == Spec => []OffIsOff
<1>1. IInv => OffIsOff
  BY DEF IInv, Alone, OffIsOff
<1> QED BY <1>1, Inductive, PTL

\* The plugin is a Service: enable() is Start, disable() is Stop, set_config is
\* Configure, and a disable() that ends at the timer is Break
THEOREM ImplementsService == Spec => ServesAsPromised
<1>1. Init => service!Init
  BY DEF Init, Serving, service!Init
<1>2. IInv /\ [Next]_vars => [service!Next]_(service!svars)
  <2> SUFFICES ASSUME IInv, [Next]_vars
               PROVE  [service!Next]_(service!svars)
    OBVIOUS
  <2>1. CASE aborted'
    <3>1. service!Break
      BY <2>1, Zenon DEF service!Break, IInv, TypeOK
    <3> QED BY <3>1 DEF service!Next
  <2>2. CASE ~aborted'
    <3>1. ~aborted
      BY <2>2 DEF Next, vars, enable_without_token, enable_without_bot,
        enable_without_threads, enable, polling_ready, disable, disable_aborted,
        switch_on, switch_off, restart_telegramer, set_config, set_config_raises,
        connect_events, disconnect_events
    <3>2. aborted' = aborted
      BY <2>2, <3>1, Zenon DEF Next, vars, enable_without_token, enable_without_bot,
        enable_without_threads, enable, polling_ready, disable, disable_aborted,
        switch_on, switch_off, restart_telegramer, set_config, set_config_raises,
        connect_events, disconnect_events
    <3>3. reactor = "enable" => on /\ updater # "running"
      BY <3>1 DEF IInv, Place, Alone
    <3>4. CASE enable
      <4>1. Serving = None /\ Serving' = service!NewBot
        BY <3>3, <3>4 DEF enable, NewUpdater, Serving, service!NewBot
      <4>2. UNCHANGED <<config, on>> /\ on /\ config.telegram_token \in Tokens
        BY <3>3, <3>4 DEF enable, Usable
      <4>3. service!Start
        BY <3>2, <4>1, <4>2 DEF service!Start
      <4> QED BY <4>3 DEF service!Next
    <3>5. CASE disable
      <4>1. Serving' = None /\ UNCHANGED <<config, on>>
        BY <3>5 DEF disable, StopUpdater, Serving
      <4>2. service!Stop
        BY <3>2, <4>1 DEF service!Stop
      <4> QED BY <4>2 DEF service!Next
    <3>6. CASE enable_without_token \/ enable_without_bot \/ enable_without_threads
      <4>1. Serving = None /\ Serving' = None /\ UNCHANGED <<config, on>>
        BY <3>3, <3>6 DEF enable_without_token, enable_without_bot,
          enable_without_threads, Serving
      <4> QED BY <3>2, <4>1 DEF service!svars
    <3>7. CASE switch_on
      <4>1. Serving = None /\ Serving' = None /\ config' = config
        BY <3>1, <3>7 DEF switch_on, IInv, Alone, Serving
      <4>2. service!SwitchOn
        BY <3>2, <3>7, <4>1 DEF switch_on, service!SwitchOn
      <4> QED BY <4>2 DEF service!Next
    <3>8. CASE switch_off
      <4>1. Serving' = Serving
        BY <3>8 DEF switch_off, attributes, Serving
      <4>2. service!SwitchOff
        BY <3>2, <3>8, <4>1 DEF switch_off, service!SwitchOff
      <4> QED BY <4>2 DEF service!Next
    <3>9. ASSUME NEW new, NEW keys,
                 set_config(new, keys) \/ \E bad : set_config_raises(new, keys, bad)
          PROVE  service!Configure
      <4>1. Serving' = Serving
        BY <3>9 DEF set_config, set_config_raises, attributes, Serving
      <4> QED BY <3>2, <3>9, <4>1 DEF set_config, set_config_raises, service!Configure
    <3>10. CASE polling_ready \/ restart_telegramer \/ connect_events
                \/ disconnect_events \/ UNCHANGED vars
      <4>1. Serving' = Serving /\ UNCHANGED <<config, on>>
        BY <3>10 DEF polling_ready, restart_telegramer, connect_events,
          disconnect_events, vars, attributes, Serving
      <4> QED BY <3>2, <4>1 DEF service!svars
    <3>11. ~disable_aborted
      BY <2>2 DEF disable_aborted
    <3> QED BY <3>4, <3>5, <3>6, <3>7, <3>8, <3>9, <3>10, <3>11 DEF Next, service!Next
  <2> QED BY <2>1, <2>2
<1> QED BY <1>1, <1>2, Inductive, PTL DEF Spec, ServesAsPromised, service!Spec
=============================================================================
