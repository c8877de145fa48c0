------------------------ MODULE ConversationsProofs ------------------------
(***************************************************************************)
(* What holds of Conversations for every set of chats, inputs, categories, *)
(* feeds and templates, and whichever calls may fail.                      *)
(***************************************************************************)
EXTENDS Conversations, TLAPS

States == AddStates \union RssStates \union {"IDLE"}
Handlers == Convs \union {"global"}

(* ------------------------------------------------ What callbacks return *)

\* A callback that returns a state leaves the conversations well typed
LEMMA ReturnType ==
  ASSUME TypeOK, NEW h \in Handlers, NEW u \in Users, NEW s \in States,
         Return(h, u, s)
  PROVE  conv' \in [Convs -> [Users -> States]]
BY DEF TypeOK, Return, States

\* Silence and a reply are outputs
LEMMA SilenceType == Silence \in Outputs
BY DEF Silence, Outputs, Replies

LEMMA ReplyType ==
  ASSUME NEW r \in Replies, Reply(r)
  PROVE  out' \in Outputs
BY DEF Reply, Silence, Outputs

LEMMA ReplyAndReturnType ==
  ASSUME TypeOK, NEW h \in Handlers, NEW u \in Users, NEW r \in Replies,
         NEW s \in States, ReplyAndReturn(h, u, r, s)
  PROVE  conv' \in [Convs -> [Users -> States]] /\ out' \in Outputs
<1>1. CASE Reply(r) /\ Return(h, u, s)
  BY <1>1, ReturnType, ReplyType
<1>2. CASE ReturnNone
  BY <1>2, SilenceType DEF ReturnNone, TypeOK, States
<1> QED BY <1>1, <1>2 DEF ReplyAndReturn

\* A torrent handed to Deluge with the options and the label is an output
LEMMA AddedType ==
  ASSUME NEW o \in Options, NEW l \in Inputs \union {None}
  PROVE  /\ Added(o, l) \in Outputs
         /\ [Added(o, l) EXCEPT !.reply = "download_fail"] \in Outputs
<1>1. [options |-> o, label |-> l] \in Torrents
  BY DEF Torrents
<1> QED BY <1>1 DEF Added, Silence, Outputs, Replies

LEMMA AddType ==
  ASSUME TypeOK, NEW h \in Handlers, NEW u \in Users,
         AddAndLabel(h, u) \/ AddAndStay
  PROVE  conv' \in [Convs -> [Users -> States]] /\ out' \in Outputs
<1>1. CASE AddAndLabel(h, u)
  BY <1>1, ReturnType, AddedType DEF AddAndLabel, TypeOK, States
<1>2. CASE AddAndStay
  BY <1>2, AddedType DEF AddAndStay, TypeOK, States
<1> QED BY <1>1, <1>2

(* ---------------------------------------------- The callbacks, one by one *)

EntryAction(u) == add(u) \/ add_paused(u) \/ cmd_add_rss(u)
RssAction(u, m) == rss_feed(u, m) \/ regex(u, m) \/ rss_file_name(u, m)
GlobalAction(u, m) ==
  \/ find_magnet(u, m) \/ command_cancel(u, m)
  \/ send_document(u, m) \/ no_effect(u, m)

LEMMA BlankType == NoOptions \in Options /\ Blank \in Subscriptions
BY DEF NoOptions, Options, Blank, Subscriptions

\* What the callbacks preserve of TypeOK; they never touch the rest
CoreType ==
  /\ conv \in [Convs -> [Users -> States]]
  /\ opts \in Options
  /\ label \in Inputs \union {None}
  /\ is_rss \in BOOLEAN
  /\ yarss_data \in Subscriptions
  /\ out \in Outputs

LEMMA EntryType ==
  ASSUME TypeOK, NEW u \in Users, EntryAction(u)
  PROVE  CoreType'
<1> USE BlankType
<1> "add" \in Handlers /\ "paused" \in Handlers /\ "rss" \in Handlers
  BY DEF Handlers, Convs
<1> /\ {"CATEGORY", "RSS_FEED", "IDLE"} \subseteq States
    /\ {"which_cat", "which_rss_feed", "no_rss_found", "norss"} \subseteq Replies
  BY DEF States, AddStates, RssStates, Replies
<1>1. CASE add(u)
  BY <1>1, ReplyAndReturnType DEF add, prepare_categories, CoreType, TypeOK
<1>2. CASE add_paused(u)
  <2>1. [NoOptions EXCEPT !.addpaused = TRUE] \in Options
    BY DEF NoOptions, Options
  <2> QED
    BY <1>2, <2>1, ReplyAndReturnType DEF add_paused, prepare_categories, CoreType, TypeOK
<1>3. CASE cmd_add_rss(u)
  <2>1. CASE add_rss(u)
    BY <1>3, <2>1, ReplyAndReturnType, SilenceType
    DEF cmd_add_rss, add_rss, prepare_rss_feed, ReturnNone, CoreType, TypeOK, States
  <2>2. CASE rss_not_available(u)
    BY <1>3, <2>2, ReturnType, ReplyType, SilenceType
    DEF cmd_add_rss, rss_not_available, ReturnNone, CoreType, TypeOK, States
  <2> QED BY <1>3, <2>1, <2>2 DEF cmd_add_rss
<1> QED BY <1>1, <1>2, <1>3 DEF EntryAction

\* A subscription handed to YaRSS2 is an output
LEMMA addRssType ==
  ASSUME TypeOK, NEW h \in Convs, NEW u \in Users, NEW sub \in Subscriptions,
         addRss(h, u, sub)
  PROVE  conv' \in [Convs -> [Users -> States]] /\ out' \in Outputs
<1> h \in Handlers /\ "IDLE" \in States
  BY DEF Handlers, States
<1>1. /\ [Silence EXCEPT !.reply = "added_rss", !.saved = {sub}] \in Outputs
      /\ [Silence EXCEPT !.saved = {sub}] \in Outputs
  BY DEF Silence, Outputs, Replies
<1> QED BY <1>1, ReturnType, SilenceType DEF addRss, TypeOK, States

LEMMA ChosenPathsType ==
  ASSUME TypeOK, NEW m, NEW p \in ChosenPaths(m)
  PROVE  [opts EXCEPT !.move_completed_path = p] \in Options
<1>1. opts.move_completed_path \in Paths \union {None}
  BY DEF TypeOK, Options
<1>2. m \in Categories \union QuotedDirs => DirOf[m] \in Paths
  BY DirOfAssumption
<1>3. p \in Paths \union {None}
  BY <1>1, <1>2 DEF ChosenPaths
<1> QED BY <1>3 DEF TypeOK, Options

LEMMA CategoryType ==
  ASSUME TypeOK, NEW h \in Convs, NEW u \in Users, NEW m \in Inputs,
         category(h, u, m)
  PROVE  CoreType'
<1> h \in Handlers /\ "SET_LABEL" \in States /\ "which_label" \in Replies
  BY DEF Handlers, States, AddStates, Replies
<1>1. opts' \in Options
  BY ChosenPathsType DEF category
<1>2. CASE is_rss /\ rss_apply(h, u, opts')
  <2> DEFINE sub == [yarss_data EXCEPT !.download_location = opts'.move_completed_path]
  <2>1. sub \in Subscriptions
    BY <1>1 DEF TypeOK, Subscriptions, Options
  <2>2. yarss_data' \in Subscriptions
    BY <1>2, <2>1 DEF rss_apply, TypeOK
  <2>3. conv' \in [Convs -> [Users -> States]] /\ out' \in Outputs
    BY <1>2, <2>2, addRssType, SilenceType DEF rss_apply, ReturnNone, TypeOK, States
  <2> QED BY <1>1, <1>2, <2>2, <2>3 DEF category, CoreType, TypeOK
<1>3. CASE ~is_rss
  BY <1>1, <1>3, ReplyAndReturnType DEF category, CoreType, TypeOK
<1> QED BY <1>2, <1>3 DEF category, TypeOK

LEMMA AddTorrentType ==
  ASSUME TypeOK, NEW h \in Handlers, NEW u \in Users, NEW m, add_torrent(h, u, m)
  PROVE  CoreType'
<1> "IDLE" \in States /\ {"download_fail", "not_file"} \subseteq Replies
  BY DEF States, Replies
<1>1. conv' \in [Convs -> [Users -> States]] /\ out' \in Outputs
  BY AddType, ReplyAndReturnType, SilenceType DEF add_torrent, ReturnNone, TypeOK, States
<1> QED BY <1>1 DEF add_torrent, core, CoreType, TypeOK

LEMMA AddConversationType ==
  ASSUME TypeOK, NEW h \in Convs, NEW u \in Users, NEW m \in Inputs,
         AddConversation(h, u, m)
  PROVE  CoreType'
<1> h \in Handlers /\ "IDLE" \in States /\ AddStates \subseteq States
  BY DEF Handlers, States
<1> {"what_kind", "send_magnet", "send_file", "send_url", "error", "not_magnet",
     "not_url", "download_fail"} \subseteq Replies
  BY DEF Replies
<1>1. CASE category(h, u, m)
  BY <1>1, CategoryType
<1>2. CASE set_label(h, u, m)
  <2>1. conv' \in [Convs -> [Users -> States]] /\ out' \in Outputs
    BY <1>2, ReplyAndReturnType DEF set_label, prepare_torrent_type, AddStates
  <2> QED BY <1>2, <2>1 DEF set_label, CoreType, TypeOK
<1>3. CASE torrent_type(h, u, m)
  <2>1. conv' \in [Convs -> [Users -> States]] /\ out' \in Outputs
    BY <1>3, ReplyAndReturnType DEF torrent_type, AddStates
  <2> QED BY <1>3, <2>1 DEF torrent_type, core, CoreType, TypeOK
<1>4. CASE add_magnet(h, u, m)
  <2>1. conv' \in [Convs -> [Users -> States]] /\ out' \in Outputs
    BY <1>4, AddType, ReplyAndReturnType, SilenceType
    DEF add_magnet, ReturnNone, TypeOK, States
  <2> QED BY <1>4, <2>1 DEF add_magnet, core, CoreType, TypeOK
<1>5. CASE add_document(h, u, m)
  BY <1>5, AddTorrentType DEF add_document
<1>6. CASE add_url(h, u, m)
  <2>1. conv' \in [Convs -> [Users -> States]] /\ out' \in Outputs
    BY <1>6, AddType, ReplyAndReturnType, ReturnType, AddedType DEF add_url, TypeOK
  <2> QED BY <1>6, <2>1 DEF add_url, core, CoreType, TypeOK
<1> QED BY <1>1, <1>2, <1>3, <1>4, <1>5, <1>6 DEF AddConversation

LEMMA RssType ==
  ASSUME TypeOK, NEW u \in Users, NEW m \in Inputs, RssAction(u, m)
  PROVE  CoreType'
<1> "rss" \in Handlers /\ "IDLE" \in States /\ RssStates \subseteq States
  BY DEF Handlers, Convs, States
<1> {"which_regex", "no_regex", "file_name", "no_name", "which_cat"} \subseteq Replies
  BY DEF Replies
<1>1. conv' \in [Convs -> [Users -> States]] /\ out' \in Outputs
  <2>1. CASE rss_feed(u, m)
    BY <2>1, ReplyAndReturnType, SilenceType
    DEF rss_feed, ReturnNone, RssStates, TypeOK, States
  <2>2. CASE regex(u, m)
    BY <2>2, ReplyAndReturnType, SilenceType
    DEF regex, ReturnNone, RssStates, TypeOK, States
  <2>3. CASE rss_file_name(u, m)
    BY <2>3, ReplyAndReturnType DEF rss_file_name, prepare_categories, RssStates
  <2> QED BY <2>1, <2>2, <2>3 DEF RssAction
<1>2. yarss_data' \in Subscriptions
  <2>1. CASE rss_feed(u, m)
    BY <2>1 DEF rss_feed, TypeOK, Subscriptions
  <2>2. CASE regex(u, m)
    BY <2>2, TemplatesAssumption DEF regex, TypeOK, Subscriptions
  <2>3. CASE rss_file_name(u, m)
    BY <2>3 DEF rss_file_name, TypeOK, Subscriptions
  <2> QED BY <2>1, <2>2, <2>3 DEF RssAction
<1> QED
  BY <1>1, <1>2 DEF RssAction, rss_feed, regex, rss_file_name, CoreType, TypeOK

LEMMA CancelType ==
  ASSUME TypeOK, NEW h \in Handlers, NEW u \in Users, cancel(h, u)
  PROVE  CoreType'
<1> "IDLE" \in States /\ "cancelled" \in Replies
  BY DEF States, Replies
<1> QED
  BY BlankType, ReturnType, ReplyType, SilenceType
  DEF cancel, ReturnNone, core, CoreType, TypeOK, States

LEMMA GlobalType ==
  ASSUME TypeOK, NEW u \in Users, NEW m \in Inputs, GlobalAction(u, m)
  PROVE  CoreType'
<1> "global" \in Handlers /\ "no_magnet_found" \in Replies
  BY DEF Handlers, Replies
<1>1. CASE find_magnet(u, m)
  <2>1. opts' \in Options
    BY <1>1, BlankType DEF find_magnet, TypeOK
  <2>2. out' \in Outputs
    BY <1>1, BlankType, AddedType, ReplyType, SilenceType DEF find_magnet
  <2> QED BY <1>1, <2>1, <2>2 DEF find_magnet, CoreType, TypeOK, States
<1>2. CASE command_cancel(u, m)
  BY <1>2, CancelType DEF command_cancel
<1>3. CASE send_document(u, m)
  BY <1>3, AddTorrentType DEF send_document
<1>4. CASE no_effect(u, m)
  BY <1>4, SilenceType DEF no_effect, CoreType, TypeOK, States
<1> QED BY <1>1, <1>2, <1>3, <1>4 DEF GlobalAction

\* Every update the bot takes leaves the attributes well typed
LEMMA UpdateType ==
  ASSUME TypeOK, NEW u \in Users, NEW m \in Inputs, process_update(u, m)
  PROVE  TypeOK'
<1>1. CoreType'
  <2>1. CASE u \notin whitelist
    BY <2>1, SilenceType DEF process_update, core, CoreType, TypeOK, States
  <2>2. CASE Callback(u, m)
    <3>1. ASSUME NEW h \in Convs, fallback_cancel(h, u, m) PROVE CoreType'
      BY <3>1, CancelType DEF fallback_cancel, Handlers
    <3> QED
      BY <2>2, <3>1, EntryType, RssType, GlobalType, AddConversationType
      DEF Callback, EntryAction, RssAction, GlobalAction
  <2> QED BY <2>1, <2>2 DEF process_update
<1> QED BY <1>1 DEF process_update, admin, CoreType, TypeOK, States

(***************************************************************************)
(* Core's attributes hold what their readers expect, whatever the chats    *)
(* send, whichever calls fail and whenever the plugin restarts.            *)
(***************************************************************************)
THEOREM TypeCorrect == Spec => []TypeOK
<1>1. Init => TypeOK
  BY BlankType, SilenceType DEF Init, TypeOK
<1>2. TypeOK /\ [Next]_vars => TypeOK'
  <2> SUFFICES ASSUME TypeOK, [Next]_vars PROVE TypeOK'
    OBVIOUS
  <2>1. ASSUME NEW u \in Users, NEW m \in Inputs, process_update(u, m)
        PROVE  TypeOK'
    BY <2>1, UpdateType
  <2>2. ASSUME NEW W \in Whitelists, enable(W) PROVE TypeOK'
    BY <2>2, SilenceType, WhitelistsAssumption DEF enable, TypeOK
  <2>3. CASE disable
    BY <2>3, SilenceType DEF disable, core, TypeOK
  <2>4. CASE UNCHANGED vars
    BY <2>4 DEF vars, TypeOK
  <2> QED BY <2>1, <2>2, <2>3, <2>4 DEF Next
<1> QED BY <1>1, <1>2, PTL DEF Spec

(* ------------------------------------------- One chat in the whitelist *)

SoleOwner == \A W \in Whitelists : \A u, v \in W : u = v

\* What /rss has collected when its conversation gets to a state, unless
\* is_rss was reset on the way
RssAnswered ==
  enabled => \A u \in Users : is_rss =>
    /\ conv["rss"][u] \in {"REGEX", "FILE_NAME", "CATEGORY"} => yarss_data.rssfeed_key # None
    /\ conv["rss"][u] \in {"FILE_NAME", "CATEGORY"} => yarss_data.template \in NamedTemplates
    /\ conv["rss"][u] = "CATEGORY" => yarss_data.keyword # None

IInv ==
  /\ TypeOK
  /\ enabled => whitelist \in Whitelists
  /\ ~enabled => whitelist = {}
  /\ OnlyWhitelistedConverse
  /\ AddIsNotRss
  /\ RssAnswered
  /\ SubscriptionComplete

\* A step that only moves conversations of the chat u, into states of S
MovesInto(u, S) ==
  \A h \in Convs, v \in Users :
    conv'[h][v] = conv[h][v] \/ (v = u /\ conv'[h][v] \in S)

LEMMA ReturnMoves ==
  ASSUME TypeOK, NEW h \in Handlers, NEW u \in Users, NEW s \in States,
         Return(h, u, s)
  PROVE  MovesInto(u, {s})
BY DEF TypeOK, Return, States, MovesInto

LEMMA ReplyAndReturnMoves ==
  ASSUME TypeOK, NEW h \in Handlers, NEW u \in Users, NEW r \in Replies,
         NEW s \in States, ReplyAndReturn(h, u, r, s)
  PROVE  MovesInto(u, {s}) /\ out'.saved = {}
<1>1. CASE Reply(r) /\ Return(h, u, s)
  BY <1>1, ReturnMoves DEF Reply, Silence
<1>2. CASE ReturnNone
  BY <1>2 DEF ReturnNone, Silence, MovesInto
<1> QED BY <1>1, <1>2 DEF ReplyAndReturn

LEMMA AddMoves ==
  ASSUME TypeOK, NEW h \in Handlers, NEW u \in Users,
         AddAndLabel(h, u) \/ AddAndStay
  PROVE  MovesInto(u, {"IDLE"}) /\ out'.saved = {}
<1> "IDLE" \in States
  BY DEF States
<1>1. CASE AddAndLabel(h, u)
  BY <1>1, ReturnMoves DEF AddAndLabel, Added, Silence
<1>2. CASE AddAndStay
  BY <1>2 DEF AddAndStay, Added, Silence, MovesInto
<1> QED BY <1>1, <1>2

\* While a callback of /rss runs, or /rss begins, neither /add nor /addpaused
\* of the chat waits for a directory: they would have taken the text
LEMMA RssIsNotShadowed ==
  ASSUME TypeOK, NEW u \in Users, NEW m \in Inputs, m \notin Documents,
         Handles("rss", u, m)
  PROVE  conv["add"][u] # "CATEGORY" /\ conv["paused"][u] # "CATEGORY"
BY DEF Handles, Earlier, check_update, Answers, StatesOf, AddStates, Takes

(* The three kinds of step that keep the invariant for one chat. *)

\* is_rss and the subscription stay, no conversation gets to CATEGORY or on in /rss
Quiet(u) ==
  /\ is_rss' = is_rss /\ yarss_data' = yarss_data /\ out'.saved = {}
  /\ MovesInto(u, {"IDLE", "RSS_FEED"} \union (AddStates \ {"CATEGORY"}))
\* is_rss is reset
Reset(u) ==
  is_rss' = FALSE /\ out'.saved = {} /\ MovesInto(u, States)

LEMMA QuietKeeps ==
  ASSUME IInv, TypeOK', NEW u \in whitelist, Quiet(u), UNCHANGED admin
  PROVE  IInv'
<1> USE DEF IInv, Quiet, MovesInto, admin
<1>1. OnlyWhitelistedConverse'
  BY DEF OnlyWhitelistedConverse, TypeOK
<1>2. AddIsNotRss'
  BY DEF AddIsNotRss, AddStates, Convs
<1>3. RssAnswered'
  BY DEF RssAnswered, AddStates, Convs
<1>4. SubscriptionComplete'
  BY DEF SubscriptionComplete
<1> QED BY <1>1, <1>2, <1>3, <1>4

LEMMA ResetKeeps ==
  ASSUME IInv, TypeOK', NEW u \in whitelist, Reset(u), UNCHANGED admin
  PROVE  IInv'
<1> USE DEF IInv, Reset, MovesInto, admin
<1>1. OnlyWhitelistedConverse'
  BY DEF OnlyWhitelistedConverse, TypeOK
<1>2. AddIsNotRss' /\ RssAnswered' /\ SubscriptionComplete'
  BY DEF AddIsNotRss, RssAnswered, SubscriptionComplete
<1> QED BY <1>1, <1>2

\* Documents are for ADD_TORRENT; /rss and its callbacks take texts
LEMMA RssTakesTexts ==
  ASSUME NEW u \in Users, NEW m \in Inputs, NEW s, InState("rss", u, m, s)
  PROVE  s \in RssStates /\ m \notin Documents /\ Handles("rss", u, m)
BY DEF InState, Answers, StatesOf, RssStates, Takes

LEMMA AddTorrentQuiet ==
  ASSUME TypeOK, NEW h \in Handlers, NEW u \in Users, NEW m, add_torrent(h, u, m)
  PROVE  Quiet(u)
<1> "IDLE" \in States /\ {"download_fail", "not_file"} \subseteq Replies
  BY DEF States, Replies
<1>1. MovesInto(u, {"IDLE"}) /\ out'.saved = {}
  <2>1. CASE AddAndLabel(h, u) \/ AddAndStay
    BY <2>1, AddMoves
  <2>2. CASE ReturnNone
    BY <2>2 DEF ReturnNone, Silence, MovesInto
  <2>3. CASE \E r \in {"download_fail", "not_file"} : ReplyAndReturn(h, u, r, "IDLE")
    BY <2>3, ReplyAndReturnMoves
  <2> QED BY <2>1, <2>2, <2>3 DEF add_torrent
<1> QED BY <1>1 DEF add_torrent, core, Quiet, MovesInto

\* Every callback of /add and /addpaused but the choice of a directory is quiet
LEMMA AddConversationQuiet ==
  ASSUME TypeOK, NEW h \in Convs, NEW u \in Users, NEW m \in Inputs,
         AddConversation(h, u, m), ~category(h, u, m) \/ ~is_rss
  PROVE  Quiet(u)
<1> h \in Handlers /\ "IDLE" \in States /\ AddStates \subseteq States
  BY DEF Handlers, States
<1> {"which_label", "what_kind", "send_magnet", "send_file", "send_url", "error",
     "not_magnet", "not_url", "download_fail"} \subseteq Replies
  BY DEF Replies
<1> DEFINE Later == {"IDLE", "RSS_FEED"} \union (AddStates \ {"CATEGORY"})
<1>1. CASE category(h, u, m) /\ ~is_rss
  <2>1. ReplyAndReturn(h, u, "which_label", "SET_LABEL")
    BY <1>1 DEF category
  <2>2. "SET_LABEL" \in States /\ "SET_LABEL" \in Later
    BY DEF AddStates
  <2>3. MovesInto(u, {"SET_LABEL"}) /\ out'.saved = {}
    BY <2>1, <2>2, ReplyAndReturnMoves
  <2> QED BY <1>1, <2>2, <2>3 DEF category, Quiet, MovesInto
<1>2. CASE set_label(h, u, m)
  <2>1. "TORRENT_TYPE" \in States /\ "TORRENT_TYPE" \in Later
    BY DEF AddStates
  <2>2. MovesInto(u, {"TORRENT_TYPE"}) /\ out'.saved = {}
    BY <1>2, <2>1, ReplyAndReturnMoves DEF set_label, prepare_torrent_type
  <2> QED BY <1>2, <2>1, <2>2 DEF set_label, Quiet, MovesInto
<1>3. CASE torrent_type(h, u, m)
  <2>1. {"ADD_MAGNET", "ADD_TORRENT", "ADD_URL"} \subseteq States \intersect Later
    BY DEF AddStates
  <2>2. PICK s \in {"ADD_MAGNET", "ADD_TORRENT", "ADD_URL", "IDLE"},
             r \in Replies : ReplyAndReturn(h, u, r, s)
    BY <1>3 DEF torrent_type
  <2>3. MovesInto(u, {s}) /\ out'.saved = {}
    BY <2>1, <2>2, ReplyAndReturnMoves
  <2> QED BY <1>3, <2>1, <2>3 DEF torrent_type, core, Quiet, MovesInto
<1>4. CASE add_magnet(h, u, m)
  <2>1. MovesInto(u, {"IDLE"}) /\ out'.saved = {}
    BY <1>4, AddMoves, ReplyAndReturnMoves
    DEF add_magnet, ReturnNone, Silence, MovesInto
  <2> QED BY <1>4, <2>1 DEF add_magnet, core, Quiet, MovesInto
<1>5. CASE add_document(h, u, m)
  BY <1>5, AddTorrentQuiet DEF add_document
<1>6. CASE add_url(h, u, m)
  <2>1. MovesInto(u, {"IDLE"}) /\ out'.saved = {}
    BY <1>6, AddMoves, ReplyAndReturnMoves, ReturnMoves
    DEF add_url, Added, Silence, MovesInto
  <2> QED BY <1>6, <2>1 DEF add_url, core, Quiet, MovesInto
<1> QED BY <1>1, <1>2, <1>3, <1>4, <1>5, <1>6 DEF AddConversation

LEMMA FindMagnetQuiet ==
  ASSUME NEW u \in Users, NEW m \in Inputs, find_magnet(u, m) \/ no_effect(u, m)
  PROVE  Quiet(u)
<1>1. out'.saved = {}
  <2>1. CASE out' = Silence \/ Reply("no_magnet_found")
    BY <2>1 DEF Reply, Silence
  <2>2. CASE out' = Added(NoOptions, None)
    BY <2>2 DEF Added, Silence
  <2> QED BY <2>1, <2>2 DEF find_magnet, no_effect
<1> QED BY <1>1 DEF find_magnet, no_effect, Quiet, MovesInto

LEMMA CancelResets ==
  ASSUME TypeOK, NEW h \in Handlers, NEW u \in Users, cancel(h, u)
  PROVE  Reset(u) \/ Quiet(u)
<1> "IDLE" \in States
  BY DEF States
<1>1. CASE Reply("cancelled") /\ Return(h, u, "IDLE") /\ is_rss' = FALSE
  BY <1>1, ReturnMoves DEF Reply, Silence, Reset, MovesInto
<1>2. CASE ReturnNone /\ UNCHANGED core
  BY <1>2 DEF ReturnNone, Silence, core, Quiet, MovesInto
<1> QED BY <1>1, <1>2 DEF cancel

LEMMA EntryResets ==
  ASSUME TypeOK, NEW u \in Users, add(u) \/ add_paused(u)
  PROVE  Reset(u)
<1> /\ {"add", "paused"} \subseteq Handlers
    /\ "CATEGORY" \in States /\ "which_cat" \in Replies
  BY DEF Handlers, Convs, States, AddStates, Replies
<1>1. MovesInto(u, {"CATEGORY"}) /\ out'.saved = {}
  BY ReplyAndReturnMoves DEF add, add_paused, prepare_categories
<1> QED BY <1>1 DEF add, add_paused, Reset, MovesInto

(* Any number of chats: whose conversations a callback moves. *)

LEMMA CategoryMoves ==
  ASSUME TypeOK, NEW h \in Convs, NEW u \in Users, NEW m \in Inputs,
         category(h, u, m), is_rss
  PROVE  MovesInto(u, States)
<1> "IDLE" \in States /\ h \in Handlers
  BY DEF States, Handlers
<1>1. rss_apply(h, u, opts')
  BY DEF category
<1>2. CASE ReturnNone
  BY <1>2 DEF ReturnNone, MovesInto
<1>3. CASE addRss(h, u, yarss_data')
  BY <1>3, ReturnMoves DEF addRss, MovesInto
<1> QED BY <1>1, <1>2, <1>3 DEF rss_apply

LEMMA RssMoves ==
  ASSUME TypeOK, NEW u \in Users, NEW m \in Inputs,
         cmd_add_rss(u) \/ RssAction(u, m)
  PROVE  MovesInto(u, States)
<1> "rss" \in Handlers /\ RssStates \union {"IDLE"} \subseteq States
  BY DEF Handlers, Convs, States
<1> {"which_rss_feed", "no_rss_found", "which_regex", "no_regex", "file_name",
     "no_name", "which_cat"} \subseteq Replies
  BY DEF Replies
<1>1. CASE ReturnNone
  BY <1>1 DEF ReturnNone, MovesInto
<1>2. ASSUME NEW r \in Replies, NEW s \in RssStates \union {"IDLE"},
             ReplyAndReturn("rss", u, r, s)
      PROVE  MovesInto(u, States)
  BY <1>2, ReplyAndReturnMoves DEF MovesInto
<1>3. CASE Return("rss", u, "IDLE")
  BY <1>3, ReturnMoves DEF MovesInto
<1> {"RSS_FEED", "REGEX", "FILE_NAME", "CATEGORY"} \subseteq RssStates
  BY DEF RssStates
<1>4. CASE cmd_add_rss(u)
  BY <1>1, <1>2, <1>3, <1>4
  DEF cmd_add_rss, add_rss, prepare_rss_feed, rss_not_available
<1>5. CASE rss_feed(u, m)
  BY <1>1, <1>2, <1>5 DEF rss_feed
<1>6. CASE regex(u, m)
  BY <1>1, <1>2, <1>6 DEF regex
<1>7. CASE rss_file_name(u, m)
  BY <1>2, <1>7 DEF rss_file_name, prepare_categories
<1> QED BY <1>4, <1>5, <1>6, <1>7 DEF RssAction

\* A callback moves no conversation but those of its own chat
LEMMA CallbackMoves ==
  ASSUME TypeOK, NEW u \in Users, NEW m \in Inputs, Callback(u, m)
  PROVE  MovesInto(u, States)
<1>1. Quiet(u) \/ Reset(u) => MovesInto(u, States)
  BY DEF Quiet, Reset, MovesInto, States, RssStates
<1>2. CASE add(u) \/ add_paused(u)
  BY <1>1, <1>2, EntryResets
<1>3. CASE cmd_add_rss(u) \/ RssAction(u, m)
  BY <1>3, RssMoves
<1>4. ASSUME NEW h \in Convs, AddConversation(h, u, m)
      PROVE  MovesInto(u, States)
  BY <1>1, <1>4, CategoryMoves, AddConversationQuiet DEF TypeOK
<1>5. ASSUME NEW h \in Handlers, cancel(h, u)
      PROVE  MovesInto(u, States)
  BY <1>1, <1>5, CancelResets
<1>6. CASE find_magnet(u, m) \/ no_effect(u, m)
  BY <1>1, <1>6, FindMagnetQuiet
<1>7. CASE send_document(u, m)
  BY <1>1, <1>7, AddTorrentQuiet DEF send_document, Handlers
<1>8. ASSUME NEW h \in Convs, fallback_cancel(h, u, m)
      PROVE  MovesInto(u, States)
  BY <1>5, <1>8 DEF fallback_cancel, Handlers
<1>9. CASE command_cancel(u, m)
  BY <1>5, <1>9 DEF command_cancel, Handlers
<1> QED
  BY <1>2, <1>3, <1>4, <1>6, <1>7, <1>8, <1>9 DEF Callback, RssAction

\* Between a disable() and the next enable() everybody is a stranger
WInv == TypeOK /\ (~enabled => whitelist = {}) /\ OnlyWhitelistedConverse

(***************************************************************************)
(* However many chats the whitelists hold, and whatever the chats send     *)
(* around a restart: only chats of the whitelist in force are in a         *)
(* conversation.                                                           *)
(***************************************************************************)
THEOREM WhitelistRespected == Spec => []OnlyWhitelistedConverse
<1>1. Init => WInv
  BY BlankType, SilenceType DEF Init, TypeOK, WInv, OnlyWhitelistedConverse
<1>2. TypeOK /\ WInv /\ [Next]_vars /\ TypeOK' => WInv'
  <2> SUFFICES ASSUME TypeOK, TypeOK', WInv, [Next]_vars PROVE WInv'
    OBVIOUS
  <2>1. ASSUME NEW u \in Users, NEW m \in Inputs, process_update(u, m) PROVE WInv'
    <3>1. UNCHANGED admin /\ (u \notin whitelist => UNCHANGED conv)
      BY <2>1 DEF process_update
    <3>2. u \in whitelist => MovesInto(u, States)
      BY <2>1, CallbackMoves DEF process_update
    <3> QED
      BY <3>1, <3>2 DEF WInv, admin, OnlyWhitelistedConverse, MovesInto
  <2>2. ASSUME NEW W \in Whitelists, enable(W) PROVE WInv'
    BY <2>2 DEF enable, WInv, OnlyWhitelistedConverse
  <2>3. CASE disable
    BY <2>3 DEF disable, WInv, OnlyWhitelistedConverse
  <2>4. CASE UNCHANGED vars
    BY <2>4 DEF vars, WInv, OnlyWhitelistedConverse
  <2> QED BY <2>1, <2>2, <2>3, <2>4 DEF Next
<1>3. WInv => OnlyWhitelistedConverse
  BY DEF WInv
<1> QED BY <1>1, <1>2, <1>3, TypeCorrect, PTL DEF Spec

(* The steps of /rss. *)

MovesRss(u, S) ==
  \A h \in Convs, v \in Users :
    conv'[h][v] = conv[h][v] \/ (h = "rss" /\ v = u /\ conv'[h][v] \in S)

LEMMA RssReturnMoves ==
  ASSUME TypeOK, NEW u \in Users, NEW s \in States,
         \/ Return("rss", u, s)
         \/ \E r \in Replies : ReplyAndReturn("rss", u, r, s)
         \/ ReturnNone
  PROVE  MovesRss(u, {s})
BY DEF TypeOK, Return, ReplyAndReturn, ReturnNone, States, MovesRss

\* The answers that lead to the state s of /rss, for one chat
Answered(u) ==
  is_rss =>
    /\ conv["rss"][u] \in {"REGEX", "FILE_NAME", "CATEGORY"} => yarss_data.rssfeed_key # None
    /\ conv["rss"][u] \in {"FILE_NAME", "CATEGORY"} => yarss_data.template \in NamedTemplates
    /\ conv["rss"][u] = "CATEGORY" => yarss_data.keyword # None

LEMMA SoleConverser ==
  ASSUME SoleOwner, IInv, NEW u \in whitelist
  PROVE  /\ enabled /\ u \in Users /\ Answered(u)
         /\ \A h \in Convs, v \in Users : v # u => conv[h][v] = "IDLE"
<1>1. enabled /\ u \in Users
  BY DEF IInv, TypeOK
<1>2. \A v \in whitelist : v = u
  BY <1>1 DEF SoleOwner, IInv
<1> QED
  BY <1>1, <1>2 DEF IInv, OnlyWhitelistedConverse, RssAnswered, Answered

\* A step of /rss keeps the invariant if it keeps it for its own chat
LEMMA RssKeeps ==
  ASSUME SoleOwner, IInv, TypeOK', NEW u \in whitelist, UNCHANGED admin,
         conv["add"][u] # "CATEGORY", conv["paused"][u] # "CATEGORY",
         MovesRss(u, States), Answered(u)', SubscriptionComplete'
  PROVE  IInv'
<1> USE SoleConverser DEF MovesRss, admin
<1>1. OnlyWhitelistedConverse'
  BY DEF IInv, OnlyWhitelistedConverse
<1>2. AddIsNotRss'
  <2>1. \A h \in {"add", "paused"}, v \in Users : conv'[h][v] # "CATEGORY"
    BY DEF Convs
  <2> QED BY <2>1 DEF AddIsNotRss
<1>3. RssAnswered'
  <2>1. \A v \in Users : v # u => conv'["rss"][v] = "IDLE"
    BY DEF Convs
  <2> QED BY <2>1 DEF RssAnswered, Answered
<1> QED BY <1>1, <1>2, <1>3 DEF IInv

\* /rss begins
LEMMA RssEntryKeeps ==
  ASSUME SoleOwner, IInv, TypeOK', NEW u \in whitelist, cmd_add_rss(u),
         UNCHANGED admin
  PROVE  IInv'
<1> u \in Users /\ TypeOK /\ "rss" \in Handlers
  BY DEF IInv, TypeOK, Handlers, Convs
<1> /\ {"RSS_FEED", "IDLE"} \subseteq States
    /\ {"which_rss_feed", "no_rss_found", "norss"} \subseteq Replies
  BY DEF States, RssStates, Replies
<1>1. CASE rss_not_available(u)
  <2>1. CASE Reply("norss") /\ Return("rss", u, "IDLE") /\ is_rss' = FALSE
    <3>1. Reset(u)
      BY <2>1, ReturnMoves DEF Reply, Silence, Reset, MovesInto
    <3> QED BY <3>1, ResetKeeps
  <2>2. CASE ReturnNone /\ UNCHANGED <<is_rss, yarss_data>>
    <3>1. Quiet(u)
      BY <2>2 DEF ReturnNone, Silence, Quiet, MovesInto
    <3> QED BY <3>1, QuietKeeps
  <2> QED BY <1>1, <2>1, <2>2 DEF rss_not_available
<1>2. CASE add_rss(u)
  <2>1. conv["add"][u] # "CATEGORY" /\ conv["paused"][u] # "CATEGORY"
    BY RssIsNotShadowed
    DEF cmd_add_rss, Entry, Documents, Handles, Earlier, check_update, Answers,
        StatesOf, AddStates, Takes
  <2>2. conv["rss"][u] = "IDLE"
    BY DEF cmd_add_rss, Entry
  <2>3. MovesRss(u, {"RSS_FEED", "IDLE"}) /\ out'.saved = {}
    <3>1. CASE prepare_rss_feed(u)
      <4>1. PICK s \in {"RSS_FEED", "IDLE"}, r \in Replies : ReplyAndReturn("rss", u, r, s)
        BY <3>1 DEF prepare_rss_feed
      <4>2. MovesRss(u, {s}) /\ out'.saved = {}
        BY <4>1, RssReturnMoves, ReplyAndReturnMoves
      <4> QED BY <4>2 DEF MovesRss
    <3>2. CASE ReturnNone
      BY <3>2 DEF ReturnNone, Silence, MovesRss
    <3> QED BY <1>2, <3>1, <3>2 DEF add_rss
  <2>4. Answered(u)'
    BY <2>2, <2>3 DEF MovesRss, Answered, Convs
  <2>5. SubscriptionComplete' /\ MovesRss(u, States)
    BY <2>3 DEF SubscriptionComplete, MovesRss
  <2> QED BY <2>1, <2>4, <2>5, RssKeeps
<1> QED BY <1>1, <1>2 DEF cmd_add_rss

\* A feed is picked, a template, a keyword
LEMMA RssActionKeeps ==
  ASSUME SoleOwner, IInv, TypeOK', NEW u \in whitelist, NEW m \in Inputs,
         RssAction(u, m), UNCHANGED admin
  PROVE  IInv'
<1>0. u \in Users /\ TypeOK /\ Answered(u) /\ "rss" \in Convs
  BY SoleConverser DEF IInv, Convs
<1> {"REGEX", "FILE_NAME", "CATEGORY", "IDLE"} \subseteq States
  BY DEF States, RssStates
<1> {"which_regex", "no_regex", "file_name", "no_name", "which_cat"} \subseteq Replies
  BY DEF Replies
<1>1. conv["add"][u] # "CATEGORY" /\ conv["paused"][u] # "CATEGORY"
  BY <1>0, RssTakesTexts, RssIsNotShadowed DEF RssAction, rss_feed, regex, rss_file_name
<1>2. /\ MovesRss(u, {"REGEX", "FILE_NAME", "CATEGORY", "IDLE"})
      /\ out'.saved = {} /\ Answered(u)'
  <2>1. CASE rss_feed(u, m)
    <3>0. conv["rss"][u] = "RSS_FEED"
      BY <2>1 DEF rss_feed, InState
    <3>1. CASE /\ m \in Feeds
                /\ yarss_data' = [yarss_data EXCEPT !.rssfeed_key = m]
                /\ \E s \in {"REGEX", "IDLE"}, r \in Replies :
                     ReplyAndReturn("rss", u, r, s)
      <4>1. PICK s \in {"REGEX", "IDLE"}, r \in Replies : ReplyAndReturn("rss", u, r, s)
        BY <3>1
      <4>2. MovesRss(u, {s}) /\ out'.saved = {}
        BY <4>1, <1>0, RssReturnMoves, ReplyAndReturnMoves DEF Handlers
      <4>3. yarss_data'.rssfeed_key # None
        BY <3>1, <1>0, NoneAssumption DEF TypeOK, Subscriptions
      <4> QED BY <1>0, <3>0, <4>2, <4>3 DEF MovesRss, Answered
    <3>2. CASE ReturnNone /\ UNCHANGED yarss_data
      BY <2>1, <3>0, <3>2, <1>0 DEF rss_feed, ReturnNone, Silence, MovesRss, Answered
    <3> QED BY <2>1, <3>1, <3>2 DEF rss_feed
  <2>2. CASE regex(u, m)
    <3>0. conv["rss"][u] = "REGEX" /\ is_rss' = is_rss
      BY <2>2 DEF regex, InState
    <3>1. CASE m \in NamedTemplates
      <4>1. ReplyAndReturn("rss", u, "file_name", "FILE_NAME")
        BY <2>2, <3>1, TemplatesAssumption DEF regex
      <4>2. MovesRss(u, {"FILE_NAME"}) /\ out'.saved = {}
        BY <4>1, <1>0, RssReturnMoves, ReplyAndReturnMoves DEF Handlers
      <4>3. yarss_data' = [yarss_data EXCEPT !.template = m, !.keyword = None]
        BY <2>2, <3>1, TemplatesAssumption DEF regex
      <4>4. yarss_data'.template = m /\ yarss_data'.rssfeed_key = yarss_data.rssfeed_key
        BY <4>3, <1>0 DEF TypeOK, Subscriptions
      <4> QED BY <1>0, <3>0, <3>1, <4>2, <4>4 DEF MovesRss, Answered
    <3>2. CASE m \notin NamedTemplates
      <4>1. MovesRss(u, {"REGEX"}) /\ out'.saved = {} /\ yarss_data' = yarss_data
        <5>1. CASE ReplyAndReturn("rss", u, "no_name", "REGEX")
          BY <2>2, <3>2, <5>1, <1>0, RssReturnMoves, ReplyAndReturnMoves DEF regex, Handlers
        <5>2. CASE ReturnNone
          BY <2>2, <3>2, <5>2 DEF regex, ReturnNone, Silence, MovesRss
        <5> QED BY <2>2, <3>2, <5>1, <5>2 DEF regex
      <4> QED BY <1>0, <3>0, <4>1 DEF MovesRss, Answered
    <3> QED BY <3>1, <3>2
  <2>3. CASE rss_file_name(u, m)
    <3>0. conv["rss"][u] = "FILE_NAME" /\ is_rss' = is_rss
      BY <2>3 DEF rss_file_name, InState
    <3>1. MovesRss(u, {"CATEGORY"}) /\ out'.saved = {}
      BY <2>3, <1>0, RssReturnMoves, ReplyAndReturnMoves
      DEF rss_file_name, prepare_categories, Handlers
    <3>2. /\ yarss_data'.rssfeed_key = yarss_data.rssfeed_key
          /\ yarss_data'.template = yarss_data.template
          /\ yarss_data.template # None => yarss_data'.keyword # None
      BY <2>3, <1>0, NoneAssumption DEF rss_file_name, TypeOK, Subscriptions
    <3> QED
      BY <1>0, <3>0, <3>1, <3>2, TemplatesAssumption, NoneAssumption DEF MovesRss, Answered
  <2> QED BY <2>1, <2>2, <2>3 DEF RssAction
<1>3. MovesRss(u, States) /\ SubscriptionComplete'
  BY <1>2 DEF MovesRss, SubscriptionComplete
<1> QED BY <1>1, <1>2, <1>3, RssKeeps

\* The choice of a directory that ends /rss saves what has been answered
LEMMA ApplyKeeps ==
  ASSUME SoleOwner, IInv, TypeOK', NEW u \in whitelist, NEW m \in Inputs,
         NEW h \in Convs, category(h, u, m), is_rss, UNCHANGED admin
  PROVE  IInv'
<1>1. u \in Users /\ TypeOK /\ Answered(u) /\ conv[h][u] = "CATEGORY"
  BY SoleConverser DEF IInv, category, InState
<1>2. h = "rss"
  BY <1>1, SoleConverser DEF IInv, AddIsNotRss, Convs
<1>3. conv["add"][u] # "CATEGORY" /\ conv["paused"][u] # "CATEGORY"
  BY <1>1, SoleConverser DEF IInv, AddIsNotRss
<1>4. /\ yarss_data'.rssfeed_key = yarss_data.rssfeed_key
      /\ yarss_data'.template = yarss_data.template
      /\ yarss_data'.keyword = yarss_data.keyword
      /\ is_rss' = is_rss
  BY <1>1 DEF category, rss_apply, TypeOK, Subscriptions
<1>5. MovesRss(u, {"IDLE"}) /\ out'.saved \subseteq {yarss_data'}
  <2> "IDLE" \in States
    BY DEF States
  <2>1. rss_apply("rss", u, opts')
    BY <1>2 DEF category
  <2>2. CASE ReturnNone
    BY <2>2 DEF ReturnNone, Silence, MovesRss
  <2>3. CASE addRss("rss", u, yarss_data')
    <3>1. out'.saved \subseteq {yarss_data'}
      <4>1. CASE out' = [Silence EXCEPT !.reply = "added_rss", !.saved = {yarss_data'}]
        BY <4>1 DEF Silence
      <4>2. CASE out' = [Silence EXCEPT !.saved = {yarss_data'}]
        BY <4>2 DEF Silence
      <4>3. CASE out' = Silence
        BY <4>3 DEF Silence
      <4> QED BY <2>3, <4>1, <4>2, <4>3 DEF addRss
    <3>2. MovesRss(u, {"IDLE"})
      BY <2>3, <1>1, RssReturnMoves DEF addRss, MovesRss
    <3> QED BY <3>1, <3>2
  <2> QED BY <2>1, <2>2, <2>3 DEF rss_apply
<1>6. Answered(u)'
  BY <1>1, <1>2, <1>4 DEF Answered
<1>7. SubscriptionComplete' /\ MovesRss(u, States)
  BY <1>1, <1>2, <1>4, <1>5 DEF SubscriptionComplete, Answered, MovesRss, States
<1> QED BY <1>3, <1>6, <1>7, RssKeeps

\* Every update keeps the invariant
LEMMA UpdateKeeps ==
  ASSUME SoleOwner, IInv, NEW u \in Users, NEW m \in Inputs, process_update(u, m)
  PROVE  IInv'
<1>1. TypeOK /\ TypeOK' /\ UNCHANGED admin
  BY UpdateType DEF IInv, process_update
<1>2. CASE u \notin whitelist
  BY <1>1, <1>2
  DEF IInv, process_update, core, admin, Silence, OnlyWhitelistedConverse,
      AddIsNotRss, RssAnswered, SubscriptionComplete
<1>3. CASE u \in whitelist /\ Callback(u, m)
  <2>1. CASE add(u) \/ add_paused(u)
    BY <1>1, <1>3, <2>1, EntryResets, ResetKeeps
  <2>2. CASE cmd_add_rss(u)
    BY <1>1, <1>3, <2>2, RssEntryKeeps
  <2>3. ASSUME NEW h \in Convs, AddConversation(h, u, m) PROVE IInv'
    <3>1. CASE category(h, u, m) /\ is_rss
      BY <1>1, <1>3, <3>1, ApplyKeeps
    <3>2. CASE ~category(h, u, m) \/ ~is_rss
      BY <1>1, <1>3, <2>3, <3>2, AddConversationQuiet, QuietKeeps
    <3> QED BY <1>1, <3>1, <3>2 DEF TypeOK
  <2>4. ASSUME NEW h \in Handlers, cancel(h, u) PROVE IInv'
    BY <1>1, <1>3, <2>4, CancelResets, ResetKeeps, QuietKeeps
  <2>5. CASE RssAction(u, m)
    BY <1>1, <1>3, <2>5, RssActionKeeps
  <2>6. CASE find_magnet(u, m) \/ no_effect(u, m)
    BY <1>1, <1>3, <2>6, FindMagnetQuiet, QuietKeeps
  <2>7. CASE send_document(u, m)
    BY <1>1, <1>3, <2>7, AddTorrentQuiet, QuietKeeps DEF send_document, Handlers
  <2>8. ASSUME NEW h \in Convs, fallback_cancel(h, u, m) PROVE IInv'
    BY <2>4, <2>8 DEF fallback_cancel, Handlers
  <2>9. CASE command_cancel(u, m)
    BY <2>4, <2>9 DEF command_cancel, Handlers
  <2> QED
    BY <1>3, <2>1, <2>2, <2>3, <2>5, <2>6, <2>7, <2>8, <2>9 DEF Callback, RssAction
<1> QED BY <1>2, <1>3 DEF process_update

\* One chat at a time in the whitelist: the invariant is inductive
LEMMA SoleOwnerInvariant ==
  ASSUME SoleOwner
  PROVE  Spec => []IInv
<1>1. Init => IInv
  <2> SUFFICES ASSUME Init PROVE IInv
    OBVIOUS
  <2>1. TypeOK
    BY BlankType, SilenceType DEF Init, TypeOK
  <2>2. ~enabled /\ whitelist = {} /\ out.saved = {}
    BY DEF Init, Silence
  <2> QED
    BY <2>1, <2>2
    DEF IInv, OnlyWhitelistedConverse, AddIsNotRss, RssAnswered, SubscriptionComplete
<1>2. IInv /\ [Next]_vars => IInv'
  <2> SUFFICES ASSUME IInv, [Next]_vars PROVE IInv'
    OBVIOUS
  <2>1. ASSUME NEW u \in Users, NEW m \in Inputs, process_update(u, m) PROVE IInv'
    BY <2>1, UpdateKeeps
  <2>2. ASSUME NEW W \in Whitelists, enable(W) PROVE IInv'
    <3>1. TypeOK'
      BY <2>2, SilenceType, WhitelistsAssumption DEF enable, TypeOK, IInv
    <3>2. \A h \in Convs, u \in Users : conv'[h][u] = "IDLE"
      BY <2>2 DEF enable
    <3> QED
      BY <2>2, <3>1, <3>2
      DEF enable, IInv, Convs, Silence, OnlyWhitelistedConverse, AddIsNotRss,
          RssAnswered, SubscriptionComplete
  <2>3. CASE disable
    <3>1. TypeOK'
      BY <2>3, SilenceType DEF disable, core, TypeOK, IInv
    <3> QED
      BY <2>3, <3>1
      DEF disable, IInv, Silence, OnlyWhitelistedConverse, AddIsNotRss,
          RssAnswered, SubscriptionComplete
  <2>4. CASE UNCHANGED vars
    BY <2>4
    DEF vars, IInv, TypeOK, OnlyWhitelistedConverse, AddIsNotRss, RssAnswered,
        SubscriptionComplete
  <2> QED BY <2>1, <2>2, <2>3, <2>4 DEF Next
<1> QED BY <1>1, <1>2, PTL DEF Spec

(***************************************************************************)
(* If no whitelist holds two chats: what /add and /addpaused ask is never  *)
(* answered by saving an RSS subscription.                                 *)
(***************************************************************************)
THEOREM AddNeverRss ==
  ASSUME SoleOwner
  PROVE  Spec => []AddIsNotRss
<1>1. IInv => AddIsNotRss
  BY DEF IInv
<1> QED BY <1>1, SoleOwnerInvariant, PTL

(***************************************************************************)
(* If no whitelist holds two chats: every subscription handed to YaRSS2    *)
(* has its feed, its template and its keyword.                             *)
(***************************************************************************)
THEOREM SubscriptionsComplete ==
  ASSUME SoleOwner
  PROVE  Spec => []SubscriptionComplete
<1>1. IInv => SubscriptionComplete
  BY DEF IInv
<1> QED BY <1>1, SoleOwnerInvariant, PTL

============================================================================
