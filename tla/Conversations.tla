--------------------------- MODULE Conversations ---------------------------
(***************************************************************************)
(* The chat side of the Telegramer plugin: what the bot does with one      *)
(* update after the other.  Three ConversationHandlers and a few global    *)
(* handlers are tried in a fixed order; their callbacks are methods of ONE *)
(* Core object, so the answers of all chats meet in the same attributes    *)
(* (opts, label, is_rss, yarss_data).                                      *)
(*                                                                         *)
(* The dispatcher handles updates one at a time, so each action is one     *)
(* whole callback, its possible exceptions included.  Exceptions that the  *)
(* callback catches (it then returns None) and exceptions that reach the   *)
(* dispatcher have the same effect on the conversation: it stays where it  *)
(* was.                                                                    *)
(*                                                                         *)
(* A definition marked "Faulty" is a variant of the next one with a bug a  *)
(* programmer could have left there.  No action uses it: put in the place  *)
(* of the next definition, it has to violate a property.                   *)
(***************************************************************************)
EXTENDS Naturals, FiniteSets

CONSTANTS
  Users,          \* chats, the keys of ConversationHandler.conversations
  Whitelists,     \* the whitelists an enable() may install
  Inputs,         \* the texts and documents the chats send
  Categories,     \* names of self.config["categories"]
  QuotedDirs,     \* texts in double quotes, taken as a directory
  Paths,          \* directories
  DirOf,          \* the directory of each category and quoted text
  Feeds,          \* names of the RSS feeds configured in YaRSS2
  Templates,      \* names of self.config["regex_exp"]
  NamedTemplates, \* those whose expression contains NAME
  MayFail,        \* the calls that may raise in this instance
  None            \* Python's None and the empty string

ASSUME WhitelistsAssumption == Whitelists \subseteq SUBSET Users
ASSUME DirOfAssumption == DirOf \in [Categories \union QuotedDirs -> Paths]
ASSUME NoneAssumption == None \notin Paths \union Inputs \union Feeds \union Templates
ASSUME TemplatesAssumption == NamedTemplates \subseteq Templates
ASSUME MayFailAssumption ==
  MayFail \subseteq {"reply", "mkdir", "label", "deluge", "fetch",
                     "rss", "norss", "nofeeds"}

VARIABLES
  conv,       \* conversations of conv_handler, conv_handler_paused, conv_handler_rss
  opts,       \* Core.opts
  label,      \* Core.label
  is_rss,     \* Core.is_rss
  yarss_data, \* Core.yarss_data.subscription_data
  whitelist,  \* Core.whitelist
  enabled,    \* between an enable() and the next disable()
  out         \* what the last update made the bot do

core == <<opts, label, is_rss, yarss_data>>
admin == <<whitelist, enabled>>
vars == <<conv, opts, label, is_rss, yarss_data, whitelist, enabled, out>>

(* ------------------------------------------------------------ Messages *)

Documents == {"torrent file", "other file"}

\* Texts that hold "magnet:?": what re.findall finds in them and is_magnet says
MagnetTexts == {"magnet link", "text with a magnet", "broken magnet",
                "two magnets", "bare magnet"}
IsMagnet == {"magnet link", "two magnets"}         \* is_magnet(text)
OneMatch == {"magnet link", "text with a magnet", "broken magnet"}
MatchIsMagnet == {"magnet link", "text with a magnet"}
IsUrl == {"http link"}

(* --------------------------------------------------------------- State *)

Convs == {"add", "paused", "rss"}
AddStates == {"CATEGORY", "SET_LABEL", "TORRENT_TYPE",
              "ADD_MAGNET", "ADD_TORRENT", "ADD_URL"}
RssStates == {"RSS_FEED", "REGEX", "FILE_NAME", "CATEGORY"}
StatesOf == [add |-> AddStates, paused |-> AddStates, rss |-> RssStates]
EntryPoint == [add |-> "/add", paused |-> "/addpaused", rss |-> "/rss"]

Options == [addpaused : BOOLEAN, move_completed_path : Paths \union {None}]
NoOptions == [addpaused |-> FALSE, move_completed_path |-> None]

\* regex_include is kept as the template chosen and what replaced its NAME
Subscriptions ==
  [name : Inputs \union {None}, label : Inputs \union {None},
   rssfeed_key : Feeds \union {None}, template : Templates \union {None},
   keyword : Inputs \union {None}, download_location : Paths \union {None}]
Blank == [name |-> None, label |-> None, rssfeed_key |-> None,
          template |-> None, keyword |-> None, download_location |-> None]

Torrents == [options : Options, label : Inputs \union {None}]
Replies == {"none", "cancelled", "which_cat", "which_label", "what_kind",
            "send_magnet", "send_file", "send_url", "error", "not_magnet",
            "no_magnet_found", "not_file", "not_url", "download_fail",
            "norss", "which_rss_feed", "no_rss_found", "which_regex",
            "no_regex", "no_name", "file_name", "added_rss"}
\* At most one torrent is handed to Deluge and one subscription to YaRSS2
Outputs == [reply : Replies,
            added : {{}} \union {{t} : t \in Torrents},
            saved : {{}} \union {{s} : s \in Subscriptions}]
Silence == [reply |-> "none", added |-> {}, saved |-> {}]

Init ==
  /\ conv = [h \in Convs |-> [u \in Users |-> "IDLE"]]
  /\ opts = NoOptions
  /\ label = None
  /\ is_rss = FALSE
  /\ yarss_data = Blank
  /\ whitelist = {}
  /\ enabled = FALSE
  /\ out = Silence

(* ------------------------------------------------------------- Routing *)

\* Filters.text, which lets commands through, and Filters.document
Takes(s, m) == (s = "ADD_TORRENT") <=> (m \in Documents)

Answers(h, u, m) == conv[h][u] \in StatesOf[h] /\ Takes(conv[h][u], m)

\* Faulty: the conversations are given no fallback
check_without_fallback(h, u, m) ==
  \/ conv[h][u] = "IDLE" /\ m = EntryPoint[h]
  \/ Answers(h, u, m)

check_update(h, u, m) ==
  \/ conv[h][u] = "IDLE" /\ m = EntryPoint[h]
  \/ Answers(h, u, m)
  \/ conv[h][u] # "IDLE" /\ m = "/cancel"

\* The handlers of the group are tried in the order they were added
Earlier == [add |-> {}, paused |-> {"add"}, rss |-> {"add", "paused"}]
Handles(h, u, m) ==
  /\ check_update(h, u, m)
  /\ \A g \in Earlier[h] : ~check_update(g, u, m)
NoConversation(u, m) == \A h \in Convs : ~check_update(h, u, m)

Entry(h, u, m) == Handles(h, u, m) /\ conv[h][u] = "IDLE"
InState(h, u, m, s) ==
  Handles(h, u, m) /\ Answers(h, u, m) /\ conv[h][u] = s
Fallback(h, u, m) ==
  Handles(h, u, m) /\ conv[h][u] # "IDLE" /\ ~Answers(h, u, m)

(* ---------------------------------------------------- Return and reply *)

\* The state a callback returns; "IDLE" is ConversationHandler.END
Return(h, u, s) ==
  conv' = IF h \in Convs THEN [conv EXCEPT ![h][u] = s] ELSE conv
\* The callback returned None or raised
ReturnNone == conv' = conv /\ out' = Silence

Reply(r) == out' = [Silence EXCEPT !.reply = r]

\* reply_text, then return s; the reply may raise
ReplyAndReturn(h, u, r, s) ==
  \/ Reply(r) /\ Return(h, u, s)
  \/ "reply" \in MayFail /\ ReturnNone

(* -------------------------------------------------------- Entry points *)

prepare_categories(h, u) == ReplyAndReturn(h, u, "which_cat", "CATEGORY")

\* Faulty: the RSS flag of an earlier conversation survives
add_keeping_is_rss(u) ==
  /\ Entry("add", u, "/add")
  /\ opts' = NoOptions
  /\ prepare_categories("add", u)
  /\ UNCHANGED <<label, is_rss, yarss_data>>

\* Faulty: the options of an earlier conversation survive
add_keeping_opts(u) ==
  /\ Entry("add", u, "/add")
  /\ is_rss' = FALSE
  /\ prepare_categories("add", u)
  /\ UNCHANGED <<opts, label, yarss_data>>

add(u) ==
  /\ Entry("add", u, "/add")
  /\ opts' = NoOptions
  /\ is_rss' = FALSE
  /\ prepare_categories("add", u)
  /\ UNCHANGED <<label, yarss_data>>

add_paused(u) ==
  /\ Entry("paused", u, "/addpaused")
  /\ opts' = [NoOptions EXCEPT !.addpaused = TRUE]
  /\ is_rss' = FALSE
  /\ prepare_categories("paused", u)
  /\ UNCHANGED <<label, yarss_data>>

\* YaRSS2 is not among the available plugins
rss_not_available(u) ==
  \/ /\ Reply("norss") /\ Return("rss", u, "IDLE")
     /\ is_rss' = FALSE
     /\ yarss_data' = Blank
  \/ "reply" \in MayFail /\ ReturnNone /\ UNCHANGED <<is_rss, yarss_data>>

\* The feeds are YaRSS2's: whoever uses it may have deleted them all
prepare_rss_feed(u) ==
  \/ Feeds # {} /\ ReplyAndReturn("rss", u, "which_rss_feed", "RSS_FEED")
  \/ /\ Feeds = {} \/ "nofeeds" \in MayFail
     /\ ReplyAndReturn("rss", u, "no_rss_found", "IDLE")

\* YaRSS2 may raise before or after is_rss is set
add_rss(u) ==
  /\ \/ is_rss' = TRUE /\ prepare_rss_feed(u)
     \/ "rss" \in MayFail /\ ReturnNone /\ is_rss' \in {is_rss, TRUE}
  /\ UNCHANGED yarss_data

cmd_add_rss(u) ==
  /\ Entry("rss", u, "/rss")
  /\ add_rss(u) \/ ("norss" \in MayFail /\ rss_not_available(u))
  /\ UNCHANGED <<opts, label>>

(* ------------------------------------------------- Choosing a directory *)

\* Faulty: the answer itself is stored, not the directory it names
TextAsPath(m) ==
  IF m \in Categories \union QuotedDirs THEN {m} ELSE {opts.move_completed_path}

\* What opts["move_completed_path"] may be after the answer m: a directory in
\* quotes is created first, any other text leaves opts as they are
ChosenPaths(m) ==
  LET named == m # "Use Default Settings" /\ m \in Categories \union QuotedDirs
      kept == opts.move_completed_path
  IN  (IF named THEN {DirOf[m]} ELSE {kept})
        \union (IF m \notin Categories /\ "mkdir" \in MayFail THEN {kept} ELSE {})

\* Faulty: the callback forgets to end the conversation
addRss_forgetting(h, u, sub) ==
  out' = [Silence EXCEPT !.reply = "added_rss", !.saved = {sub}] /\ UNCHANGED conv

\* YaRSS2 keeps the subscription, then the confirmation may raise; or YaRSS2
\* raises, addRss returns False and the conversation ends without a word
addRss(h, u, sub) ==
  \/ /\ out' = [Silence EXCEPT !.reply = "added_rss", !.saved = {sub}]
     /\ Return(h, u, "IDLE")
  \/ /\ "reply" \in MayFail
     /\ out' = [Silence EXCEPT !.saved = {sub}]
     /\ UNCHANGED conv
  \/ "rss" \in MayFail /\ out' = Silence /\ Return(h, u, "IDLE")

\* Options without a move_completed_path are a KeyError, unless there are none
rss_apply(h, u, o) ==
  IF o.addpaused /\ o.move_completed_path = None
  THEN ReturnNone /\ UNCHANGED yarss_data
  ELSE LET sub == IF o = NoOptions THEN yarss_data
                  ELSE [yarss_data EXCEPT !.download_location = o.move_completed_path]
       IN  yarss_data' = sub /\ addRss(h, u, sub)

category(h, u, m) ==
  /\ InState(h, u, m, "CATEGORY")
  /\ \E p \in ChosenPaths(m) : opts' = [opts EXCEPT !.move_completed_path = p]
  /\ IF is_rss
     THEN rss_apply(h, u, opts') /\ UNCHANGED label
     ELSE /\ label' = None
          /\ ReplyAndReturn(h, u, "which_label", "SET_LABEL")
          /\ UNCHANGED yarss_data
  /\ UNCHANGED is_rss

(* ------------------------------------------------------ Adding torrents *)

prepare_torrent_type(h, u) == ReplyAndReturn(h, u, "what_kind", "TORRENT_TYPE")

set_label(h, u, m) ==
  /\ InState(h, u, m, "SET_LABEL")
  /\ label' = m
  /\ prepare_torrent_type(h, u)
  /\ UNCHANGED <<opts, is_rss, yarss_data>>

torrent_type(h, u, m) ==
  /\ InState(h, u, m, "TORRENT_TYPE")
  /\ \/ m = "Magnet" /\ ReplyAndReturn(h, u, "send_magnet", "ADD_MAGNET")
     \/ m = ".torrent" /\ ReplyAndReturn(h, u, "send_file", "ADD_TORRENT")
     \/ m = "URL" /\ ReplyAndReturn(h, u, "send_url", "ADD_URL")
     \/ /\ m \notin {"Magnet", ".torrent", "URL"}
        /\ ReplyAndReturn(h, u, "error", "IDLE")
  /\ UNCHANGED core

WantsLabel == label \notin {None, "No Label"}
Added(o, l) == [Silence EXCEPT !.added = {[options |-> o, label |-> l]}]

\* apply_label may raise (its except block then does): no label is set
LabelMayFail == WantsLabel /\ "label" \in MayFail
AddAndStay == LabelMayFail /\ out' = Added(opts, None) /\ UNCHANGED conv

\* Deluge takes the torrent, apply_label labels it, the callback ends
AddAndLabel(h, u) ==
  out' = Added(opts, IF WantsLabel THEN label ELSE None) /\ Return(h, u, "IDLE")

add_magnet(h, u, m) ==
  /\ InState(h, u, m, "ADD_MAGNET")
  /\ IF m \in IsMagnet
     THEN \/ AddAndLabel(h, u)
          \/ AddAndStay
          \/ "deluge" \in MayFail /\ ReturnNone
     ELSE ReplyAndReturn(h, u, "not_magnet", "IDLE")
  /\ UNCHANGED core

\* Called in the state ADD_TORRENT, and for any other document
add_torrent(h, u, d) ==
  /\ IF d = "torrent file"
     THEN \/ AddAndLabel(h, u)
          \/ AddAndStay
          \/ MayFail \intersect {"deluge", "fetch"} # {} /\ ReturnNone
          \/ "fetch" \in MayFail /\ ReplyAndReturn(h, u, "download_fail", "IDLE")
     ELSE ReplyAndReturn(h, u, "not_file", "IDLE")
  /\ UNCHANGED core

add_document(h, u, d) == InState(h, u, d, "ADD_TORRENT") /\ add_torrent(h, u, d)

\* The inner except reports every exception, a failed label's too, as a failed
\* download; that reply may raise in turn
add_url(h, u, m) ==
  /\ InState(h, u, m, "ADD_URL")
  /\ IF m \in IsUrl
     THEN \/ AddAndLabel(h, u)
          \/ "reply" \in MayFail /\ AddAndStay
          \/ /\ LabelMayFail
             /\ out' = [Added(opts, None) EXCEPT !.reply = "download_fail"]
             /\ Return(h, u, "IDLE")
          \/ /\ MayFail \intersect {"deluge", "fetch"} # {}
             /\ ReplyAndReturn(h, u, "download_fail", "IDLE")
     ELSE ReplyAndReturn(h, u, "not_url", "IDLE")
  /\ UNCHANGED core

(* ----------------------------------------------------- RSS subscriptions *)

\* Faulty: the text is stored without looking the feed up
rss_feed_unchecked(u, m) ==
  /\ InState("rss", u, m, "RSS_FEED")
  /\ is_rss' = TRUE
  /\ yarss_data' = [yarss_data EXCEPT !.rssfeed_key = m]
  /\ ReplyAndReturn("rss", u, "which_regex", "REGEX")
  /\ UNCHANGED <<opts, label>>

\* A feed that is not there (any more) is a StopIteration; is_rss has been set by then
rss_feed(u, m) ==
  /\ InState("rss", u, m, "RSS_FEED")
  /\ is_rss' = TRUE
  /\ \/ /\ m \in Feeds
        /\ yarss_data' = [yarss_data EXCEPT !.rssfeed_key = m]
        /\ IF Templates # {} THEN ReplyAndReturn("rss", u, "which_regex", "REGEX")
                             ELSE ReplyAndReturn("rss", u, "no_regex", "IDLE")
     \/ /\ m \notin Feeds \/ "nofeeds" \in MayFail
        /\ ReturnNone /\ UNCHANGED yarss_data
  /\ UNCHANGED <<opts, label>>

\* Faulty: a template without a NAME sends the chat back to the feeds
regex_from_the_start(u, m) ==
  /\ InState("rss", u, m, "REGEX")
  /\ \/ /\ m \in NamedTemplates
        /\ yarss_data' = [yarss_data EXCEPT !.template = m, !.keyword = None]
        /\ ReplyAndReturn("rss", u, "file_name", "FILE_NAME")
     \/ /\ m \in Templates \ NamedTemplates
        /\ ReplyAndReturn("rss", u, "no_name", "RSS_FEED")
        /\ UNCHANGED yarss_data
     \/ m \notin Templates /\ ReturnNone /\ UNCHANGED yarss_data
  /\ UNCHANGED <<opts, label, is_rss>>

\* An unknown template is a KeyError
regex(u, m) ==
  /\ InState("rss", u, m, "REGEX")
  /\ \/ /\ m \in NamedTemplates
        /\ yarss_data' = [yarss_data EXCEPT !.template = m, !.keyword = None]
        /\ ReplyAndReturn("rss", u, "file_name", "FILE_NAME")
     \/ /\ m \in Templates \ NamedTemplates
        /\ ReplyAndReturn("rss", u, "no_name", "REGEX")
        /\ UNCHANGED yarss_data
     \/ m \notin Templates /\ ReturnNone /\ UNCHANGED yarss_data
  /\ UNCHANGED <<opts, label, is_rss>>

\* The keyword replaces NAME where the expression still has one; the label is
\* the one the last /add conversation left behind
rss_file_name(u, m) ==
  LET names == yarss_data.template # None /\ yarss_data.keyword = None
  IN  /\ InState("rss", u, m, "FILE_NAME")
      /\ yarss_data' = [yarss_data EXCEPT !.keyword = IF names THEN m ELSE @,
                                          !.label = label, !.name = m]
      /\ prepare_categories("rss", u)
      /\ UNCHANGED <<opts, label, is_rss>>

(* ------------------------------------------------------ Global handlers *)

\* find_magnet and the magnet_only branch of add_magnet
find_magnet(u, m) ==
  /\ NoConversation(u, m)
  /\ m \in MagnetTexts
  /\ \/ /\ m \in MatchIsMagnet
        /\ opts' = NoOptions
        /\ out' = Added(NoOptions, None) \/ ("deluge" \in MayFail /\ out' = Silence)
     \/ /\ m \notin MatchIsMagnet
        /\ opts' = IF m \in OneMatch THEN NoOptions ELSE opts
        /\ IF m = "bare magnet"
           THEN Reply("no_magnet_found") \/ ("reply" \in MayFail /\ out' = Silence)
           ELSE out' = Silence
  /\ UNCHANGED <<conv, label, is_rss, yarss_data>>

\* Faulty: the subscription is cleared and the flag left set
cancel_keeping_is_rss(h, u) ==
  \/ /\ Reply("cancelled") /\ Return(h, u, "IDLE")
     /\ yarss_data' = Blank
     /\ UNCHANGED <<opts, label, is_rss>>
  \/ "reply" \in MayFail /\ ReturnNone /\ UNCHANGED core

\* Reset the RSS attributes after the reply; a raised reply changes nothing
cancel(h, u) ==
  \/ /\ Reply("cancelled") /\ Return(h, u, "IDLE")
     /\ is_rss' = FALSE
     /\ yarss_data' = Blank
     /\ UNCHANGED <<opts, label>>
  \/ "reply" \in MayFail /\ ReturnNone /\ UNCHANGED core

fallback_cancel(h, u, m) == Fallback(h, u, m) /\ cancel(h, u)
command_cancel(u, m) ==
  NoConversation(u, m) /\ m = "/cancel" /\ cancel("global", u)

send_document(u, d) ==
  NoConversation(u, d) /\ d \in Documents /\ add_torrent("global", u, d)

\* cmd_list, and the texts no handler takes
no_effect(u, m) ==
  /\ NoConversation(u, m)
  /\ m \notin Documents \union MagnetTexts \union {"/cancel"}
  /\ out' = Silence
  /\ UNCHANGED <<conv, opts, label, is_rss, yarss_data>>

(* -------------------------------------------------- Updates and restarts *)

AddConversation(h, u, m) ==
  \/ category(h, u, m)
  \/ set_label(h, u, m)
  \/ torrent_type(h, u, m)
  \/ add_magnet(h, u, m)
  \/ add_document(h, u, m)
  \/ add_url(h, u, m)

Callback(u, m) ==
  \/ m = "/add" /\ add(u)
  \/ m = "/addpaused" /\ add_paused(u)
  \/ m = "/rss" /\ cmd_add_rss(u)
  \/ \E h \in Convs : AddConversation(h, u, m) \/ fallback_cancel(h, u, m)
  \/ rss_feed(u, m)
  \/ regex(u, m)
  \/ rss_file_name(u, m)
  \/ find_magnet(u, m)
  \/ command_cancel(u, m)
  \/ send_document(u, m)
  \/ no_effect(u, m)

\* Every callback first looks for the chat in the whitelist, and does nothing
\* for a stranger
process_update(u, m) ==
  /\ \/ u \in whitelist /\ Callback(u, m)
     \/ u \notin whitelist /\ out' = Silence /\ UNCHANGED <<conv, core>>
  /\ UNCHANGED admin

\* Faulty: the conversations are kept over a restart
enable_keeping_conversations(W) ==
  /\ ~enabled
  /\ enabled' = TRUE
  /\ whitelist' = W
  /\ label' = None
  /\ out' = Silence
  /\ UNCHANGED <<conv, opts, is_rss, yarss_data>>

\* New ConversationHandlers know no conversation; opts, is_rss and yarss_data
\* are those of the Core object and survive
enable(W) ==
  /\ ~enabled
  /\ enabled' = TRUE
  /\ whitelist' = W
  /\ conv' = [h \in Convs |-> [u \in Users |-> "IDLE"]]
  /\ label' = None
  /\ out' = Silence
  /\ UNCHANGED <<opts, is_rss, yarss_data>>

\* The dispatcher empties its queue before it stops, now for nobody
disable ==
  /\ enabled
  /\ enabled' = FALSE
  /\ whitelist' = {}
  /\ out' = Silence
  /\ UNCHANGED <<conv, core>>

Next ==
  \/ \E u \in Users, m \in Inputs : process_update(u, m)
  \/ \E W \in Whitelists : enable(W)
  \/ disable

Spec == Init /\ [][Next]_vars

\* A chat that is asked does not fall silent for ever, and does not give for
\* ever an answer that leaves it where it is; calls do not fail for ever.
\* Strong, for /rss waits while /addpaused or /add take the chat's texts.
Moves(h, u) ==
  \E m \in Inputs :
    Handles(h, u, m) /\ process_update(u, m) /\ conv'[h][u] # conv[h][u]
LiveSpec == Spec /\ \A h \in Convs, u \in Users : SF_vars(Moves(h, u))

(* ------------------------------------------------------------ Properties *)

(***************************************************************************)
(* The attributes hold what the callbacks can store in them.               *)
(***************************************************************************)
TypeOK ==
  /\ conv \in [Convs -> [Users -> AddStates \union RssStates \union {"IDLE"}]]
  /\ opts \in Options
  /\ label \in Inputs \union {None}
  /\ is_rss \in BOOLEAN
  /\ yarss_data \in Subscriptions
  /\ whitelist \subseteq Users
  /\ enabled \in BOOLEAN
  /\ out \in Outputs

(***************************************************************************)
(* Only chats of the whitelist in force are in a conversation: a chat that *)
(* set_config removed cannot go on with what it began (enable(), and the   *)
(* whitelist test that opens every callback).                              *)
(***************************************************************************)
OnlyWhitelistedConverse ==
  enabled => \A h \in Convs, u \in Users :
               conv[h][u] # "IDLE" => u \in whitelist

(***************************************************************************)
(* With one chat in the whitelist: a conversation begun by /add or         *)
(* /addpaused never answers the choice of a directory by saving an RSS     *)
(* subscription, whatever conversations the chat left open or the plugin's *)
(* restarts left behind in is_rss.                                         *)
(***************************************************************************)
AddIsNotRss ==
  enabled => \A h \in {"add", "paused"}, u \in Users :
               conv[h][u] = "CATEGORY" => ~is_rss

(***************************************************************************)
(* With one chat in the whitelist: a subscription handed to YaRSS2 has a   *)
(* feed, a template with a NAME and a keyword in its place, however /add,  *)
(* /cancel, failed calls and restarts interleave with /rss                 *)
(* (yarss_data.clear() in cancel, addRss()).                               *)
(***************************************************************************)
SubscriptionComplete ==
  \A sub \in out.saved :
    sub.rssfeed_key # None /\ sub.template \in NamedTemplates /\ sub.keyword # None

(***************************************************************************)
(* No conversation is a trap: from every state a chat of the whitelist can *)
(* get into, also one the handler does not know, answering leads to an     *)
(* end (the states of the three ConversationHandlers, their fallback, and  *)
(* what the callbacks return).                                             *)
(***************************************************************************)
ConversationEnds ==
  \A h \in Convs, u \in Users :
    conv[h][u] # "IDLE" ~> (conv[h][u] = "IDLE" \/ u \notin whitelist)

\* The answers a conversation that is in this state may still need
AnswersLeft(s) ==
  CASE s = "RSS_FEED" -> 7
    [] s = "REGEX" -> 6
    [] s = "FILE_NAME" -> 5
    [] s = "CATEGORY" -> 4
    [] s = "SET_LABEL" -> 3
    [] s = "TORRENT_TYPE" -> 2
    [] s \in {"ADD_MAGNET", "ADD_TORRENT", "ADD_URL"} -> 1
    [] s = "IDLE" -> 0

FirstState == [add |-> "CATEGORY", paused |-> "CATEGORY", rss |-> "RSS_FEED"]

(***************************************************************************)
(* A conversation begins with its first question and no step of any chat,  *)
(* no restart and no failed call ever takes it back: whenever it moves,    *)
(* fewer questions are left (the states the callbacks return, also where   *)
(* another conversation has changed is_rss meanwhile).                     *)
(***************************************************************************)
OnlyForward ==
  [][\A h \in Convs, u \in Users :
       \/ conv'[h][u] = conv[h][u]
       \/ conv[h][u] = "IDLE" /\ conv'[h][u] = FirstState[h]
       \/ AnswersLeft(conv'[h][u]) < AnswersLeft(conv[h][u])]_vars

(* ------------------------- What the bot says, and the code does not keep *)

(***************************************************************************)
(* "Send /cancel at any time to abort" (STRINGS['cancel']): when /cancel   *)
(* has been processed, the conversation that took it is over.              *)
(***************************************************************************)
CancelAborts ==
  [][\A h \in Convs, u \in whitelist :
       (process_update(u, "/cancel") /\ Handles(h, u, "/cancel"))
         => conv'[h][u] = "IDLE"]_vars

(***************************************************************************)
(* The answer "Use Default Settings" (STRINGS['no_category']) saves the    *)
(* subscription without a directory of its own.                            *)
(***************************************************************************)
DefaultIsNoDirectory ==
  [][\A u \in whitelist, sub \in out'.saved :
       process_update(u, "Use Default Settings") => sub.download_location = None]_vars

============================================================================
