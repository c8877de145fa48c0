--------------------------- MODULE HistoryProofs ---------------------------
(***************************************************************************)
(* What ConversationsHistory remembers agrees with what Deluge and YaRSS2  *)
(* are handed, for every set of chats, inputs, categories and feeds.       *)
(***************************************************************************)
EXTENDS ConversationsHistory, ConversationsProofs

(* ------------------------------------------------ What one callback does *)

\* The states in which the label has been chosen
Late == {"TORRENT_TYPE", "ADD_MAGNET", "ADD_TORRENT", "ADD_URL"}

Only(h, u) ==
  \A g \in Convs, v \in Users : g # h \/ v # u => conv'[g][v] = conv[g][v]

Named(m) == m # "Use Default Settings" /\ m \in Categories \union QuotedDirs

\* What a torrent may be handed over with; the label may fail
Handed == [options |-> opts, label |-> IF WantsLabel THEN label ELSE None]
Unlabelled == [options |-> opts, label |-> None]
MayHand == IF "label" \in MayFail THEN {Handed, Unlabelled} ELSE {Handed}

Forward(h, u) ==
  \/ conv'[h][u] = conv[h][u]
  \/ conv[h][u] = "IDLE" /\ conv'[h][u] = FirstState[h]
  \/ AnswersLeft(conv'[h][u]) < AnswersLeft(conv[h][u])

\* A callback of the conversation h moves no other conversation and this one not
\* back, assigns opts and label only where Writes says so, what it hands over is
\* what they hold, and having done so it ends unless something raised
Took(h, u, m) ==
  /\ Handles(h, u, m) /\ Only(h, u) /\ Forward(h, u)
  /\ Writes(h, u, m) \/ UNCHANGED <<opts, label>>
  /\ conv'[h][u] \in Late => conv[h][u] \in Late \/ InState(h, u, m, "SET_LABEL")
  /\ Entry(h, u, m) /\ h # "rss" => opts' = [NoOptions EXCEPT !.addpaused = (h = "paused")]
  /\ InState(h, u, m, "CATEGORY") => opts'.addpaused = opts.addpaused
  /\ InState(h, u, m, "CATEGORY") /\ "mkdir" \notin MayFail =>
       opts' = IF Named(m) THEN [opts EXCEPT !.move_completed_path = DirOf[m]] ELSE opts
  /\ InState(h, u, m, "SET_LABEL") => label' = m /\ opts' = opts
  /\ out'.added # {} => conv[h][u] \in Late /\ ~Writes(h, u, m) /\ out'.saved = {}
  /\ out'.added \subseteq MayHand
  /\ HandsOver /\ Whole => conv'[h][u] = "IDLE"

\* A callback outside the conversations
TookNone(u, m) ==
  /\ NoConversation(u, m) /\ conv' = conv
  /\ WritesGlobally(u, m) \/ UNCHANGED <<opts, label>>

\* A conversation that ends has no questions left
LEMMA EndIsForward ==
  ASSUME TypeOK, NEW h \in Convs, NEW u \in Users, conv[h][u] # "IDLE"
  PROVE  AnswersLeft("IDLE") < AnswersLeft(conv[h][u])
<1>1. conv[h][u] \in AddStates \union RssStates
  BY DEF TypeOK
<1> QED BY <1>1 DEF AddStates, RssStates, AnswersLeft

LEMMA OneHandler ==
  ASSUME NEW h \in Convs, NEW g \in Convs, NEW u, NEW m, Handles(h, u, m), Handles(g, u, m)
  PROVE  h = g
BY DEF Convs, Handles, Earlier

LEMMA ReturnPlace ==
  ASSUME TypeOK, NEW h \in Convs, NEW u \in Users, NEW s, Return(h, u, s)
  PROVE  Only(h, u) /\ conv'[h][u] = s
BY DEF TypeOK, Return, Only

LEMMA ReplyPlace ==
  ASSUME TypeOK, NEW h \in Convs, NEW u \in Users, NEW r, NEW s, ReplyAndReturn(h, u, r, s)
  PROVE  /\ Only(h, u) /\ conv'[h][u] \in {conv[h][u], s}
         /\ out'.added = {} /\ out'.saved = {}
<1>1. CASE Reply(r) /\ Return(h, u, s)
  BY <1>1, ReturnPlace DEF Reply, Silence
<1>2. CASE ReturnNone
  BY <1>2 DEF ReturnNone, Only, Silence
<1> QED BY <1>1, <1>2 DEF ReplyAndReturn

\* A callback that ends the conversation or leaves it where it is, and assigns
\* neither opts nor label
LEMMA Plain ==
  ASSUME TypeOK, NEW h \in Convs, NEW u \in Users, NEW m, Handles(h, u, m),
         Only(h, u), Forward(h, u), UNCHANGED <<opts, label>>,
         conv'[h][u] \in Late => conv[h][u] \in Late,
         ~Entry(h, u, m) \/ h = "rss",
         ~InState(h, u, m, "CATEGORY"), ~InState(h, u, m, "SET_LABEL"),
         out'.added = {}, out'.saved = {}
  PROVE  Took(h, u, m)
BY DEF Took, HandsOver

AddEntry(u, m) == (m = "/add" /\ add(u)) \/ (m = "/addpaused" /\ add_paused(u))

LEMMA EntryTook ==
  ASSUME TypeOK, NEW u \in Users, NEW m, AddEntry(u, m)
  PROVE  \E h \in Convs : Took(h, u, m)
<1> "add" \in Convs /\ "paused" \in Convs
  BY DEF Convs
<1>1. CASE m = "/add" /\ add(u)
  <2>1. Entry("add", u, m) /\ Handles("add", u, m) /\ conv["add"][u] = "IDLE"
    BY <1>1 DEF add, Entry
  <2>2. /\ Only("add", u) /\ conv'["add"][u] \in {conv["add"][u], "CATEGORY"}
        /\ out'.added = {} /\ out'.saved = {}
    BY <1>1, ReplyPlace DEF add, prepare_categories
  <2>3. Writes("add", u, m)
    BY <2>1 DEF Writes
  <2>4. opts' = [NoOptions EXCEPT !.addpaused = ("add" = "paused")]
    <3>1. NoOptions.addpaused = FALSE /\ ("add" = "paused") = FALSE
      BY DEF NoOptions
    <3>2. NoOptions = [NoOptions EXCEPT !.addpaused = NoOptions.addpaused]
      BY BlankType DEF Options
    <3> QED BY <1>1, <3>1, <3>2 DEF add
  <2>5. ~InState("add", u, m, "CATEGORY") /\ ~InState("add", u, m, "SET_LABEL")
    BY <2>1 DEF InState
  <2>6. Forward("add", u)
    BY <2>1, <2>2 DEF Forward, FirstState
  <2> QED BY <2>1, <2>2, <2>3, <2>4, <2>5, <2>6 DEF Took, Late, HandsOver
<1>2. CASE m = "/addpaused" /\ add_paused(u)
  <2>1. Entry("paused", u, m) /\ Handles("paused", u, m) /\ conv["paused"][u] = "IDLE"
    BY <1>2 DEF add_paused, Entry
  <2>2. /\ Only("paused", u) /\ conv'["paused"][u] \in {conv["paused"][u], "CATEGORY"}
        /\ out'.added = {} /\ out'.saved = {}
    BY <1>2, ReplyPlace DEF add_paused, prepare_categories
  <2>3. Writes("paused", u, m)
    BY <2>1 DEF Writes
  <2>4. opts' = [NoOptions EXCEPT !.addpaused = ("paused" = "paused")]
    BY <1>2 DEF add_paused
  <2>5. ~InState("paused", u, m, "CATEGORY") /\ ~InState("paused", u, m, "SET_LABEL")
    BY <2>1 DEF InState
  <2>6. Forward("paused", u)
    BY <2>1, <2>2 DEF Forward, FirstState
  <2> QED BY <2>1, <2>2, <2>3, <2>4, <2>5, <2>6 DEF Took, Late, HandsOver
<1> QED BY <1>1, <1>2 DEF AddEntry

\* Where the answers about a subscription lead
After(s) ==
  CASE s = "RSS_FEED" -> {"REGEX", "IDLE"}
    [] s = "REGEX" -> {"FILE_NAME", "REGEX"}
    [] s = "FILE_NAME" -> {"CATEGORY"}

LEMMA RssTook ==
  ASSUME TypeOK, NEW u \in Users, NEW m,
         (m = "/rss" /\ cmd_add_rss(u)) \/ RssAction(u, m)
  PROVE  Took("rss", u, m)
<1> "rss" \in Convs
  BY DEF Convs
<1>1. CASE m = "/rss" /\ cmd_add_rss(u)
  <2>1. Handles("rss", u, m) /\ conv["rss"][u] = "IDLE" /\ UNCHANGED <<opts, label>>
    BY <1>1 DEF cmd_add_rss, Entry
  <2>2. /\ Only("rss", u) /\ conv'["rss"][u] \in {conv["rss"][u], "IDLE", "RSS_FEED"}
        /\ out'.added = {} /\ out'.saved = {}
    <3>1. CASE rss_not_available(u)
      BY <3>1, ReturnPlace DEF rss_not_available, Reply, ReturnNone, Only, Silence
    <3>2. CASE prepare_rss_feed(u)
      BY <3>2, ReplyPlace DEF prepare_rss_feed
    <3>3. CASE ReturnNone
      BY <3>3 DEF ReturnNone, Only, Silence
    <3> QED BY <1>1, <3>1, <3>2, <3>3 DEF cmd_add_rss, add_rss
  <2>3. ~InState("rss", u, m, "CATEGORY") /\ ~InState("rss", u, m, "SET_LABEL")
    BY <2>1 DEF InState
  <2>4. Forward("rss", u)
    BY <2>1, <2>2 DEF Forward, FirstState
  <2> QED BY <2>1, <2>2, <2>3, <2>4, Plain DEF Late
<1>2. CASE RssAction(u, m)
  <2>1. PICK s \in {"RSS_FEED", "REGEX", "FILE_NAME"} : InState("rss", u, m, s)
    BY <1>2 DEF RssAction, rss_feed, regex, rss_file_name
  <2>2. Handles("rss", u, m) /\ conv["rss"][u] = s /\ UNCHANGED <<opts, label>>
    BY <1>2, <2>1 DEF InState, RssAction, rss_feed, regex, rss_file_name
  <2>3. \/ \E r, t : ReplyAndReturn("rss", u, r, t) /\ t \in After(s)
        \/ ReturnNone
    <3>1. CASE rss_feed(u, m)
      BY <2>1, <3>1 DEF rss_feed, InState, After
    <3>2. CASE regex(u, m)
      BY <2>1, <3>2 DEF regex, InState, After
    <3>3. CASE rss_file_name(u, m)
      BY <2>1, <3>3 DEF rss_file_name, prepare_categories, InState, After
    <3> QED BY <1>2, <3>1, <3>2, <3>3 DEF RssAction
  <2>4. /\ Only("rss", u) /\ conv'["rss"][u] \notin Late /\ Forward("rss", u)
        /\ out'.added = {} /\ out'.saved = {}
    <3>1. CASE ReturnNone
      BY <2>2, <3>1 DEF ReturnNone, Only, Forward, Silence, Late
    <3>2. ASSUME NEW r, NEW t, ReplyAndReturn("rss", u, r, t), t \in After(s)
          PROVE  /\ Only("rss", u) /\ conv'["rss"][u] \notin Late /\ Forward("rss", u)
                 /\ out'.added = {} /\ out'.saved = {}
      <4>1. t \notin Late /\ s \notin Late /\ (t = s \/ AnswersLeft(t) < AnswersLeft(s))
        BY <3>2 DEF After, Late, AnswersLeft
      <4>2. /\ Only("rss", u) /\ conv'["rss"][u] \in {s, t}
            /\ out'.added = {} /\ out'.saved = {}
        BY <2>2, <3>2, ReplyPlace
      <4> QED BY <2>2, <4>1, <4>2 DEF Forward
    <3> QED BY <2>3, <3>1, <3>2
  <2>5. ~InState("rss", u, m, "CATEGORY") /\ ~InState("rss", u, m, "SET_LABEL")
    BY <2>2 DEF InState
  <2> QED BY <2>2, <2>4, <2>5, Plain
<1> QED BY <1>1, <1>2

LEMMA CancelTook ==
  ASSUME TypeOK, NEW h \in Convs, NEW u \in Users, NEW m, fallback_cancel(h, u, m)
  PROVE  Took(h, u, m)
<1>1. Handles(h, u, m) /\ conv[h][u] # "IDLE" /\ ~Answers(h, u, m)
  BY DEF fallback_cancel, Fallback
<1>2. ~Entry(h, u, m) /\ ~InState(h, u, m, "CATEGORY") /\ ~InState(h, u, m, "SET_LABEL")
  BY <1>1 DEF Entry, InState
<1>3. /\ Only(h, u) /\ conv'[h][u] \in {conv[h][u], "IDLE"} /\ UNCHANGED <<opts, label>>
      /\ out'.added = {} /\ out'.saved = {}
  <2>1. CASE Reply("cancelled") /\ Return(h, u, "IDLE") /\ UNCHANGED <<opts, label>>
    BY <2>1, ReturnPlace DEF Reply, Silence
  <2>2. CASE ReturnNone /\ UNCHANGED core
    BY <2>2 DEF ReturnNone, Only, Silence, core
  <2> QED BY <2>1, <2>2 DEF fallback_cancel, cancel
<1>4. Forward(h, u)
  BY <1>1, <1>3, EndIsForward DEF Forward
<1> QED BY <1>1, <1>2, <1>3, <1>4, Plain DEF Late

LEMMA CategoryTook ==
  ASSUME TypeOK, NEW h \in Convs, NEW u \in Users, NEW m, category(h, u, m)
  PROVE  Took(h, u, m)
<1>1. /\ InState(h, u, m, "CATEGORY") /\ Handles(h, u, m) /\ conv[h][u] = "CATEGORY"
      /\ Writes(h, u, m)
  BY DEF category, InState, Writes
<1>2. ~Entry(h, u, m) /\ ~InState(h, u, m, "SET_LABEL")
  BY <1>1 DEF Entry, InState
<1>3. "mkdir" \notin MayFail =>
        opts' = IF Named(m) THEN [opts EXCEPT !.move_completed_path = DirOf[m]] ELSE opts
  <2>1. PICK p \in ChosenPaths(m) : opts' = [opts EXCEPT !.move_completed_path = p]
    BY DEF category
  <2>2. "mkdir" \notin MayFail => p = IF Named(m) THEN DirOf[m] ELSE opts.move_completed_path
    BY <2>1 DEF ChosenPaths, Named
  <2>3. opts = [opts EXCEPT !.move_completed_path = opts.move_completed_path]
    BY DEF TypeOK, Options
  <2> QED BY <2>1, <2>2, <2>3
<1>4. opts'.addpaused = opts.addpaused
  <2>1. PICK p \in ChosenPaths(m) : opts' = [opts EXCEPT !.move_completed_path = p]
    BY DEF category
  <2> QED BY <2>1 DEF TypeOK, Options
<1>5. /\ Only(h, u) /\ conv'[h][u] \in {"CATEGORY", "SET_LABEL", "IDLE"}
      /\ out'.added = {}
      /\ HandsOver /\ Whole => conv'[h][u] = "IDLE"
  <2>1. CASE is_rss /\ rss_apply(h, u, opts')
    <3>1. CASE ReturnNone
      BY <1>1, <3>1 DEF ReturnNone, Only, Silence, HandsOver
    <3>2. ASSUME NEW sub, addRss(h, u, sub)
          PROVE  /\ Only(h, u) /\ conv'[h][u] \in {"CATEGORY", "IDLE"} /\ out'.added = {}
                 /\ HandsOver /\ Whole => conv'[h][u] = "IDLE"
      <4>1. out'.added = {}
        <5>1. CASE out' = [Silence EXCEPT !.reply = "added_rss", !.saved = {sub}]
          BY <5>1 DEF Silence
        <5>2. CASE out' = [Silence EXCEPT !.saved = {sub}]
          BY <5>2 DEF Silence
        <5>3. CASE out' = Silence
          BY <5>3 DEF Silence
        <5> QED BY <3>2, <5>1, <5>2, <5>3 DEF addRss
      <4>2. CASE Return(h, u, "IDLE")
        BY <4>1, <4>2, ReturnPlace
      <4>3. CASE out' = [Silence EXCEPT !.saved = {sub}] /\ UNCHANGED conv
        <5>1. out'.saved # {} /\ out'.reply # "added_rss"
          BY <4>3 DEF Silence
        <5> QED BY <1>1, <4>1, <4>3, <5>1 DEF Only, Whole
      <4> QED BY <3>2, <4>2, <4>3 DEF addRss
    <3> QED BY <2>1, <3>1, <3>2 DEF rss_apply
  <2>2. CASE ReplyAndReturn(h, u, "which_label", "SET_LABEL")
    <3>1. /\ Only(h, u) /\ conv'[h][u] \in {conv[h][u], "SET_LABEL"}
          /\ out'.added = {} /\ out'.saved = {}
      BY <2>2, ReplyPlace
    <3> QED BY <1>1, <3>1 DEF HandsOver
  <2> QED BY <2>1, <2>2 DEF category
<1>6. conv'[h][u] \notin Late /\ Forward(h, u)
  BY <1>1, <1>5 DEF Late, Forward, AnswersLeft
<1> QED BY <1>1, <1>2, <1>3, <1>4, <1>5, <1>6 DEF Took

LEMMA LabelTook ==
  ASSUME TypeOK, NEW h \in Convs, NEW u \in Users, NEW m, set_label(h, u, m)
  PROVE  Took(h, u, m)
<1>1. /\ InState(h, u, m, "SET_LABEL") /\ Handles(h, u, m) /\ conv[h][u] = "SET_LABEL"
      /\ Writes(h, u, m)
  BY DEF set_label, InState, Writes
<1>2. ~Entry(h, u, m) /\ ~InState(h, u, m, "CATEGORY")
  BY <1>1 DEF Entry, InState
<1>3. /\ Only(h, u) /\ conv'[h][u] \in {"SET_LABEL", "TORRENT_TYPE"}
      /\ out'.added = {} /\ out'.saved = {}
  BY <1>1, ReplyPlace DEF set_label, prepare_torrent_type
<1>4. label' = m /\ opts' = opts
  BY DEF set_label
<1>5. Forward(h, u)
  BY <1>1, <1>3 DEF Forward, AnswersLeft
<1> QED BY <1>1, <1>2, <1>3, <1>4, <1>5 DEF Took, HandsOver

\* Where the callbacks that add torrents lead
From(s) ==
  IF s = "TORRENT_TYPE" THEN Late \union {"IDLE"} ELSE {s, "IDLE"}

\* Deluge is handed what opts and label hold
LEMMA AddTook ==
  ASSUME TypeOK, NEW h \in Convs, NEW u \in Users, NEW m,
         NEW s \in {"TORRENT_TYPE", "ADD_MAGNET", "ADD_TORRENT", "ADD_URL"},
         InState(h, u, m, s), UNCHANGED core,
         Only(h, u), conv'[h][u] \in From(s),
         out'.saved = {}, out'.added \subseteq MayHand,
         HandsOver /\ Whole => conv'[h][u] = "IDLE"
  PROVE  Took(h, u, m)
<1>1. Handles(h, u, m) /\ conv[h][u] = s /\ s \in Late
  BY DEF InState, Late
<1>2. /\ ~Entry(h, u, m) /\ ~InState(h, u, m, "SET_LABEL")
      /\ ~InState(h, u, m, "CATEGORY") /\ ~Writes(h, u, m)
  BY <1>1 DEF Entry, InState, Writes
<1>3. conv'[h][u] = s \/ AnswersLeft(conv'[h][u]) < AnswersLeft(s)
  <2>1. CASE s = "TORRENT_TYPE"
    BY <2>1 DEF From, Late, AnswersLeft
  <2>2. CASE s # "TORRENT_TYPE"
    BY <2>2 DEF From, AnswersLeft
  <2> QED BY <2>1, <2>2
<1>4. Forward(h, u)
  BY <1>1, <1>3 DEF Forward
<1> QED BY <1>1, <1>2, <1>4 DEF Took, core

LEMMA HandedOver ==
  ASSUME TypeOK, NEW h \in Convs, NEW u \in Users, AddAndLabel(h, u) \/ AddAndStay
  PROVE  /\ Only(h, u) /\ conv'[h][u] \in {conv[h][u], "IDLE"} /\ out'.saved = {}
         /\ out'.added \subseteq MayHand
         /\ Whole => conv'[h][u] = "IDLE"
<1>1. CASE AddAndLabel(h, u)
  BY <1>1, ReturnPlace DEF AddAndLabel, Added, Handed, MayHand, Silence
<1>2. CASE AddAndStay
  <2>1. WantsLabel /\ "label" \in MayFail /\ out' = Added(opts, None) /\ conv' = conv
    BY <1>2 DEF AddAndStay, LabelMayFail
  <2>2. out'.added = {Unlabelled} /\ out'.saved = {}
    BY <2>1 DEF Added, Unlabelled, Silence
  <2>3. Unlabelled.label # label
    BY <2>1 DEF Unlabelled, WantsLabel
  <2> QED BY <2>1, <2>2, <2>3 DEF Only, MayHand, Whole
<1> QED BY <1>1, <1>2

\* The outcomes of a callback that adds a torrent
LEMMA Outcomes ==
  ASSUME TypeOK, NEW h \in Convs, NEW u \in Users, NEW s \in Late, conv[h][u] = s,
         \/ AddAndLabel(h, u) \/ AddAndStay \/ ReturnNone
         \/ \E r, t : ReplyAndReturn(h, u, r, t) /\ t \in From(s)
         \/ /\ LabelMayFail /\ Return(h, u, "IDLE")
            /\ out'.saved = {} /\ out'.added = {Unlabelled}
  PROVE  /\ Only(h, u) /\ conv'[h][u] \in From(s) /\ out'.saved = {}
         /\ out'.added \subseteq MayHand
         /\ HandsOver /\ Whole => conv'[h][u] = "IDLE"
<1>0. s \in From(s) /\ "IDLE" \in From(s)
  BY DEF From
<1>1. CASE AddAndLabel(h, u) \/ AddAndStay
  BY <1>0, <1>1, HandedOver
<1>2. CASE ReturnNone
  BY <1>0, <1>2 DEF ReturnNone, Only, Silence, HandsOver
<1>3. ASSUME NEW r, NEW t \in From(s), ReplyAndReturn(h, u, r, t)
      PROVE  Only(h, u) /\ conv'[h][u] \in {s, t} /\ out'.saved = {} /\ out'.added = {}
  BY <1>3, ReplyPlace
<1>4. CASE /\ LabelMayFail /\ Return(h, u, "IDLE")
           /\ out'.saved = {} /\ out'.added = {Unlabelled}
  BY <1>0, <1>4, ReturnPlace DEF LabelMayFail, MayHand
<1> QED BY <1>0, <1>1, <1>2, <1>3, <1>4 DEF HandsOver

LEMMA AddsTook ==
  ASSUME TypeOK, NEW h \in Convs, NEW u \in Users, NEW m,
         \/ torrent_type(h, u, m) \/ add_magnet(h, u, m)
         \/ add_document(h, u, m) \/ add_url(h, u, m)
  PROVE  Took(h, u, m)
<1>1. PICK s \in {"TORRENT_TYPE", "ADD_MAGNET", "ADD_TORRENT", "ADD_URL"} :
        InState(h, u, m, s) /\ (torrent_type(h, u, m) => s = "TORRENT_TYPE")
  BY DEF torrent_type, add_magnet, add_document, add_url, InState
<1>2. s \in Late /\ conv[h][u] = s /\ "IDLE" \in From(s)
  BY <1>1 DEF InState, Late, From
<1>3. UNCHANGED core
  BY DEF torrent_type, add_magnet, add_document, add_torrent, add_url
<1>4. \/ AddAndLabel(h, u) \/ AddAndStay \/ ReturnNone
      \/ \E r, t : ReplyAndReturn(h, u, r, t) /\ t \in From(s)
      \/ /\ LabelMayFail /\ Return(h, u, "IDLE")
         /\ out'.saved = {} /\ out'.added = {Unlabelled}
  <2>1. CASE torrent_type(h, u, m)
    <3>1. {"ADD_MAGNET", "ADD_TORRENT", "ADD_URL", "IDLE"} \subseteq From(s)
      BY <1>1, <2>1 DEF From, Late
    <3> QED BY <2>1, <3>1 DEF torrent_type
  <2>2. CASE add_magnet(h, u, m)
    BY <1>2, <2>2 DEF add_magnet
  <2>3. CASE add_document(h, u, m)
    BY <1>2, <2>3 DEF add_document, add_torrent
  <2>4. CASE add_url(h, u, m)
    BY <1>2, <2>4 DEF add_url, Added, Unlabelled, Silence
  <2> QED BY <2>1, <2>2, <2>3, <2>4
<1>5. /\ Only(h, u) /\ conv'[h][u] \in From(s) /\ out'.saved = {}
      /\ out'.added \subseteq MayHand
      /\ HandsOver /\ Whole => conv'[h][u] = "IDLE"
  BY <1>2, <1>4, Outcomes
<1> QED BY <1>1, <1>3, <1>5, AddTook

LEMMA GlobalTook ==
  ASSUME TypeOK, NEW u \in Users, NEW m, GlobalAction(u, m)
  PROVE  TookNone(u, m)
<1>1. CASE find_magnet(u, m)
  BY <1>1 DEF find_magnet, WritesGlobally, TookNone
<1>2. "global" \notin Convs
  BY DEF Convs
<1>3. CASE command_cancel(u, m)
  BY <1>2, <1>3 DEF command_cancel, cancel, Return, ReturnNone, core, TookNone
<1>4. CASE send_document(u, m)
  BY <1>2, <1>4 DEF send_document, add_torrent, AddAndLabel, AddAndStay, ReplyAndReturn,
     Return, ReturnNone, core, TookNone
<1>5. CASE no_effect(u, m)
  BY <1>5 DEF no_effect, TookNone
<1> QED BY <1>1, <1>3, <1>4, <1>5 DEF GlobalAction

LEMMA CallbackTook ==
  ASSUME TypeOK, NEW u \in Users, NEW m, Callback(u, m)
  PROVE  (\E h \in Convs : Took(h, u, m)) \/ TookNone(u, m)
<1>1. "rss" \in Convs
  BY DEF Convs
<1>2. CASE \E h \in Convs : AddConversation(h, u, m) \/ fallback_cancel(h, u, m)
  <2>1. PICK h \in Convs : AddConversation(h, u, m) \/ fallback_cancel(h, u, m)
    BY <1>2
  <2>2. CASE AddConversation(h, u, m)
    BY <2>2, CategoryTook, LabelTook, AddsTook DEF AddConversation
  <2>3. CASE fallback_cancel(h, u, m)
    BY <2>3, CancelTook
  <2> QED BY <2>1, <2>2, <2>3
<1>3. CASE AddEntry(u, m)
  BY <1>3, EntryTook
<1>4. CASE (m = "/rss" /\ cmd_add_rss(u)) \/ RssAction(u, m)
  BY <1>1, <1>4, RssTook
<1>5. CASE GlobalAction(u, m)
  BY <1>5, GlobalTook
<1>6. \/ AddEntry(u, m)
      \/ (m = "/rss" /\ cmd_add_rss(u)) \/ RssAction(u, m)
      \/ GlobalAction(u, m)
      \/ \E h \in Convs : AddConversation(h, u, m) \/ fallback_cancel(h, u, m)
  BY DEF Callback, AddEntry, RssAction, GlobalAction
<1> QED BY <1>2, <1>3, <1>4, <1>5, <1>6

(* ------------------------------------------------------- Only forward *)

(***************************************************************************)
(* Whatever fails and however the chats and the restarts interleave: a     *)
(* conversation begins with its first question, and whenever it moves it   *)
(* has fewer questions left (the states the callbacks return).             *)
(***************************************************************************)
THEOREM ConversationsGoForward == Spec => OnlyForward
<1>1. TypeOK /\ [Next]_vars => \A h \in Convs, u \in Users : Forward(h, u)
  <2> SUFFICES ASSUME TypeOK, [Next]_vars, NEW h \in Convs, NEW u \in Users
               PROVE  Forward(h, u)
    OBVIOUS
  <2>1. ASSUME NEW v \in Users, NEW m \in Inputs, process_update(v, m)
        PROVE  Forward(h, u)
    <3>1. CASE v \in whitelist
      <4>1. (\E g \in Convs : Took(g, v, m)) \/ TookNone(v, m)
        BY <2>1, <3>1, CallbackTook DEF process_update
      <4>2. ASSUME NEW g \in Convs, Took(g, v, m) PROVE Forward(h, u)
        BY <4>2 DEF Took, Only, Forward
      <4> QED BY <4>1, <4>2 DEF TookNone, Forward
    <3>2. CASE v \notin whitelist
      BY <2>1, <3>2 DEF process_update, Forward
    <3> QED BY <3>1, <3>2
  <2>2. ASSUME NEW W \in Whitelists, enable(W) PROVE Forward(h, u)
    <3>1. conv'[h][u] = "IDLE"
      BY <2>2 DEF enable
    <3> QED BY <3>1, EndIsForward DEF Forward
  <2>3. CASE disable
    BY <2>3 DEF disable, Forward
  <2>4. CASE UNCHANGED vars
    BY <2>4 DEF vars, Forward
  <2> QED BY <2>1, <2>2, <2>3, <2>4 DEF Next
<1> QED BY <1>1, TypeCorrect, PTL DEF Spec, OnlyForward, Forward

(* ------------------------------------------------------------- Typing *)

\* What an update that is handled for a chat of the whitelist does
Updated(u, m) ==
  /\ u \in whitelist /\ Callback(u, m) /\ Remember(u, m)
  /\ UNCHANGED admin

\* Every other step hands nothing over, and moves no conversation but to IDLE
Idled ==
  /\ Forget /\ out' = Silence /\ opts' = opts
  /\ \/ conv' = conv /\ label' = label
     \/ conv' = [h \in Convs |-> [u \in Users |-> "IDLE"]]

LEMMA HSteps ==
  ASSUME HNext
  PROVE  (\E u \in Users, m \in Inputs : Updated(u, m)) \/ Idled
<1>1. CASE \E u \in Users, m \in Inputs :
             process_update(u, m) /\ IF u \in whitelist THEN Remember(u, m) ELSE Forget
  <2>1. PICK u \in Users, m \in Inputs :
          process_update(u, m) /\ IF u \in whitelist THEN Remember(u, m) ELSE Forget
    BY <1>1
  <2>2. CASE u \in whitelist
    BY <2>1, <2>2 DEF process_update, Updated
  <2>3. CASE u \notin whitelist
    BY <2>1, <2>3 DEF process_update, core, Idled
  <2> QED BY <2>2, <2>3
<1>2. CASE ((\E W \in Whitelists : enable(W)) \/ disable) /\ Forget
  BY <1>2 DEF enable, disable, core, Idled
<1> QED BY <1>1, <1>2 DEF HNext

LEMMA ChoiceType ==
  ASSUME HTypeOK, NEW h \in Convs, NEW u \in Users, NEW m \in Inputs
  PROVE  ChoiceAfter(h, u, m) \in Choices
<1>1. chosen[h][u] \in Choices /\ NoChoice \in Choices
  BY DEF HTypeOK, NoChoice, Choices
<1>2. CASE InState(h, u, m, "CATEGORY") /\ Named(m)
  <2>1. DirOf[m] \in Paths
    BY <1>2, DirOfAssumption DEF Named
  <2>2. ChoiceAfter(h, u, m) = [chosen[h][u] EXCEPT !.directory = DirOf[m]]
    BY <1>2 DEF ChoiceAfter, Named, InState
  <2> QED BY <1>1, <2>1, <2>2 DEF Choices
<1>3. CASE InState(h, u, m, "SET_LABEL")
  <2>1. ChoiceAfter(h, u, m) = [chosen[h][u] EXCEPT !.label = m]
    BY <1>3 DEF ChoiceAfter, InState
  <2> QED BY <1>1, <2>1 DEF Choices
<1>4. CASE /\ ~InState(h, u, m, "SET_LABEL")
           /\ ~(InState(h, u, m, "CATEGORY") /\ Named(m))
  BY <1>1, <1>4 DEF ChoiceAfter, Named
<1> QED BY <1>2, <1>3, <1>4

(***************************************************************************)
(* The memory of the conversations is well typed, next to Core's state     *)
(* (the attributes of Core and the dictionaries of the handlers).          *)
(***************************************************************************)
THEOREM HistoryTyped == HSpec => []HTypeOK
<1>1. HInit => HTypeOK
  <2> SUFFICES ASSUME HInit PROVE HTypeOK
    OBVIOUS
  <2>1. TypeOK
    BY BlankType, SilenceType DEF HInit, Init, TypeOK
  <2>2. NoChoice \in Choices
    BY DEF NoChoice, Choices
  <2> QED BY <2>1, <2>2 DEF HInit, HTypeOK, Deliveries
<1>2. HTypeOK /\ TypeOK' /\ [HNext]_hvars => HTypeOK'
  <2> SUFFICES ASSUME HTypeOK, TypeOK', [HNext]_hvars PROVE HTypeOK'
    OBVIOUS
  <2>1. ASSUME NEW u \in Users, NEW m \in Inputs, Updated(u, m) PROVE HTypeOK'
    <3>1. chosen' \in [Convs -> [Users -> Choices]]
      <4>1. NoChoice \in Choices
        BY DEF NoChoice, Choices
      <4> QED BY <2>1, <4>1, ChoiceType DEF Updated, Remember, HTypeOK
    <3>2. mixed' \in [Convs -> [Users -> BOOLEAN]]
      BY <2>1 DEF Updated, Remember
    <3>3. delivered' \in [Convs -> [Users -> Deliveries]]
      <4>1. \A h \in Convs, v \in Users : delivered[h][v] \in Deliveries
        BY DEF HTypeOK
      <4>2. \A h \in Convs : DeliveryAfter(h, u, m) \in Deliveries
        BY <4>1 DEF DeliveryAfter, Deliveries
      <4>3. "nothing" \in Deliveries
        BY DEF Deliveries
      <4> QED BY <2>1, <4>1, <4>2, <4>3 DEF Updated, Remember
    <3>4. served' \subseteq Convs \X Users
      BY <2>1 DEF Updated, Remember
    <3> QED BY <3>1, <3>2, <3>3, <3>4 DEF HTypeOK
  <2>2. CASE Idled
    BY <2>2 DEF Idled, Forget, HTypeOK
  <2>3. CASE UNCHANGED hvars
    BY <2>3 DEF hvars, HTypeOK
  <2> QED BY <2>1, <2>2, <2>3, HSteps
<1>3. HInit => Init
  BY DEF HInit
<1>4. [HNext]_hvars => [Next]_vars
  BY DEF HNext, hvars, Next, vars
<1> QED BY <1>1, <1>2, <1>3, <1>4, TypeCorrect, PTL DEF HSpec, Spec

(* ------------------------------------------- What the chat has asked for *)

\* What a conversation of /add or /addpaused has been told is what opts and
\* label hold, unless another callback assigned them; a directory that could
\* not be made is not in opts
AsTold(h, u) ==
  /\ opts.addpaused = (h = "paused")
  /\ "mkdir" \notin MayFail => opts = Chosen(h, u).options
  /\ conv[h][u] \in Late => label = chosen[h][u].label

Kept ==
  \A h \in {"add", "paused"}, u \in Users :
    conv[h][u] # "IDLE" /\ ~mixed[h][u] => AsTold(h, u)

\* A torrent that is what the conversation was told, but for what failed
Fulfils(t, h, u) ==
  /\ t.options.addpaused = (h = "paused")
  /\ t.label \in {None, Chosen(h, u).label}
  /\ "mkdir" \notin MayFail =>
       \/ t = Chosen(h, u)
       \/ t = [Chosen(h, u) EXCEPT !.label = None] /\ delivered[h][u] = "unlabelled"

\* A conversation that has delivered whole is over; one that has handed over a
\* torrent without its label has chosen one
Ended ==
  \A h \in Convs, u \in Users :
    /\ delivered[h][u] # "again"
    /\ delivered[h][u] = "whole" => conv[h][u] = "IDLE"
    /\ h # "rss" /\ delivered[h][u] = "unlabelled" =>
         /\ conv[h][u] \in Late \union {"IDLE"}
         /\ ~mixed[h][u] => Chosen(h, u).label # None

\* What a callback hands over, and what is remembered of its conversation
LEMMA HandledKept ==
  ASSUME HTypeOK, Kept, Ended,
         NEW u \in Users, NEW m \in Inputs, Updated(u, m),
         NEW h \in {"add", "paused"}, Took(h, u, m), ~mixed'[h][u]
  PROVE  /\ \A t \in out'.added : Fulfils(t, h, u)'
         /\ conv'[h][u] # "IDLE" => AsTold(h, u)'
<1>1. /\ h \in Convs /\ Handles(h, u, m) /\ chosen[h][u] \in Choices
      /\ chosen'[h][u] = IF Entry(h, u, m) THEN NoChoice ELSE ChoiceAfter(h, u, m)
      /\ ~Entry(h, u, m) =>
           ~mixed[h][u] /\ delivered'[h][u] = DeliveryAfter(h, u, m)
  BY DEF Convs, Took, Updated, Remember, HTypeOK, Entry
<1>2. CASE Entry(h, u, m)
  <2>1. chosen'[h][u] = NoChoice /\ conv[h][u] = "IDLE"
    BY <1>1, <1>2 DEF Entry
  <2>2. opts' = [NoOptions EXCEPT !.addpaused = (h = "paused")]
    BY <1>2 DEF Took
  <2>3. out'.added = {} /\ conv'[h][u] \notin Late
    BY <1>2, <2>1 DEF Took, Late, InState, Answers, StatesOf, Convs, AddStates, RssStates
  <2>4. opts'.addpaused = (h = "paused") /\ opts' = Chosen(h, u)'.options
    BY <2>1, <2>2 DEF Chosen, NoOptions, NoChoice
  <2> QED BY <2>3, <2>4 DEF AsTold
<1>3. CASE ~Entry(h, u, m)
  <2>1. ~mixed[h][u] /\ conv[h][u] # "IDLE" /\ AsTold(h, u)
    BY <1>1, <1>3 DEF Entry, Kept
  <2>2. CASE InState(h, u, m, "CATEGORY")
    <3>1. out'.added = {} /\ conv'[h][u] \notin Late
      BY <2>2 DEF Took, Late, InState
    <3>2. /\ opts'.addpaused = opts.addpaused
          /\ "mkdir" \notin MayFail =>
               opts' = IF Named(m) THEN [opts EXCEPT !.move_completed_path = DirOf[m]] ELSE opts
      BY <2>2 DEF Took
    <3>3. chosen'[h][u] = IF Named(m) THEN [chosen[h][u] EXCEPT !.directory = DirOf[m]]
                          ELSE chosen[h][u]
      BY <1>1, <1>3, <2>2 DEF ChoiceAfter, Named, InState
    <3>4. "mkdir" \notin MayFail => opts' = Chosen(h, u)'.options
      BY <1>1, <2>1, <3>2, <3>3 DEF AsTold, Chosen, Choices
    <3> QED BY <2>1, <3>1, <3>2, <3>4 DEF AsTold
  <2>3. CASE InState(h, u, m, "SET_LABEL")
    <3>1. out'.added = {} /\ label' = m /\ opts' = opts
      BY <2>3 DEF Took, Late, InState
    <3>2. chosen'[h][u] = [chosen[h][u] EXCEPT !.label = m]
      BY <1>1, <1>3, <2>3 DEF ChoiceAfter, InState
    <3>3. Chosen(h, u)'.options = Chosen(h, u).options /\ chosen'[h][u].label = m
      BY <1>1, <3>2 DEF Chosen, Choices
    <3> QED BY <2>1, <3>1, <3>3 DEF AsTold
  <2>4. CASE ~InState(h, u, m, "CATEGORY") /\ ~InState(h, u, m, "SET_LABEL")
    <3>1. ~Writes(h, u, m)
      BY <1>3, <2>4 DEF Writes
    <3>2. /\ opts' = opts /\ label' = label /\ chosen'[h][u] = chosen[h][u]
          /\ conv'[h][u] \in Late => conv[h][u] \in Late
      BY <1>1, <1>3, <2>4, <3>1 DEF Took, ChoiceAfter
    <3>3. Chosen(h, u)' = Chosen(h, u)
      BY <3>2 DEF Chosen
    <3>4. ASSUME NEW t \in out'.added PROVE Fulfils(t, h, u)'
      <4>1. /\ label = chosen[h][u].label /\ t \in {Handed, Unlabelled}
            /\ out'.saved = {} /\ HandsOver
        BY <2>1 DEF Took, AsTold, MayHand, HandsOver
      <4>2. t.options = opts /\ t.label \in {None, Chosen(h, u).label}
        <5>1. Handed.label = Chosen(h, u).label \/ Handed.label = None
          BY <4>1 DEF Handed, WantsLabel, Chosen
        <5>2. Handed.options = opts /\ Unlabelled.options = opts /\ Unlabelled.label = None
          BY DEF Handed, Unlabelled
        <5> QED BY <4>1, <5>1, <5>2
      <4>3. CASE opts = Chosen(h, u).options
        <5>1. Handed = Chosen(h, u)
          BY <4>1, <4>3 DEF Handed, WantsLabel, Chosen
        <5>2. Unlabelled = [Chosen(h, u) EXCEPT !.label = None]
          <6>1. \A o, l : [[options |-> o, label |-> l] EXCEPT !.label = None]
                         = [options |-> o, label |-> None]
            OBVIOUS
          <6>2. PICK o, l : Chosen(h, u) = [options |-> o, label |-> l]
            BY DEF Chosen
          <6> QED BY <4>3, <6>1, <6>2 DEF Unlabelled
        <5>3. t = Unlabelled /\ t # Handed => ~Whole
          BY <4>1 DEF Unlabelled, Handed, Whole
        <5>4. delivered[h][u] \notin {"whole", "again"}
          BY <1>1, <2>1 DEF Ended
        <5>5. t = Unlabelled /\ t # Handed => delivered'[h][u] = "unlabelled"
          BY <1>1, <1>3, <4>1, <5>3, <5>4 DEF DeliveryAfter
        <5> QED BY <2>1, <3>3, <4>1, <4>2, <5>1, <5>2, <5>5 DEF AsTold, Fulfils
      <4>4. CASE opts # Chosen(h, u).options
        BY <2>1, <3>3, <4>2, <4>4 DEF AsTold, Fulfils
      <4> QED BY <4>3, <4>4
    <3> QED BY <2>1, <3>2, <3>3, <3>4 DEF AsTold
  <2> QED BY <2>2, <2>3, <2>4
<1> QED BY <1>2, <1>3

\* What the callbacks of other conversations leave of what a chat has chosen
LEMMA OthersKept ==
  ASSUME HTypeOK, Kept, NEW u \in Users, NEW m \in Inputs, Updated(u, m),
         NEW g \in {"add", "paused"}, NEW v \in Users, ~mixed'[g][v],
         conv'[g][v] # "IDLE",
         \/ TookNone(u, m)
         \/ \E h \in Convs : Took(h, u, m) /\ <<h, u>> # <<g, v>>
  PROVE  AsTold(g, v)'
<1> g \in Convs
  BY DEF Convs
<1>1. ~(v = u /\ Handles(g, u, m))
  <2>1. CASE TookNone(u, m)
    BY <2>1 DEF TookNone, NoConversation, Handles
  <2>2. ASSUME NEW h \in Convs, Took(h, u, m), <<h, u>> # <<g, v>>
        PROVE  ~(v = u /\ Handles(g, u, m))
    BY <2>2, OneHandler DEF Took
  <2> QED BY <2>1, <2>2
<1>2. conv'[g][v] = conv[g][v]
  BY DEF TookNone, Took, Only
<1>3. /\ ~mixed[g][v] /\ ~WritesGlobally(u, m)
      /\ \A h \in Convs : Writes(h, u, m) => <<h, u>> = <<g, v>>
  BY <1>2 DEF Updated, Remember
<1>4. chosen'[g][v] = chosen[g][v]
  BY <1>1, <1>2 DEF Updated, Remember, ChoiceAfter, InState
<1>5. UNCHANGED <<opts, label>>
  <2>1. CASE TookNone(u, m)
    BY <1>3, <2>1 DEF TookNone
  <2>2. ASSUME NEW h \in Convs, Took(h, u, m), <<h, u>> # <<g, v>>
        PROVE  UNCHANGED <<opts, label>>
    BY <1>3, <2>2 DEF Took
  <2> QED BY <2>1, <2>2
<1> QED BY <1>2, <1>3, <1>4, <1>5 DEF Kept, AsTold, Chosen

\* A callback of the conversation keeps what Ended says of it
LEMMA HandledEnds ==
  ASSUME HTypeOK, HTypeOK', Kept, Ended, NEW u \in Users, NEW m \in Inputs, Updated(u, m),
         NEW h \in Convs, Took(h, u, m), conv[h][u] # "IDLE"
  PROVE  /\ delivered'[h][u] # "again"
         /\ delivered'[h][u] = "whole" => conv'[h][u] = "IDLE"
         /\ h # "rss" /\ delivered'[h][u] = "unlabelled" =>
              /\ conv'[h][u] \in Late \union {"IDLE"}
              /\ ~mixed'[h][u] => Chosen(h, u)'.label # None
<1>1. /\ delivered[h][u] \notin {"whole", "again"}
      /\ delivered'[h][u] = DeliveryAfter(h, u, m)
      /\ chosen'[h][u] = ChoiceAfter(h, u, m)
      /\ ~mixed'[h][u] => ~mixed[h][u]
      /\ Handles(h, u, m)
  BY DEF Ended, Updated, Remember, Took
<1>2. CASE ~(h # "rss" /\ delivered'[h][u] = "unlabelled")
  BY <1>1, <1>2 DEF DeliveryAfter, Took
<1>3. CASE h # "rss" /\ delivered'[h][u] = "unlabelled"
  <2>1. conv[h][u] \in Late
    BY <1>1, <1>3 DEF DeliveryAfter, Ended, Took
  <2>2. conv'[h][u] \in Late \union {"IDLE"}
    <3>1. conv'[h][u] \in AddStates \union RssStates \union {"IDLE"}
      BY DEF HTypeOK, TypeOK
    <3> QED BY <2>1, <3>1 DEF Took, Forward, Late, AnswersLeft, AddStates, RssStates
  <2>3. chosen'[h][u] = chosen[h][u]
    BY <1>1, <2>1 DEF ChoiceAfter, InState, Late
  <2>4. ASSUME ~mixed'[h][u] PROVE Chosen(h, u).label # None
    <3>1. ~mixed[h][u] /\ h \in {"add", "paused"}
      BY <1>1, <1>3, <2>4 DEF Convs
    <3>2. CASE delivered[h][u] = "unlabelled"
      BY <1>3, <3>1, <3>2 DEF Ended
    <3>3. CASE delivered[h][u] # "unlabelled"
      <4>1. out'.added # {} /\ ~Whole /\ out'.saved = {}
        BY <1>1, <1>3, <3>3 DEF DeliveryAfter, Took
      <4>2. WantsLabel
        BY <4>1 DEF Took, MayHand, Handed, Unlabelled, Whole
      <4>3. label = chosen[h][u].label
        BY <2>1, <3>1 DEF Kept, AsTold, Late
      <4> QED BY <4>2, <4>3 DEF WantsLabel, Chosen
    <3> QED BY <3>2, <3>3
  <2> QED BY <1>3, <2>2, <2>3, <2>4 DEF Chosen
<1> QED BY <1>2, <1>3

\* What the conversation that has just been served handed over
Delivery ==
  \A h \in {"add", "paused"}, u \in Users, t \in out.added :
    <<h, u>> \in served /\ ~mixed[h][u] => Fulfils(t, h, u)

LEMMA DeliveryKept == HSpec => [](Ended /\ Delivery)
<1>1. HInit => Kept /\ Ended /\ Delivery
  BY DEF HInit, Init, Kept, Ended, Delivery, Convs
<1>2. HTypeOK /\ HTypeOK' /\ Kept /\ Ended /\ Delivery /\ [HNext]_hvars
      => Kept' /\ Ended' /\ Delivery'
  <2> SUFFICES ASSUME HTypeOK, HTypeOK', Kept, Ended, Delivery, [HNext]_hvars
               PROVE  Kept' /\ Ended' /\ Delivery'
    OBVIOUS
  <2>1. ASSUME NEW u \in Users, NEW m \in Inputs, Updated(u, m)
        PROVE  Kept' /\ Ended' /\ Delivery'
    <3>1. (\E h \in Convs : Took(h, u, m)) \/ TookNone(u, m)
      BY <2>1, CallbackTook DEF Updated, HTypeOK
    <3>2. ASSUME NEW g \in {"add", "paused"}, NEW v \in Users, ~mixed'[g][v],
                 conv'[g][v] # "IDLE"
          PROVE  AsTold(g, v)'
      <4>1. CASE Took(g, u, m) /\ v = u
        BY <2>1, <3>2, <4>1, HandledKept
      <4>2. CASE ~(Took(g, u, m) /\ v = u)
        BY <2>1, <3>1, <3>2, <4>2, OthersKept
      <4> QED BY <4>1, <4>2
    <3>3. Kept'
      BY <3>2 DEF Kept
    <3>4. ASSUME NEW g \in {"add", "paused"}, NEW v \in Users, NEW t \in out'.added,
                 <<g, v>> \in served', ~mixed'[g][v]
          PROVE  Fulfils(t, g, v)'
      <4>1. v = u /\ g \in Convs /\ Handles(g, u, m)
        BY <2>1, <3>4 DEF Updated, Remember
      <4>2. ~TookNone(u, m)
        BY <4>1 DEF TookNone, NoConversation, Handles
      <4>3. Took(g, u, m)
        BY <3>1, <4>1, <4>2, OneHandler DEF Took
      <4> QED BY <2>1, <3>4, <4>1, <4>3, HandledKept
    <3>5. Delivery'
      BY <3>4 DEF Delivery
    <3>6. ASSUME NEW g \in Convs, NEW v \in Users
          PROVE  /\ delivered'[g][v] # "again"
                 /\ delivered'[g][v] = "whole" => conv'[g][v] = "IDLE"
                 /\ g # "rss" /\ delivered'[g][v] = "unlabelled" =>
                      /\ conv'[g][v] \in Late \union {"IDLE"}
                      /\ ~mixed'[g][v] => Chosen(g, v)'.label # None
      <4>1. CASE conv[g][v] = "IDLE"
        BY <2>1, <4>1 DEF Updated, Remember
      <4>2. CASE conv[g][v] # "IDLE" /\ v = u /\ Handles(g, u, m)
        <5>1. Took(g, u, m)
          BY <3>1, <4>2, OneHandler DEF Took, TookNone, NoConversation, Handles
        <5> QED BY <2>1, <4>2, <5>1, HandledEnds
      <4>3. CASE conv[g][v] # "IDLE" /\ ~(v = u /\ Handles(g, u, m))
        <5>1. conv'[g][v] = conv[g][v]
          BY <3>1, <4>3 DEF Took, TookNone, Only
        <5>2. /\ delivered'[g][v] = delivered[g][v] /\ chosen'[g][v] = chosen[g][v]
              /\ ~mixed'[g][v] => ~mixed[g][v]
          BY <2>1, <4>3 DEF Updated, Remember, DeliveryAfter, ChoiceAfter, InState
        <5>3. Chosen(g, v)' = Chosen(g, v)
          BY <5>2 DEF Chosen
        <5> QED BY <5>1, <5>2, <5>3 DEF Ended
      <4> QED BY <4>1, <4>2, <4>3
    <3>7. Ended'
      BY <3>6 DEF Ended
    <3> QED BY <3>3, <3>5, <3>7
  <2>2. CASE Idled
    <3>1. Delivery'
      BY <2>2 DEF Idled, Forget, Silence, Delivery
    <3>2. UNCHANGED <<chosen, mixed, opts>>
      BY <2>2 DEF Idled, Forget
    <3>3. ASSUME NEW h \in {"add", "paused"}, NEW u \in Users,
                 conv'[h][u] # "IDLE", ~mixed'[h][u]
          PROVE  AsTold(h, u)'
      <4>1. conv' = conv /\ label' = label
        BY <2>2, <3>3 DEF Idled, Convs
      <4> QED BY <3>2, <3>3, <4>1 DEF Kept, AsTold, Chosen
    <3>4. Ended'
      <4>1. UNCHANGED <<chosen, mixed, delivered>>
        BY <2>2 DEF Idled, Forget
      <4>2. \A h \in Convs, u \in Users :
              conv'[h][u] \in {conv[h][u], "IDLE"} /\ Chosen(h, u)' = Chosen(h, u)
        BY <2>2, <4>1 DEF Idled, Chosen
      <4> QED BY <4>1, <4>2 DEF Ended
    <3> QED BY <3>1, <3>3, <3>4 DEF Kept
  <2>3. CASE UNCHANGED hvars
    <3>1. UNCHANGED <<conv, opts, label, out, chosen, mixed, delivered, served>>
      BY <2>3 DEF hvars
    <3>2. \A h \in {"add", "paused"}, u \in Users :
            Chosen(h, u)' = Chosen(h, u) /\ AsTold(h, u)' = AsTold(h, u)
      BY <3>1 DEF AsTold, Chosen
    <3>3. Kept'
      BY <3>1, <3>2 DEF Kept
    <3>4. Delivery'
      BY <3>1, <3>2 DEF Delivery, Fulfils
    <3>5. Ended'
      <4>1. \A h \in Convs, u \in Users : Chosen(h, u)' = Chosen(h, u)
        BY <3>1 DEF Chosen
      <4> QED BY <3>1, <4>1 DEF Ended
    <3> QED BY <3>3, <3>4, <3>5
  <2> QED BY <2>1, <2>2, <2>3, HSteps
<1> QED BY <1>1, <1>2, HistoryTyped, PTL DEF HSpec

(***************************************************************************)
(* If making a directory does not fail: the torrent handed to Deluge has   *)
(* the directory, the label and the pause its own chat asked for, unless   *)
(* another callback wrote the shared opts and label meanwhile; the label   *)
(* is missing only where it failed (add_magnet, add_torrent and add_url    *)
(* read Core.opts and Core.label).                                         *)
(***************************************************************************)
THEOREM ChoicesAreKept ==
  ASSUME "mkdir" \notin MayFail
  PROVE  HSpec => []ChoicesKept
<1>1. Delivery => ChoicesKept
  BY DEF Delivery, Fulfils, ChoicesKept
<1> QED BY <1>1, DeliveryKept, PTL

(***************************************************************************)
(* Whatever fails: such a torrent is paused exactly if its chat said       *)
(* /addpaused, and never carries a label its chat did not ask for.         *)
(***************************************************************************)
THEOREM PauseAndLabelAreKept == HSpec => []PauseAndLabelKept
<1>1. Delivery => PauseAndLabelKept
  BY DEF Delivery, Fulfils, PauseAndLabelKept
<1> QED BY <1>1, DeliveryKept, PTL

(***************************************************************************)
(* Whatever fails, labels and replies included: no conversation hands over *)
(* again what was taken whole, and none whose chat chose no label hands    *)
(* over a torrent that it could be asked for again.                        *)
(***************************************************************************)
THEOREM NothingTwice == HSpec => []DeliveredOnce
<1>1. Ended => DeliveredOnce
  BY DEF Ended, DeliveredOnce
<1> QED BY <1>1, DeliveryKept, PTL

=============================================================================
