------------------------ MODULE ConversationsHistory ------------------------
(***************************************************************************)
(* Conversations with a memory: what each chat answered in each of its     *)
(* conversations, whether another callback wrote the shared opts and label *)
(* meanwhile, and how much the conversation has delivered.  The memory     *)
(* never restricts a step; the properties compare it with what Deluge and  *)
(* YaRSS2 are handed.                                                      *)
(***************************************************************************)
EXTENDS Conversations

VARIABLES
  chosen,    \* the directory and the label the chat chose in the conversation
  mixed,     \* another callback wrote opts or label since the conversation began
  delivered, \* whether the conversation handed something over, and how far
  served     \* the conversation whose callback ran last, if one did

memory == <<chosen, mixed, delivered, served>>
hvars == <<conv, opts, label, is_rss, yarss_data, whitelist, enabled, out,
           chosen, mixed, delivered, served>>

NoChoice == [directory |-> None, label |-> None]
Choices == [directory : Paths \union {None}, label : Inputs \union {None}]

Deliveries == {"nothing", "unlabelled", "unconfirmed", "whole", "again"}

HInit ==
  /\ Init
  /\ chosen = [h \in Convs |-> [u \in Users |-> NoChoice]]
  /\ mixed = [h \in Convs |-> [u \in Users |-> FALSE]]
  /\ delivered = [h \in Convs |-> [u \in Users |-> "nothing"]]
  /\ served = {}

\* The answers that say where the torrent goes and how it is labelled
ChoiceAfter(h, u, m) ==
  CASE InState(h, u, m, "CATEGORY") /\ m # "Use Default Settings"
         /\ m \in Categories \union QuotedDirs
       -> [chosen[h][u] EXCEPT !.directory = DirOf[m]]
    [] InState(h, u, m, "SET_LABEL") -> [chosen[h][u] EXCEPT !.label = m]
    [] OTHER -> chosen[h][u]

\* The callbacks that assign opts or label: the entry points of /add and
\* /addpaused, the answers of CATEGORY and SET_LABEL, a magnet in the chat
Writes(h, u, m) ==
  \/ h \in {"add", "paused"} /\ Entry(h, u, m)
  \/ InState(h, u, m, "CATEGORY")
  \/ InState(h, u, m, "SET_LABEL")
WritesGlobally(u, m) == NoConversation(u, m) /\ m \in MagnetTexts

\* A torrent or a subscription was taken, and nothing raised after that: the
\* torrent has its label, the subscription was confirmed
HandsOver == out'.added \union out'.saved # {}
Whole ==
  /\ out'.saved # {} => out'.reply = "added_rss"
  /\ \A t \in out'.added : t.label = IF WantsLabel THEN label ELSE None

DeliveryAfter(h, u, m) ==
  IF ~Handles(h, u, m) \/ ~HandsOver THEN delivered[h][u]
  ELSE IF delivered[h][u] \in {"whole", "again"} THEN "again"
  ELSE IF Whole THEN "whole"
  ELSE IF out'.added # {} THEN "unlabelled" ELSE "unconfirmed"

\* A conversation that begins remembers nothing of the one before
Remember(u, m) ==
  /\ chosen' = [h \in Convs |-> [v \in Users |->
       IF conv[h][v] = "IDLE" THEN NoChoice
       ELSE IF v = u THEN ChoiceAfter(h, u, m) ELSE chosen[h][v]]]
  /\ mixed' = [h \in Convs |-> [v \in Users |->
       /\ conv[h][v] # "IDLE"
       /\ \/ mixed[h][v]
          \/ WritesGlobally(u, m)
          \/ \E g \in Convs : Writes(g, u, m) /\ <<g, u>> # <<h, v>>]]
  /\ delivered' = [h \in Convs |-> [v \in Users |->
       IF conv[h][v] = "IDLE" THEN "nothing"
       ELSE IF v = u THEN DeliveryAfter(h, u, m) ELSE delivered[h][v]]]
  /\ served' = {<<h, u>> : h \in {g \in Convs : Handles(g, u, m)}}

Forget == served' = {} /\ UNCHANGED <<chosen, mixed, delivered>>

HNext ==
  \/ \E u \in Users, m \in Inputs :
       /\ process_update(u, m)
       /\ IF u \in whitelist THEN Remember(u, m) ELSE Forget
  \/ /\ (\E W \in Whitelists : enable(W)) \/ disable
     /\ Forget

HSpec == HInit /\ [][HNext]_hvars

(* ------------------------------------------------------------ Properties *)

HTypeOK ==
  /\ TypeOK
  /\ chosen \in [Convs -> [Users -> Choices]]
  /\ mixed \in [Convs -> [Users -> BOOLEAN]]
  /\ delivered \in [Convs -> [Users -> Deliveries]]
  /\ served \subseteq Convs \X Users

\* The torrent a conversation should hand over
Chosen(h, u) ==
  [options |-> [addpaused |-> h = "paused",
                move_completed_path |-> chosen[h][u].directory],
   label |-> IF chosen[h][u].label = "No Label" THEN None ELSE chosen[h][u].label]

(***************************************************************************)
(* A torrent that a conversation of /add or /addpaused hands to Deluge     *)
(* carries the directory, the label and the pause its own chat asked for   *)
(* in that very conversation, whatever else the chats did, as long as no   *)
(* other callback assigned opts or label since it began; only the label    *)
(* may be missing, and then the conversation has not delivered whole (the  *)
(* attributes opts and label of Core, read in add_magnet, add_torrent and  *)
(* add_url).                                                               *)
(***************************************************************************)
ChoicesKept ==
  \A h \in {"add", "paused"}, u \in Users, t \in out.added :
    (<<h, u>> \in served /\ ~mixed[h][u]) =>
      \/ t = Chosen(h, u)
      \/ t = [Chosen(h, u) EXCEPT !.label = None] /\ delivered[h][u] = "unlabelled"

(***************************************************************************)
(* Such a torrent is paused exactly if its chat said /addpaused and never  *)
(* carries a label its chat did not choose, even where a directory could   *)
(* not be made or the Label plugin raised (category, apply_label).         *)
(***************************************************************************)
PauseAndLabelKept ==
  \A h \in {"add", "paused"}, u \in Users, t \in out.added :
    (<<h, u>> \in served /\ ~mixed[h][u]) =>
      /\ t.options.addpaused = (h = "paused")
      /\ t.label \in {None, Chosen(h, u).label}

(***************************************************************************)
(* ChoicesKept without the condition: what the chats are told about their  *)
(* answers.  Two chats of the whitelist break it.                          *)
(***************************************************************************)
ChoicesAreOwn ==
  \A h \in {"add", "paused"}, u \in Users :
    <<h, u>> \in served => out.added \subseteq {Chosen(h, u)}

(***************************************************************************)
(* A chat that gets no answer and tries again adds nothing twice that was  *)
(* handed over whole, whatever raised on the way and however conversations *)
(* and restarts interleave: a second torrent comes only after the Label    *)
(* plugin raised, never to a chat that chose no label, and a second        *)
(* subscription only after its confirmation raised (add_magnet,            *)
(* add_torrent and add_url, which return END after apply_label; addRss).   *)
(***************************************************************************)
DeliveredOnce ==
  \A h \in Convs, u \in Users :
    /\ delivered[h][u] # "again"
    /\ h # "rss" /\ ~mixed[h][u] /\ Chosen(h, u).label = None =>
         delivered[h][u] # "unlabelled"

============================================================================
