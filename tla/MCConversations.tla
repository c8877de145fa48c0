-------------------------- MODULE MCConversations --------------------------
(* Small instances of Conversations for TLC. *)
EXTENDS Conversations

MCDirOf == [d \in Categories \union QuotedDirs |-> "/music"]
MCOneChat == {{u} : u \in Users}

\* One chat that adds torrents in every way there is
MCAddInputs ==
  {"/add", "/addpaused", "/rss", "/cancel", "Music", "~/new", "No Label",
   "Magnet", ".torrent", "URL", "http link", "torrent file", "other file"}
  \union (MagnetTexts \ {"text with a magnet"})

\* One chat and as few texts as lead into every state of /addpaused and /rss: the
\* feed, the template and the category are all named ".torrent"
MCFewInputs == {"/addpaused", "/rss", "/cancel", ".torrent"}

\* Inputs that suffice to contradict what the bot says
MCCancelInputs == {"/add", "/cancel"}
MCDirectoryInputs ==
  {"/add", "/rss", "Music", "Use Default Settings", "feed", "template"}
============================================================================
