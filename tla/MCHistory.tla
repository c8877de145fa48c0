----------------------------- MODULE MCHistory -----------------------------
(* Small instances of ConversationsHistory for TLC. *)
EXTENDS ConversationsHistory

MCDirOf == [d \in Categories \union QuotedDirs |-> "/music"]
MCEverybody == {Users}

\* One chat: the overlap of /add with /rss, up to the torrent; the feed is named like one of the
\* templates, and the button ".torrent" like the other
MCOneChat == {{u} : u \in Users}
MCRssInputs == {"/add", "/rss", "/cancel", ".torrent", "template"}

\* Two chats that add torrents at the same time
MCTwoChatsInputs == {"/add", "/cancel", "Music", ".torrent", "torrent file"}

============================================================================
