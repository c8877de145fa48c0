------------------------------- MODULE Outbox -------------------------------
(***************************************************************************)
(* What the bot says: telegram_send, which splits a long text into pieces  *)
(* and sends it to a list of chats.  The dispatcher thread calls it for    *)
(* the commands that list torrents, the reactor's thread for               *)
(* notifications (module Notifications), both at the same time, and a      *)
(* restart changes the lists of chats in between.                          *)
(*                                                                         *)
(* A message is the lengths of its lines.  A piece is the interval of the  *)
(* lines that it holds; a line counts one more for its newline.            *)
(*                                                                         *)
(* A definition marked "Faulty" is a variant of the next one with a bug;   *)
(* no action uses it.                                                      *)
(***************************************************************************)
EXTENDS Naturals, Sequences, FiniteSets, FiniteSetsExt

CONSTANTS
  Chats, Torrents,
  Lists,     \* the pairs of whitelist and notifylist that preferences describe
  Listings,  \* the texts that cmd_list and its kind may have to send
  Limit,     \* 4096: the longest text that Telegram takes
  Chunk,     \* 4000: a piece longer than this is sent
  MaxCalls,  \* how many texts are sent in an instance
  None

ASSUME ChatsAssumption == IsFiniteSet(Chats)
ASSUME ListsAssumption == Lists \subseteq [white : SUBSET Chats, notify : SUBSET Chats]
ASSUME ListingsAssumption == Listings \subseteq Seq(Nat)
ASSUME SizesAssumption == Chunk \in Nat /\ Limit \in Nat /\ Chunk < Limit
ASSUME CallsAssumption == MaxCalls \in Nat

VARIABLES
  whitelist, notifylist, \* Core.whitelist, Core.notifylist
  stopping,              \* between disable() and the enable() that follows
  messages,              \* history: the texts that telegram_send was called with
  call,                  \* the telegram_send that each thread is in
  sent,                  \* history: the pieces each chat got of each message
  skipped,               \* history: the chats that the filter left out of it
  failed                 \* history: the messages that an exception cut off

ovars == <<whitelist, notifylist, stopping, messages, call, sent, skipped, failed>>

Threads == {"dispatcher", "reactor"}
Ids == 1 .. MaxCalls

(* Where a thread is: the text, the chats still to serve (the first one is *)
(* served now), and the lines first..next-1 that tmp holds.                *)
Places == [id : Ids, to : Seq(Chats), at : {"chat", "whole", "lines"},
           first : Nat, next : Nat]

ASSUME NoneAssumption == None \notin Places

Messages == [lines : Seq(Nat), to : Seq(Chats),
             about : [what : {"listing", "added", "finished", "slow"},
                      torrent : Torrents \union {None}]]

OutboxTypeOK ==
  /\ whitelist \subseteq Chats /\ notifylist \subseteq Chats
  /\ stopping \in BOOLEAN
  /\ messages \in Seq(Messages) /\ Len(messages) <= MaxCalls
  /\ call \in [Threads -> Places \union {None}]
  /\ \A t \in Threads : call[t] # None => call[t].to # <<>>
  /\ sent \in [Ids -> [Chats -> Seq([first : Nat, last : Nat])]]
  /\ skipped \in [Ids -> SUBSET Chats]
  /\ failed \subseteq Ids

OutboxInit ==
  /\ \E l \in Lists : whitelist = l.white /\ notifylist = l.notify
  /\ stopping = FALSE
  /\ messages = <<>>
  /\ call = [t \in Threads |-> None]
  /\ sent = [m \in Ids |-> [u \in Chats |-> <<>>]]
  /\ skipped = [m \in Ids |-> {}]
  /\ failed = {}

Size(lines, i, j) == MapThenSumSet(LAMBDA k : lines[k] + 1, i .. j)
Length(lines) == Size(lines, 1, Len(lines)) - 1

Lines(t) == messages[call[t].id].lines
Chat(t) == Head(call[t].to)

(* The calls of telegram_send: message, list of chats.                     *)
Say(t, lines, about, to) ==
  /\ call[t] = None
  /\ Len(messages) < MaxCalls
  /\ messages' = Append(messages, [lines |-> lines, about |-> about, to |-> to])
  /\ call' = [call EXCEPT ![t] =
       IF to = <<>> THEN None
       ELSE [id |-> Len(messages) + 1, to |-> to, at |-> "chat", first |-> 1, next |-> 1]]
  /\ UNCHANGED <<whitelist, notifylist, stopping, sent, skipped, failed>>

(* cmd_list, cmd_down, cmd_up, cmd_paused                                  *)
cmd_list(u, lines) ==
  /\ u \in whitelist
  /\ Say("dispatcher", lines, [what |-> "listing", torrent |-> None], <<u>>)

(* The next chat, or the end of the call.                                  *)
FaultyOnward(t) == [call EXCEPT ![t].at = "chat", ![t].to = Tail(call[t].to)]

Onward(t) == IF Len(call[t].to) = 1
               THEN [call EXCEPT ![t] = None]
               ELSE [call EXCEPT ![t].at = "chat", ![t].to = Tail(call[t].to)]

(* for usr in to: if str(usr) in self.whitelist or ... in self.notifylist  *)
NextChat(t) ==
  /\ call[t] # None /\ call[t].at = "chat"
  /\ IF Chat(t) \in whitelist \union notifylist
       THEN /\ call' = [call EXCEPT
                 ![t].at = IF Length(Lines(t)) > Limit THEN "lines" ELSE "whole",
                 ![t].first = 1, ![t].next = 1]
            /\ UNCHANGED skipped
       ELSE /\ call' = Onward(t)
            /\ skipped' = [skipped EXCEPT ![call[t].id] = @ \union {Chat(t)}]
  /\ UNCHANGED <<whitelist, notifylist, stopping, messages, sent, failed>>

(* self.bot.send_message(usr, ...)                                         *)
Deliver(t, i, j) ==
  sent' = [sent EXCEPT ![call[t].id][Chat(t)] = Append(@, [first |-> i, last |-> j])]

(* send_message raises: no network, a chat that has blocked the bot, a     *)
(* text that is too long.  Nothing in telegram_send catches it.            *)
Fails(t) ==
  /\ call' = [call EXCEPT ![t] = None]
  /\ failed' = failed \union {call[t].id}
  /\ UNCHANGED <<whitelist, notifylist, stopping, messages, sent, skipped>>

SendWhole(t) ==
  /\ call[t] # None /\ call[t].at = "whole"
  /\ \/ /\ Deliver(t, 1, Len(Lines(t)))
        /\ call' = Onward(t)
        /\ UNCHANGED <<whitelist, notifylist, stopping, messages, skipped, failed>>
     \/ Fails(t)

(* tmp = '' after a piece.                                                 *)
FaultyKeepTmp(t, j) == [call EXCEPT ![t].next = j + 1]

FaultyOnePiece(t, j) == Onward(t)

AfterPiece(t, j) == [call EXCEPT ![t].next = j + 1, ![t].first = j + 1]

(* tmp += line + '\n'; if len(tmp) > 4000: it is sent, unless a long line   *)
(* has made it longer than Telegram takes.                                 *)
AddLine(t) ==
  LET j == call[t].next
      size == Size(Lines(t), call[t].first, j)
  IN
  /\ call[t] # None /\ call[t].at = "lines" /\ j <= Len(Lines(t))
  /\ \/ /\ size <= Chunk
        /\ call' = [call EXCEPT ![t].next = j + 1]
        /\ UNCHANGED <<whitelist, notifylist, stopping, messages, sent, skipped, failed>>
     \/ /\ size > Chunk /\ size <= Limit
        /\ Deliver(t, call[t].first, j)
        /\ call' = AfterPiece(t, j)
        /\ UNCHANGED <<whitelist, notifylist, stopping, messages, skipped, failed>>
     \/ size > Chunk /\ Fails(t)

(* The lines are at their end; what tmp holds is not sent.                 *)
LastLine(t) ==
  /\ call[t] # None /\ call[t].at = "lines" /\ call[t].next > Len(Lines(t))
  /\ call' = Onward(t)
  /\ UNCHANGED <<whitelist, notifylist, stopping, messages, sent, skipped, failed>>

telegram_send(t) == NextChat(t) \/ SendWhole(t) \/ AddLine(t) \/ LastLine(t)

(* disable() empties the whitelist only; it runs between the calls of its  *)
(* own thread.                                                             *)
disable ==
  /\ ~stopping /\ call["reactor"] = None
  /\ stopping' = TRUE
  /\ whitelist' = {}
  /\ UNCHANGED <<notifylist, messages, call, sent, skipped, failed>>

(* enable() comes after Updater.stop() has waited for the dispatcher: a    *)
(* disable() that was cut off before stop(), after a timer that did not    *)
(* start (module PluginLifecycle, BotIsReplaced), is left out.             *)
FaultyEnable ==
  /\ stopping
  /\ call["reactor"] = None
  /\ stopping' = FALSE
  /\ \E l \in Lists : whitelist' = l.white /\ notifylist' = l.notify
  /\ UNCHANGED <<messages, call, sent, skipped, failed>>

enable ==
  /\ stopping
  /\ call["dispatcher"] = None /\ call["reactor"] = None
  /\ stopping' = FALSE
  /\ \E l \in Lists : whitelist' = l.white /\ notifylist' = l.notify
  /\ UNCHANGED <<messages, call, sent, skipped, failed>>

(* ---------------------------------------------------------- Properties *)

Pieces(m, u) == sent[m][u]
SentLines(m, u) ==
  IF Pieces(m, u) = <<>> THEN 0 ELSE Pieces(m, u)[Len(Pieces(m, u))].last

(* What a chat has got of a text is its beginning, in order, no line twice *)
(* and none left out, although two threads speak at once.                  *)
BeginningInOrder ==
  \A m \in Ids, u \in Chats :
    \A k \in DOMAIN Pieces(m, u) :
      Pieces(m, u)[k].first = IF k = 1 THEN 1 ELSE Pieces(m, u)[k - 1].last + 1

Finished(m) == m \in DOMAIN messages /\ \A t \in Threads : call[t] = None \/ call[t].id # m

(* u was not left out: it got a short text whole, and a long one up to an  *)
(* end of at most Chunk characters.                                        *)
Served(m, u) ==
  LET lines == messages[m].lines IN
  \/ u \in skipped[m]
  \/ SentLines(m, u) = Len(lines)
  \/ /\ Length(lines) > Limit
     /\ Size(lines, SentLines(m, u) + 1, Len(lines)) <= Chunk

(* A call that raised nothing has served every chat of its list.           *)
OnlyTheEndIsLost ==
  \A m \in Ids : Finished(m) /\ m \notin failed =>
    \A k \in DOMAIN messages[m].to : Served(m, messages[m].to[k])

(* The promise of /help is the whole list ("/list - List all torrents",    *)
(* core.py 470).                                                           *)
ListsAllTorrents ==
  \A m \in Ids : Finished(m) /\ m \notin failed =>
    \A k \in DOMAIN messages[m].to :
      messages[m].to[k] \in skipped[m]
      \/ SentLines(m, messages[m].to[k]) = Len(messages[m].lines)

(* A chat that the preferences leave out gets nothing more once enable()   *)
(* has run: no thread still speaks for the old lists.                      *)
NothingToStrangers ==
  [][\A u \in Chats :
       (\E m \in Ids : sent'[m][u] # sent[m][u]) =>
         stopping \/ u \in whitelist \union notifylist]_ovars
=============================================================================
