-------------------------- MODULE MCNotifications --------------------------
(* Small instances of Notifications for TLC. *)
EXTENDS Notifications, TLC

\* Two preferences: with c notified but not listened to, with b new and c gone
TwoLists ==
  {[white |-> {"a"}, notify |-> {"a", "c"}], [white |-> {"a", "b"}, notify |-> {"a"}]}

\* With Limit = 8 and Chunk = 4, both are too long for one piece: short lines
\* that make a piece and leave an end, and a line that makes a piece too long
OneText == {<<2, 1, 2, 1, 1>>}
TwoTexts == OneText \union {<<2, 7>>}

\* The torrents are alike
Swaps == Permutations(Torrents)
============================================================================
