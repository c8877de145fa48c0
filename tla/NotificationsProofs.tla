------------------------ MODULE NotificationsProofs ------------------------
(***************************************************************************)
(* What holds of Outbox and Notifications for any chats, torrents, texts   *)
(* and sizes, however many texts are sent and daemons started.             *)
(***************************************************************************)
EXTENDS Notifications, OutboxProofs

(* ------------------------------------------------- Who is told, and when *)

LEMMA OrdersAreSeqs ==
  ASSUME NEW S, IsFiniteSet(S), NEW s \in Orders(S)
  PROVE  /\ s \in Seq(S) /\ \A j, k \in DOMAIN s : j # k => s[j] # s[k]
         /\ S # {} => s # <<>>
         /\ \A e \in S : \E k \in DOMAIN s : s[k] = e
<1>1. Cardinality(S) \in Nat
  BY FS_CardinalityType
<1>2. /\ s \in [1 .. Cardinality(S) -> S]
      /\ \A j, k \in DOMAIN s : j # k => s[j] # s[k]
  BY DEF Orders
<1>3. s \in Seq(S) /\ Len(s) = Cardinality(S)
  BY <1>1, <1>2, IsASeq, LenProperties
<1>4. S # {} => s # <<>>
  BY <1>3, FS_EmptySet, EmptySeq
<1>5. \A e \in S : \E k \in DOMAIN s : s[k] = e
  <2> DEFINE places == 1 .. Cardinality(S)
  <2>1. s \in Injection(places, S)
    BY <1>2 DEF Injection, IsInjective
  <2>2. Cardinality(places) = Cardinality(S)
    BY <1>1, FS_Interval
  <2> HIDE DEF places
  <2>3. s \in Surjection(places, S)
    BY <2>1, <2>2, FS_Injection
  <2> QED BY <2>3 DEF Surjection
<1> QED BY <1>2, <1>3, <1>4, <1>5

KInv == OInv /\ Turns

LEMMA NotifyKeeps ==
  ASSUME KInv, NEW what \in {"added", "finished", "slow"}, NEW t \in Torrents,
         Notify(what, t)
  PROVE  KInv'
<1>1. PICK to \in Orders(notifylist) :
        Say("reactor", <<1>>, [what |-> what, torrent |-> t], to)
  BY DEF Notify
<1>2. notifylist \subseteq Chats /\ IsFiniteSet(notifylist)
  BY ChatsAssumption, FS_Subset DEF KInv, OInv, OutboxTypeOK
<1>3. to \in Seq(notifylist) /\ \A j, k \in DOMAIN to : j # k => to[j] # to[k]
  BY <1>2, OrdersAreSeqs
<1>4. to \in Seq(Chats)
  BY <1>2, <1>3, SeqMonotonic
<1> DEFINE m == [lines |-> <<1>>, about |-> [what |-> what, torrent |-> t], to |-> to]
<1>5. <<1>> \in Seq(Nat)
  OBVIOUS
<1>6. m \in Messages /\ m.lines = <<1>> /\ m.about = [what |-> what, torrent |-> t]
      /\ m.to = to
  BY <1>4, <1>5 DEF Messages
<1> HIDE DEF m
<1>7. Say("reactor", m.lines, m.about, m.to)
  BY <1>1, <1>6
<1>8. "reactor" \in Threads
  BY DEF Threads
<1> QED BY <1>3, <1>6, <1>7, <1>8, SayKeeps, SayTurns DEF KInv

LEMMA ListKeeps ==
  ASSUME KInv, NEW u \in Chats, NEW lines \in Listings, cmd_list(u, lines)
  PROVE  KInv'
<1> DEFINE m == [lines |-> lines, about |-> [what |-> "listing", torrent |-> None],
                 to |-> <<u>>]
<1>1. lines \in Seq(Nat)
  BY ListingsAssumption
<1>2. <<u>> \in Seq(Chats) /\ \A j, k \in DOMAIN <<u>> : j # k => <<u>>[j] # <<u>>[k]
  OBVIOUS
<1>3. m \in Messages /\ m.lines = lines /\ m.to = <<u>>
      /\ m.about = [what |-> "listing", torrent |-> None]
  BY <1>1, <1>2 DEF Messages
<1> HIDE DEF m
<1>4. Say("dispatcher", m.lines, m.about, m.to)
  BY <1>3 DEF cmd_list
<1>5. "dispatcher" \in Threads
  BY DEF Threads
<1> QED BY <1>2, <1>3, <1>4, <1>5, SayKeeps, SayTurns DEF KInv

\* A step that neither sends nor says anything
LEMMA TurnsKept ==
  ASSUME Turns, UNCHANGED <<messages, call, sent, skipped, failed>>
  PROVE  Turns'
<1>1. \A m, u : Served(m, u) <=> Served(m, u)'
  BY DEF Served, SentLines, Pieces
<1>2. \A t \in Threads : call[t] # None => Progress(t)'
  <2>1. ASSUME NEW t \in Threads, call[t] # None
        PROVE  Progress(t)'
    <3>1. Progress(t)
      BY <2>1 DEF Turns
    <3> QED BY <1>1, <3>1 DEF Progress
  <2> QED BY <2>1
<1>3. OnlyTheEndIsLost'
  BY <1>1 DEF Turns, OnlyTheEndIsLost, Finished
<1> QED BY <1>2, <1>3 DEF Turns, Distinct

LEMMA AloneKeeps ==
  ASSUME KInv, UNCHANGED ovars
  PROVE  KInv'
<1>1. OInv'
  BY DEF KInv, OInv, ovars, OutboxTypeOK, InPlace, Apart, Addressed, Chat,
         BeginningInOrder, Pieces
<1> QED BY <1>1, TurnsKept DEF KInv, ovars

LEMMA DisableKeeps ==
  ASSUME KInv, disable
  PROVE  KInv'
<1>1. /\ stopping' = TRUE /\ whitelist' = {}
      /\ UNCHANGED <<notifylist, messages, call, sent, skipped, failed>>
  BY DEF disable
<1>2. OInv'
  BY <1>1 DEF KInv, OInv, OutboxTypeOK, InPlace, Apart, Addressed, BeginningInOrder, Pieces
<1> QED BY <1>1, <1>2, TurnsKept DEF KInv

LEMMA EnableKeeps ==
  ASSUME KInv, enable
  PROVE  KInv'
<1> USE DEF KInv
<1>1. /\ call["dispatcher"] = None /\ call["reactor"] = None /\ stopping' = FALSE
      /\ UNCHANGED <<messages, call, sent, skipped, failed>>
  BY DEF enable
<1>2. whitelist' \subseteq Chats /\ notifylist' \subseteq Chats
  BY ListsAssumption DEF enable
<1>3. call' = [t \in Threads |-> None]
  BY <1>1 DEF OInv, OutboxTypeOK, Threads
<1>4. OutboxTypeOK'
  BY <1>1, <1>2 DEF OInv, OutboxTypeOK
<1> QED BY <1>1, <1>3, <1>4, IdleKeeps, TurnsKept

LEMMA StartKeeps ==
  ASSUME KInv, StartDaemon
  PROVE  KInv'
<1> USE DEF KInv
<1>1. /\ call' = [t \in Threads |-> None] /\ stopping' = FALSE
      /\ failed' = failed \union {call[t].id : t \in {t \in Threads : call[t] # None}}
      /\ UNCHANGED <<messages, sent, skipped>>
  BY DEF StartDaemon
<1>2. whitelist' \subseteq Chats /\ notifylist' \subseteq Chats
  BY ListsAssumption DEF StartDaemon
<1>3. failed' \subseteq Ids
  BY <1>1, CallType DEF OInv, OutboxTypeOK
<1>4. call' \in [Threads -> Places \union {None}] /\ \A t \in Threads : call'[t] = None
  BY <1>1
<1>5. OutboxTypeOK'
  BY <1>1, <1>2, <1>3, <1>4 DEF OInv, OutboxTypeOK
<1> QED BY <1>1, <1>5, IdleKeeps, IdleTurns

(* ------------------------------------------------- How often one is told *)

InWindow(t) ==
  {k \in DOMAIN starts : starts[k] <= time_added[t] + Window /\ starts[k] >= time_added[t]}

\* A torrent that the daemon has yet to load was not announced for its last start
Quiet ==
  /\ loading \subseteq Known /\ (loading # {} => starts # <<>>)
  /\ \A k \in DOMAIN starts : starts[k] <= now
  /\ \A t \in Known : time_added[t] <= now
  /\ \A t \in loading : time_added[t] <= starts[Len(starts)]
  /\ \A t \in Torrents \ Known : Announcements(t) = {}
  /\ \A t \in Known \ loading : Cardinality(Announcements(t)) <= 1 + Cardinality(InWindow(t))
  /\ \A t \in loading :
       Cardinality(Announcements(t)) <= 1 + Cardinality(InWindow(t) \ {Len(starts)})

LEMMA ClockNumbers ==
  ASSUME TypeOK
  PROVE  /\ now \in Nat /\ Window \in Nat
         /\ Len(starts) \in Nat /\ DOMAIN starts = 1 .. Len(starts)
         /\ \A k \in DOMAIN starts : starts[k] \in Nat
         /\ \A t \in Known : time_added[t] \in Nat
         /\ starts # <<>> => Len(starts) \in DOMAIN starts
<1>1. now \in Nat /\ Window \in Nat
  BY TimesAssumption DEF TypeOK
<1>2. starts \in Seq(0 .. MaxTime)
  BY DEF TypeOK
<1>3. Len(starts) \in Nat /\ DOMAIN starts = 1 .. Len(starts)
  BY <1>2, LenProperties
<1>4. \A k \in DOMAIN starts : starts[k] \in 0 .. MaxTime
  BY <1>2, <1>3, ElementOfSeq
<1>5. \A k \in 0 .. MaxTime : k \in Nat
  BY TimesAssumption
<1>6. \A t \in Known : time_added[t] \in 0 .. MaxTime
  BY DEF TypeOK, Known
<1>7. starts # <<>> => Len(starts) \in DOMAIN starts
  BY <1>2, <1>3, EmptySeq
<1> QED BY <1>1, <1>3, <1>4, <1>5, <1>6, <1>7

LEMMA Finite ==
  ASSUME TypeOK, NEW t
  PROVE  /\ IsFiniteSet(Announcements(t)) /\ Cardinality(Announcements(t)) \in Nat
         /\ IsFiniteSet(InWindow(t)) /\ Cardinality(InWindow(t)) \in Nat
         /\ \A k : Cardinality(InWindow(t) \ {k}) \in Nat
         /\ \A k : Cardinality(InWindow(t) \ {k}) <= Cardinality(InWindow(t))
         /\ \A k \in InWindow(t) :
              Cardinality(InWindow(t)) = Cardinality(InWindow(t) \ {k}) + 1
<1>1. DOMAIN messages = 1 .. Len(messages) /\ Len(messages) \in Nat
  BY LenProperties DEF TypeOK, OutboxTypeOK
<1>2. IsFiniteSet(DOMAIN messages) /\ IsFiniteSet(DOMAIN starts)
  BY <1>1, ClockNumbers, FS_Interval
<1>3. Announcements(t) \in SUBSET DOMAIN messages /\ InWindow(t) \in SUBSET DOMAIN starts
  BY DEF Announcements, InWindow
<1>4. IsFiniteSet(Announcements(t)) /\ IsFiniteSet(InWindow(t))
  BY <1>2, <1>3, FS_Subset
<1>5. \A k : /\ IsFiniteSet(InWindow(t) \ {k})
             /\ Cardinality(InWindow(t) \ {k}) <= Cardinality(InWindow(t))
  BY <1>4, FS_Subset
<1>6. \A k : Cardinality(InWindow(t) \ {k}) \in Nat
  BY <1>5, FS_CardinalityType
<1>7. Cardinality(Announcements(t)) \in Nat /\ Cardinality(InWindow(t)) \in Nat
  BY <1>4, FS_CardinalityType
<1>8. \A k \in InWindow(t) :
        Cardinality(InWindow(t)) = Cardinality(InWindow(t) \ {k}) + 1
  <2>1. ASSUME NEW k \in InWindow(t)
        PROVE  Cardinality(InWindow(t)) = Cardinality(InWindow(t) \ {k}) + 1
    <3>1. Cardinality(InWindow(t) \ {k}) = Cardinality(InWindow(t)) - 1
      BY <1>4, FS_RemoveElement
    <3> QED BY <1>7, <3>1
  <2> QED BY <2>1
<1> QED BY <1>4, <1>5, <1>6, <1>7, <1>8

\* What another text does to the announcements
LEMMA SayAnnounces ==
  ASSUME TypeOK, NEW t, NEW u, NEW lines, NEW about, NEW to, Say(u, lines, about, to)
  PROVE  /\ about # [what |-> "added", torrent |-> t] =>
              Announcements(t)' = Announcements(t)
         /\ /\ Cardinality(Announcements(t)') \in Nat
            /\ Cardinality(Announcements(t)') <= Cardinality(Announcements(t)) + 1
<1> DEFINE m == [lines |-> lines, about |-> about, to |-> to]
           n == Len(messages) + 1
<1>1. messages' = Append(messages, m) /\ messages \in Seq(Messages)
  BY DEF Say, TypeOK, OutboxTypeOK
<1>2. /\ DOMAIN messages = 1 .. Len(messages) /\ Len(messages) \in Nat
      /\ DOMAIN messages' = 1 .. n
      /\ \A k \in DOMAIN messages : messages'[k] = messages[k]
      /\ messages'[n] = m
  BY <1>1, LenProperties
<1>3. DOMAIN messages' = DOMAIN messages \union {n} /\ n \notin DOMAIN messages
  BY <1>2
<1>4. m.about = about
  OBVIOUS
<1> HIDE DEF m, n
<1>5. \/ Announcements(t)' = Announcements(t)
      \/ /\ Announcements(t)' = Announcements(t) \union {n}
         /\ about = [what |-> "added", torrent |-> t]
  <2>1. \A k \in DOMAIN messages : k \in Announcements(t)' <=> k \in Announcements(t)
    BY <1>2, <1>3 DEF Announcements
  <2>2. n \in Announcements(t)' <=> about = [what |-> "added", torrent |-> t]
    BY <1>2, <1>3, <1>4 DEF Announcements
  <2>3. Announcements(t)' \subseteq DOMAIN messages \union {n}
    BY <1>3 DEF Announcements
  <2>4. Announcements(t) \subseteq DOMAIN messages
    BY DEF Announcements
  <2>5. CASE about = [what |-> "added", torrent |-> t]
    <3>1. Announcements(t)' = Announcements(t) \union {n}
      BY <2>1, <2>2, <2>3, <2>4, <2>5
    <3> QED BY <2>5, <3>1
  <2>6. CASE about # [what |-> "added", torrent |-> t]
    <3>1. n \notin Announcements(t)' /\ n \notin Announcements(t)
      BY <1>3, <2>2, <2>4, <2>6
    <3>2. Announcements(t)' = Announcements(t)
      BY <2>1, <2>3, <2>4, <3>1
    <3> QED BY <3>2
  <2> QED BY <2>5, <2>6
<1>6. n \notin Announcements(t)
  BY <1>3 DEF Announcements
<1>7. IsFiniteSet(Announcements(t)) /\ Cardinality(Announcements(t)) \in Nat
  BY Finite
<1>8. Cardinality(Announcements(t) \union {n}) = Cardinality(Announcements(t)) + 1
  BY <1>6, <1>7, FS_AddElement
<1>9. CASE Announcements(t)' = Announcements(t)
  BY <1>7, <1>9
<1>10. CASE /\ Announcements(t)' = Announcements(t) \union {n}
            /\ about = [what |-> "added", torrent |-> t]
  BY <1>7, <1>8, <1>10
<1> QED BY <1>5, <1>9, <1>10

LEMMA NotifyAnnounces ==
  ASSUME TypeOK, NEW what, NEW t, NEW u, Notify(what, u)
  PROVE  /\ what # "added" \/ t # u => Announcements(t)' = Announcements(t)
         /\ /\ Cardinality(Announcements(t)') \in Nat
            /\ Cardinality(Announcements(t)') <= Cardinality(Announcements(t)) + 1
<1>1. PICK to : Say("reactor", <<1>>, [what |-> what, torrent |-> u], to)
  BY DEF Notify
<1>2. what # "added" \/ t # u =>
        [what |-> what, torrent |-> u] # [what |-> "added", torrent |-> t]
  OBVIOUS
<1> QED BY <1>1, <1>2, SayAnnounces

\* A step that announces nothing and starts nothing
LEMMA QuietKept ==
  ASSUME TypeOK, Quiet, now' = now \/ now' = now + 1,
         UNCHANGED <<time_added, loading, starts>>,
         \A t \in Torrents : Announcements(t)' = Announcements(t)
  PROVE  Quiet'
<1>1. Known' = Known /\ Known \subseteq Torrents /\ \A t : InWindow(t)' = InWindow(t)
  BY DEF Known, InWindow
<1>2. now <= now' /\ now' \in Nat
  BY ClockNumbers
<1>3. \A k \in DOMAIN starts : starts[k] <= now'
  BY <1>2, ClockNumbers DEF Quiet
<1>4. \A t \in Known : time_added[t] <= now'
  BY <1>2, ClockNumbers DEF Quiet
<1> QED BY <1>1, <1>3, <1>4 DEF Quiet

LEMMA AddQuiet ==
  ASSUME TypeOK, Quiet, NEW t \in Torrents, AddTorrent(t)
  PROVE  Quiet'
<1>1. /\ time_added[t] = None /\ time_added' = [time_added EXCEPT ![t] = now]
      /\ UNCHANGED <<now, loading, starts>>
  BY DEF AddTorrent
<1>2. t \notin Known /\ now # None
  BY <1>1, ClockAssumption DEF Known, TypeOK
<1>3. /\ Known' = Known \union {t} /\ time_added'[t] = now
      /\ \A u \in Known : time_added'[u] = time_added[u] /\ u # t
      /\ Known \subseteq Torrents
  BY <1>1, <1>2 DEF Known, TypeOK
<1>4. \A u \in Torrents :
        /\ u # t => Announcements(u)' = Announcements(u)
        /\ /\ Cardinality(Announcements(u)') \in Nat
           /\ Cardinality(Announcements(u)') <= Cardinality(Announcements(u)) + 1
  <2>1. CASE Notify("added", t)
    BY <2>1, NotifyAnnounces
  <2>2. CASE UNCHANGED ovars
    <3>1. \A u : Announcements(u)' = Announcements(u)
      BY <2>2 DEF Announcements, ovars
    <3> QED BY <3>1, Finite
  <2> QED BY <2>1, <2>2 DEF AddTorrent, on_torrent_added
<1>5. \A u \in Known : InWindow(u)' = InWindow(u)
  BY <1>1, <1>3 DEF InWindow
<1>6. Cardinality(Announcements(t)') <= 1 + Cardinality(InWindow(t)')
  <2>1. Announcements(t) = {}
    BY <1>2 DEF Quiet
  <2>2. Cardinality(Announcements(t)') <= 1 /\ Cardinality(Announcements(t)') \in Nat
    <3>1. Cardinality(Announcements(t)) = 0
      BY <2>1, FS_EmptySet
    <3> QED BY <1>4, <3>1
  <2>3. Cardinality(InWindow(t)') \in Nat
    <3>1. InWindow(t)' \in SUBSET DOMAIN starts
      BY <1>1 DEF InWindow
    <3>2. IsFiniteSet(DOMAIN starts)
      BY ClockNumbers, FS_Interval
    <3> QED BY <3>1, <3>2, FS_Subset, FS_CardinalityType
  <2> QED BY <2>2, <2>3
<1>7. \A u \in Known' : time_added'[u] <= now'
  BY <1>1, <1>3, ClockNumbers DEF Quiet
<1>8. loading \subseteq Known /\ t \notin loading
  BY <1>2 DEF Quiet
<1>9. /\ loading' \subseteq Known' /\ (loading' # {} => starts' # <<>>)
      /\ \A k \in DOMAIN starts' : starts'[k] <= now'
      /\ \A u \in loading' : time_added'[u] <= starts'[Len(starts')]
  BY <1>1, <1>3, <1>8 DEF Quiet
<1>10. \A u \in Torrents \ Known' : Announcements(u)' = {}
  BY <1>3, <1>4 DEF Quiet
<1>11. \A u \in Known' \ loading' :
         Cardinality(Announcements(u)') <= 1 + Cardinality(InWindow(u)')
  BY <1>1, <1>3, <1>4, <1>5, <1>6 DEF Quiet
<1>12. \A u \in loading' :
         Cardinality(Announcements(u)') <= 1 + Cardinality(InWindow(u)' \ {Len(starts')})
  BY <1>1, <1>3, <1>4, <1>5, <1>8 DEF Quiet
<1> QED BY <1>7, <1>9, <1>10, <1>11, <1>12 DEF Quiet

LEMMA LoadQuiet ==
  ASSUME TypeOK, Quiet, NEW t \in Torrents, LoadTorrent(t)
  PROVE  Quiet'
<1>1. /\ t \in loading /\ loading' = loading \ {t}
      /\ UNCHANGED <<now, time_added, starts>>
  BY DEF LoadTorrent
<1>2. /\ Known' = Known /\ Known \subseteq Torrents /\ t \in Known
      /\ \A u : InWindow(u)' = InWindow(u)
  BY <1>1 DEF Known, InWindow, Quiet
<1>3. \A u \in Torrents : u # t => Announcements(u)' = Announcements(u)
  <2>1. CASE Notify("added", t)
    BY <2>1, NotifyAnnounces
  <2>2. CASE UNCHANGED ovars
    BY <2>2 DEF Announcements, ovars
  <2> QED BY <2>1, <2>2 DEF LoadTorrent, on_torrent_added
<1>4. Cardinality(Announcements(t)) <= 1 + Cardinality(InWindow(t) \ {Len(starts)})
  BY <1>1 DEF Quiet
<1>5. Cardinality(Announcements(t)') <= 1 + Cardinality(InWindow(t))
  <2>1. CASE Notify("added", t) /\ time_added[t] + Window >= now
    <3>1. /\ Cardinality(Announcements(t)') \in Nat
          /\ Cardinality(Announcements(t)') <= Cardinality(Announcements(t)) + 1
      BY <2>1, NotifyAnnounces
    <3>2. Len(starts) \in InWindow(t)
      <4>1. Len(starts) \in DOMAIN starts /\ time_added[t] <= starts[Len(starts)]
        BY <1>1, ClockNumbers DEF Quiet
      <4>2. starts[Len(starts)] <= now
        BY <4>1 DEF Quiet
      <4>3. /\ starts[Len(starts)] <= time_added[t] + Window
            /\ starts[Len(starts)] >= time_added[t]
        BY <1>2, <2>1, <4>1, <4>2, ClockNumbers
      <4> QED BY <4>1, <4>3 DEF InWindow
    <3>3. Cardinality(InWindow(t)) = Cardinality(InWindow(t) \ {Len(starts)}) + 1
      BY <3>2, Finite
    <3>4. /\ Cardinality(InWindow(t) \ {Len(starts)}) \in Nat
          /\ Cardinality(Announcements(t)) \in Nat
      BY Finite
    <3> QED BY <1>4, <3>1, <3>3, <3>4
  <2>2. CASE UNCHANGED ovars
    <3>1. Announcements(t)' = Announcements(t)
      BY <2>2 DEF Announcements, ovars
    <3>2. /\ Cardinality(InWindow(t) \ {Len(starts)}) <= Cardinality(InWindow(t))
          /\ Cardinality(InWindow(t) \ {Len(starts)}) \in Nat
          /\ Cardinality(InWindow(t)) \in Nat /\ Cardinality(Announcements(t)) \in Nat
      BY Finite
    <3> QED BY <1>4, <3>1, <3>2
  <2> QED BY <2>1, <2>2 DEF LoadTorrent, on_torrent_added
<1>6. \A u \in Torrents \ Known' : Announcements(u)' = {}
  BY <1>2, <1>3 DEF Quiet
<1>7. \A u \in Known' \ loading' :
        Cardinality(Announcements(u)') <= 1 + Cardinality(InWindow(u)')
  BY <1>1, <1>2, <1>3, <1>5 DEF Quiet
<1>8. \A u \in loading' :
        Cardinality(Announcements(u)') <= 1 + Cardinality(InWindow(u)' \ {Len(starts')})
  <2>1. \A u \in loading' : u \in loading /\ u # t /\ u \in Torrents
    BY <1>1, <1>2 DEF Quiet
  <2> QED BY <1>1, <1>2, <1>3, <2>1 DEF Quiet
<1> QED BY <1>1, <1>2, <1>6, <1>7, <1>8 DEF Quiet

LEMMA StartQuiet ==
  ASSUME TypeOK, Quiet, StartDaemon
  PROVE  Quiet'
<1>1. /\ starts' = Append(starts, now) /\ loading' = Known
      /\ UNCHANGED <<messages, now, time_added>>
  BY DEF StartDaemon
<1> DEFINE n == Len(starts) + 1
<1>2. /\ Len(starts') = n /\ DOMAIN starts' = 1 .. n /\ starts' # <<>> /\ starts'[n] = now
      /\ \A k \in DOMAIN starts : starts'[k] = starts[k]
  <2>1. starts \in Seq(0 .. MaxTime) /\ now \in 0 .. MaxTime
    BY DEF TypeOK
  <2> QED BY <1>1, <2>1, AppendProperties, LenProperties
<1>3. DOMAIN starts' = DOMAIN starts \union {n} /\ n \notin DOMAIN starts
  BY <1>2, ClockNumbers
<1> HIDE DEF n
<1>4. \A t : Announcements(t)' = Announcements(t)
  BY <1>1 DEF Announcements
<1>5. Known' = Known
  BY <1>1 DEF Known
<1>6. \A t : InWindow(t)' \ {n} = InWindow(t)
  BY <1>1, <1>2, <1>3 DEF InWindow
<1>7. \A t \in Known : Cardinality(Announcements(t)) <= 1 + Cardinality(InWindow(t))
  <2>1. ASSUME NEW t \in loading
        PROVE  Cardinality(Announcements(t)) <= 1 + Cardinality(InWindow(t))
    <3>1. Cardinality(Announcements(t)) <= 1 + Cardinality(InWindow(t) \ {Len(starts)})
      BY DEF Quiet
    <3>2. /\ Cardinality(InWindow(t) \ {Len(starts)}) <= Cardinality(InWindow(t))
          /\ Cardinality(InWindow(t) \ {Len(starts)}) \in Nat
          /\ Cardinality(InWindow(t)) \in Nat /\ Cardinality(Announcements(t)) \in Nat
      BY Finite
    <3> QED BY <3>1, <3>2
  <2> QED BY <2>1 DEF Quiet
<1>8. \A k \in DOMAIN starts' : starts'[k] <= now'
  BY <1>1, <1>2, <1>3, ClockNumbers DEF Quiet
<1>9. \A t \in Known : time_added[t] <= now
  BY DEF Quiet
<1>10. \A t \in loading' :
         Cardinality(Announcements(t)') <= 1 + Cardinality(InWindow(t)' \ {Len(starts')})
  BY <1>1, <1>2, <1>4, <1>6, <1>7
<1>11. \A t \in Torrents \ Known' : Announcements(t)' = {}
  BY <1>4, <1>5 DEF Quiet
<1> QED BY <1>1, <1>2, <1>5, <1>8, <1>9, <1>10, <1>11 DEF Quiet

(* ------------------------------------------ Of which torrents one is told *)

\* A message of the last check_speed
Ours(m) ==
  m \in DOMAIN messages /\ m >= checked.from /\ messages[m].about.what = "slow"

CheckFailed == \E m \in failed : Ours(m)

Told(t) ==
  \E m \in DOMAIN messages :
    m >= checked.from /\ messages[m].about = [what |-> "slow", torrent |-> t]

\* While check_speed goes on, the last notification is its own, and it has yet
\* to speak about the torrents it has not told of
CheckGoes ==
  /\ slow # <<>> =>
       \E m \in DOMAIN messages :
         /\ Ours(m)
         /\ \A k \in DOMAIN messages : k > m => messages[k].about.what = "listing"
  /\ \/ CheckFailed
     \/ \A t \in checked.torrents : Told(t) \/ \E k \in DOMAIN slow : slow[k] = t

LEMMA CheckNumbers ==
  ASSUME TypeOK
  PROVE  /\ DOMAIN messages = 1 .. Len(messages) /\ Len(messages) \in Nat
         /\ checked.from \in Nat
         /\ \A m \in DOMAIN messages : m \in Nat
<1>1. DOMAIN messages = 1 .. Len(messages) /\ Len(messages) \in Nat
  BY LenProperties DEF TypeOK, OutboxTypeOK
<1> QED BY <1>1 DEF TypeOK

\* A step that says nothing
LEMMA CheckKept ==
  ASSUME CheckGoes, failed \subseteq failed', UNCHANGED <<messages, slow, checked>>
  PROVE  CheckGoes'
BY DEF CheckGoes, CheckFailed, Ours, Told

\* What another text does to what is told
LEMMA SayTells ==
  ASSUME TypeOK, NEW u, NEW lines, NEW about, NEW to, Say(u, lines, about, to),
         NEW n, n = Len(messages) + 1
  PROVE  /\ n \in Nat
         /\ DOMAIN messages' = DOMAIN messages \union {n} /\ n \notin DOMAIN messages
         /\ \A k \in DOMAIN messages : messages'[k] = messages[k] /\ k < n
         /\ messages'[n].about = about
         /\ checked' = checked =>
              (CheckFailed => CheckFailed') /\ \A t : Told(t) => Told(t)'
<1> DEFINE m == [lines |-> lines, about |-> about, to |-> to]
<1>1. messages' = Append(messages, m) /\ messages \in Seq(Messages) /\ failed' = failed
  BY DEF Say, TypeOK, OutboxTypeOK
<1>2. /\ DOMAIN messages = 1 .. Len(messages) /\ Len(messages) \in Nat
      /\ DOMAIN messages' = 1 .. n
      /\ \A k \in DOMAIN messages : messages'[k] = messages[k]
      /\ messages'[n] = m
  BY <1>1, LenProperties
<1>3. /\ DOMAIN messages' = DOMAIN messages \union {n} /\ n \notin DOMAIN messages
      /\ n \in Nat /\ \A k \in DOMAIN messages : k < n
  BY <1>2
<1>4. m.about = about
  OBVIOUS
<1> HIDE DEF m
<1>5. ASSUME checked' = checked
      PROVE  (CheckFailed => CheckFailed') /\ \A t : Told(t) => Told(t)'
  BY <1>1, <1>2, <1>3, <1>5 DEF CheckFailed, Ours, Told
<1> QED BY <1>1, <1>2, <1>3, <1>4, <1>5

\* A text that is not about a slow torrent
LEMMA OtherGoes ==
  ASSUME TypeOK, CheckGoes, NEW u, NEW lines, NEW about, NEW to, Say(u, lines, about, to),
         about.what = "listing" \/ slow = <<>>, UNCHANGED <<slow, checked>>
  PROVE  CheckGoes'
<1>0. PICK n : n = Len(messages) + 1
  OBVIOUS
<1>1. /\ DOMAIN messages' = DOMAIN messages \union {n} /\ n \notin DOMAIN messages
      /\ \A k \in DOMAIN messages : messages'[k] = messages[k]
      /\ messages'[n].about = about
      /\ (CheckFailed => CheckFailed') /\ \A t : Told(t) => Told(t)'
  BY <1>0, SayTells
<1>2. ASSUME slow # <<>>
      PROVE  \E m \in DOMAIN messages' :
               /\ Ours(m)'
               /\ \A k \in DOMAIN messages' : k > m => messages'[k].about.what = "listing"
  <2>1. PICK m \in DOMAIN messages :
          /\ Ours(m)
          /\ \A k \in DOMAIN messages : k > m => messages[k].about.what = "listing"
    BY <1>2 DEF CheckGoes
  <2>2. Ours(m)'
    BY <1>1, <2>1 DEF Ours
  <2>3. \A k \in DOMAIN messages' : k > m => messages'[k].about.what = "listing"
    BY <1>1, <1>2, <2>1
  <2> QED BY <1>1, <2>1, <2>2, <2>3
<1> QED BY <1>1, <1>2 DEF CheckGoes

\* The message about the next slow torrent, the first of order, in a check that
\* goes on or begins: the torrents of both are told of or in order
LEMMA SlowGoes ==
  ASSUME TypeOK, NEW order \in Seq(Torrents), order # <<>>,
         Notify("slow", Head(order)), slow' = Tail(order),
         checked'.from \in Nat, checked'.from <= Len(messages) + 1,
         \/ checked' = checked /\ CheckFailed
         \/ \A t \in checked'.torrents :
              (checked' = checked /\ Told(t)) \/ \E k \in DOMAIN order : order[k] = t
  PROVE  CheckGoes'
<1> DEFINE about == [what |-> "slow", torrent |-> Head(order)]
<1>0. PICK n : n = Len(messages) + 1
  OBVIOUS
<1>1. PICK to : Say("reactor", <<1>>, about, to)
  BY DEF Notify
<1>2. about.what = "slow" /\ about = [what |-> "slow", torrent |-> Head(order)]
  OBVIOUS
<1> HIDE DEF about
<1>3. /\ n \in Nat /\ n >= checked'.from
      /\ DOMAIN messages' = DOMAIN messages \union {n}
      /\ \A k \in DOMAIN messages : k < n
      /\ messages'[n].about = about
      /\ checked' = checked =>
           (CheckFailed => CheckFailed') /\ \A t : Told(t) => Told(t)'
  <2>1. n \in Nat /\ n >= checked'.from
    BY <1>0, CheckNumbers
  <2>2. /\ DOMAIN messages' = DOMAIN messages \union {n}
        /\ \A k \in DOMAIN messages : messages'[k] = messages[k] /\ k < n
        /\ messages'[n].about = about
        /\ checked' = checked =>
             (CheckFailed => CheckFailed') /\ \A t : Told(t) => Told(t)'
    BY <1>0, <1>1, SayTells
  <2> QED BY <2>1, <2>2
<1>4. /\ Head(order) = order[1]
      /\ DOMAIN order = 1 .. Len(order) /\ Len(order) \in Nat
      /\ DOMAIN Tail(order) = 1 .. Len(order) - 1
      /\ \A k \in DOMAIN Tail(order) : Tail(order)[k] = order[k + 1]
  <2>1. Len(order) \in Nat /\ DOMAIN order = 1 .. Len(order)
    BY LenProperties
  <2>2. /\ Tail(order) \in Seq(Torrents) /\ Len(Tail(order)) = Len(order) - 1
        /\ \A k \in 1 .. Len(Tail(order)) : Tail(order)[k] = order[k + 1]
        /\ Head(order) = order[1]
    BY HeadTailProperties
  <2> QED BY <2>1, <2>2, LenProperties
<1>5. Ours(n)'
  BY <1>2, <1>3 DEF Ours
<1>6. \A k \in DOMAIN messages' : ~(k > n)
  <2>1. \A k \in DOMAIN messages : k \in Nat
    BY CheckNumbers
  <2> QED BY <1>3, <2>1
<1>7. Told(Head(order))'
  BY <1>2, <1>3 DEF Told
<1>8. ASSUME NEW t, NEW k \in DOMAIN order, order[k] = t
      PROVE  Told(t)' \/ \E j \in DOMAIN slow' : slow'[j] = t
  <2>1. CASE k = 1
    BY <1>4, <1>7, <1>8, <2>1
  <2>2. CASE k # 1
    <3>1. k - 1 \in DOMAIN Tail(order) /\ (k - 1) + 1 = k
      BY <1>4, <1>8, <2>2
    <3>2. slow'[k - 1] = order[(k - 1) + 1]
      BY <1>4, <3>1
    <3> QED BY <1>8, <3>1, <3>2
  <2> QED BY <2>1, <2>2
<1>9. CheckFailed' \/ \A t \in checked'.torrents :
                       Told(t)' \/ \E k \in DOMAIN slow' : slow'[k] = t
  BY <1>3, <1>8
<1>10. \E m \in DOMAIN messages' :
         /\ Ours(m)'
         /\ \A k \in DOMAIN messages' : k > m => messages'[k].about.what = "listing"
  BY <1>3, <1>5, <1>6
<1> QED BY <1>9, <1>10 DEF CheckGoes

\* The notification whose failure ends a check is one of its own
LEMMA LastIsOurs ==
  ASSUME TypeOK, CheckGoes, slow # <<>>
  PROVE  Ours(LastNotice)
<1> DEFINE notices == {m \in DOMAIN messages : messages[m].about.what # "listing"}
<1>1. PICK m \in DOMAIN messages :
        /\ Ours(m)
        /\ \A k \in DOMAIN messages : k > m => messages[k].about.what = "listing"
  BY DEF CheckGoes
<1>2. m \in notices
  BY <1>1 DEF Ours
<1>3. \A k \in notices : k \in Nat /\ m >= k
  <2>1. \A k \in DOMAIN messages : k \in Nat
    BY CheckNumbers
  <2> QED BY <1>1, <2>1
<1> HIDE DEF notices
<1>4. LastNotice \in notices /\ \A k \in notices : LastNotice >= k
  <2>1. LastNotice = CHOOSE x \in notices : \A y \in notices : x >= y
    BY DEF LastNotice, Max, notices
  <2> QED BY <1>2, <1>3, <2>1
<1>5. LastNotice = m
  BY <1>2, <1>3, <1>4
<1> QED BY <1>1, <1>5

IInv == TypeOK /\ KInv /\ Quiet /\ CheckGoes

LEMMA InitHolds ==
  ASSUME Init
  PROVE  IInv
<1>1. OutboxInit
  BY DEF Init
<1>2. \A t \in Threads : call[t] = None
  BY <1>1 DEF OutboxInit
<1>3. OutboxTypeOK
  <2>1. whitelist \subseteq Chats /\ notifylist \subseteq Chats
    BY <1>1, ListsAssumption DEF OutboxInit
  <2>2. messages \in Seq(Messages) /\ Len(messages) <= MaxCalls
    BY <1>1, EmptySeq, CallsAssumption DEF OutboxInit
  <2>3. sent \in [Ids -> [Chats -> Seq([first : Nat, last : Nat])]]
    BY <1>1, EmptySeq DEF OutboxInit
  <2> QED BY <1>1, <1>2, <2>1, <2>2, <2>3 DEF OutboxInit, OutboxTypeOK
<1>4. InPlace /\ Addressed
  BY <1>2 DEF InPlace, Addressed
<1>5. \A m \in Ids, u \in Chats : sent[m][u] = <<>>
  BY <1>1 DEF OutboxInit
<1>6. Apart
  BY <1>2, <1>5 DEF Apart
<1>7. BeginningInOrder
  BY <1>5, EmptySeq DEF BeginningInOrder, Pieces
<1>8. TypeOK
  <2>1. now \in 0 .. MaxTime
    BY TimesAssumption DEF Init
  <2>2. slow \in Seq(Torrents) /\ starts \in Seq(0 .. MaxTime)
    BY EmptySeq DEF Init
  <2>3. checked \in [from : Nat, torrents : SUBSET Torrents]
    BY DEF Init, NoCheck
  <2> QED BY <1>3, <2>1, <2>2, <2>3 DEF Init, TypeOK
<1>9. Turns
  BY <1>1, <1>2, EmptySeq DEF OutboxInit, Turns, Distinct, OnlyTheEndIsLost, Finished
<1>10. Quiet
  <2>1. Known = {} /\ loading = {} /\ DOMAIN starts = {}
    BY EmptySeq DEF Init, Known
  <2>2. \A t : Announcements(t) = {}
    BY <1>1, EmptySeq DEF OutboxInit, Announcements
  <2> QED BY <2>1, <2>2 DEF Quiet
<1>11. CheckGoes
  BY DEF Init, NoCheck, CheckGoes
<1> QED BY <1>3, <1>4, <1>6, <1>7, <1>8, <1>9, <1>10, <1>11 DEF IInv, KInv, OInv

LEMMA StutterKeeps ==
  ASSUME IInv, UNCHANGED vars
  PROVE  IInv'
<1>1. KInv'
  BY AloneKeeps DEF IInv, vars
<1>2. \A t : Announcements(t)' = Announcements(t)
  BY DEF Announcements, vars, ovars
<1>3. Quiet'
  BY <1>2, QuietKept DEF IInv, vars, nvars
<1>4. CheckGoes'
  BY CheckKept DEF IInv, vars, nvars, ovars
<1> QED BY <1>1, <1>3, <1>4 DEF IInv, KInv, OInv, TypeOK, vars, nvars

LEMMA NextQuiet ==
  ASSUME IInv, Next
  PROVE  Quiet'
<1> USE DEF IInv
<1>1. ASSUME UNCHANGED messages, now' = now \/ now' = now + 1,
             UNCHANGED <<time_added, loading, starts>>
      PROVE  Quiet'
  BY <1>1, QuietKept DEF Announcements
<1>2. ASSUME NEW u \in Chats, NEW lines \in Listings, cmd_list(u, lines), UNCHANGED nvars
      PROVE  Quiet'
  <2>1. Say("dispatcher", lines, [what |-> "listing", torrent |-> None], <<u>>)
    BY <1>2 DEF cmd_list
  <2>2. \A t : [what |-> "listing", torrent |-> None] # [what |-> "added", torrent |-> t]
    OBVIOUS
  <2>3. \A t : Announcements(t)' = Announcements(t)
    BY <2>1, <2>2, SayAnnounces
  <2> QED BY <1>2, <2>3, QuietKept DEF nvars
<1>3. ASSUME NEW t \in Threads, telegram_send(t), UNCHANGED nvars
      PROVE  Quiet'
  <2>1. UNCHANGED messages
    BY <1>3 DEF telegram_send, NextChat, SendWhole, AddLine, LastLine, Fails
  <2> QED BY <1>1, <1>3, <2>1 DEF nvars
<1>4. CASE Restart
  <2>1. UNCHANGED messages /\ UNCHANGED nvars
    BY <1>4 DEF Restart, disable, enable
  <2> QED BY <1>1, <2>1 DEF nvars
<1>5. ASSUME NEW what, what # "added", NEW u, Notify(what, u),
             UNCHANGED <<now, time_added, loading, starts>>
      PROVE  Quiet'
  <2>1. \A t : Announcements(t)' = Announcements(t)
    BY <1>5, NotifyAnnounces
  <2> QED BY <1>5, <2>1, QuietKept
<1>6. ASSUME NEW t \in Torrents, on_torrent_finished(t)
      PROVE  Quiet'
  <2>1. Notify("finished", t) /\ "finished" # "added"
        /\ UNCHANGED <<now, time_added, loading, starts>>
    BY <1>6 DEF on_torrent_finished, nvars
  <2> QED BY <1>5, <2>1
<1>7. ASSUME NEW S \in SUBSET Torrents, check_speed(S)
      PROVE  Quiet'
  <2>1. PICK u : Notify("slow", u) /\ "slow" # "added"
    BY <1>7 DEF check_speed
  <2> QED BY <1>5, <1>7, <2>1 DEF check_speed
<1>8. CASE NextSlow
  <2>1. Notify("slow", Head(slow)) /\ "slow" # "added"
    BY <1>8 DEF NextSlow
  <2> QED BY <1>5, <1>8, <2>1 DEF NextSlow
<1>9. CASE SlowFails
  BY <1>1, <1>9 DEF SlowFails, ovars
<1>10. CASE connect_events
  BY <1>1, <1>10 DEF connect_events, ovars
<1>11. CASE Tick
  BY <1>1, <1>11 DEF Tick, ovars
<1>12. CASE StartDaemon
  BY <1>12, StartQuiet
<1>13. ASSUME NEW t \in Torrents, AddTorrent(t) \/ LoadTorrent(t) \/ on_torrent_finished(t)
       PROVE  Quiet'
  BY <1>6, <1>13, AddQuiet, LoadQuiet
<1> QED BY <1>2, <1>3, <1>4, <1>7, <1>8, <1>9, <1>10, <1>11, <1>12, <1>13 DEF Next

LEMMA NextGoes ==
  ASSUME IInv, Next
  PROVE  CheckGoes'
<1> USE DEF IInv
<1>1. ASSUME UNCHANGED <<messages, failed, slow, checked>>
      PROVE  CheckGoes'
  BY <1>1, CheckKept
<1>2. ASSUME NEW u \in Chats, NEW lines \in Listings, cmd_list(u, lines), UNCHANGED nvars
      PROVE  CheckGoes'
  <2>1. Say("dispatcher", lines, [what |-> "listing", torrent |-> None], <<u>>)
    BY <1>2 DEF cmd_list
  <2> QED BY <1>2, <2>1, OtherGoes DEF nvars
<1>3. ASSUME NEW t \in Threads, telegram_send(t), UNCHANGED nvars
      PROVE  CheckGoes'
  <2>1. UNCHANGED messages /\ failed \subseteq failed'
    BY <1>3 DEF telegram_send, NextChat, SendWhole, AddLine, LastLine, Fails
  <2> QED BY <1>3, <2>1, CheckKept DEF nvars
<1>4. CASE Restart
  BY <1>1, <1>4 DEF Restart, disable, enable, nvars
<1>5. ASSUME NEW what, NEW t, Notify(what, t), slow = <<>>, UNCHANGED <<slow, checked>>
      PROVE  CheckGoes'
  <2>1. PICK to : Say("reactor", <<1>>, [what |-> what, torrent |-> t], to)
    BY <1>5 DEF Notify
  <2> QED BY <1>5, <2>1, OtherGoes
<1>6. ASSUME NEW t \in Torrents, AddTorrent(t) \/ LoadTorrent(t) \/ on_torrent_finished(t)
      PROVE  CheckGoes'
  <2>1. slow = <<>> /\ UNCHANGED <<slow, checked>>
    BY <1>6 DEF AddTorrent, LoadTorrent, on_torrent_finished, ReactorFree, nvars
  <2>2. (\E what : Notify(what, t)) \/ UNCHANGED ovars
    BY <1>6 DEF AddTorrent, LoadTorrent, on_torrent_finished, on_torrent_added
  <2> QED BY <1>1, <1>5, <2>1, <2>2 DEF ovars
<1>7. ASSUME NEW S \in SUBSET Torrents, check_speed(S)
      PROVE  CheckGoes'
  <2>1. PICK order \in Orders(S) : Notify("slow", Head(order)) /\ slow' = Tail(order)
    BY <1>7 DEF check_speed
  <2>2. checked'.from = Len(messages) + 1 /\ checked'.torrents = S
    BY <1>7 DEF check_speed
  <2>3. IsFiniteSet(S) /\ S # {}
    BY <1>7, TorrentsAssumption, FS_Subset DEF check_speed
  <2>4. order \in Seq(Torrents) /\ order # <<>>
        /\ \A t \in S : \E k \in DOMAIN order : order[k] = t
    BY <2>3, OrdersAreSeqs, SeqMonotonic
  <2>5. checked'.from \in Nat /\ checked'.from <= Len(messages) + 1
    BY <2>2, CheckNumbers
  <2> QED BY <2>1, <2>2, <2>4, <2>5, SlowGoes
<1>8. CASE NextSlow
  <2>1. slow \in Seq(Torrents) /\ slow # <<>> /\ Notify("slow", Head(slow))
        /\ slow' = Tail(slow) /\ checked' = checked
    BY <1>8 DEF NextSlow, TypeOK
  <2>2. PICK m \in DOMAIN messages : Ours(m)
    BY <2>1 DEF CheckGoes
  <2>3. checked.from \in Nat /\ checked.from <= Len(messages) + 1
    BY <2>2, CheckNumbers DEF Ours
  <2>4. PICK order : order = slow
    OBVIOUS
  <2>5. CheckFailed \/ \A t \in checked.torrents :
                         Told(t) \/ \E k \in DOMAIN order : order[k] = t
    BY <2>4 DEF CheckGoes
  <2> QED BY <2>1, <2>3, <2>4, <2>5, SlowGoes
<1>9. CASE SlowFails
  <2>1. CheckFailed
    BY <1>9, LastIsOurs DEF SlowFails, CheckFailed
  <2>2. slow' = <<>> /\ UNCHANGED <<messages, failed, checked>>
    BY <1>9 DEF SlowFails, ovars
  <2>3. CheckFailed'
    BY <2>1, <2>2 DEF CheckFailed, Ours
  <2> QED BY <2>2, <2>3 DEF CheckGoes
<1>10. CASE connect_events
  BY <1>1, <1>10 DEF connect_events, ovars
<1>11. CASE Tick
  BY <1>1, <1>11 DEF Tick, ovars
<1>12. CASE StartDaemon
  BY <1>12 DEF StartDaemon, NoCheck, CheckGoes
<1> QED BY <1>2, <1>3, <1>4, <1>6, <1>7, <1>8, <1>9, <1>10, <1>11, <1>12 DEF Next

LEMMA NextKeeps ==
  ASSUME IInv, Next
  PROVE  IInv'
<1>0. Quiet' /\ CheckGoes'
  BY NextQuiet, NextGoes
<1> SUFFICES KInv' /\ now' \in 0 .. MaxTime
             /\ time_added' \in [Torrents -> (0 .. MaxTime) \union {None}]
             /\ loading' \subseteq Torrents /\ connected' \in BOOLEAN
             /\ slow' \in Seq(Torrents) /\ starts' \in Seq(0 .. MaxTime)
             /\ checked' \in [from : Nat, torrents : SUBSET Torrents]
  BY <1>0 DEF IInv, KInv, OInv, TypeOK
<1> USE DEF IInv
<1>1. ASSUME UNCHANGED nvars
      PROVE  /\ now' \in 0 .. MaxTime
             /\ time_added' \in [Torrents -> (0 .. MaxTime) \union {None}]
             /\ loading' \subseteq Torrents /\ connected' \in BOOLEAN
             /\ slow' \in Seq(Torrents) /\ starts' \in Seq(0 .. MaxTime)
             /\ checked' \in [from : Nat, torrents : SUBSET Torrents]
  BY <1>1 DEF TypeOK, nvars
<1>2. ASSUME NEW u \in Chats, NEW lines \in Listings, cmd_list(u, lines), UNCHANGED nvars
      PROVE  KInv'
  BY <1>2, ListKeeps
<1>3. ASSUME NEW t \in Threads, telegram_send(t)
      PROVE  KInv'
  BY <1>3, SendKeeps, SendTurns DEF KInv
<1>4. CASE Restart
  BY <1>1, <1>4, DisableKeeps, EnableKeeps DEF Restart
<1>5. ASSUME NEW t \in Torrents, NEW time, on_torrent_added(t, time)
      PROVE  KInv'
  BY <1>5, NotifyKeeps, AloneKeeps DEF on_torrent_added
<1>6. ASSUME NEW t \in Torrents, AddTorrent(t)
      PROVE  KInv' /\ time_added' \in [Torrents -> (0 .. MaxTime) \union {None}]
  <2>1. KInv'
    BY <1>5, <1>6, AloneKeeps DEF AddTorrent
  <2> QED BY <1>6, <2>1 DEF AddTorrent, TypeOK
<1>7. ASSUME NEW t \in Torrents, LoadTorrent(t)
      PROVE  KInv' /\ loading' \subseteq Torrents
  <2>1. KInv'
    BY <1>5, <1>7, AloneKeeps DEF LoadTorrent
  <2> QED BY <1>7, <2>1 DEF LoadTorrent, TypeOK
<1>8. ASSUME NEW t \in Torrents, on_torrent_finished(t)
      PROVE  KInv'
  BY <1>8, NotifyKeeps DEF on_torrent_finished
<1>9. ASSUME NEW S \in SUBSET Torrents, check_speed(S)
      PROVE  /\ KInv' /\ slow' \in Seq(Torrents)
             /\ checked' \in [from : Nat, torrents : SUBSET Torrents]
  <2>1. PICK order \in Orders(S) : Notify("slow", Head(order)) /\ slow' = Tail(order)
    BY <1>9 DEF check_speed
  <2>2. IsFiniteSet(S) /\ S # {}
    BY <1>9, TorrentsAssumption, FS_Subset DEF check_speed
  <2>3. order \in Seq(Torrents) /\ order # <<>>
    BY <2>2, OrdersAreSeqs, SeqMonotonic
  <2>4. Head(order) \in Torrents /\ Tail(order) \in Seq(Torrents)
    BY <2>3, HeadTailProperties
  <2>5. Len(messages) + 1 \in Nat
    BY CheckNumbers
  <2> QED BY <1>9, <2>1, <2>4, <2>5, NotifyKeeps DEF check_speed
<1>10. CASE NextSlow
  <2>1. slow \in Seq(Torrents) /\ slow # <<>>
    BY <1>10 DEF NextSlow, TypeOK
  <2>2. Head(slow) \in Torrents /\ Tail(slow) \in Seq(Torrents)
    BY <2>1, HeadTailProperties
  <2>3. KInv'
    BY <1>10, <2>2, NotifyKeeps DEF NextSlow
  <2> QED BY <1>10, <2>2, <2>3 DEF NextSlow, TypeOK
<1>11. CASE SlowFails
  <2>1. KInv'
    BY <1>11, AloneKeeps DEF SlowFails
  <2> QED BY <1>11, <2>1, EmptySeq DEF SlowFails, TypeOK
<1>12. CASE connect_events
  <2>1. KInv'
    BY <1>12, AloneKeeps DEF connect_events
  <2> QED BY <1>12, <2>1 DEF connect_events, TypeOK
<1>13. CASE StartDaemon
  <2>1. KInv'
    BY <1>13, StartKeeps
  <2>2. starts' \in Seq(0 .. MaxTime)
    BY <1>13, AppendProperties DEF StartDaemon, TypeOK
  <2> QED BY <1>13, <2>1, <2>2, EmptySeq DEF StartDaemon, TypeOK, Known, NoCheck
<1>14. CASE Tick
  <2>1. KInv'
    BY <1>14, AloneKeeps DEF Tick
  <2>2. now' \in 0 .. MaxTime
    BY <1>14, TimesAssumption DEF Tick, TypeOK
  <2> QED BY <1>14, <2>1, <2>2 DEF Tick, TypeOK
<1>15. ASSUME NEW t \in Torrents, AddTorrent(t) \/ LoadTorrent(t) \/ on_torrent_finished(t)
       PROVE  KInv' /\ now' \in 0 .. MaxTime
              /\ time_added' \in [Torrents -> (0 .. MaxTime) \union {None}]
              /\ loading' \subseteq Torrents /\ connected' \in BOOLEAN
              /\ slow' \in Seq(Torrents) /\ starts' \in Seq(0 .. MaxTime)
              /\ checked' \in [from : Nat, torrents : SUBSET Torrents]
  <2>1. CASE AddTorrent(t)
    BY <1>6, <2>1 DEF AddTorrent, TypeOK
  <2>2. CASE LoadTorrent(t)
    BY <1>7, <2>2 DEF LoadTorrent, TypeOK
  <2>3. CASE on_torrent_finished(t)
    BY <1>1, <1>8, <2>3 DEF on_torrent_finished
  <2> QED BY <1>15, <2>1, <2>2, <2>3
<1>16. ASSUME NEW S \in SUBSET Torrents, check_speed(S)
       PROVE  KInv' /\ now' \in 0 .. MaxTime
              /\ time_added' \in [Torrents -> (0 .. MaxTime) \union {None}]
              /\ loading' \subseteq Torrents /\ connected' \in BOOLEAN
              /\ slow' \in Seq(Torrents) /\ starts' \in Seq(0 .. MaxTime)
              /\ checked' \in [from : Nat, torrents : SUBSET Torrents]
  BY <1>9, <1>16 DEF check_speed, TypeOK
<1> QED BY <1>1, <1>2, <1>3, <1>4, <1>10, <1>11, <1>12, <1>13, <1>14, <1>15, <1>16
        DEF Next

\* The step that NothingToStrangers speaks of
LEMMA NextAddresses ==
  ASSUME IInv, Next, NEW u \in Chats, NEW m \in Ids, sent'[m][u] # sent[m][u]
  PROVE  stopping \/ u \in whitelist \union notifylist
<1>1. ~UNCHANGED sent
  OBVIOUS
<1>2. PICK t \in Threads : telegram_send(t)
  BY <1>1 DEF Next, cmd_list, Say, Restart, disable, enable, AddTorrent, LoadTorrent,
              on_torrent_added, on_torrent_finished, check_speed, NextSlow, SlowFails,
              connect_events, StartDaemon, Tick, Notify, ovars
<1> QED BY <1>2, SendAddresses DEF IInv, KInv

(* -------------------------------------------------------------- Theorems *)

LEMMA Inductive == Spec => []IInv
<1>1. IInv /\ [Next]_vars => IInv'
  BY NextKeeps, StutterKeeps
<1> QED BY <1>1, InitHolds, PTL DEF Spec

\* The variables keep to their types: a call is at a chat, and no thread
\* serves an empty list.
THEOREM TypeCorrect == Spec => []TypeOK
BY Inductive, PTL DEF IInv

\* What a chat has got of a text is its beginning, in order, without gaps or
\* repeats, for texts and lists of any length, whatever fails.
THEOREM InOrder == Spec => []BeginningInOrder
<1>1. IInv => BeginningInOrder
  BY DEF IInv, KInv, OInv
<1> QED BY <1>1, Inductive, PTL

\* A call that raised nothing leaves out, of a text that is too long for
\* Telegram, an end of at most Chunk characters, and nothing else.
THEOREM EndLost == Spec => []OnlyTheEndIsLost
<1>1. IInv => OnlyTheEndIsLost
  BY DEF IInv, KInv, Turns
<1> QED BY <1>1, Inductive, PTL

\* check_speed speaks about every slow torrent it has found unless one of its
\* own messages raised, for any number of torrents and whatever else failed.
THEOREM SlowAreTold == Spec => []EverySlowIsTold
<1>1. IInv => EverySlowIsTold
  <2>1. ASSUME IInv, slow = <<>>,
               \A m \in failed : m < checked.from \/ messages[m].about.what # "slow",
               NEW t \in checked.torrents
        PROVE  Told(t)
    <3>1. ~CheckFailed
      <4>1. SUFFICES ASSUME NEW m \in failed, Ours(m)
                     PROVE  FALSE
        BY DEF CheckFailed
      <4>2. m \in Nat /\ checked.from \in Nat
        BY <2>1, <4>1, CheckNumbers DEF Ours, IInv
      <4> QED BY <2>1, <4>1, <4>2 DEF Ours
    <3>2. DOMAIN slow = {}
      BY <2>1, EmptySeq
    <3> QED BY <2>1, <3>1, <3>2 DEF IInv, CheckGoes
  <2> QED BY <2>1 DEF EverySlowIsTold, Told
<1> QED BY <1>1, Inductive, PTL

\* A torrent is announced once, and once more at most for every start of the
\* daemon in the Window that follows.
THEOREM OldAreQuiet == Spec => []OldTorrentsAreQuiet
<1>1. IInv => OldTorrentsAreQuiet
  <2>1. ASSUME IInv, NEW t \in Known
        PROVE  Cardinality(Announcements(t)) <= 1 + Cardinality(InWindow(t))
    <3>1. CASE t \in loading
      <4>1. Cardinality(Announcements(t)) <= 1 + Cardinality(InWindow(t) \ {Len(starts)})
        BY <2>1, <3>1 DEF IInv, Quiet
      <4>2. /\ Cardinality(InWindow(t) \ {Len(starts)}) <= Cardinality(InWindow(t))
            /\ Cardinality(InWindow(t) \ {Len(starts)}) \in Nat
            /\ Cardinality(InWindow(t)) \in Nat /\ Cardinality(Announcements(t)) \in Nat
        BY <2>1, Finite DEF IInv
      <4> QED BY <4>1, <4>2
    <3>2. CASE t \notin loading
      BY <2>1, <3>2 DEF IInv, Quiet
    <3> QED BY <3>1, <3>2
  <2> QED BY <2>1 DEF OldTorrentsAreQuiet, InWindow
<1> QED BY <1>1, Inductive, PTL

\* Outside a restart telegram_send speaks only to the chats of the current
\* lists: enable() waits until no thread serves the lists of before.
THEOREM ListsRespected == Spec => NothingToStrangers
<1>1. IInv /\ [Next]_vars =>
        [\A u \in Chats :
           (\E m \in Ids : sent'[m][u] # sent[m][u]) =>
             stopping \/ u \in whitelist \union notifylist]_ovars
  <2>1. CASE IInv /\ Next
    BY <2>1, NextAddresses
  <2>2. CASE UNCHANGED vars
    BY <2>2 DEF vars
  <2> QED BY <2>1, <2>2
<1> QED BY <1>1, Inductive, PTL DEF Spec, NothingToStrangers
=============================================================================
