---------------------------- MODULE OutboxProofs ----------------------------
(***************************************************************************)
(* What the steps of Outbox keep, for any chats, texts and sizes: the two  *)
(* inductive invariants, OInv about one call and Turns about what the      *)
(* chats of a text are left with.  NotificationsProofs builds on it.       *)
(***************************************************************************)
EXTENDS Outbox, FiniteSetTheorems, SequenceTheorems, TLAPS

(* ------------------------------------------------ The inductive invariant *)

Piece == [first : Nat, last : Nat]

\* The last line that the pieces of p hold
UpTo(p) == IF p = <<>> THEN 0 ELSE p[Len(p)].last

Ordered(p) ==
  \A k \in DOMAIN p : p[k].first = IF k = 1 THEN 1 ELSE p[k - 1].last + 1

\* Where the call c is: the chats after the one it serves have nothing of its
\* text, nor has this one before its lines are read, and tmp begins after
\* the last line that was sent
Reading(c, s) ==
  /\ \A j, k \in DOMAIN c.to : j # k => c.to[j] # c.to[k]
  /\ \A k \in DOMAIN c.to : k # 1 \/ c.at # "lines" => s[c.id][c.to[k]] = <<>>
  /\ c.at = "lines" =>
       c.first = UpTo(s[c.id][c.to[1]]) + 1 /\ c.first <= c.next

InPlace == \A t \in Threads : call[t] # None => Reading(call[t], sent)

\* No two threads send the same text, and nothing was sent of a text to come
Apart ==
  /\ \A t \in Threads : call[t] # None => call[t].id <= Len(messages)
  /\ \A t, u \in Threads :
       t # u /\ call[t] # None /\ call[u] # None => call[t].id # call[u].id
  /\ \A m \in Ids : m > Len(messages) => \A u \in Chats : sent[m][u] = <<>>

\* A thread that is past the filter speaks to a chat of the lists
Addressed ==
  \A t \in Threads :
    call[t] # None /\ call[t].at # "chat" /\ ~stopping =>
      Chat(t) \in whitelist \union notifylist

OInv == OutboxTypeOK /\ InPlace /\ Apart /\ Addressed /\ BeginningInOrder

(* ------------------------------------------------------------- Type facts *)

\* One more piece, and the beginning is still the beginning
LEMMA OrderedAppend ==
  ASSUME NEW p \in Seq(Piece), Ordered(p), NEW j \in Nat, NEW i \in Nat, i = UpTo(p) + 1
  PROVE  LET q == Append(p, [first |-> i, last |-> j]) IN
         q \in Seq(Piece) /\ q # <<>> /\ Ordered(q) /\ UpTo(q) = j
<1> DEFINE e == [first |-> i, last |-> j]
           q == Append(p, e)
<1>1. e \in Piece
  BY DEF Piece
<1>2. /\ q \in Seq(Piece) /\ q # <<>> /\ Len(q) = Len(p) + 1
      /\ \A k \in 1 .. Len(p) : q[k] = p[k]
      /\ q[Len(p) + 1] = e
  BY <1>1, AppendProperties
<1>3. Len(p) \in Nat /\ (p = <<>> <=> Len(p) = 0) /\ DOMAIN p = 1 .. Len(p)
      /\ DOMAIN q = 1 .. Len(q)
  BY <1>2, LenProperties, EmptySeq
<1>4. UpTo(q) = j
  BY <1>2, <1>3 DEF UpTo
<1>5. ASSUME NEW k \in DOMAIN q
      PROVE  q[k].first = IF k = 1 THEN 1 ELSE q[k - 1].last + 1
  <2>1. CASE k = Len(p) + 1
    <3>1. CASE p = <<>>
      BY <2>1, <3>1, <1>2, <1>3 DEF UpTo
    <3>2. CASE p # <<>>
      <4>1. q[k].first = p[Len(p)].last + 1
        BY <2>1, <3>2, <1>2 DEF UpTo
      <4>2. k # 1 /\ k - 1 = Len(p) /\ Len(p) \in 1 .. Len(p)
        BY <2>1, <3>2, <1>3
      <4>3. q[k - 1] = p[Len(p)]
        BY <4>2, <1>2
      <4> QED BY <4>1, <4>2, <4>3
    <3> QED BY <3>1, <3>2
  <2>2. CASE k \in 1 .. Len(p)
    <3>1. k = 1 \/ k - 1 \in 1 .. Len(p)
      BY <2>2, <1>3
    <3>2. q[k] = p[k] /\ (k = 1 \/ q[k - 1] = p[k - 1])
      BY <2>2, <3>1, <1>2
    <3>3. p[k].first = IF k = 1 THEN 1 ELSE p[k - 1].last + 1
      BY <2>2, <1>3 DEF Ordered
    <3> QED BY <3>2, <3>3
  <2> QED BY <2>1, <2>2, <1>2, <1>3
<1> QED BY <1>2, <1>4, <1>5 DEF Ordered

\* The parts of a call
LEMMA CallType ==
  ASSUME OutboxTypeOK, NEW t \in Threads, call[t] # None
  PROVE  /\ call[t] \in Places
         /\ call[t].id \in Ids /\ call[t].to \in Seq(Chats) /\ call[t].to # <<>>
         /\ call[t].first \in Nat /\ call[t].next \in Nat
         /\ call[t].at \in {"chat", "whole", "lines"}
         /\ Chat(t) = call[t].to[1] /\ Chat(t) \in Chats
         /\ 1 \in DOMAIN call[t].to
         /\ DOMAIN call[t].to = 1 .. Len(call[t].to) /\ Len(call[t].to) \in Nat
<1>1. call[t] \in Places /\ call[t].to # <<>>
  BY DEF OutboxTypeOK
<1>2. /\ call[t].id \in Ids /\ call[t].to \in Seq(Chats)
      /\ call[t].first \in Nat /\ call[t].next \in Nat
      /\ call[t].at \in {"chat", "whole", "lines"}
  BY <1>1 DEF Places
<1>3. Head(call[t].to) \in Chats /\ Head(call[t].to) = call[t].to[1]
  BY <1>1, <1>2, HeadTailProperties
<1>4. DOMAIN call[t].to = 1 .. Len(call[t].to) /\ Len(call[t].to) \in Nat
      /\ Len(call[t].to) # 0
  BY <1>1, <1>2, LenProperties, EmptySeq
<1>5. 1 \in DOMAIN call[t].to
  BY <1>4
<1> QED BY <1>1, <1>2, <1>3, <1>4, <1>5 DEF Chat

\* The call after one chat is served
LEMMA OnwardType ==
  ASSUME OutboxTypeOK, NEW t \in Threads, call[t] # None, call' = Onward(t)
  PROVE  /\ call' \in [Threads -> Places \union {None}]
         /\ \A u \in Threads : u # t => call'[u] = call[u]
         /\ call'[t] # None =>
              /\ call'[t] \in Places
              /\ call'[t].id = call[t].id /\ call'[t].at = "chat"
              /\ call'[t].to = Tail(call[t].to) /\ call'[t].to # <<>>
<1> DEFINE c == call[t]
           d == [c EXCEPT !.at = "chat", !.to = Tail(c.to)]
<1>1. call \in [Threads -> Places \union {None}]
  BY DEF OutboxTypeOK
<1>2. CASE Len(c.to) = 1
  BY <1>1, <1>2 DEF Onward
<1>3. CASE Len(c.to) # 1
  <2>1. call' = [call EXCEPT ![t] = d]
    BY <1>1, <1>3 DEF Onward
  <2>2. Tail(c.to) \in Seq(Chats) /\ Len(Tail(c.to)) = Len(c.to) - 1
    BY CallType, HeadTailProperties
  <2>3. Tail(c.to) # <<>>
    <3>1. Len(Tail(c.to)) # 0
      BY <2>2, <1>3, CallType
    <3> QED BY <3>1, <2>2, EmptySeq
  <2>4. d \in Places /\ d.id = c.id /\ d.at = "chat" /\ d.to = Tail(c.to)
    BY <2>2, CallType DEF Places
  <2> QED BY <1>1, <2>1, <2>3, <2>4
<1> QED BY <1>2, <1>3

\* The pieces after one more
LEMMA DeliverType ==
  ASSUME OutboxTypeOK, NEW t \in Threads, call[t] # None,
         NEW i \in Nat, NEW j \in Nat, Deliver(t, i, j)
  PROVE  /\ sent' \in [Ids -> [Chats -> Seq(Piece)]]
         /\ \A m \in Ids, u \in Chats :
              m # call[t].id \/ u # Chat(t) => sent'[m][u] = sent[m][u]
         /\ sent'[call[t].id][Chat(t)] =
              Append(sent[call[t].id][Chat(t)], [first |-> i, last |-> j])
<1>1. sent \in [Ids -> [Chats -> Seq(Piece)]]
  BY DEF OutboxTypeOK, Piece
<1>2. call[t].id \in Ids /\ Chat(t) \in Chats
  BY CallType
<1>3. [first |-> i, last |-> j] \in Piece
  BY DEF Piece
<1> DEFINE p == Append(sent[call[t].id][Chat(t)], [first |-> i, last |-> j])
<1>4. p \in Seq(Piece)
  BY <1>1, <1>2, <1>3, AppendProperties
<1>5. sent' = [sent EXCEPT ![call[t].id] = [sent[call[t].id] EXCEPT ![Chat(t)] = p]]
  BY <1>1, <1>2 DEF Deliver
<1> HIDE DEF p
<1>6. /\ sent' \in [Ids -> [Chats -> Seq(Piece)]]
      /\ \A m \in Ids, u \in Chats :
           m # call[t].id \/ u # Chat(t) => sent'[m][u] = sent[m][u]
      /\ sent'[call[t].id][Chat(t)] = p
  BY <1>1, <1>2, <1>4, <1>5
<1> QED BY <1>6 DEF p

(* --------------------------------------------------- Beginning of a text *)

\* A text that is to be sent
LEMMA SayKeeps ==
  ASSUME OInv, NEW t \in Threads, NEW m \in Messages,
         \A j, k \in DOMAIN m.to : j # k => m.to[j] # m.to[k],
         Say(t, m.lines, m.about, m.to)
  PROVE  OInv'
<1> USE DEF OInv
<1> DEFINE c == [id |-> Len(messages) + 1, to |-> m.to, at |-> "chat",
                 first |-> 1, next |-> 1]
<1>1. /\ messages' = Append(messages, m)
      /\ call[t] = None /\ Len(messages) < MaxCalls
      /\ call' = [call EXCEPT ![t] = IF m.to = <<>> THEN None ELSE c]
      /\ UNCHANGED <<whitelist, notifylist, stopping, sent, skipped, failed>>
  <2>1. m = [lines |-> m.lines, about |-> m.about, to |-> m.to]
    BY DEF Messages
  <2> QED BY <2>1 DEF Say
<1>2. /\ messages \in Seq(Messages) /\ call \in [Threads -> Places \union {None}]
      /\ m.to \in Seq(Chats)
  BY DEF OutboxTypeOK, Messages
<1>3. /\ messages' \in Seq(Messages) /\ Len(messages') = Len(messages) + 1
      /\ Len(messages) \in Nat
  BY <1>1, <1>2, AppendProperties, LenProperties
<1>4. Len(messages') <= MaxCalls /\ Len(messages) + 1 \in Ids
  BY <1>1, <1>3, CallsAssumption DEF Ids
<1>5. c \in Places /\ c.id = Len(messages) + 1 /\ c.at = "chat" /\ c.to = m.to
  BY <1>2, <1>4 DEF Places
<1>6. /\ call' \in [Threads -> Places \union {None}]
      /\ \A u \in Threads : u # t => call'[u] = call[u]
      /\ call'[t] # None => call'[t] = c /\ m.to # <<>>
  BY <1>1, <1>2, <1>5
<1> HIDE DEF c
<1>7. OutboxTypeOK'
  <2>1. \A u \in Threads : call'[u] # None => call'[u].to # <<>>
    BY <1>5, <1>6 DEF OutboxTypeOK
  <2> QED BY <1>1, <1>3, <1>4, <1>6, <2>1 DEF OutboxTypeOK
<1>8. InPlace'
  <2>1. ASSUME NEW u \in Threads, call'[u] # None, u # t
        PROVE  Reading(call'[u], sent')
    BY <2>1, <1>1, <1>6 DEF InPlace
  <2>2. ASSUME call'[t] # None
        PROVE  Reading(c, sent')
    <3>1. \A u \in Chats : sent[c.id][u] = <<>>
      <4>1. c.id \in Ids /\ c.id > Len(messages)
        BY <1>3, <1>4, <1>5
      <4> QED BY <4>1 DEF Apart
    <3>2. \A k \in DOMAIN m.to : m.to[k] \in Chats
      BY <1>2, LenProperties, ElementOfSeq
    <3> QED BY <1>1, <1>5, <3>1, <3>2 DEF Reading
  <2> QED BY <1>6, <2>1, <2>2 DEF InPlace
<1>9. Apart'
  <2>1. \A u \in Threads : u # t /\ call[u] # None =>
          call[u].id <= Len(messages) /\ call[u].id \in Nat
    BY CallType DEF Apart, Ids
  <2>2. \A u \in Threads : u # t /\ call[u] # None =>
          call[u].id # Len(messages) + 1 /\ call[u].id <= Len(messages')
    BY <2>1, <1>3
  <2>3. \A u \in Threads : call'[u] # None => call'[u].id <= Len(messages')
    BY <2>2, <1>3, <1>5, <1>6
  <2>4. \A u, v \in Threads : u # v /\ call'[u] # None /\ call'[v] # None =>
          call'[u].id # call'[v].id
    BY <2>2, <1>5, <1>6 DEF Apart
  <2>5. \A n \in Ids : n > Len(messages') => n > Len(messages)
    BY <1>3 DEF Ids
  <2>6. \A n \in Ids : n > Len(messages') => \A u \in Chats : sent'[n][u] = <<>>
    BY <2>5, <1>1 DEF Apart
  <2> QED BY <2>3, <2>4, <2>6 DEF Apart
<1>10. Addressed'
  <2>1. ASSUME NEW u \in Threads, call'[u] # None, call'[u].at # "chat", u # t
        PROVE  call'[u] = call[u]
    BY <2>1, <1>6
  <2> QED BY <2>1, <1>1, <1>5, <1>6 DEF Addressed, Chat
<1>11. BeginningInOrder'
  BY <1>1 DEF BeginningInOrder, Pieces
<1> QED BY <1>7, <1>8, <1>9, <1>10, <1>11

\* Every call is at its end
LEMMA IdleKeeps ==
  ASSUME OInv, OutboxTypeOK', call' = [t \in Threads |-> None],
         sent' = sent, messages' = messages
  PROVE  OInv'
<1>1. \A t \in Threads : call'[t] = None
  OBVIOUS
<1>2. InPlace' /\ Addressed'
  BY <1>1 DEF InPlace, Addressed
<1>3. Apart'
  BY <1>1 DEF OInv, Apart
<1>4. BeginningInOrder'
  BY DEF OInv, BeginningInOrder, Pieces
<1> QED BY <1>2, <1>3, <1>4 DEF OInv

(* ---------------------------------------------------- Steps of a sending *)

\* What a step of the thread t must do for the invariant to hold
LEMMA StepKeeps ==
  ASSUME OInv, NEW t \in Threads, call[t] # None,
         UNCHANGED <<whitelist, notifylist, stopping, messages>>,
         call' \in [Threads -> Places \union {None}],
         \A u \in Threads : u # t => call'[u] = call[u],
         call'[t] # None =>
           /\ call'[t].id = call[t].id /\ call'[t].to # <<>>
           /\ Reading(call'[t], sent')
           /\ call'[t].at # "chat" /\ ~stopping =>
                Head(call'[t].to) \in whitelist \union notifylist,
         sent' \in [Ids -> [Chats -> Seq(Piece)]],
         \A m \in Ids, u \in Chats : m # call[t].id => sent'[m][u] = sent[m][u],
         \A u \in Chats : Ordered(sent'[call[t].id][u]),
         skipped' \in [Ids -> SUBSET Chats], failed' \subseteq Ids
  PROVE  OInv'
<1> USE DEF OInv
<1>1. call[t].id \in Ids
  BY CallType
<1>2. OutboxTypeOK'
  <2>1. \A u \in Threads : call'[u] # None => call'[u].to # <<>>
    BY DEF OutboxTypeOK
  <2> QED BY <2>1 DEF OutboxTypeOK, Piece
<1>3. InPlace'
  <2>1. ASSUME NEW u \in Threads, u # t, call[u] # None
        PROVE  Reading(call[u], sent')
    <3>1. call[u].id # call[t].id /\ call[u].id \in Ids
      BY <2>1, CallType DEF Apart
    <3>2. \A k \in DOMAIN call[u].to : call[u].to[k] \in Chats
      BY <2>1, CallType, ElementOfSeq
    <3>3. \A k \in DOMAIN call[u].to :
            sent'[call[u].id][call[u].to[k]] = sent[call[u].id][call[u].to[k]]
      BY <3>1, <3>2
    <3>4. 1 \in DOMAIN call[u].to
      BY <2>1, CallType
    <3>5. Reading(call[u], sent)
      BY <2>1 DEF InPlace
    <3> QED BY <3>3, <3>4, <3>5 DEF Reading
  <2> QED BY <2>1 DEF InPlace
<1>4. Apart'
  <2>1. ASSUME NEW m \in Ids, m > Len(messages), NEW u \in Chats
        PROVE  sent'[m][u] = <<>>
    <3>1. m # call[t].id
      <4>1. call[t].id <= Len(messages) /\ Len(messages) \in Nat
        BY LenProperties DEF Apart, OutboxTypeOK
      <4> QED BY <4>1, <2>1, <1>1 DEF Ids
    <3> QED BY <3>1, <2>1 DEF Apart
  <2>2. \A u \in Threads : call'[u] # None => call[u] # None /\ call'[u].id = call[u].id
    OBVIOUS
  <2> QED BY <2>1, <2>2 DEF Apart
<1>5. Addressed'
  BY DEF Addressed, Chat
<1>6. BeginningInOrder'
  <2>1. ASSUME NEW m \in Ids, NEW u \in Chats
        PROVE  Ordered(sent'[m][u])
    BY <2>1 DEF BeginningInOrder, Pieces, Ordered
  <2> QED BY <2>1 DEF BeginningInOrder, Pieces, Ordered
<1> QED BY <1>2, <1>3, <1>4, <1>5, <1>6

\* The call goes on to the next chat, which has nothing of its text
LEMMA OnwardReads ==
  ASSUME OInv, NEW t \in Threads, call[t] # None, call' = Onward(t), call'[t] # None,
         \A u \in Chats : u # Chat(t) => sent'[call[t].id][u] = sent[call[t].id][u]
  PROVE  Reading(call'[t], sent')
<1> USE DEF OInv
<1> DEFINE c == call[t]  d == call'[t]
<1>1. d.id = c.id /\ d.at = "chat" /\ d.to = Tail(c.to)
  BY OnwardType
<1>2. c.to \in Seq(Chats) /\ c.to # <<>> /\ Chat(t) = c.to[1] /\ c.id \in Ids
  BY CallType
<1>3. /\ Len(d.to) = Len(c.to) - 1 /\ DOMAIN d.to = 1 .. Len(d.to)
      /\ DOMAIN c.to = 1 .. Len(c.to) /\ Len(c.to) \in Nat
      /\ \A k \in 1 .. Len(d.to) : d.to[k] = c.to[k + 1]
  BY <1>1, <1>2, HeadTailProperties, LenProperties
<1>4. Reading(c, sent)
  BY DEF InPlace
<1>5. \A k \in DOMAIN d.to : k \in Nat /\ k + 1 \in DOMAIN c.to /\ k + 1 # 1
  BY <1>3
<1>6. 1 \in DOMAIN c.to
  BY CallType
<1>7. ASSUME NEW j \in DOMAIN d.to, NEW k \in DOMAIN d.to, j # k
      PROVE  d.to[j] # d.to[k]
  <2>1. j + 1 # k + 1
    BY <1>5, <1>7
  <2>2. c.to[j + 1] # c.to[k + 1]
    BY <2>1, <1>4, <1>5 DEF Reading
  <2> QED BY <2>2, <1>3
<1>8. ASSUME NEW k \in DOMAIN d.to
      PROVE  sent'[d.id][d.to[k]] = <<>>
  <2>1. d.to[k] = c.to[k + 1] /\ c.to[k + 1] # c.to[1] /\ c.to[k + 1] \in Chats
    BY <1>2, <1>3, <1>4, <1>5, <1>6, ElementOfSeq DEF Reading
  <2>2. sent[c.id][c.to[k + 1]] = <<>>
    BY <1>4, <1>5 DEF Reading
  <2> QED BY <2>1, <2>2, <1>1, <1>2
<1> QED BY <1>1, <1>7, <1>8 DEF Reading

\* Pieces that stay as they are
LEMMA SameSent ==
  ASSUME OInv, NEW t \in Threads, call[t] # None, sent' = sent
  PROVE  /\ sent' \in [Ids -> [Chats -> Seq(Piece)]]
         /\ \A m \in Ids, u \in Chats : sent'[m][u] = sent[m][u]
         /\ \A u \in Chats : Ordered(sent'[call[t].id][u])
<1>1. call[t].id \in Ids
  BY CallType DEF OInv
<1> QED BY <1>1 DEF OInv, OutboxTypeOK, Piece, BeginningInOrder, Pieces, Ordered

\* One more piece for the chat that is served, after the last
LEMMA OneMore ==
  ASSUME OInv, NEW t \in Threads, call[t] # None, NEW i \in Nat, NEW j \in Nat,
         Deliver(t, i, j), i = UpTo(sent[call[t].id][Chat(t)]) + 1
  PROVE  /\ sent' \in [Ids -> [Chats -> Seq(Piece)]]
         /\ \A m \in Ids, u \in Chats :
              m # call[t].id \/ u # Chat(t) => sent'[m][u] = sent[m][u]
         /\ \A u \in Chats : Ordered(sent'[call[t].id][u])
         /\ UpTo(sent'[call[t].id][Chat(t)]) = j
<1> USE DEF OInv
<1>1. call[t].id \in Ids /\ Chat(t) \in Chats
  BY CallType
<1> DEFINE p == sent[call[t].id][Chat(t)]
           q == sent'[call[t].id][Chat(t)]
<1>2. p \in Seq(Piece) /\ Ordered(p) /\ i = UpTo(p) + 1
  BY <1>1 DEF OutboxTypeOK, Piece, BeginningInOrder, Pieces, Ordered
<1>3. /\ sent' \in [Ids -> [Chats -> Seq(Piece)]]
      /\ \A m \in Ids, u \in Chats :
           m # call[t].id \/ u # Chat(t) => sent'[m][u] = sent[m][u]
      /\ q = Append(p, [first |-> i, last |-> j])
  BY DeliverType
<1> HIDE DEF p
<1>4. Ordered(q) /\ UpTo(q) = j
  BY <1>2, <1>3, OrderedAppend
<1>5. ASSUME NEW u \in Chats, u # Chat(t)
      PROVE  Ordered(sent'[call[t].id][u])
  <2>1. Ordered(sent[call[t].id][u])
    BY <1>1 DEF BeginningInOrder, Pieces, Ordered
  <2>2. sent'[call[t].id][u] = sent[call[t].id][u]
    BY <1>1, <1>3, <1>5
  <2> QED BY <2>1, <2>2
<1> QED BY <1>3, <1>4, <1>5

LEMMA FailsKeeps ==
  ASSUME OInv, NEW t \in Threads, call[t] # None, Fails(t)
  PROVE  OInv'
<1>1. /\ call' = [call EXCEPT ![t] = None] /\ failed' = failed \union {call[t].id}
      /\ UNCHANGED <<whitelist, notifylist, stopping, messages, sent, skipped>>
  BY DEF Fails
<1>2. /\ call' \in [Threads -> Places \union {None}] /\ call'[t] = None
      /\ \A u \in Threads : u # t => call'[u] = call[u]
  BY <1>1 DEF OInv, OutboxTypeOK
<1>3. failed' \subseteq Ids /\ skipped' \in [Ids -> SUBSET Chats]
  BY <1>1, CallType DEF OInv, OutboxTypeOK
<1> QED BY <1>1, <1>2, <1>3, SameSent, StepKeeps

LEMMA NextChatKeeps ==
  ASSUME OInv, NEW t \in Threads, NextChat(t)
  PROVE  OInv'
<1> USE DEF OInv
<1>1. /\ call[t] # None /\ call[t].at = "chat"
      /\ UNCHANGED <<whitelist, notifylist, stopping, messages, sent, failed>>
  BY DEF NextChat
<1>2. failed' \subseteq Ids
  BY <1>1 DEF OutboxTypeOK
<1>3. Reading(call[t], sent)
  BY <1>1 DEF InPlace
<1>4. CASE Chat(t) \in whitelist \union notifylist
  <2>1. PICK a \in {"whole", "lines"} :
          call' = [call EXCEPT ![t].at = a, ![t].first = 1, ![t].next = 1]
    BY <1>4 DEF NextChat
  <2> DEFINE d == [call[t] EXCEPT !.at = a, !.first = 1, !.next = 1]
  <2>2. /\ call' \in [Threads -> Places \union {None}]
        /\ \A u \in Threads : u # t => call'[u] = call[u]
        /\ call'[t].id = call[t].id /\ call'[t].to = call[t].to
        /\ call'[t].at = a /\ call'[t].first = 1 /\ call'[t].next = 1
    <3>1. /\ d \in Places /\ d.id = call[t].id /\ d.to = call[t].to
          /\ d.at = a /\ d.first = 1 /\ d.next = 1
      BY <1>1, CallType DEF Places
    <3>2. call \in [Threads -> Places \union {None}] /\ call' = [call EXCEPT ![t] = d]
      BY <2>1 DEF OutboxTypeOK
    <3> QED BY <3>1, <3>2
  <2>3. Reading(call'[t], sent')
    <3>1. sent[call[t].id][call[t].to[1]] = <<>>
      BY <1>1, <1>3, CallType DEF Reading
    <3> QED BY <1>1, <1>3, <2>2, <3>1 DEF Reading, UpTo
  <2>4. Head(call'[t].to) \in whitelist \union notifylist /\ call'[t].to # <<>>
    BY <1>1, <1>4, <2>2, CallType DEF Chat
  <2>5. skipped' \in [Ids -> SUBSET Chats]
    BY <1>4 DEF NextChat, OutboxTypeOK
  <2> QED BY <1>1, <1>2, <2>2, <2>3, <2>4, <2>5, SameSent, StepKeeps
<1>5. CASE Chat(t) \notin whitelist \union notifylist
  <2>1. call' = Onward(t)
    BY <1>5 DEF NextChat
  <2>2. skipped' \in [Ids -> SUBSET Chats]
    <3>1. skipped' = [skipped EXCEPT ![call[t].id] = @ \union {Chat(t)}]
      BY <1>5 DEF NextChat
    <3> QED BY <3>1, <1>1, CallType DEF OutboxTypeOK
  <2>3. call'[t] # None => Reading(call'[t], sent')
    BY <1>1, <2>1, OnwardReads
  <2> QED BY <1>1, <1>2, <2>1, <2>2, <2>3, OnwardType, SameSent, StepKeeps
<1> QED BY <1>4, <1>5

\* The last of a chat was sent
LEMMA ServedKeeps ==
  ASSUME OInv, NEW t \in Threads, call[t] # None, call' = Onward(t),
         UNCHANGED <<whitelist, notifylist, stopping, messages, skipped, failed>>,
         sent' \in [Ids -> [Chats -> Seq(Piece)]],
         \A m \in Ids, u \in Chats :
           m # call[t].id \/ u # Chat(t) => sent'[m][u] = sent[m][u],
         \A u \in Chats : Ordered(sent'[call[t].id][u])
  PROVE  OInv'
<1>1. failed' \subseteq Ids /\ skipped' \in [Ids -> SUBSET Chats]
  BY DEF OInv, OutboxTypeOK
<1>2. call[t].id \in Ids
  BY CallType DEF OInv
<1>3. call'[t] # None => Reading(call'[t], sent')
  BY <1>2, OnwardReads
<1> QED BY <1>1, <1>3, OnwardType, StepKeeps DEF OInv

LEMMA SendWholeKeeps ==
  ASSUME OInv, NEW t \in Threads, SendWhole(t)
  PROVE  OInv'
<1>1. call[t] # None /\ call[t].at = "whole"
  BY DEF SendWhole
<1>2. CASE Fails(t)
  BY <1>1, <1>2, FailsKeeps
<1>3. CASE ~Fails(t)
  <2>1. /\ Deliver(t, 1, Len(Lines(t))) /\ call' = Onward(t)
        /\ UNCHANGED <<whitelist, notifylist, stopping, messages, skipped, failed>>
    BY <1>3 DEF SendWhole
  <2>2. Len(Lines(t)) \in Nat
    <3>1. call[t].id \in 1 .. Len(messages)
      BY <1>1, CallType DEF OInv, Apart, Ids
    <3>2. messages[call[t].id] \in Messages
      BY <3>1, ElementOfSeq DEF OInv, OutboxTypeOK
    <3> QED BY <3>2, LenProperties DEF Messages, Lines
  <2>3. sent[call[t].id][Chat(t)] = <<>>
    BY <1>1, CallType DEF OInv, InPlace, Reading
  <2>4. 1 = UpTo(sent[call[t].id][Chat(t)]) + 1
    BY <2>3 DEF UpTo
  <2>5. 1 \in Nat
    OBVIOUS
  <2> QED BY <1>1, <2>1, <2>2, <2>4, <2>5, OneMore, ServedKeeps
<1> QED BY <1>2, <1>3

LEMMA LastLineKeeps ==
  ASSUME OInv, NEW t \in Threads, LastLine(t)
  PROVE  OInv'
<1>1. /\ call[t] # None /\ call' = Onward(t)
      /\ UNCHANGED <<whitelist, notifylist, stopping, messages, sent, skipped, failed>>
  BY DEF LastLine
<1> QED BY <1>1, SameSent, ServedKeeps

LEMMA AddLineKeeps ==
  ASSUME OInv, NEW t \in Threads, AddLine(t)
  PROVE  OInv'
<1> DEFINE c == call[t]
           j == call[t].next
<1>1. c # None /\ c.at = "lines" /\ j \in Nat /\ c.first \in Nat
      /\ call \in [Threads -> Places \union {None}]
  BY CallType DEF AddLine, OInv, OutboxTypeOK
<1>2. Reading(c, sent) /\ c.first = UpTo(sent[c.id][Chat(t)]) + 1 /\ c.first <= j
  BY <1>1, CallType DEF OInv, InPlace, Reading
<1>3. c \in Places /\ c.to # <<>> /\ 1 \in DOMAIN c.to /\ Chat(t) = c.to[1]
  BY <1>1, CallType DEF OInv
<1>4. Chat(t) = Head(c.to)
  BY DEF Chat
<1>5. ~stopping => Head(c.to) \in whitelist \union notifylist
  BY <1>1, <1>4 DEF OInv, Addressed
<1>6. CASE Fails(t)
  BY <1>1, <1>6, FailsKeeps
<1>7. CASE /\ call' = [call EXCEPT ![t].next = j + 1]
           /\ UNCHANGED <<whitelist, notifylist, stopping, messages, sent, skipped, failed>>
  <2> DEFINE d == [c EXCEPT !.next = j + 1]
  <2>1. call' = [call EXCEPT ![t] = d]
    BY <1>1, <1>7
  <2>2. /\ d \in Places /\ d.id = c.id /\ d.to = c.to /\ d.at = c.at
        /\ d.first = c.first /\ d.next = j + 1
    BY <1>1, <1>3 DEF Places
  <2>3. c.first <= j + 1
    BY <1>1, <1>2
  <2>4. Reading(d, sent)
    BY <1>1, <1>2, <2>2, <2>3 DEF Reading
  <2>5. /\ call' \in [Threads -> Places \union {None}] /\ call'[t] = d
        /\ \A u \in Threads : u # t => call'[u] = call[u]
    BY <1>1, <2>1, <2>2
  <2> HIDE DEF d
  <2>6. failed' \subseteq Ids /\ skipped' \in [Ids -> SUBSET Chats]
    BY <1>7 DEF OInv, OutboxTypeOK
  <2>7. Reading(call'[t], sent')
    BY <1>7, <2>4, <2>5
  <2> QED BY <1>1, <1>3, <1>5, <1>7, <2>2, <2>5, <2>6, <2>7, SameSent, StepKeeps
<1>8. CASE /\ Deliver(t, c.first, j) /\ call' = AfterPiece(t, j)
           /\ UNCHANGED <<whitelist, notifylist, stopping, messages, skipped, failed>>
  <2> DEFINE d == [c EXCEPT !.next = j + 1, !.first = j + 1]
  <2>1. call' = [call EXCEPT ![t] = d]
    BY <1>1, <1>8 DEF AfterPiece
  <2>2. /\ d \in Places /\ d.id = c.id /\ d.to = c.to /\ d.at = "lines"
        /\ d.first = j + 1 /\ d.next = j + 1
    <3>1. j + 1 \in Nat
      BY <1>1
    <3> HIDE DEF j
    <3> QED BY <1>1, <1>3, <3>1 DEF Places
  <2>3. /\ sent' \in [Ids -> [Chats -> Seq(Piece)]]
        /\ \A m \in Ids, u \in Chats :
             m # c.id \/ u # Chat(t) => sent'[m][u] = sent[m][u]
        /\ \A u \in Chats : Ordered(sent'[c.id][u])
        /\ UpTo(sent'[c.id][Chat(t)]) = j
    BY <1>1, <1>2, <1>8, OneMore
  <2>4. \A k \in DOMAIN c.to : k # 1 => c.to[k] # Chat(t) /\ c.to[k] \in Chats
    BY <1>1, <1>2, <1>3, CallType, ElementOfSeq DEF Reading, OInv
  <2>5. \A k \in DOMAIN d.to : k # 1 => sent'[d.id][d.to[k]] = <<>>
    <3>1. \A k \in DOMAIN c.to : k # 1 => sent[c.id][c.to[k]] = <<>>
      BY <1>2 DEF Reading
    <3>2. c.id \in Ids
      BY <1>1, CallType DEF OInv
    <3>3. \A k \in DOMAIN c.to : k # 1 => sent'[c.id][c.to[k]] = <<>>
      BY <2>3, <2>4, <3>1, <3>2
    <3> QED BY <2>2, <3>3
  <2>6. d.first = UpTo(sent'[d.id][d.to[1]]) + 1 /\ d.first <= d.next
    BY <1>1, <1>3, <2>2, <2>3
  <2>7. Reading(d, sent')
    BY <1>2, <2>2, <2>5, <2>6 DEF Reading
  <2>8. /\ call' \in [Threads -> Places \union {None}] /\ call'[t] = d
        /\ \A u \in Threads : u # t => call'[u] = call[u]
    BY <1>1, <2>1, <2>2
  <2> HIDE DEF d
  <2>9. failed' \subseteq Ids /\ skipped' \in [Ids -> SUBSET Chats]
    BY <1>8 DEF OInv, OutboxTypeOK
  <2> QED BY <1>1, <1>3, <1>5, <1>8, <2>2, <2>3, <2>7, <2>8, <2>9, StepKeeps
<1> QED BY <1>6, <1>7, <1>8 DEF AddLine

LEMMA SendKeeps ==
  ASSUME OInv, NEW t \in Threads, telegram_send(t)
  PROVE  OInv'
BY NextChatKeeps, SendWholeKeeps, AddLineKeeps, LastLineKeeps DEF telegram_send

\* A piece goes to a chat of the lists
LEMMA SendAddresses ==
  ASSUME OInv, NEW t \in Threads, telegram_send(t), NEW u \in Chats, NEW m \in Ids,
         sent'[m][u] # sent[m][u]
  PROVE  stopping \/ u \in whitelist \union notifylist
<1>1. PICK i, j : Deliver(t, i, j)
  BY DEF telegram_send, NextChat, SendWhole, AddLine, LastLine, Fails
<1>2. call[t] # None /\ call[t].at # "chat"
  BY DEF telegram_send, NextChat, SendWhole, AddLine, LastLine
<1>3. u = Chat(t)
  <2>1. call[t].id \in Ids /\ Chat(t) \in Chats /\ sent \in [Ids -> [Chats -> Seq(Piece)]]
    BY <1>2, CallType DEF OInv, OutboxTypeOK, Piece
  <2> QED BY <1>1, <2>1 DEF Deliver
<1> QED BY <1>2, <1>3 DEF OInv, Addressed

(* ------------------------------------------------ What a chat is left with *)

\* The chats of a text are served in turn: those before the one that the call
\* serves have been, and of the lines of this one at most Chunk characters are
\* not sent yet
Progress(t) ==
  LET c == call[t]
      all == messages[c.id].to
      lines == messages[c.id].lines
  IN
  /\ \E d \in Nat :
       /\ Len(all) = Len(c.to) + d
       /\ \A k \in 1 .. Len(c.to) : c.to[k] = all[k + d]
       /\ \A k \in 1 .. d : Served(c.id, all[k])
  /\ c.at = "lines" =>
       /\ Length(lines) > Limit /\ c.next <= Len(lines) + 1
       /\ c.next = c.first \/ Size(lines, c.first, c.next - 1) <= Chunk

Distinct ==
  \A m \in DOMAIN messages :
    \A j, k \in DOMAIN messages[m].to : j # k => messages[m].to[j] # messages[m].to[k]

Turns ==
  /\ \A t \in Threads : call[t] # None => Progress(t)
  /\ Distinct /\ OnlyTheEndIsLost
  /\ failed \subseteq DOMAIN messages

LEMMA MessageType ==
  ASSUME OInv, NEW m \in DOMAIN messages
  PROVE  /\ m \in Ids /\ messages[m] \in Messages
         /\ messages[m].lines \in Seq(Nat) /\ Len(messages[m].lines) \in Nat
         /\ messages[m].to \in Seq(Chats) /\ Len(messages[m].to) \in Nat
         /\ DOMAIN messages[m].to = 1 .. Len(messages[m].to)
         /\ \A k \in DOMAIN messages[m].to : messages[m].to[k] \in Chats
<1>1. /\ messages \in Seq(Messages) /\ Len(messages) <= MaxCalls
      /\ DOMAIN messages = 1 .. Len(messages) /\ Len(messages) \in Nat
  BY LenProperties DEF OInv, OutboxTypeOK
<1>2. m \in Ids
  BY <1>1, CallsAssumption DEF Ids
<1>3. messages[m] \in Messages
  BY <1>1, ElementOfSeq
<1>4. messages[m].lines \in Seq(Nat) /\ messages[m].to \in Seq(Chats)
  BY <1>3 DEF Messages
<1> QED BY <1>2, <1>3, <1>4, LenProperties, ElementOfSeq

LEMMA CallMessage ==
  ASSUME OInv, NEW t \in Threads, call[t] # None
  PROVE  call[t].id \in DOMAIN messages
<1>1. call[t].id \in Ids /\ call[t].id <= Len(messages)
  BY CallType DEF OInv, Apart
<1>2. DOMAIN messages = 1 .. Len(messages) /\ Len(messages) \in Nat
  BY LenProperties DEF OInv, OutboxTypeOK
<1> QED BY <1>1, <1>2 DEF Ids

\* Who is served remains so
LEMMA ServedKept ==
  ASSUME NEW m, NEW u, messages'[m] = messages[m], sent'[m][u] = sent[m][u],
         skipped[m] \subseteq skipped'[m], Served(m, u)
  PROVE  Served(m, u)'
BY DEF Served, SentLines, Pieces

\* What a step of the thread t must do for the turns to be kept
LEMMA TurnsStep ==
  ASSUME OInv, Turns, NEW t \in Threads, call[t] # None,
         NEW id, id = call[t].id, NEW v, v = Chat(t), messages' = messages,
         \A u \in Threads : u # t => call'[u] = call[u],
         \A m \in Ids, u \in Chats :
           m # id \/ u # v => sent'[m][u] = sent[m][u],
         \A m \in Ids : skipped[m] \subseteq skipped'[m],
         failed \subseteq failed', failed' \subseteq failed \union {id},
         \/ call'[t] # None /\ call'[t].id = id /\ Progress(t)'
         \/ call'[t] = None /\ id \in failed'
         \/ call'[t] = None /\ Len(call[t].to) = 1 /\ Served(id, v)'
  PROVE  Turns'
<1> DEFINE all == messages[id].to
<1>1. id \in DOMAIN messages /\ messages' = messages
  BY CallMessage
<1>2. Progress(t)
  BY DEF Turns
<1>3. PICK d \in Nat :
        /\ Len(all) = Len(call[t].to) + d
        /\ \A k \in 1 .. Len(call[t].to) : call[t].to[k] = all[k + d]
        /\ \A k \in 1 .. d : Served(id, all[k])
  BY <1>2 DEF Progress
<1>4. /\ Len(call[t].to) \in Nat /\ 1 \in DOMAIN call[t].to
      /\ DOMAIN call[t].to = 1 .. Len(call[t].to) /\ v = call[t].to[1]
      /\ Len(call[t].to) >= 1
  BY CallType DEF OInv
<1>5. v = all[1 + d] /\ 1 + d \in DOMAIN all /\ DOMAIN all = 1 .. Len(all)
  <2>1. DOMAIN all = 1 .. Len(all)
    BY <1>1, MessageType
  <2>2. 1 \in 1 .. Len(call[t].to) /\ 1 + d \in 1 .. Len(all)
    BY <1>3, <1>4
  <2> QED BY <1>3, <1>4, <2>1, <2>2
<1>6. \A k \in DOMAIN all : k # 1 + d => all[k] # v
  BY <1>1, <1>5 DEF Turns, Distinct
<1>7. \A m \in DOMAIN messages : \A k \in DOMAIN messages[m].to :
        /\ m # id \/ k # 1 + d =>
             sent'[m][messages[m].to[k]] = sent[m][messages[m].to[k]]
        /\ (m # id \/ k # 1 + d) /\ Served(m, messages[m].to[k]) =>
             Served(m, messages[m].to[k])'
  <2>1. ASSUME NEW m \in DOMAIN messages, NEW k \in DOMAIN messages[m].to,
               m # id \/ k # 1 + d
        PROVE  /\ sent'[m][messages[m].to[k]] = sent[m][messages[m].to[k]]
               /\ skipped[m] \subseteq skipped'[m]
    BY <1>6, <2>1, MessageType
  <2> QED BY <2>1, ServedKept
<1>8. \A k \in 1 .. d : k \in DOMAIN all /\ k # 1 + d /\ Served(id, all[k])'
  <2>1. \A k \in 1 .. d : k \in DOMAIN all /\ k # 1 + d
    BY <1>3, <1>4, <1>5
  <2> QED BY <1>1, <1>3, <1>7, <2>1
<1>9. ASSUME NEW u \in Threads, call'[u] # None
      PROVE  Progress(u)'
  <2>1. CASE u = t
    BY <1>9, <2>1
  <2>2. CASE u # t
    <3>1. call[u] # None /\ call'[u] = call[u] /\ call[u].id # id
      BY <1>9, <2>2 DEF OInv, Apart
    <3>2. call[u].id \in DOMAIN messages
      BY <3>1, CallMessage
    <3> DEFINE every == messages[call[u].id].to
    <3>3. Progress(u)
      BY <3>1 DEF Turns
    <3>4. PICK e \in Nat :
            /\ Len(every) = Len(call[u].to) + e
            /\ \A k \in 1 .. Len(call[u].to) : call[u].to[k] = every[k + e]
            /\ \A k \in 1 .. e : Served(call[u].id, every[k])
      BY <3>3 DEF Progress
    <3>5. \A k \in 1 .. e : k \in DOMAIN every
      <4>1. Len(call[u].to) \in Nat /\ DOMAIN every = 1 .. Len(every)
        BY <3>1, <3>2, CallType, MessageType DEF OInv
      <4> QED BY <3>4, <4>1
    <3>6. \A k \in 1 .. e : Served(call[u].id, every[k])'
      BY <1>7, <3>1, <3>2, <3>4, <3>5
    <3>7. messages'[call'[u].id] = messages[call[u].id] /\ call'[u].id = call[u].id
      BY <3>1
    <3>8. call[u].at = "lines" =>
            LET c == call[u]
                lines == messages[c.id].lines
            IN /\ Length(lines) > Limit /\ c.next <= Len(lines) + 1
               /\ c.next = c.first \/ Size(lines, c.first, c.next - 1) <= Chunk
      BY <3>3 DEF Progress
    <3> DEFINE ahead == \E f \in Nat :
                 /\ Len(every) = Len(call[u].to) + f
                 /\ \A k \in 1 .. Len(call[u].to) : call[u].to[k] = every[k + f]
                 /\ \A k \in 1 .. f : Served(call[u].id, every[k])
    <3>9. ahead'
      BY <3>1, <3>4, <3>6
    <3> QED BY <3>7, <3>8, <3>9, <3>1 DEF Progress
  <2> QED BY <2>1, <2>2
<1>10. Distinct'
  BY DEF Turns, Distinct
<1>11. OnlyTheEndIsLost'
  <2>1. ASSUME NEW m \in DOMAIN messages, m \notin failed',
               \A u \in Threads : call'[u] = None \/ call'[u].id # m,
               NEW k \in DOMAIN messages[m].to
        PROVE  Served(m, messages[m].to[k])'
    <3>1. CASE m # id
      <4>1. \A u \in Threads : call[u] = None \/ call[u].id # m
        BY <2>1, <3>1
      <4>2. m \in Ids
        BY MessageType
      <4>3. Served(m, messages[m].to[k])
        BY <2>1, <4>1, <4>2 DEF Turns, OnlyTheEndIsLost, Finished
      <4> QED BY <1>7, <3>1, <4>3
    <3>2. CASE m = id
      <4>1. call'[t] = None /\ Len(call[t].to) = 1 /\ Served(id, v)'
        BY <2>1, <3>2
      <4>2. k \in 1 .. d \/ k = 1 + d
        BY <1>3, <1>5, <2>1, <3>2, <4>1
      <4>3. CASE k \in 1 .. d
        BY <1>8, <3>2, <4>3
      <4>4. CASE k = 1 + d
        BY <1>5, <3>2, <4>1, <4>4
      <4> QED BY <4>2, <4>3, <4>4
    <3> QED BY <3>1, <3>2
  <2> QED BY <2>1 DEF OnlyTheEndIsLost, Finished
<1>12. failed' \subseteq DOMAIN messages'
  BY <1>1 DEF Turns
<1> QED BY <1>9, <1>10, <1>11, <1>12 DEF Turns

\* The chats before the one that is served, before and after a step
LEMMA Behind ==
  ASSUME OInv, Turns, NEW t \in Threads, call[t] # None,
         NEW id, id = call[t].id, NEW v, v = Chat(t), messages' = messages,
         \A m \in Ids, u \in Chats : m # id \/ u # v => sent'[m][u] = sent[m][u],
         \A m \in Ids : skipped[m] \subseteq skipped'[m]
  PROVE  \E d \in Nat :
           /\ Len(messages[id].to) = Len(call[t].to) + d
           /\ \A k \in 1 .. Len(call[t].to) : call[t].to[k] = messages[id].to[k + d]
           /\ \A k \in 1 .. d : Served(id, messages[id].to[k])'
           /\ v = messages[id].to[1 + d]
<1> DEFINE all == messages[id].to
<1>1. id \in DOMAIN messages
  BY CallMessage
<1>2. PICK d \in Nat :
        /\ Len(all) = Len(call[t].to) + d
        /\ \A k \in 1 .. Len(call[t].to) : call[t].to[k] = all[k + d]
        /\ \A k \in 1 .. d : Served(id, all[k])
  BY DEF Turns, Progress
<1>3. Len(call[t].to) \in Nat /\ Len(call[t].to) >= 1 /\ v = call[t].to[1]
  BY CallType DEF OInv
<1>4. v = all[1 + d] /\ 1 + d \in 1 .. Len(all)
  BY <1>2, <1>3
<1>5. \A k \in 1 .. d : k \in 1 .. Len(all) /\ k # 1 + d
  BY <1>2, <1>3
<1>6. DOMAIN all = 1 .. Len(all) /\ id \in Ids /\ \A k \in DOMAIN all : all[k] \in Chats
  BY <1>1, MessageType
<1>7. \A k \in 1 .. d : all[k] # v /\ all[k] \in Chats
  BY <1>1, <1>4, <1>5, <1>6 DEF Turns, Distinct
<1>8. \A k \in 1 .. d : Served(id, all[k])'
  <2>1. \A k \in 1 .. d : sent'[id][all[k]] = sent[id][all[k]]
    BY <1>6, <1>7
  <2>2. skipped[id] \subseteq skipped'[id]
    BY <1>6
  <2> QED BY <1>2, <2>1, <2>2, ServedKept
<1> QED BY <1>2, <1>4, <1>8

\* On to the next chat, the one before it being served
LEMMA OnwardTurns ==
  ASSUME OInv, Turns, NEW t \in Threads, call[t] # None,
         NEW id, id = call[t].id, NEW v, v = Chat(t), messages' = messages,
         call' = Onward(t), Served(id, v)',
         \A m \in Ids, u \in Chats : m # id \/ u # v => sent'[m][u] = sent[m][u],
         \A m \in Ids : skipped[m] \subseteq skipped'[m],
         failed \subseteq failed', failed' \subseteq failed
  PROVE  Turns'
<1> DEFINE all == messages[id].to
<1>0. PICK d \in Nat :
        /\ Len(all) = Len(call[t].to) + d
        /\ \A k \in 1 .. Len(call[t].to) : call[t].to[k] = all[k + d]
        /\ \A k \in 1 .. d : Served(id, all[k])'
        /\ v = all[1 + d]
  BY Behind, SMTT(40)
<1>1. call \in [Threads -> Places \union {None}] /\ \A u \in Threads : u # t => call'[u] = call[u]
  BY OnwardType DEF OInv, OutboxTypeOK
<1>2. CASE Len(call[t].to) = 1
  <2>1. call'[t] = None
    BY <1>1, <1>2 DEF Onward
  <2> QED BY <1>1, <1>2, <2>1, TurnsStep
<1>3. CASE Len(call[t].to) # 1
  <2>1. call' = [call EXCEPT ![t].at = "chat", ![t].to = Tail(call[t].to)]
    BY <1>3 DEF Onward
  <2> DEFINE c == [call[t] EXCEPT !.at = "chat", !.to = Tail(call[t].to)]
  <2>2. call'[t] = c
    BY <1>1, <2>1
  <2>3. call[t].to \in Seq(Chats) /\ call[t].to # <<>>
    BY CallType DEF OInv
  <2>4. /\ Tail(call[t].to) \in Seq(Chats) /\ Len(Tail(call[t].to)) = Len(call[t].to) - 1
        /\ \A k \in 1 .. Len(Tail(call[t].to)) : Tail(call[t].to)[k] = call[t].to[k + 1]
    BY <2>3, HeadTailProperties
  <2>5. c \in Places /\ c.id = id /\ c.at = "chat" /\ c.to = Tail(call[t].to)
    <3>1. call[t] \in Places
      BY CallType DEF OInv
    <3> QED BY <2>4, <3>1 DEF Places
  <2>6. call'[t] # None
    BY <2>2, <2>5, NoneAssumption
  <2> HIDE DEF c
  <2>7. Len(call[t].to) \in Nat /\ d + 1 \in Nat
    BY <2>3, LenProperties
  <2>8. Len(all) = Len(c.to) + (d + 1)
    <3>1. Len(all) = Len(call[t].to) + d /\ Len(c.to) = Len(call[t].to) - 1
      BY <2>4, <2>5, <1>0
    <3>2. \A a, e \in Nat : a + e = (a - 1) + (e + 1)
      OBVIOUS
    <3>3. Len(call[t].to) + d = (Len(call[t].to) - 1) + (d + 1)
      BY <2>7, <3>2
    <3> QED BY <3>1, <3>3
  <2>9. \A k \in 1 .. Len(c.to) : c.to[k] = all[k + (d + 1)]
    <3>1. ASSUME NEW k \in 1 .. Len(c.to)
          PROVE  c.to[k] = all[k + (d + 1)]
      <4>1. k + 1 \in 1 .. Len(call[t].to) /\ (k + 1) + d = k + (d + 1)
        BY <2>4, <2>5, <2>7
      <4> QED BY <2>4, <2>5, <1>0, <4>1
    <3> QED BY <3>1
  <2>10. \A k \in 1 .. d + 1 : Served(id, all[k])'
    <3>1. \A k \in 1 .. d + 1 : k \in 1 .. d \/ k = 1 + d
      OBVIOUS
    <3> QED BY <1>0, <3>1
  <2>11. Progress(t)'
    BY <2>2, <2>5, <2>7, <2>8, <2>9, <2>10 DEF Progress
  <2> QED BY <1>1, <2>2, <2>5, <2>6, <2>11, TurnsStep
<1> QED BY <1>2, <1>3

\* Within the chat that is served
LEMMA WithinTurns ==
  ASSUME OInv, Turns, NEW t \in Threads, call[t] # None,
         NEW id, id = call[t].id, NEW v, v = Chat(t), messages' = messages,
         \A u \in Threads : u # t => call'[u] = call[u],
         call'[t] # None, call'[t].id = id, call'[t].to = call[t].to,
         call'[t].at = "lines" =>
           /\ Length(messages[id].lines) > Limit
           /\ call'[t].next <= Len(messages[id].lines) + 1
           /\ \/ call'[t].next = call'[t].first
              \/ Size(messages[id].lines, call'[t].first, call'[t].next - 1) <= Chunk,
         \A m \in Ids, u \in Chats : m # id \/ u # v => sent'[m][u] = sent[m][u],
         \A m \in Ids : skipped[m] \subseteq skipped'[m],
         failed \subseteq failed', failed' \subseteq failed
  PROVE  Turns'
<1> DEFINE all == messages[id].to
<1>1. PICK d \in Nat :
        /\ Len(all) = Len(call[t].to) + d
        /\ \A k \in 1 .. Len(call[t].to) : call[t].to[k] = all[k + d]
        /\ \A k \in 1 .. d : Served(id, all[k])'
        /\ v = all[1 + d]
  BY Behind, SMTT(40)
<1>2. \A k \in 1 .. d : Served(call[t].id, messages[call[t].id].to[k])'
  BY <1>1
<1>3. /\ messages'[call'[t].id].to = all
      /\ messages'[call'[t].id].lines = messages[id].lines
  OBVIOUS
<1>4. Progress(t)'
  BY <1>1, <1>2, <1>3 DEF Progress
<1> QED BY <1>4, TurnsStep

\* Every call is at its end
LEMMA IdleTurns ==
  ASSUME OInv, Turns, call' = [t \in Threads |-> None], messages' = messages,
         sent' = sent, skipped' = skipped,
         failed' = failed \union {call[t].id : t \in {t \in Threads : call[t] # None}}
  PROVE  Turns'
<1>1. \A m \in DOMAIN messages : \A k \in DOMAIN messages[m].to :
        Served(m, messages[m].to[k]) => Served(m, messages[m].to[k])'
  BY ServedKept
<1>2. \A m \in Ids : m \notin failed' =>
        m \notin failed /\ \A t \in Threads : call[t] = None \/ call[t].id # m
  OBVIOUS
<1>3. OnlyTheEndIsLost'
  <2>1. ASSUME NEW m \in Ids, m \in DOMAIN messages, m \notin failed',
               NEW k \in DOMAIN messages[m].to
        PROVE  Served(m, messages[m].to[k])'
    BY <1>1, <1>2, <2>1 DEF Turns, OnlyTheEndIsLost, Finished
  <2> QED BY <2>1 DEF OnlyTheEndIsLost, Finished
<1>4. failed' \subseteq DOMAIN messages
  BY CallMessage DEF Turns
<1> QED BY <1>3, <1>4 DEF Turns, Distinct

\* A text that is to be sent
LEMMA SayTurns ==
  ASSUME OInv, Turns, NEW t \in Threads, NEW m \in Messages,
         \A j, k \in DOMAIN m.to : j # k => m.to[j] # m.to[k],
         Say(t, m.lines, m.about, m.to)
  PROVE  Turns'
<1> DEFINE new == Len(messages) + 1
           c == [id |-> new, to |-> m.to, at |-> "chat", first |-> 1, next |-> 1]
<1>1. /\ messages' = Append(messages, m)
      /\ call[t] = None /\ Len(messages) < MaxCalls
      /\ call' = [call EXCEPT ![t] = IF m.to = <<>> THEN None ELSE c]
      /\ UNCHANGED <<whitelist, notifylist, stopping, sent, skipped, failed>>
  <2>1. m = [lines |-> m.lines, about |-> m.about, to |-> m.to]
    BY DEF Messages
  <2> QED BY <2>1 DEF Say
<1>2. /\ messages \in Seq(Messages) /\ call \in [Threads -> Places \union {None}]
      /\ m.to \in Seq(Chats) /\ Len(messages) \in Nat
  BY LenProperties DEF OInv, OutboxTypeOK, Messages
<1>3. /\ DOMAIN messages = 1 .. Len(messages) /\ DOMAIN messages' = 1 .. new
      /\ \A n \in DOMAIN messages : messages'[n] = messages[n]
      /\ messages'[new] = m
  BY <1>1, <1>2, AppendProperties, LenProperties
<1>4. new \in Ids /\ new > Len(messages) /\ new \notin DOMAIN messages
      /\ DOMAIN messages' = DOMAIN messages \union {new}
  BY <1>1, <1>2, <1>3, CallsAssumption DEF Ids
<1>5. c \in Places /\ c.id = new /\ c.at = "chat" /\ c.to = m.to
  BY <1>2, <1>4 DEF Places
<1> HIDE DEF new
<1>6. /\ \A u \in Threads : u # t => call'[u] = call[u]
      /\ m.to = <<>> => call'[t] = None
      /\ m.to # <<>> => call'[t] = c /\ call'[t] # None
  BY <1>1, <1>2, <1>5, NoneAssumption
<1> HIDE DEF c
<1>7. \A u \in Chats : sent[new][u] = <<>>
  BY <1>4 DEF OInv, Apart
<1>8. DOMAIN m.to = 1 .. Len(m.to) /\ Len(m.to) \in Nat /\ \A k \in DOMAIN m.to : m.to[k] \in Chats
  BY <1>2, LenProperties, ElementOfSeq
<1>9. ASSUME NEW n \in DOMAIN messages, NEW u, Served(n, u)
      PROVE  Served(n, u)'
  BY <1>1, <1>3, <1>9, ServedKept
<1>10. ASSUME NEW u \in Threads, call'[u] # None
       PROVE  Progress(u)'
  <2>1. CASE u = t
    <3>1. call'[t] = c /\ m.to # <<>>
      BY <1>6, <1>10, <2>1
    <3>2. /\ messages'[c.id].to = c.to /\ Len(c.to) = Len(c.to) + 0 /\ 0 \in Nat
          /\ \A k \in 1 .. Len(c.to) : c.to[k] = c.to[k + 0]
      BY <1>3, <1>5, <1>8
    <3>3. \A k \in 1 .. 0 : FALSE
      OBVIOUS
    <3> QED BY <1>5, <2>1, <3>1, <3>2, <3>3 DEF Progress
  <2>2. CASE u # t
    <3>1. call[u] # None /\ call'[u] = call[u]
      BY <1>6, <1>10, <2>2
    <3>2. call[u].id \in DOMAIN messages
      BY <3>1, CallMessage
    <3>3. messages'[call[u].id] = messages[call[u].id]
      BY <1>3, <3>2
    <3>4. Progress(u)
      BY <3>1 DEF Turns
    <3>5. PICK d \in Nat :
            /\ Len(messages[call[u].id].to) = Len(call[u].to) + d
            /\ \A k \in 1 .. Len(call[u].to) : call[u].to[k] = messages[call[u].id].to[k + d]
            /\ \A k \in 1 .. d : Served(call[u].id, messages[call[u].id].to[k])
      BY <3>4 DEF Progress
    <3>6. \A k \in 1 .. d : Served(call[u].id, messages[call[u].id].to[k])'
      BY <1>9, <3>1, <3>2, <3>3, <3>5
    <3> QED BY <3>1, <3>3, <3>4, <3>5, <3>6 DEF Progress
  <2> QED BY <2>1, <2>2
<1>11. Distinct'
  <2>1. \A n \in DOMAIN messages' :
          \A j, k \in DOMAIN messages'[n].to : j # k => messages'[n].to[j] # messages'[n].to[k]
    <3>1. ASSUME NEW n \in DOMAIN messages
          PROVE  \A j, k \in DOMAIN messages'[n].to :
                   j # k => messages'[n].to[j] # messages'[n].to[k]
      BY <1>3 DEF Turns, Distinct
    <3>2. \A j, k \in DOMAIN messages'[new].to :
            j # k => messages'[new].to[j] # messages'[new].to[k]
      BY <1>3
    <3> QED BY <1>4, <3>1, <3>2
  <2> QED BY <2>1 DEF Distinct
<1>12. OnlyTheEndIsLost'
  <2>1. ASSUME NEW n \in Ids, n \in DOMAIN messages', n \notin failed',
               \A u \in Threads : call'[u] = None \/ call'[u].id # n,
               NEW k \in DOMAIN messages'[n].to
        PROVE  Served(n, messages[n].to[k])'
    <3>1. CASE n \in DOMAIN messages
      <4>1. \A u \in Threads : call[u] = None \/ call[u].id # n
        BY <1>1, <1>6, <2>1
      <4>2. Served(n, messages[n].to[k])
        BY <1>1, <1>3, <2>1, <3>1, <4>1 DEF Turns, OnlyTheEndIsLost, Finished
      <4>3. \A v : v = messages[n].to[k] => Served(n, v)'
        BY <1>9, <3>1, <4>2
      <4> QED BY <1>3, <3>1, <4>3
    <3>2. CASE n = new
      <4>1. m.to = <<>>
        BY <1>5, <1>6, <2>1, <3>2
      <4> QED BY <1>3, <1>8, <2>1, <3>2, <4>1, EmptySeq
    <3> QED BY <1>4, <2>1, <3>1, <3>2
  <2> QED BY <2>1 DEF OnlyTheEndIsLost, Finished
<1>13. failed' \subseteq DOMAIN messages'
  BY <1>1, <1>4 DEF Turns
<1> QED BY <1>10, <1>11, <1>12, <1>13 DEF Turns

LEMMA FailsTurns ==
  ASSUME OInv, Turns, NEW t \in Threads, call[t] # None, Fails(t)
  PROVE  Turns'
<1>1. /\ call' = [call EXCEPT ![t] = None] /\ failed' = failed \union {call[t].id}
      /\ UNCHANGED <<whitelist, notifylist, stopping, messages, sent, skipped>>
  BY DEF Fails
<1>2. call'[t] = None /\ \A u \in Threads : u # t => call'[u] = call[u]
  BY <1>1 DEF OInv, OutboxTypeOK
<1> DEFINE id == call[t].id  v == Chat(t)
<1>3. id = call[t].id /\ v = Chat(t) /\ id \in failed'
  BY <1>1
<1> HIDE DEF id, v
<1> QED BY <1>1, <1>2, <1>3, TurnsStep

LEMMA NextChatTurns ==
  ASSUME OInv, Turns, NEW t \in Threads, NextChat(t)
  PROVE  Turns'
<1>1. /\ call[t] # None /\ call[t].at = "chat"
      /\ UNCHANGED <<whitelist, notifylist, stopping, messages, sent, failed>>
  BY DEF NextChat
<1>2. PICK id, v : id = call[t].id /\ v = Chat(t)
  OBVIOUS
<1>3. id \in DOMAIN messages /\ id \in Ids
  BY <1>1, <1>2, CallMessage, CallType DEF OInv
<1>4. CASE v \in whitelist \union notifylist
  <2>1. PICK a \in {"whole", "lines"} :
          /\ call' = [call EXCEPT ![t].at = a, ![t].first = 1, ![t].next = 1]
          /\ a = "lines" => Length(messages[id].lines) > Limit
          /\ skipped' = skipped
    BY <1>2, <1>4 DEF NextChat, Lines
  <2> DEFINE c == [call[t] EXCEPT !.at = a, !.first = 1, !.next = 1]
  <2>2. /\ c \in Places /\ c.id = id /\ c.to = call[t].to
        /\ c.at = a /\ c.first = 1 /\ c.next = 1
    BY <1>1, <1>2, CallType DEF Places, OInv
  <2>3. call'[t] = c /\ \A u \in Threads : u # t => call'[u] = call[u]
    BY <2>1 DEF OInv, OutboxTypeOK
  <2> HIDE DEF c
  <2>4. 1 <= Len(messages[id].lines) + 1
    BY <1>3, MessageType
  <2>5. call'[t] # None
    BY <2>2, <2>3, NoneAssumption
  <2> QED BY <1>1, <1>2, <2>1, <2>2, <2>3, <2>4, <2>5, WithinTurns
<1>5. CASE v \notin whitelist \union notifylist
  <2>1. call' = Onward(t) /\ skipped' = [skipped EXCEPT ![id] = @ \union {v}]
    BY <1>2, <1>5 DEF NextChat
  <2>2. skipped \in [Ids -> SUBSET Chats]
    BY DEF OInv, OutboxTypeOK
  <2>3. v \in skipped'[id] /\ \A m \in Ids : skipped[m] \subseteq skipped'[m]
    BY <1>3, <2>1, <2>2
  <2>4. Served(id, v)'
    BY <2>3 DEF Served
  <2> QED BY <1>1, <1>2, <2>1, <2>3, <2>4, OnwardTurns
<1> QED BY <1>4, <1>5

LEMMA SendWholeTurns ==
  ASSUME OInv, Turns, NEW t \in Threads, SendWhole(t)
  PROVE  Turns'
<1>1. call[t] # None /\ call[t].at = "whole"
  BY DEF SendWhole
<1>2. CASE Fails(t)
  BY <1>1, <1>2, FailsTurns
<1>3. CASE ~Fails(t)
  <2>1. /\ Deliver(t, 1, Len(Lines(t))) /\ call' = Onward(t)
        /\ UNCHANGED <<whitelist, notifylist, stopping, messages, skipped, failed>>
    BY <1>3 DEF SendWhole
  <2>2. PICK id, v : id = call[t].id /\ v = Chat(t)
    OBVIOUS
  <2>3. id \in DOMAIN messages /\ Len(Lines(t)) \in Nat
    BY <1>1, <2>2, CallMessage, MessageType DEF Lines
  <2>4. sent[id][v] = <<>> /\ v \in Chats
    BY <1>1, <2>2, CallType DEF OInv, InPlace, Reading
  <2>5. 1 = UpTo(sent[id][v]) + 1 /\ 1 \in Nat
    BY <2>4 DEF UpTo
  <2>6. /\ \A m \in Ids, u \in Chats : m # id \/ u # v => sent'[m][u] = sent[m][u]
        /\ sent'[id][v] = Append(sent[id][v], [first |-> 1, last |-> Len(Lines(t))])
    BY <1>1, <2>1, <2>2, <2>3, <2>5, DeliverType DEF OInv
  <2>7. UpTo(sent'[id][v]) = Len(Lines(t))
    BY <1>1, <2>1, <2>2, <2>3, <2>5, OneMore
  <2>8. Served(id, v)'
    <3>1. messages'[id].lines = Lines(t)
      BY <2>1, <2>2 DEF Lines
    <3> QED BY <2>7, <3>1 DEF Served, SentLines, Pieces, UpTo
  <2> QED BY <1>1, <2>1, <2>2, <2>6, <2>8, OnwardTurns
<1> QED BY <1>2, <1>3

LEMMA LastLineTurns ==
  ASSUME OInv, Turns, NEW t \in Threads, LastLine(t)
  PROVE  Turns'
<1>1. /\ call[t] # None /\ call[t].at = "lines" /\ call' = Onward(t)
      /\ call[t].next > Len(Lines(t))
      /\ UNCHANGED <<whitelist, notifylist, stopping, messages, sent, skipped, failed>>
  BY DEF LastLine
<1>2. PICK id, v : id = call[t].id /\ v = Chat(t)
  OBVIOUS
<1> DEFINE c == call[t]
           lines == messages[id].lines
<1>3. id \in DOMAIN messages /\ Len(lines) \in Nat
  BY <1>1, <1>2, CallMessage, MessageType
<1>4. c.first \in Nat /\ c.next \in Nat /\ v = c.to[1]
  BY <1>1, <1>2, CallType DEF OInv
<1>5. c.first = UpTo(sent[id][v]) + 1
  BY <1>1, <1>2, <1>4 DEF OInv, InPlace, Reading
<1>6. /\ Length(lines) > Limit /\ c.next <= Len(lines) + 1
      /\ c.next = c.first \/ Size(lines, c.first, c.next - 1) <= Chunk
  BY <1>1, <1>2 DEF Turns, Progress
<1>7. SentLines(id, v) = UpTo(sent[id][v])
  BY DEF SentLines, Pieces, UpTo
<1>8. SentLines(id, v) \in Int
  <2>1. id \in Ids /\ v \in Chats
    BY <1>1, <1>2, CallType DEF OInv
  <2>2. sent[id][v] \in Seq(Piece)
    BY <2>1 DEF OInv, OutboxTypeOK, Piece
  <2>3. sent[id][v] # <<>> => sent[id][v][Len(sent[id][v])] \in Piece
    <3>1. sent[id][v] # <<>> => Len(sent[id][v]) \in 1 .. Len(sent[id][v])
      BY <2>2, LenProperties, EmptySeq
    <3> QED BY <2>2, <3>1, ElementOfSeq
  <2> QED BY <1>7, <2>3 DEF UpTo, Piece
<1>9. c.next = Len(lines) + 1 /\ c.next - 1 = Len(lines)
  <2>1. c.next > Len(lines)
    BY <1>1, <1>2 DEF Lines
  <2> QED BY <1>3, <1>4, <1>6, <2>1
<1>10. c.first = SentLines(id, v) + 1
  BY <1>5, <1>7
<1>11. Served(id, v)
  <2>1. CASE c.next = c.first
    <3>1. SentLines(id, v) = Len(lines)
      BY <1>3, <1>8, <1>9, <1>10, <2>1
    <3> QED BY <3>1 DEF Served
  <2>2. CASE Size(lines, c.first, c.next - 1) <= Chunk
    <3>1. Size(lines, SentLines(id, v) + 1, Len(lines)) <= Chunk
      BY <1>9, <1>10, <2>2
    <3> QED BY <1>6, <3>1 DEF Served
  <2> QED BY <1>6, <2>1, <2>2
<1>12. Served(id, v)'
  BY <1>1, <1>11, ServedKept
<1> HIDE DEF c, lines
<1> QED BY <1>1, <1>2, <1>12, OnwardTurns

LEMMA AddLineTurns ==
  ASSUME OInv, Turns, NEW t \in Threads, AddLine(t)
  PROVE  Turns'
<1> DEFINE c == call[t]
           j == call[t].next
<1>1. /\ c # None /\ c.at = "lines" /\ j <= Len(Lines(t)) /\ j \in Nat /\ c.first \in Nat
      /\ call \in [Threads -> Places \union {None}]
  BY CallType DEF AddLine, OInv, OutboxTypeOK
<1>2. PICK id, v : id = call[t].id /\ v = Chat(t)
  OBVIOUS
<1> DEFINE lines == messages[id].lines
<1>3. lines = Lines(t) /\ Len(lines) \in Nat
  BY <1>1, <1>2, CallMessage, MessageType DEF Lines
<1>4. Length(lines) > Limit
  BY <1>1, <1>2 DEF Turns, Progress
<1>5. c \in Places
  BY <1>1, CallType DEF OInv
<1>6. j + 1 \in Nat /\ j + 1 <= Len(lines) + 1 /\ (j + 1) - 1 = j
  BY <1>1, <1>3
<1>7. CASE Fails(t)
  BY <1>1, <1>7, FailsTurns
<1>8. CASE /\ Size(Lines(t), c.first, j) <= Chunk
           /\ call' = [call EXCEPT ![t].next = j + 1]
           /\ UNCHANGED <<whitelist, notifylist, stopping, messages, sent, skipped, failed>>
  <2> DEFINE d == [c EXCEPT !.next = j + 1]
  <2>1. call'[t] = d /\ \A u \in Threads : u # t => call'[u] = call[u]
    BY <1>1, <1>8
  <2>2. d \in Places /\ d.id = id /\ d.to = c.to /\ d.first = c.first /\ d.next = j + 1
    BY <1>2, <1>5, <1>6 DEF Places
  <2> HIDE DEF d
  <2>3. d # None
    BY <2>2, NoneAssumption
  <2>4. d.next <= Len(lines) + 1 /\ Size(lines, d.first, d.next - 1) <= Chunk
    BY <1>3, <1>6, <1>8, <2>2
  <2> QED BY <1>1, <1>2, <1>4, <1>8, <2>1, <2>2, <2>3, <2>4, WithinTurns
<1>9. CASE /\ Deliver(t, c.first, j) /\ call' = AfterPiece(t, j)
           /\ UNCHANGED <<whitelist, notifylist, stopping, messages, skipped, failed>>
  <2> DEFINE d == [c EXCEPT !.next = j + 1, !.first = j + 1]
  <2>1. call'[t] = d /\ \A u \in Threads : u # t => call'[u] = call[u]
    BY <1>1, <1>9 DEF AfterPiece
  <2>2. d \in Places /\ d.id = id /\ d.to = c.to /\ d.first = j + 1 /\ d.next = j + 1
    <3> HIDE DEF j
    <3> QED BY <1>2, <1>5, <1>6 DEF Places
  <2> HIDE DEF d
  <2>3. d # None
    BY <2>2, NoneAssumption
  <2>4. d.next <= Len(lines) + 1 /\ d.next = d.first
    BY <1>6, <2>2
  <2>5. \A m \in Ids, u \in Chats : m # id \/ u # v => sent'[m][u] = sent[m][u]
    BY <1>1, <1>2, <1>9, DeliverType DEF OInv
  <2> QED BY <1>1, <1>2, <1>4, <1>9, <2>1, <2>2, <2>3, <2>4, <2>5, WithinTurns
<1> QED BY <1>7, <1>8, <1>9 DEF AddLine

LEMMA SendTurns ==
  ASSUME OInv, Turns, NEW t \in Threads, telegram_send(t)
  PROVE  Turns'
BY NextChatTurns, SendWholeTurns, AddLineTurns, LastLineTurns DEF telegram_send
=============================================================================
