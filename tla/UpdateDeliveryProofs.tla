------------------------ MODULE UpdateDeliveryProofs ------------------------
(***************************************************************************)
(* What holds of UpdateDelivery for any number of updates, restarts and    *)
(* crashes and whatever size of a reply; what matters of it also needs     *)
(* that no thread is held up for a poll interval between two bytecodes.    *)
(***************************************************************************)
EXTENDS UpdateDelivery, SequenceTheorems, TLAPS

(* ------------------------------------------------ The inductive invariant *)

Held == IF hand \in Updates THEN 1 ELSE 0

\* The last update that this Updater has put in its queue
LastPut ==
  IF batch # <<>> THEN Head(batch) - 1
  ELSE IF last_update_id = 0 THEN acked ELSE last_update_id - 1

\* What is in hand and, between the errors, in the queue follows what was
\* handed over, gapless
InOrder ==
  /\ dispatcher = "handling" <=> hand # None
  /\ hand \in Updates => hand = upto + 1
  /\ \A k \in 1 .. Len(queue) :
       queue[k] # Error => upto + Held < queue[k] /\ queue[k] <= LastPut
  /\ \A i \in upto + Held + 1 .. LastPut : \E k \in 1 .. Len(queue) : queue[k] = i
  /\ \A j, k \in 1 .. Len(queue) :
       j < k /\ queue[j] # Error /\ queue[k] # Error => queue[j] < queue[k]
  /\ upto + Held <= LastPut
  /\ LastPut <= sent

\* The poller's offset, what it has in hand, and what Telegram has forgotten
Offsets ==
  /\ acked <= LastPut
  /\ LastPut <= acked + Limit
  /\ batch # <<>> <=> poller \in {"got", "putting"}
  /\ poller \in {"bootstrap", "pause", "loop", "asking", "asked", "got"} =>
       \/ last_update_id = LastPut + 1
       \/ last_update_id = 0 /\ LastPut = acked
  /\ poller \in {"asked", "got"} => acked = LastPut
  /\ poller \in {"got", "putting"} =>
       /\ \A k \in 1 .. Len(batch) : batch[k] = LastPut + k
       /\ LastPut + Len(batch) <= sent
       /\ LastPut + Len(batch) <= acked + Limit

\* What the steps of stop() have brought about
Stopped ==
  /\ stop_event <=> reactor = "stop_dispatcher"
  /\ reactor \in {"stop", "stop_dispatcher", "join", "stopped", "enable"} => ~running
  /\ reactor \in {"join", "stopped", "enable"} => dispatcher = "ended"
  /\ reactor \in {"stopped", "enable"} => poller \in {"ended", "unready"}
  /\ exception_event => poller \in {"ended", "unready"}
  /\ dispatcher = "ended" => ~running \/ exception_event
  /\ ~listed => reactor \in Stopping \union {"stopped"}

\* A dispatcher that is about to stop has handed over what Telegram forgot,
\* and what it will forget
Acknowledged ==
  dispatcher \in {"empty", "ended"} =>
    /\ acked <= upto
    /\ poller \in {"bootstrap", "loop", "asking", "asked"} =>
         last_update_id <= upto + 1

\* This much holds whatever the threads' speed ...
Inv == TypeOK /\ InOrder /\ Offsets /\ Stopped

\* What was handed over has gone through process_update
Handled == crashes = 0 => \A i \in 1 .. upto : i \in heeded \union ignored

\* ... and this as long as no thread is held up for a poll interval
IInv == Inv /\ Acknowledged /\ Handled

(* -------------------------------------------------------- Replies and queue *)

\* The reply of Telegram: what it has not forgotten, at most Limit updates
LEMMA Reply ==
  ASSUME TypeOK, Answer
  PROVE  /\ batch' \in Seq(Updates)
         /\ Len(batch') <= Limit
         /\ acked + Len(batch') <= sent
         /\ \A k \in 1 .. Len(batch') : batch'[k] = acked + k
         /\ poller' = "got" <=> batch' # <<>>
         /\ poller' \in {"pause", "got"}
<1> DEFINE Due == IF sent - acked < Limit THEN sent - acked ELSE Limit
<1>1. Due \in Nat /\ Due <= Limit /\ acked + Due <= sent
  BY LimitAssumption, BoundsAssumption DEF TypeOK
<1>2. \A k \in 1 .. Due : acked + k \in Updates
  BY <1>1, BoundsAssumption DEF TypeOK, Updates
<1>3. batch' = [k \in 1 .. Due |-> acked + k]
  BY DEF Answer
<1> HIDE DEF Due
<1>4. [k \in 1 .. Due |-> acked + k] \in [1 .. Due -> Updates]
  BY <1>2
<1>5. batch' \in Seq(Updates)
  BY <1>1, <1>3, <1>4, SeqDef
<1>6. Len(batch') = Due
  BY <1>1, <1>3, <1>5, LenProperties
<1>7. poller' = IF Due = 0 THEN "pause" ELSE "got"
  BY DEF Answer, Due
<1> QED BY <1>1, <1>3, <1>5, <1>6, <1>7

\* Taking the head off a sequence of consecutive numbers
LEMMA Shorter ==
  ASSUME NEW s \in Seq(Updates), s # <<>>, NEW n \in Nat,
         \A k \in 1 .. Len(s) : s[k] = n + k
  PROVE  /\ Head(s) = n + 1 /\ Head(s) \in Updates
         /\ Tail(s) \in Seq(Updates)
         /\ Len(s) \in Nat \ {0}
         /\ Len(Tail(s)) = Len(s) - 1
         /\ \A k \in 1 .. Len(Tail(s)) : Tail(s)[k] = n + 1 + k
<1>1. Len(s) \in Nat \ {0}
  BY EmptySeq
<1>2. /\ Head(s) \in Updates
      /\ Tail(s) \in Seq(Updates)
      /\ Len(Tail(s)) = Len(s) - 1
      /\ \A i \in 1 .. Len(Tail(s)) : Tail(s)[i] = s[i + 1]
  BY HeadTailProperties
<1>3. Head(s) = s[1]
  OBVIOUS
<1> QED BY <1>1, <1>2, <1>3

\* The numbers the invariant speaks of
LEMMA Numbers ==
  ASSUME TypeOK
  PROVE  /\ Len(queue) \in Nat /\ Len(batch) \in Nat
         /\ Held \in {0, 1} /\ LastPut \in Nat /\ upto + Held \in Nat
         /\ sent \in Nat /\ acked \in Nat /\ upto \in Nat /\ last_update_id \in Nat
         /\ Limit \in Nat /\ MaxUpdates \in Nat
         /\ \A k \in 1 .. Len(queue) : queue[k] \in Updates \union {Error}
         /\ Updates \subseteq Nat /\ Error \notin Nat /\ None \notin Nat /\ Error # None
<1>1. /\ Len(queue) \in Nat /\ Len(batch) \in Nat
      /\ sent \in Nat /\ acked \in Nat /\ upto \in Nat /\ last_update_id \in Nat
      /\ Limit \in Nat /\ MaxUpdates \in Nat
  BY LenProperties, LimitAssumption, BoundsAssumption DEF TypeOK
<1>2. Updates \subseteq Nat /\ \A n \in Updates : n - 1 \in Nat
  BY <1>1 DEF Updates
<1>3. batch # <<>> => Head(batch) \in Updates
  BY HeadTailProperties DEF TypeOK
<1>4. LastPut \in Nat
  <2>1. last_update_id # 0 => last_update_id - 1 \in Nat
    BY <1>1
  <2>2. batch # <<>> => Head(batch) - 1 \in Nat
    BY <1>2, <1>3
  <2> QED BY <1>1, <2>1, <2>2, Zenon DEF LastPut
<1>5. Held \in {0, 1} /\ upto + Held \in Nat
  BY <1>1 DEF Held
<1>6. \A k \in 1 .. Len(queue) : queue[k] \in Updates \union {Error}
  BY ElementOfSeq DEF TypeOK
<1> QED BY <1>1, <1>2, <1>4, <1>5, <1>6, NoneAssumption

\* An element put at the end of the queue
LEMMA Queued ==
  ASSUME TypeOK, NEW e \in Updates \union {Error}, queue' = Append(queue, e)
  PROVE  /\ queue' \in Seq(Updates \union {Error})
         /\ Len(queue') = Len(queue) + 1
         /\ \A k \in 1 .. Len(queue) : queue'[k] = queue[k]
         /\ queue'[Len(queue) + 1] = e
BY AppendProperties DEF TypeOK

\* A step of the poller that puts an update in the queue
LEMMA PutStep ==
  ASSUME Inv, Put
  PROVE  /\ queue' = Append(queue, LastPut + 1) /\ LastPut + 1 \in Updates
         /\ batch' \in Seq(Updates) /\ Len(batch') = Len(batch) - 1
         /\ \A k \in 1 .. Len(batch') : batch'[k] = LastPut + 1 + k
         /\ Len(batch) \in Nat \ {0}
         /\ LastPut + Len(batch) <= sent
         /\ LastPut + Len(batch) <= acked + Limit
         /\ Len(batch) = 1 => last_update_id' = LastPut + 2 /\ poller' = "pause"
                              /\ batch' = <<>>
         /\ Len(batch) # 1 => batch' # <<>> /\ UNCHANGED <<last_update_id, poller>>
         /\ LastPut' = LastPut + 1
<1> USE DEF Inv
<1>1. /\ batch \in Seq(Updates) /\ poller = "putting"
      /\ batch # <<>>
      /\ \A k \in 1 .. Len(batch) : batch[k] = LastPut + k
      /\ LastPut + Len(batch) <= sent
      /\ LastPut + Len(batch) <= acked + Limit
  BY DEF TypeOK, Offsets, Put
<1>2. /\ Head(batch) = LastPut + 1 /\ Head(batch) \in Updates
      /\ Tail(batch) \in Seq(Updates)
      /\ Len(batch) \in Nat \ {0}
      /\ Len(Tail(batch)) = Len(batch) - 1
      /\ \A k \in 1 .. Len(Tail(batch)) : Tail(batch)[k] = LastPut + 1 + k
  BY <1>1, Numbers, Shorter
<1>3. /\ queue' = Append(queue, LastPut + 1)
      /\ batch' = Tail(batch)
      /\ Len(batch) = 1 => last_update_id' = LastPut + 1 + 1 /\ poller' = "pause"
      /\ Len(batch) # 1 => UNCHANGED <<last_update_id, poller>>
  BY <1>2 DEF Put
<1>4. Len(batch) = 1 => batch' = <<>>
  BY <1>2, <1>3, EmptySeq
<1>5. Len(batch) # 1 => batch' # <<>>
  <2>1. Len(batch) # 1 => Len(Tail(batch)) # 0
    BY <1>2
  <2> QED BY <1>3, <2>1, EmptySeq
<1>6. LastPut + 1 + 1 = LastPut + 2 /\ LastPut + 2 # 0 /\ LastPut + 2 - 1 = LastPut + 1
  BY Numbers
<1>7. LastPut' = LastPut + 1
  <2>1. CASE Len(batch) = 1
    <3>1. LastPut' = last_update_id' - 1
      <4>1. batch' = <<>> /\ last_update_id' # 0
        BY <1>3, <1>4, <1>6, <2>1
      <4> QED BY <4>1 DEF LastPut
    <3>2. last_update_id' = LastPut + 1 + 1
      BY <1>3, <2>1
    <3>3. last_update_id' - 1 = LastPut + 1
      BY <3>2, Numbers
    <3> QED BY <3>1, <3>3
  <2>2. CASE Len(batch) # 1
    <3>1. 1 \in 1 .. Len(batch') /\ Head(batch') = batch'[1]
      BY <1>2, <1>3, <2>2
    <3>2. Head(batch') = LastPut + 1 + 1
      BY <1>2, <1>3, <3>1
    <3>3. LastPut' = Head(batch') - 1
      BY <1>5, <2>2 DEF LastPut
    <3> QED BY <1>6, <3>2, <3>3, Numbers
  <2> QED BY <2>1, <2>2
<1> QED BY <1>1, <1>2, <1>3, <1>4, <1>5, <1>6, <1>7

\* A step of the dispatcher that takes an update or an error out of the queue
LEMMA GetStep ==
  ASSUME Inv, Get
  PROVE  /\ hand = None /\ Held = 0
         /\ \/ hand' = Error
            \/ hand' \in Updates /\ hand' = upto + 1 /\ upto + 1 <= LastPut
         /\ queue' \in Seq(Updates \union {Error}) /\ Len(queue') = Len(queue) - 1
         /\ \A k \in 1 .. Len(queue') : queue'[k] = queue[k + 1]
         /\ Len(queue) \in Nat \ {0} /\ hand' = queue[1]
<1> USE DEF Inv
<1>1. hand = None /\ queue # <<>> /\ queue \in Seq(Updates \union {Error})
  BY DEF Get, InOrder, TypeOK
<1>2. Held = 0
  BY <1>1, Numbers DEF Held
<1>3. /\ queue' \in Seq(Updates \union {Error})
      /\ Len(queue') = Len(queue) - 1
      /\ \A k \in 1 .. Len(queue') : queue'[k] = queue[k + 1]
  BY <1>1, HeadTailProperties DEF Get
<1>4. Len(queue) \in Nat \ {0}
  BY <1>1, EmptySeq
<1>5. hand' = queue[1]
  BY <1>1 DEF Get
<1>6. hand' # Error => hand' \in Updates /\ hand' = upto + 1 /\ upto + 1 <= LastPut
  <2> SUFFICES ASSUME queue[1] # Error
               PROVE  queue[1] \in Updates /\ queue[1] = upto + 1 /\ upto + 1 <= LastPut
    BY <1>5
  <2>1. 1 \in 1 .. Len(queue)
    BY <1>4
  <2>2. queue[1] \in Updates /\ queue[1] \in Nat
    BY <2>1, Numbers
  <2>3. upto < queue[1] /\ queue[1] <= LastPut
    BY <1>2, <2>1, <2>2, Numbers DEF InOrder
  <2>4. upto + 1 \in upto + Held + 1 .. LastPut
    BY <1>2, <2>2, <2>3, Numbers
  <2>5. PICK k \in 1 .. Len(queue) : queue[k] = upto + 1
    BY <2>4 DEF InOrder
  <2>6. queue[k] # Error
    BY <2>5, Numbers
  <2>7. 1 < k => queue[1] < queue[k]
    BY <2>1, <2>6 DEF InOrder
  <2>8. ~(1 < k)
    BY <2>2, <2>3, <2>5, <2>7, Numbers
  <2>9. k = 1
    BY <1>4, <2>8
  <2> QED BY <2>2, <2>3, <2>5, <2>9, Numbers
<1>7. \/ hand' = Error
      \/ hand' \in Updates /\ hand' = upto + 1 /\ upto + 1 <= LastPut
  BY <1>6
<1> QED BY <1>1, <1>2, <1>3, <1>4, <1>5, <1>7

(* ----------------------------------------------------------- The steps *)

LEMMA TypeStep ==
  ASSUME Inv, [Next]_vars
  PROVE  TypeOK'
<1> USE DEF Inv
<1>0. <<>> \in Seq(Updates) /\ <<>> \in Seq(Updates \union {Error})
  BY EmptySeq
<1>1. CASE Send
  BY <1>1, BoundsAssumption DEF Send, TypeOK, Stopping, telegram, polling, dispatching, events, restarting
<1>2. CASE Bootstrap
  <2>1. poller' \in {"loop", "unready"} /\ exception_event' \in BOOLEAN
    BY <1>2 DEF Bootstrap, TypeOK
  <2> QED BY <1>2, <2>1 DEF Bootstrap, TypeOK, telegram, dispatching, restarting
<1>3. CASE Loop
  BY <1>3 DEF Loop, TypeOK, Stopping, telegram, polling, dispatching, events, restarting
<1>4. CASE Ask
  BY <1>4, Numbers DEF Ask, Offsets, TypeOK, Stopping, InOrder, telegram, polling, dispatching, events, restarting
<1>5. CASE Answer
  BY <1>5, Reply DEF Answer, TypeOK, Stopping, telegram, polling, dispatching, events, restarting
<1>6. CASE TimedOut
  BY <1>6 DEF TimedOut, TypeOK, Stopping, telegram, polling, dispatching, events, restarting
<1>6a. CASE NetworkError
  <2>1. queue' \in Seq(Updates \union {Error})
    BY <1>6a, Queued DEF NetworkError
  <2> QED BY <1>6a, <2>1 DEF NetworkError, TypeOK, telegram, dispatching, events, restarting
<1>7. CASE InvalidToken
  BY <1>7 DEF InvalidToken, TypeOK, Stopping, telegram, polling, dispatching, events, restarting
<1>8. CASE CheckRunning
  <2>1. poller' \in {"putting", "pause"} /\ batch' \in Seq(Updates)
    BY <1>0, <1>8 DEF CheckRunning, TypeOK
  <2> QED BY <1>8, <2>1 DEF CheckRunning, TypeOK, telegram, dispatching, events, restarting
<1>9. CASE Put
  <2>1. last_update_id' \in 0 .. MaxUpdates + 1
    <3>1. sent \in 0 .. MaxUpdates /\ last_update_id \in 0 .. MaxUpdates + 1
      BY DEF TypeOK
    <3>2. \/ last_update_id' = last_update_id
          \/ last_update_id' = LastPut + 2 /\ LastPut + 1 <= sent
      BY <1>9, PutStep, Numbers
    <3> QED BY <3>1, <3>2, Numbers
  <2>2. batch' \in Seq(Updates) /\ queue' \in Seq(Updates \union {Error})
    BY <1>9, PutStep, Queued
  <2> QED BY <1>9, <2>1, <2>2 DEF Put, TypeOK, Stopping, telegram, polling,
    dispatching, events, restarting
<1>10. CASE Get
  BY <1>10, GetStep DEF Get, TypeOK, Stopping, telegram, polling, dispatching, events, restarting
<1>11. CASE GetEmpty
  BY <1>11 DEF GetEmpty, TypeOK, Stopping, telegram, polling, dispatching, events, restarting
<1>12. CASE CheckEvents
  BY <1>12 DEF CheckEvents, TypeOK, Stopping, telegram, polling, dispatching, events, restarting
<1>13. CASE Process
  <2>1. hand \in Updates /\ upto' = upto + 1 /\ Held = 1
    BY <1>13 DEF Process, InOrder, TypeOK, Held
  <2>2. upto' \in 0 .. sent
    BY <2>1, Numbers DEF InOrder
  <2>3. heeded' \subseteq Updates /\ ignored' \subseteq Updates /\ calls' \in Nat
    <3>1. calls' \in Nat
      BY <1>13 DEF Process, TypeOK
    <3>2. heeded' \subseteq heeded \union {hand} /\ ignored' \subseteq ignored \union {hand}
      BY <1>13 DEF Process
    <3>3. heeded \subseteq Updates /\ ignored \subseteq Updates
      BY DEF TypeOK
    <3> QED BY <2>1, <3>1, <3>2, <3>3
  <2>4. hand' = None /\ dispatcher' = "waiting" /\ UNCHANGED <<sent, acked, poller,
          last_update_id, batch, running, queue, stop_event, exception_event,
          reactor, listed, restarts, crashes>>
    BY <1>13 DEF Process, telegram, polling, events, restarting
  <2> QED BY <2>2, <2>3, <2>4 DEF TypeOK
<1>13a. CASE ProcessError
  BY <1>13a DEF ProcessError, TypeOK, Stopping, telegram, polling, events, restarting
<1>14. CASE disable
  BY <1>14 DEF disable, TypeOK, Stopping, telegram, polling, dispatching, events, restarting
<1>15. CASE ClearRunning
  BY <1>15 DEF ClearRunning, TypeOK, Stopping, telegram, polling, dispatching, events, restarting
<1>16. CASE StopDispatcher
  BY <1>16 DEF StopDispatcher, TypeOK, Stopping, telegram, polling, dispatching, events, restarting
<1>17. CASE DispatcherStopped
  BY <1>17 DEF DispatcherStopped, TypeOK, Stopping, telegram, polling, dispatching, events, restarting
<1>18. CASE Join
  BY <1>18 DEF Join, TypeOK, Stopping, telegram, polling, dispatching, events, restarting
<1>19. CASE FillWhitelist
  BY <1>19 DEF FillWhitelist, TypeOK, Stopping, telegram, polling, dispatching, events, restarting
<1>20. CASE start_polling
  <2>1. (sent \in 0 .. MaxUpdates /\ acked \in 0 .. sent /\ upto \in 0 .. sent)'
    BY <1>20 DEF start_polling, TypeOK, telegram
  <2>2. last_update_id' \in 0 .. MaxUpdates + 1 /\ restarts' \in Nat /\ crashes' \in Nat
    BY <1>20, BoundsAssumption DEF start_polling, TypeOK
  <2>3. (batch \in Seq(Updates) /\ queue \in Seq(Updates \union {Error}))' /\ hand' = None
    BY <1>0, <1>20 DEF start_polling
  <2> QED BY <1>20, <2>1, <2>2, <2>3 DEF start_polling, TypeOK, Stopping
<1>21. CASE Ready
  BY <1>21 DEF Ready, TypeOK, Stopping, telegram, polling, dispatching, events, restarting
<1>22. CASE Crash
  <2>1. (sent \in 0 .. MaxUpdates /\ acked \in 0 .. sent /\ upto \in 0 .. sent)'
    BY <1>22 DEF Crash, TypeOK, telegram
  <2>2. last_update_id' \in 0 .. MaxUpdates + 1 /\ restarts' \in Nat /\ crashes' \in Nat
    BY <1>22, BoundsAssumption DEF Crash, TypeOK
  <2>3. (batch \in Seq(Updates) /\ queue \in Seq(Updates \union {Error}))' /\ hand' = None
    BY <1>0, <1>22 DEF Crash
  <2> QED BY <1>22, <2>1, <2>2, <2>3 DEF Crash, TypeOK, Stopping
<1>23. CASE UNCHANGED vars
  BY <1>23 DEF vars, TypeOK, Stopping
<1> QED BY <1>1, <1>2, <1>3, <1>4, <1>5, <1>6, <1>6a, <1>7, <1>8, <1>9, <1>10, <1>11, <1>12, <1>13, <1>13a, <1>14, <1>15, <1>16, <1>17, <1>18, <1>19, <1>20, <1>21, <1>22, <1>23
  DEF Next, Poller, Dispatcher, Stop, Start

\* Only five actions touch what lies between the poller and the handlers,
\* and those that make a new start
LEMMA Frame ==
  ASSUME Inv, [Next]_vars, ~Put, ~NetworkError, ~Get, ~Process, ~ProcessError,
         ~start_polling, ~Crash
  PROVE  /\ UNCHANGED <<queue, hand, upto, calls, heeded, ignored>>
         /\ Held' = Held
         /\ dispatcher' = "handling" <=> dispatcher = "handling"
         /\ sent <= sent' /\ sent' \in Nat
<1>1. UNCHANGED <<queue, hand, upto, calls, heeded, ignored>>
  BY DEF Next, Poller, Dispatcher, Stop, Start, vars, Send, Bootstrap, Loop, Ask,
    Answer, TimedOut, InvalidToken, CheckRunning, GetEmpty, CheckEvents,
    disable, ClearRunning, StopDispatcher, DispatcherStopped, Join,
    FillWhitelist, Ready, telegram, polling, dispatching, events, restarting
<1>2. Held' = Held
  BY <1>1 DEF Held
<1>3. dispatcher' = "handling" <=> dispatcher = "handling"
  BY DEF Next, Poller, Dispatcher, Stop, Start, vars, Send, Bootstrap, Loop, Ask,
    Answer, TimedOut, InvalidToken, CheckRunning, GetEmpty, CheckEvents,
    disable, ClearRunning, StopDispatcher, DispatcherStopped, Join,
    FillWhitelist, Ready, telegram, polling, dispatching, events, restarting
<1>4. sent' = sent \/ sent' = sent + 1
  BY DEF Next, Poller, Dispatcher, Stop, Start, vars, Send, Bootstrap, Loop, Ask,
    Answer, TimedOut, InvalidToken, CheckRunning, GetEmpty, CheckEvents,
    disable, ClearRunning, StopDispatcher, DispatcherStopped, Join,
    FillWhitelist, Ready, telegram, polling, dispatching, events, restarting
<1>5. sent \in Nat
  BY Numbers DEF Inv
<1> QED BY <1>1, <1>2, <1>3, <1>4, <1>5

\* Only a put and a new start change which update was put last
LEMMA LastPutStep ==
  ASSUME Inv, [Next]_vars
  PROVE  /\ Put => LastPut' = LastPut + 1
         /\ start_polling \/ Crash => LastPut' = acked
         /\ ~Put /\ ~start_polling /\ ~Crash => LastPut' = LastPut
<1> USE DEF Inv
<1>1. Put => LastPut' = LastPut + 1
  BY PutStep
<1>2. start_polling \/ Crash => LastPut' = acked
  BY DEF start_polling, Crash, telegram, LastPut
<1>3. CASE Ask
  <2>1. /\ UNCHANGED <<batch, last_update_id>>
        /\ acked' = IF last_update_id > acked + 1 THEN last_update_id - 1 ELSE acked
    BY <1>3 DEF Ask
  <2>2. last_update_id = 0 => acked' = acked
    BY <2>1, Numbers
  <2> QED BY <1>3, <2>1, <2>2 DEF Ask, Put, start_polling, Crash, LastPut
<1>4. CASE Answer
  <2>1. UNCHANGED <<acked, last_update_id>> /\ poller = "asked"
    BY <1>4 DEF Answer, telegram
  <2>2. acked = LastPut /\ batch = <<>>
    BY <2>1 DEF Offsets
  <2>3. CASE batch' = <<>>
    BY <2>1, <2>2, <2>3, <1>1, <1>2 DEF LastPut
  <2>4. CASE batch' # <<>>
    <3>1. Len(batch') \in Nat /\ Len(batch') # 0
      BY <1>4, <2>4, Reply, EmptySeq, LenProperties
    <3>2. Head(batch') = acked + 1
      BY <1>4, <3>1, Reply
    <3>3. LastPut' = Head(batch') - 1
      BY <2>4 DEF LastPut
    <3> QED BY <1>1, <1>2, <2>2, <3>2, <3>3, Numbers
  <2> QED BY <2>3, <2>4
<1>5. CASE CheckRunning
  <2>1. UNCHANGED <<acked, last_update_id>> /\ (batch' = batch \/ batch' = <<>>)
        /\ poller = "got"
    BY <1>5 DEF CheckRunning, telegram
  <2>2. last_update_id = LastPut + 1 \/ (last_update_id = 0 /\ LastPut = acked)
    BY <2>1 DEF Offsets
  <2>3. batch' = <<>> => LastPut' = LastPut
    BY <2>1, <2>2, Numbers DEF LastPut
  <2>4. batch' = batch => LastPut' = LastPut
    BY <2>1 DEF LastPut
  <2> QED BY <1>1, <1>2, <2>1, <2>3, <2>4
<1>6. CASE ~Put /\ ~start_polling /\ ~Crash /\ ~Ask /\ ~Answer /\ ~CheckRunning
  <2>1. UNCHANGED <<batch, acked, last_update_id>>
    BY <1>6 DEF Next, Poller, Dispatcher, Stop, Start, vars, Send, Bootstrap, Loop,
      TimedOut, NetworkError, InvalidToken, Get, GetEmpty, CheckEvents, Process,
      ProcessError, disable, ClearRunning, StopDispatcher, DispatcherStopped,
      Join, FillWhitelist, Ready, telegram, polling, dispatching, events, restarting
  <2> QED BY <1>6, <2>1 DEF LastPut
<1> QED BY <1>1, <1>2, <1>3, <1>4, <1>5, <1>6

\* What is handed over is the next update, and one that was put
LEMMA ProcessStep ==
  ASSUME Inv, Process
  PROVE  /\ hand = upto + 1 /\ upto' = upto + 1 /\ upto + 1 <= LastPut
         /\ upto + 1 <= sent /\ Held = 1 /\ Held' = 0
<1> USE DEF Inv
<1>1. hand \in Updates /\ Held = 1 /\ upto' = hand /\ hand' = None
  BY DEF Process, InOrder, TypeOK, Held
<1>2. hand = upto + 1
  BY <1>1 DEF InOrder
<1>3. Held' = 0
  BY <1>1, Numbers DEF Held
<1>4. upto + 1 <= LastPut /\ upto + 1 <= sent
  BY <1>1, Numbers DEF InOrder
<1> QED BY <1>1, <1>2, <1>3, <1>4

LEMMA OrderStep ==
  ASSUME Inv, [Next]_vars
  PROVE  InOrder'
<1> USE DEF Inv
<1>1. CASE Put \/ NetworkError
  <2>1. UNCHANGED <<dispatcher, hand, upto, sent>> /\ Held' = Held
    BY <1>1 DEF Put, NetworkError, dispatching, telegram, Held
  <2>2. PICK e \in Updates \union {Error} :
          /\ queue' = Append(queue, e)
          /\ \/ e = LastPut + 1 /\ LastPut' = LastPut + 1 /\ LastPut + 1 <= sent
             \/ e = Error /\ LastPut' = LastPut
    <3>1. ASSUME Put
          PROVE  queue' = Append(queue, LastPut + 1) /\ LastPut' = LastPut + 1
                 /\ LastPut + 1 \in Updates /\ LastPut + 1 <= sent
      <4>1. Len(batch) \in Nat \ {0} /\ LastPut + Len(batch) <= sent
        BY <3>1, PutStep
      <4>2. LastPut + 1 <= sent
        BY <4>1, Numbers
      <4> QED BY <3>1, <4>2, PutStep
    <3>2. ASSUME NetworkError PROVE queue' = Append(queue, Error) /\ LastPut' = LastPut
      <4>1. ~Put /\ ~start_polling /\ ~Crash
        BY <3>2 DEF NetworkError, Put, start_polling, Crash
      <4> QED BY <3>2, <4>1, LastPutStep DEF NetworkError
    <3> QED BY <1>1, <3>1, <3>2
  <2>3. /\ Len(queue') = Len(queue) + 1 /\ Len(queue) \in Nat
        /\ \A k \in 1 .. Len(queue) : queue'[k] = queue[k]
        /\ queue'[Len(queue) + 1] = e
    BY <2>2, Queued, Numbers
  <2>4. \A k \in 1 .. Len(queue') : k \in 1 .. Len(queue) \/ k = Len(queue) + 1
    BY <2>3
  <2>5. \A k \in 1 .. Len(queue') :
          queue'[k] # Error => upto' + Held' < queue'[k] /\ queue'[k] <= LastPut'
    <3> SUFFICES ASSUME NEW k \in 1 .. Len(queue'), queue'[k] # Error
                 PROVE  upto + Held < queue'[k] /\ queue'[k] <= LastPut'
      BY <2>1
    <3>1. CASE k \in 1 .. Len(queue)
      <4>1. upto + Held < queue[k] /\ queue[k] <= LastPut /\ queue[k] \in Nat
        BY <2>3, <3>1, Numbers DEF InOrder
      <4> QED BY <2>2, <2>3, <3>1, <4>1, Numbers
    <3>2. CASE k = Len(queue) + 1
      BY <2>2, <2>3, <3>2, Numbers DEF InOrder
    <3> QED BY <2>4, <3>1, <3>2
  <2>6. \A i \in upto' + Held' + 1 .. LastPut' : \E k \in 1 .. Len(queue') : queue'[k] = i
    <3> SUFFICES ASSUME NEW i \in upto + Held + 1 .. LastPut'
                 PROVE  \E k \in 1 .. Len(queue') : queue'[k] = i
      BY <2>1
    <3>1. CASE i <= LastPut
      <4>1. i \in upto + Held + 1 .. LastPut
        BY <3>1, Numbers
      <4>2. PICK k \in 1 .. Len(queue) : queue[k] = i
        BY <4>1 DEF InOrder
      <4> QED BY <2>3, <4>2
    <3>2. CASE ~(i <= LastPut)
      <4>1. i = e
        BY <2>2, <3>2, Numbers
      <4>2. Len(queue) + 1 \in 1 .. Len(queue')
        BY <2>3
      <4> QED BY <2>3, <4>1, <4>2
    <3> QED BY <3>1, <3>2
  <2>7. \A j, k \in 1 .. Len(queue') :
          j < k /\ queue'[j] # Error /\ queue'[k] # Error => queue'[j] < queue'[k]
    <3> SUFFICES ASSUME NEW j \in 1 .. Len(queue'), NEW k \in 1 .. Len(queue'),
                        j < k, queue'[j] # Error, queue'[k] # Error
                 PROVE  queue'[j] < queue'[k]
      OBVIOUS
    <3>1. j \in 1 .. Len(queue)
      BY <2>3
    <3>2. CASE k \in 1 .. Len(queue)
      BY <2>3, <3>1, <3>2 DEF InOrder
    <3>3. CASE k = Len(queue) + 1
      <4>1. queue'[k] = LastPut + 1 /\ queue'[j] <= LastPut /\ queue'[j] \in Nat
        BY <2>2, <2>3, <3>1, <3>3, Numbers DEF InOrder
      <4> QED BY <4>1, Numbers
    <3> QED BY <2>4, <3>2, <3>3
  <2>8. upto' + Held' <= LastPut' /\ LastPut' <= sent'
    BY <2>1, <2>2, Numbers DEF InOrder
  <2> QED BY <2>1, <2>5, <2>6, <2>7, <2>8 DEF InOrder, Updates
<1>2. CASE Get
  <2>1. dispatcher' = "handling" /\ UNCHANGED <<upto, sent>> /\ LastPut' = LastPut
    <3>1. ~Put /\ ~start_polling /\ ~Crash
      BY <1>2 DEF Get, Put, start_polling, Crash, polling
    <3> QED BY <1>2, <3>1, LastPutStep DEF Get, telegram
  <2>2. /\ Len(queue') = Len(queue) - 1 /\ Len(queue) \in Nat \ {0} /\ Held = 0
        /\ \A k \in 1 .. Len(queue') : queue'[k] = queue[k + 1]
        /\ hand' = queue[1]
        /\ \/ hand' = Error
           \/ hand' \in Updates /\ hand' = upto + 1 /\ upto + 1 <= LastPut
    BY <1>2, GetStep
  <2>3. hand' # None /\ (hand' \in Updates => hand' = upto' + 1)
    BY <2>1, <2>2, Numbers
  <2>4. Held' = IF hand' = Error THEN 0 ELSE 1
    BY <2>2, Numbers DEF Held, Updates
  <2>5. \A k \in 1 .. Len(queue') : k + 1 \in 1 .. Len(queue) /\ queue'[k] = queue[k + 1]
    BY <2>2
  <2>6. \A k \in 1 .. Len(queue') :
          queue'[k] # Error => upto' + Held' < queue'[k] /\ queue'[k] <= LastPut'
    <3> SUFFICES ASSUME NEW k \in 1 .. Len(queue'), queue'[k] # Error
                 PROVE  upto + Held' < queue'[k] /\ queue'[k] <= LastPut
      BY <2>1
    <3>1. /\ upto < queue[k + 1] /\ queue[k + 1] <= LastPut /\ queue[k + 1] \in Nat
      BY <2>2, <2>5, Numbers DEF InOrder
    <3>2. CASE hand' = Error
      BY <2>4, <2>5, <3>1, <3>2, Numbers
    <3>3. CASE hand' # Error
      <4>1. 1 \in 1 .. Len(queue) /\ 1 < k + 1
        BY <2>2
      <4>2. queue[1] < queue[k + 1]
        BY <2>2, <2>5, <3>3, <4>1 DEF InOrder
      <4> QED BY <2>2, <2>4, <2>5, <3>1, <3>3, <4>2, Numbers
    <3> QED BY <3>2, <3>3
  <2>7. \A i \in upto' + Held' + 1 .. LastPut' : \E k \in 1 .. Len(queue') : queue'[k] = i
    <3> SUFFICES ASSUME NEW i \in upto + Held' + 1 .. LastPut
                 PROVE  \E k \in 1 .. Len(queue') : queue'[k] = i
      BY <2>1
    <3>1. i \in upto + Held + 1 .. LastPut
      BY <2>2, <2>4, Numbers
    <3>2. PICK k \in 1 .. Len(queue) : queue[k] = i
      BY <3>1 DEF InOrder
    <3>3. k # 1
      <4>1. i \in Nat /\ upto + Held' < i
        BY <2>1, <2>2, <2>4, Numbers
      <4>2. CASE hand' = Error
        BY <2>2, <3>2, <4>1, <4>2, Numbers
      <4>3. CASE hand' # Error
        BY <2>2, <2>4, <3>2, <4>1, <4>3, Numbers
      <4> QED BY <4>2, <4>3
    <3>4. k - 1 \in 1 .. Len(queue') /\ k - 1 + 1 = k
      BY <2>2, <3>3
    <3> QED BY <2>5, <3>2, <3>4
  <2>8. \A j, k \in 1 .. Len(queue') :
          j < k /\ queue'[j] # Error /\ queue'[k] # Error => queue'[j] < queue'[k]
    BY <2>2, <2>5 DEF InOrder
  <2>9. upto' + Held' <= LastPut' /\ LastPut' <= sent'
    BY <2>1, <2>2, <2>4, Numbers DEF InOrder
  <2> QED BY <2>1, <2>3, <2>6, <2>7, <2>8, <2>9 DEF InOrder, Updates
<1>3. CASE Process \/ ProcessError
  <2>1. dispatcher' = "waiting" /\ hand' = None /\ UNCHANGED <<queue, sent>>
        /\ LastPut' = LastPut
    <3>1. ~Put /\ ~start_polling /\ ~Crash
      BY <1>3 DEF Process, ProcessError, Put, start_polling, Crash, dispatching, restarting
    <3> QED BY <1>3, <3>1, LastPutStep DEF Process, ProcessError, telegram
  <2>2. upto' + Held' = upto + Held
    <3>1. CASE Process
      BY <3>1, ProcessStep, Numbers
    <3>2. CASE ProcessError
      BY <3>2, Numbers DEF ProcessError, Held
    <3> QED BY <1>3, <3>1, <3>2
  <2>3. hand' \notin Updates
    BY <2>1, Numbers DEF Updates
  <2> QED BY <2>1, <2>2, <2>3 DEF InOrder, Updates
<1>4. CASE start_polling \/ Crash
  <2>1. dispatcher' # "handling" /\ hand' = None /\ queue' = <<>> /\ sent' = sent
        /\ upto' = acked /\ LastPut' = acked
    BY <1>4, LastPutStep DEF start_polling, Crash, telegram
  <2>2. Len(queue') = 0 /\ Held' = 0 /\ hand' \notin Updates
    BY <2>1, EmptySeq, Numbers DEF Held, Updates
  <2>3. acked <= sent /\ acked \in Nat /\ acked + 0 = acked
    BY Numbers DEF TypeOK
  <2>4. \A i \in upto' + Held' + 1 .. LastPut' : FALSE
    BY <2>1, <2>2, <2>3
  <2> QED BY <2>1, <2>2, <2>3, <2>4 DEF InOrder, Updates
<1>5. CASE ~Put /\ ~NetworkError /\ ~Get /\ ~Process /\ ~ProcessError
           /\ ~start_polling /\ ~Crash
  <2>1. UNCHANGED <<queue, hand, upto>> /\ Held' = Held /\ LastPut' = LastPut
        /\ (dispatcher' = "handling" <=> dispatcher = "handling")
    BY <1>5, Frame, LastPutStep
  <2>2. LastPut' <= sent'
    BY <1>5, <2>1, Frame, Numbers DEF InOrder
  <2> QED BY <2>1, <2>2 DEF InOrder, Updates
<1> QED BY <1>1, <1>2, <1>3, <1>4, <1>5

\* The poller's place, offset and reply are touched by its own actions, by
\* start_polling and by Crash only; so is what Telegram has forgotten
LEMMA PollerFrame ==
  ASSUME [Next]_vars, ~Poller, ~start_polling, ~Crash
  PROVE  UNCHANGED <<poller, last_update_id, batch, acked>>
BY DEF Next, Dispatcher, Stop, Start, vars, Send, Get, GetEmpty, CheckEvents,
  Process, ProcessError, disable, ClearRunning, StopDispatcher, DispatcherStopped, Join,
  FillWhitelist, Ready, telegram, polling, dispatching, events, restarting

LEMMA OffsetsStep ==
  ASSUME Inv, [Next]_vars
  PROVE  Offsets'
<1> USE DEF Inv
<1>1. CASE Put
  <2>1. acked' = acked /\ sent' = sent
    BY <1>1 DEF Put, telegram
  <2>2. LastPut' = LastPut + 1 /\ LastPut \in Nat /\ acked \in Nat /\ sent \in Nat
    BY <1>1, PutStep, Numbers
  <2>3. acked' <= LastPut' /\ LastPut' <= acked' + Limit
    BY <1>1, <2>1, <2>2, PutStep, Numbers DEF Offsets
  <2>4. CASE Len(batch) = 1
    <3>1. last_update_id' = LastPut' + 1 /\ poller' = "pause" /\ batch' = <<>>
      BY <1>1, <2>2, <2>4, PutStep
    <3> QED BY <2>3, <3>1 DEF Offsets
  <2>5. CASE Len(batch) # 1
    <3>1. poller' = "putting" /\ batch' # <<>>
      BY <1>1, <2>5, PutStep DEF Put
    <3>2. \A k \in 1 .. Len(batch') : batch'[k] = LastPut' + k
      BY <1>1, <2>2, PutStep
    <3>3. Len(batch') = Len(batch) - 1 /\ Len(batch) \in Nat
      BY <1>1, PutStep
    <3>4. LastPut' + Len(batch') = LastPut + Len(batch)
      BY <2>2, <3>3
    <3>5. LastPut + Len(batch) <= sent /\ LastPut + Len(batch) <= acked + Limit
      BY <1>1, PutStep
    <3> QED BY <2>1, <2>3, <3>1, <3>2, <3>4, <3>5 DEF Offsets
  <2> QED BY <2>4, <2>5
<1>2. CASE Answer
  <2>1. acked' = acked /\ sent' = sent /\ poller = "asked"
        /\ last_update_id' = last_update_id
    BY <1>2 DEF Answer, telegram
  <2>2. acked = LastPut /\ LastPut' = LastPut
    <3>1. ~Put /\ ~start_polling /\ ~Crash
      BY <1>2 DEF Answer, Put, start_polling, Crash, telegram, restarting
    <3> QED BY <2>1, <3>1, LastPutStep DEF Offsets
  <2>3. LastPut' + Len(batch') <= sent' /\ LastPut' + Len(batch') <= acked' + Limit
    <3>1. Len(batch') \in Nat
      BY <1>2, Reply, LenProperties
    <3> QED BY <1>2, <2>1, <2>2, <3>1, Reply, Numbers
  <2>4. \A k \in 1 .. Len(batch') : batch'[k] = LastPut' + k
    BY <1>2, <2>1, <2>2, Reply
  <2>5. batch' # <<>> <=> poller' = "got"
    BY <1>2, Reply
  <2>6. last_update_id = LastPut + 1 \/ last_update_id = 0
    BY <2>1 DEF Offsets
  <2>7. acked' <= LastPut' /\ LastPut' <= acked' + Limit
    BY <2>1, <2>2 DEF Offsets
  <2>8. poller' \in {"pause", "got"}
    BY <1>2, Reply
  <2> QED BY <2>1, <2>2, <2>3, <2>4, <2>5, <2>6, <2>7, <2>8 DEF Offsets
<1>3. CASE Ask
  <2>1. LastPut' = LastPut /\ sent' = sent /\ poller = "asking" /\ poller' = "asked"
        /\ last_update_id' = last_update_id /\ batch' = batch
    <3>1. ~Put /\ ~start_polling /\ ~Crash
      BY <1>3 DEF Ask, Put, start_polling, Crash, restarting
    <3> QED BY <1>3, <3>1, LastPutStep DEF Ask
  <2>2. acked' = LastPut
    BY <1>3, <2>1, Numbers DEF Ask, Offsets
  <2> QED BY <2>1, <2>2, Numbers DEF Offsets
<1>4. CASE Bootstrap \/ Loop \/ TimedOut \/ NetworkError \/ InvalidToken \/ CheckRunning
  <2>1. UNCHANGED <<sent, acked, last_update_id>>
    BY <1>4 DEF Bootstrap, Loop, TimedOut, NetworkError, InvalidToken, CheckRunning,
      telegram
  <2>a. LastPut' = LastPut
    <3>1. ~Put /\ ~start_polling /\ ~Crash
      BY <1>4 DEF Bootstrap, Loop, TimedOut, NetworkError, InvalidToken, CheckRunning,
        Put, start_polling, Crash, restarting, TypeOK
    <3> QED BY <3>1, LastPutStep
  <2>2. poller' \in {"got", "putting"} => poller = "got" /\ batch' = batch
    BY <1>4 DEF Bootstrap, Loop, TimedOut, NetworkError, InvalidToken, CheckRunning
  <2>b. batch' # <<>> <=> poller' \in {"got", "putting"}
    BY <1>4 DEF Bootstrap, Loop, TimedOut, NetworkError, InvalidToken, CheckRunning,
      Offsets
  <2>3. poller' \in {"bootstrap", "pause", "loop", "asking", "asked", "got"} =>
          poller \in {"bootstrap", "pause", "loop", "asking", "asked", "got"}
    BY <1>4 DEF Bootstrap, Loop, TimedOut, NetworkError, InvalidToken, CheckRunning
  <2>4. poller' \in {"asked", "got"} => poller \in {"asked", "got"}
    BY <1>4 DEF Bootstrap, Loop, TimedOut, NetworkError, InvalidToken, CheckRunning
  <2> QED BY <2>1, <2>a, <2>2, <2>b, <2>3, <2>4 DEF Offsets
<1>5. CASE start_polling \/ Crash
  <2>1. /\ LastPut' = acked' /\ last_update_id' = 0 /\ batch' = <<>>
        /\ poller' \notin {"asked", "got", "putting"}
    BY <1>5, LastPutStep DEF start_polling, Crash, telegram
  <2>2. acked' \in Nat
    BY <1>5, Numbers DEF start_polling, Crash, telegram
  <2> QED BY <2>1, <2>2, Numbers DEF Offsets
<1>6. CASE ~Poller /\ ~start_polling /\ ~Crash
  <2>1. UNCHANGED <<poller, last_update_id, batch, acked>>
    BY <1>6, PollerFrame
  <2>2. LastPut' = LastPut
    BY <1>6, LastPutStep DEF Poller
  <2>3. sent <= sent' /\ sent' \in Nat
    BY <1>6, Frame, Numbers DEF Poller, Get, Process, ProcessError, telegram
  <2>4. poller \in {"got", "putting"} => LastPut + Len(batch) <= sent'
    BY <2>3, Numbers DEF Offsets
  <2> QED BY <2>1, <2>2, <2>4 DEF Offsets
<1> QED BY <1>1, <1>2, <1>3, <1>4, <1>5, <1>6 DEF Poller

LEMMA StoppedStep ==
  ASSUME Inv, [Next]_vars
  PROVE  Stopped'
<1> USE DEF Inv
<1>1. CASE Poller
  <2>1. UNCHANGED <<running, stop_event, reactor, listed, dispatcher>>
    BY <1>1 DEF Poller, Bootstrap, Loop, Ask, Answer, TimedOut, NetworkError, InvalidToken,
      CheckRunning, Put, events, restarting, dispatching
  <2>2. /\ poller \notin {"ended", "unready"}
        /\ exception_event' => exception_event \/ poller' \in {"ended", "unready"}
    BY <1>1 DEF Poller, Bootstrap, Loop, Ask, Answer, TimedOut, NetworkError, InvalidToken,
      CheckRunning, Put, events
  <2> QED BY <2>1, <2>2 DEF Stopped
<1>2. CASE Dispatcher
  <2>1. UNCHANGED <<running, stop_event, exception_event, reactor, listed, poller>>
    BY <1>2 DEF Dispatcher, Get, GetEmpty, CheckEvents, Process, ProcessError, events,
      polling, restarting
  <2>2. dispatcher # "ended"
    BY <1>2 DEF Dispatcher, Get, GetEmpty, CheckEvents, Process, ProcessError
  <2>3. dispatcher' = "ended" => stop_event \/ exception_event
    BY <1>2 DEF Dispatcher, Get, GetEmpty, CheckEvents, Process, ProcessError
  <2> QED BY <2>1, <2>2, <2>3 DEF Stopped
<1>3. CASE Send \/ UNCHANGED vars
  BY <1>3 DEF Send, vars, polling, dispatching, events, restarting, Stopped
<1>4. CASE disable
  BY <1>4 DEF disable, polling, dispatching, events, Stopped, Stopping
<1>5. CASE Stop
  <2>1. UNCHANGED <<poller, dispatcher, exception_event, listed>>
    BY <1>5 DEF Stop, ClearRunning, StopDispatcher, DispatcherStopped, Join,
      polling, dispatching, events
  <2>2. reactor' \in {"stop", "stop_dispatcher", "join", "stopped"}
    BY <1>5 DEF Stop, ClearRunning, StopDispatcher, DispatcherStopped, Join
  <2>3. /\ running' = FALSE
        /\ stop_event' <=> reactor' = "stop_dispatcher"
        /\ reactor' \in {"join", "stopped"} => dispatcher = "ended"
        /\ reactor' = "stopped" => poller \in {"ended", "unready"}
    BY <1>5 DEF Stop, ClearRunning, StopDispatcher, DispatcherStopped, Join,
      events, Stopped, TypeOK
  <2> QED BY <2>1, <2>2, <2>3 DEF Stopped, Stopping
<1>6. CASE FillWhitelist \/ Ready
  BY <1>6 DEF FillWhitelist, Ready, polling, dispatching, events, Stopped, Stopping
<1>7. CASE start_polling
  BY <1>7 DEF start_polling, Stopped, Stopping
<1>8. CASE Crash
  BY <1>8 DEF Crash, Stopped, Stopping
<1> QED BY <1>1, <1>2, <1>3, <1>4, <1>5, <1>6, <1>7, <1>8 DEF Next, Start

\* The heart of the argument: the dispatcher runs out of updates after the
\* poller has put them, and the poller asks for more only after a pause
LEMMA AcknowledgedStep ==
  ASSUME IInv, [Next]_vars, ~Stalls
  PROVE  Acknowledged'
<1> USE DEF IInv, Inv
<1>1. CASE GetEmpty
  <2>1. hand = None /\ Len(queue) = 0
    BY <1>1, EmptySeq DEF GetEmpty, InOrder
  <2>a. Held = 0
    BY <2>1, Numbers DEF Held
  <2>b. ~(upto + 1 <= LastPut)
    <3>1. upto + 1 <= LastPut => upto + 1 \in upto + Held + 1 .. LastPut
      BY <2>a, Numbers
    <3> QED BY <2>1, <3>1 DEF InOrder
  <2>2. LastPut = upto
    BY <2>a, <2>b, Numbers DEF InOrder
  <2>3. /\ acked <= upto
        /\ poller \in {"bootstrap", "loop", "asking", "asked"} =>
             last_update_id <= upto + 1
    BY <2>2, Numbers DEF Offsets
  <2> QED BY <1>1, <2>3 DEF GetEmpty, telegram, polling, Acknowledged
<1>2. CASE Get \/ Process \/ ProcessError
  BY <1>2 DEF Get, Process, ProcessError, Acknowledged
<1>3. CASE CheckEvents
  BY <1>3 DEF CheckEvents, telegram, polling, Acknowledged
<1>4. CASE Loop
  <2>1. /\ dispatcher = "empty" => poller = "loop"
        /\ UNCHANGED <<dispatcher, acked, upto, last_update_id>>
    BY <1>4 DEF Loop, telegram, dispatching
  <2>2. dispatcher = "ended" => poller' = "ended"
    BY <1>4 DEF Loop, Stopped
  <2>3. dispatcher' = "empty" => last_update_id' <= upto' + 1
    BY <2>1 DEF Acknowledged
  <2> QED BY <2>1, <2>2, <2>3 DEF Acknowledged
<1>5. CASE Ask
  <2>1. UNCHANGED <<dispatcher, upto, last_update_id>> /\ poller = "asking"
        /\ poller' = "asked"
    BY <1>5 DEF Ask, dispatching
  <2>2. acked' = acked \/ acked' = last_update_id - 1
    BY <1>5 DEF Ask
  <2> QED BY <2>1, <2>2, Numbers DEF Acknowledged
<1>6. CASE Bootstrap \/ TimedOut
  <2>1. /\ UNCHANGED <<dispatcher, acked, upto, last_update_id>>
        /\ poller \in {"bootstrap", "loop", "asking", "asked"}
    BY <1>6 DEF Bootstrap, TimedOut, telegram, dispatching
  <2> QED BY <2>1 DEF Acknowledged
<1>7. CASE Answer \/ NetworkError \/ InvalidToken \/ CheckRunning \/ Put
  <2>1. /\ UNCHANGED <<dispatcher, acked, upto>>
        /\ poller' \notin {"bootstrap", "loop", "asking", "asked"}
    BY <1>7 DEF Answer, NetworkError, InvalidToken, CheckRunning, Put, telegram,
      dispatching
  <2> QED BY <2>1 DEF Acknowledged
<1>8. CASE start_polling \/ Crash
  <2>1. acked' = upto' /\ last_update_id' = 0
    BY <1>8 DEF start_polling, Crash, telegram
  <2>2. acked' \in Nat
    BY <1>8, Numbers DEF start_polling, Crash, telegram
  <2>3. acked' <= upto' /\ last_update_id' <= upto' + 1
    <3>1. \A n \in Nat : n <= n /\ 0 <= n + 1
      OBVIOUS
    <3>2. upto' \in Nat
      BY <2>1, <2>2
    <3>3. upto' <= upto' /\ 0 <= upto' + 1
      BY <3>1, <3>2, Zenon
    <3> QED BY <2>1, <3>3, Zenon
  <2> QED BY <2>3 DEF Acknowledged
<1>9. CASE Send \/ disable \/ Stop \/ FillWhitelist \/ Ready \/ UNCHANGED vars
  <2>1. UNCHANGED <<dispatcher, acked, upto, poller, last_update_id>>
    BY <1>9 DEF Send, disable, Stop, ClearRunning, StopDispatcher,
      DispatcherStopped, Join, FillWhitelist, Ready, vars, telegram, polling,
      dispatching, restarting
  <2> QED BY <2>1 DEF Acknowledged
<1> QED BY <1>1, <1>2, <1>3, <1>4, <1>5, <1>6, <1>7, <1>8, <1>9
    DEF Next, Poller, Dispatcher, Start

\* Handing over is the only way to go on; a new Updater goes back
LEMMA HandledStep ==
  ASSUME IInv, [Next]_vars
  PROVE  Handled'
<1> USE DEF IInv, Inv
<1>1. CASE Process
  <2>1. hand = upto + 1 /\ upto' = upto + 1 /\ crashes' = crashes
    BY <1>1, ProcessStep DEF Process
  <2>2. heeded' \union ignored' = heeded \union ignored \union {upto + 1}
    BY <1>1, <2>1 DEF Process
  <2> QED BY <2>1, <2>2, Numbers DEF Handled
<1>2. CASE start_polling
  <2>1. dispatcher = "ended"
    BY <1>2 DEF start_polling, Stopped
  <2>2. upto' = acked /\ acked <= upto /\ UNCHANGED <<heeded, ignored, crashes>>
    BY <1>2, <2>1 DEF start_polling, Acknowledged
  <2> QED BY <2>2, Numbers DEF Handled
<1>3. CASE Crash
  <2>1. crashes' # 0
    BY <1>3 DEF Crash, TypeOK
  <2> QED BY <2>1 DEF Handled
<1>4. CASE Get \/ Put \/ NetworkError \/ ProcessError
  BY <1>4 DEF Get, Put, NetworkError, ProcessError, dispatching, Handled
<1>5. CASE ~Process /\ ~start_polling /\ ~Crash /\ ~Get /\ ~Put /\ ~NetworkError
           /\ ~ProcessError
  <2>1. UNCHANGED <<upto, heeded, ignored>>
    BY <1>5, Frame
  <2>2. crashes' = crashes
    BY <1>5 DEF Next, Poller, Dispatcher, Stop, Start, vars, Send, Bootstrap, Loop,
      Ask, Answer, TimedOut, NetworkError, InvalidToken, CheckRunning, GetEmpty, CheckEvents,
      disable, ClearRunning, StopDispatcher, DispatcherStopped, Join,
      FillWhitelist, Ready
  <2> QED BY <2>1, <2>2 DEF Handled
<1> QED BY <1>1, <1>2, <1>3, <1>4, <1>5

LEMMA InvInit ==
  ASSUME Init
  PROVE  IInv
<1>a. <<>> \in Seq(Updates) /\ <<>> \in Seq(Updates \union {Error}) /\ Len(queue) = 0
  BY EmptySeq DEF Init
<1>b. 0 \in 0 .. MaxUpdates /\ 0 \in 0 .. 0 /\ 0 \in 0 .. MaxUpdates + 1 /\ 0 \in Nat
  BY BoundsAssumption
<1>1. TypeOK
  BY <1>a, <1>b DEF Init, TypeOK
<1>2. hand \notin Updates /\ Held = 0 /\ LastPut = 0
  BY NoneAssumption DEF Init, Held, LastPut, Updates
<1>3. InOrder
  <2>1. \A i \in upto + Held + 1 .. LastPut : FALSE
    BY <1>2 DEF Init
  <2> QED BY <1>a, <1>2, <2>1 DEF Init, InOrder
<1>4. Offsets
  BY <1>2, LimitAssumption DEF Init, Offsets
<1> QED BY <1>1, <1>3, <1>4 DEF Init, IInv, Inv, Stopped, Acknowledged, Handled, Stopping

LEMMA InvStep ==
  ASSUME Inv, [Next]_vars
  PROVE  Inv'
BY TypeStep, OrderStep, OffsetsStep, StoppedStep DEF Inv

LEMMA IInvStep ==
  ASSUME IInv, [Next]_vars, ~Stalls
  PROVE  IInv'
BY InvStep, AcknowledgedStep, HandledStep DEF IInv

(* ------------------------------------------ Whatever the threads' speed *)

LEMMA Sound == Spec => []Inv
<1>1. Init => Inv
  BY InvInit DEF IInv
<1>2. Inv /\ [Next]_vars => Inv'
  BY InvStep
<1> QED BY <1>1, <1>2, PTL DEF Spec

\* The state is well typed
THEOREM TypeCorrect == Spec => []TypeOK
<1>1. Inv => TypeOK
  BY DEF Inv
<1> QED BY <1>1, Sound, PTL

\* After Updater.stop neither thread does anything more
THEOREM StopEndsThreads == Spec => []StopIsFinal
<1>1. Inv => StopIsFinal
  BY DEF Inv, Stopped, StopIsFinal
<1> QED BY <1>1, Sound, PTL

\* Only a bot that is being stopped ignores a chat of the whitelist
THEOREM IgnoredWhileStopping == Spec => OnlyDrainIgnores
<1>1. Inv /\ [Next]_vars => [ignored' # ignored => reactor \in Stopping]_vars
  <2> SUFFICES ASSUME Inv, [Next]_vars, ignored' # ignored
               PROVE  reactor \in Stopping
    BY DEF vars
  <2>1. Process
    BY Frame DEF Put, NetworkError, Get, ProcessError, start_polling, Crash, dispatching
  <2>2. ~listed /\ dispatcher = "handling"
    BY <2>1 DEF Process
  <2> QED BY <2>2 DEF Inv, Stopped
<1> QED BY <1>1, Sound, PTL DEF Spec, OnlyDrainIgnores

\* The steps that are left: a number, which only these variables determine
LEMMA StepsLeft ==
  ASSUME TypeOK
  PROVE  /\ PollerSteps \in Nat /\ DispatcherSteps \in Nat /\ ReactorSteps \in Nat
         /\ UNCHANGED <<poller, batch>> => PollerSteps' = PollerSteps
         /\ UNCHANGED <<dispatcher, queue>> => DispatcherSteps' = DispatcherSteps
         /\ UNCHANGED reactor => ReactorSteps' = ReactorSteps
<1>1. Len(batch) \in Nat /\ Len(queue) \in Nat
  BY Numbers
<1>2. poller \in {"ended", "bootstrap", "unready", "pause", "loop", "asking",
                  "asked", "got", "putting"}
      /\ dispatcher \in {"ended", "waiting", "empty", "handling"}
  BY DEF TypeOK
<1>3. PollerSteps \in Nat
  BY <1>1, <1>2 DEF PollerSteps
<1>4. DispatcherSteps \in Nat
  BY <1>1, <1>2 DEF DispatcherSteps
<1>5. ReactorSteps \in Nat
  BY DEF ReactorSteps
<1>6. /\ UNCHANGED <<poller, batch>> => PollerSteps' = PollerSteps
      /\ UNCHANGED <<dispatcher, queue>> => DispatcherSteps' = DispatcherSteps
      /\ UNCHANGED reactor => ReactorSteps' = ReactorSteps
  BY DEF PollerSteps, DispatcherSteps, ReactorSteps
<1> QED BY <1>3, <1>4, <1>5, <1>6

LEMMA LessAltogether ==
  \A p, d, r, x \in Nat :
    /\ x < p => x + d + r < p + d + r /\ d + x + r < d + p + r
    /\ x + 3 <= p => x + (d + 2) + r < p + d + r
OBVIOUS

\* A poller that finds running cleared asks no more
LEMMA PollerGetsCloser ==
  ASSUME Inv, [Next]_vars, Poller, ~running
  PROVE  Remaining' < Remaining
<1> USE DEF Inv
<1>1. PollerSteps \in Nat /\ DispatcherSteps \in Nat /\ ReactorSteps \in Nat
  BY StepsLeft
<1>2. UNCHANGED <<reactor, dispatcher>>
  BY DEF Poller, Bootstrap, Loop, Ask, Answer, TimedOut, NetworkError, InvalidToken,
    CheckRunning, Put, dispatching, restarting
<1>3. ReactorSteps' = ReactorSteps
  BY <1>2, StepsLeft
<1>4. CASE Put \/ NetworkError
  <2>1. /\ Len(queue') = Len(queue) + 1 /\ Len(queue) \in Nat
        /\ dispatcher \in {"ended", "waiting", "empty", "handling"}
    BY <1>4, PutStep, Queued, Numbers DEF NetworkError, TypeOK
  <2>2. DispatcherSteps' = DispatcherSteps + 2
    BY <1>2, <2>1 DEF DispatcherSteps
  <2>3. PollerSteps' \in Nat /\ PollerSteps' + 3 <= PollerSteps
    <3>1. CASE Put
      <4>1. /\ poller = "putting" /\ Len(batch) \in Nat \ {0}
            /\ Len(batch') = Len(batch) - 1
            /\ poller' = "pause" \/ poller' = "putting"
        BY <3>1, PutStep DEF Put
      <4> QED BY <4>1 DEF PollerSteps
    <3>2. CASE NetworkError
      BY <3>2 DEF NetworkError, PollerSteps
    <3> QED BY <1>4, <3>1, <3>2
  <2> QED BY <1>1, <1>3, <2>2, <2>3, LessAltogether DEF Remaining
<1>5. CASE ~Put /\ ~NetworkError
  <2>1. queue' = queue
    BY <1>5 DEF Poller, Bootstrap, Loop, Ask, Answer, TimedOut, InvalidToken,
      CheckRunning
  <2>2. DispatcherSteps' = DispatcherSteps
    BY <1>2, <2>1, StepsLeft
  <2>3. PollerSteps' \in Nat /\ PollerSteps' < PollerSteps
    BY <1>5 DEF Poller, Bootstrap, Loop, Ask, Answer, TimedOut, InvalidToken,
      CheckRunning, PollerSteps
  <2> QED BY <1>1, <1>3, <2>2, <2>3, LessAltogether DEF Remaining
<1> QED BY <1>4, <1>5

\* A dispatcher that finds stop_event set ends with its queue
LEMMA DispatcherGetsCloser ==
  ASSUME Inv, [Next]_vars, Dispatcher, stop_event \/ exception_event
  PROVE  Remaining' < Remaining
<1> USE DEF Inv
<1>1. PollerSteps \in Nat /\ DispatcherSteps \in Nat /\ ReactorSteps \in Nat
  BY StepsLeft
<1>2. UNCHANGED <<reactor, poller, batch>>
  BY DEF Dispatcher, Get, GetEmpty, CheckEvents, Process, ProcessError, polling, restarting
<1>3. ReactorSteps' = ReactorSteps /\ PollerSteps' = PollerSteps
  BY <1>2, StepsLeft
<1>4. Len(queue) \in Nat
  BY Numbers
<1>5. DispatcherSteps' \in Nat /\ DispatcherSteps' < DispatcherSteps
  <2>1. CASE Get
    <3>1. Len(queue') = Len(queue) - 1 /\ Len(queue') \in Nat
      BY <2>1, GetStep, LenProperties
    <3> QED BY <1>4, <2>1, <3>1 DEF Get, DispatcherSteps
  <2>2. CASE GetEmpty \/ CheckEvents \/ Process \/ ProcessError
    <3>1. queue' = queue
      BY <2>2 DEF GetEmpty, CheckEvents, Process, ProcessError
    <3> QED BY <1>4, <2>2, <3>1 DEF GetEmpty, CheckEvents, Process, ProcessError,
          DispatcherSteps
  <2> QED BY <2>1, <2>2 DEF Dispatcher
<1> QED BY <1>1, <1>3, <1>5, LessAltogether DEF Remaining

\* Once stop_event is set (Dispatcher.stop), each step of a thread brings
\* Updater.stop nearer to its return
THEOREM StopIsNear == Spec => StopGetsCloser
<1>1. Inv /\ [Next]_vars =>
        [(reactor \in {"stop_dispatcher", "join"}) =>
           \/ Remaining' < Remaining
           \/ UNCHANGED <<polling, dispatching, events, queue, restarting>>]_vars
  <2> SUFFICES ASSUME Inv, [Next]_vars, reactor \in {"stop_dispatcher", "join"}
               PROVE  \/ Remaining' < Remaining
                      \/ UNCHANGED <<polling, dispatching, events, queue, restarting>>
    OBVIOUS
  <2> USE DEF Inv
  <2>0. /\ ~running
        /\ reactor = "stop_dispatcher" => stop_event
        /\ reactor = "join" => dispatcher = "ended"
    BY DEF Stopped
  <2>1. CASE Poller
    BY <2>0, <2>1, PollerGetsCloser
  <2>2. CASE Dispatcher
    <3>1. dispatcher # "ended"
      BY <2>2 DEF Dispatcher, Get, GetEmpty, CheckEvents, Process, ProcessError
    <3> QED BY <2>0, <2>2, <3>1, DispatcherGetsCloser
  <2>3. CASE Stop
    <3>1. UNCHANGED <<poller, batch, dispatcher, queue>>
      BY <2>3 DEF Stop, ClearRunning, StopDispatcher, DispatcherStopped, Join,
        polling, dispatching
    <3>2. PollerSteps' = PollerSteps /\ DispatcherSteps' = DispatcherSteps
      BY <3>1, StepsLeft
    <3>3. ReactorSteps' \in Nat /\ ReactorSteps' < ReactorSteps
      BY <2>3 DEF Stop, ClearRunning, StopDispatcher, DispatcherStopped, Join,
        ReactorSteps
    <3> QED BY <3>2, <3>3, StepsLeft DEF Remaining
  <2>4. CASE Crash
    <3>1. Len(queue') = 0
      BY <2>4, EmptySeq DEF Crash
    <3>2. PollerSteps' = 0 /\ DispatcherSteps' = 0 /\ ReactorSteps' = 0
      BY <2>4, <3>1 DEF Crash, PollerSteps, DispatcherSteps, ReactorSteps
    <3>3. ReactorSteps \in {1, 2}
      BY DEF ReactorSteps
    <3> QED BY <3>2, <3>3, StepsLeft DEF Remaining
  <2>5. CASE Send \/ UNCHANGED vars
    BY <2>5 DEF Send, vars, polling, dispatching, events, restarting
  <2>6. ~disable /\ ~Start
    BY DEF disable, Start, FillWhitelist, start_polling, Ready
  <2> QED BY <2>1, <2>2, <2>3, <2>4, <2>5, <2>6 DEF Next
<1> QED BY <1>1, Sound, PTL DEF Spec, StopGetsCloser

\* Whatever the threads' speed: updates are handed over in order, and only a
\* new Updater (Core.enable) can skip or repeat any
THEOREM InOrderAtAnySpeed == Spec => SkipsOnlyBetweenUpdaters
<1>1. Init => anyspeed!Init
  BY DEF Init, anyspeed!Init
<1>2. Inv /\ [Next]_vars => [anyspeed!Next]_(anyspeed!ivars)
  <2> SUFFICES ASSUME Inv, [Next]_vars
               PROVE  [anyspeed!Next]_(anyspeed!ivars)
    OBVIOUS
  <2>0. crashes \in Nat /\ restarts \in Nat
    BY DEF Inv, TypeOK
  <2>1. CASE Process
    <3>1. upto' = upto + 1 /\ upto + 1 <= sent
      BY <2>1, ProcessStep
    <3>2. anyspeed!Hand
      BY <2>1, <3>1, Numbers DEF Process, anyspeed!Hand, telegram, restarting, Inv
    <3> QED BY <3>2 DEF anyspeed!Next
  <2>2. CASE start_polling \/ Crash
    <3>1. upto' = acked /\ UNCHANGED <<sent, calls>>
          /\ crashes' + restarts' = crashes + restarts + 1
      BY <2>0, <2>2 DEF start_polling, Crash, telegram
    <3>2. upto' + 1 \in 1 .. sent + 1
      BY <3>1, Numbers DEF Inv, TypeOK
    <3>3. anyspeed!Crash
      BY <3>1, <3>2 DEF anyspeed!Crash
    <3> QED BY <3>3 DEF anyspeed!Next
  <2>3. CASE Send
    <3>1. anyspeed!Send
      BY <2>3 DEF Send, anyspeed!Send, dispatching, restarting
    <3> QED BY <3>1 DEF anyspeed!Next
  <2>4. CASE ~Process /\ ~start_polling /\ ~Crash /\ ~Send
    <3>1. UNCHANGED <<sent, upto, calls, restarts, crashes>>
      BY <2>4 DEF Next, Poller, Dispatcher, Stop, Start, vars, Bootstrap, Loop, Ask,
        Answer, TimedOut, NetworkError, InvalidToken, CheckRunning, Put, Get, GetEmpty,
        CheckEvents, ProcessError, disable, ClearRunning, StopDispatcher, DispatcherStopped,
        Join, FillWhitelist, Ready, telegram, dispatching, restarting
    <3> QED BY <3>1 DEF anyspeed!ivars
  <2> QED BY <2>1, <2>2, <2>3, <2>4
<1> QED BY <1>1, <1>2, Sound, PTL DEF Spec, SkipsOnlyBetweenUpdaters, anyspeed!Spec

(* ------------------- As long as no thread is held up for a poll interval *)

LEMMA Inductive ==
  ASSUME ~Stalls
  PROVE  Spec => []IInv
<1>1. Init => IInv
  BY InvInit
<1>2. IInv /\ [Next]_vars => IInv'
  BY IInvStep
<1> QED BY <1>1, <1>2, PTL DEF Spec

\* An update that a stopped dispatcher left in its queue (Dispatcher.start)
\* is still with Telegram, for the next Updater to pull again
THEOREM NothingForgotten ==
  ASSUME ~Stalls
  PROVE  Spec => []PulledAgain
<1>1. IInv => PulledAgain
  <2> SUFFICES ASSUME IInv, dispatcher = "ended", NEW k \in DOMAIN queue,
                      queue[k] # Error
               PROVE  queue[k] > acked
    BY DEF PulledAgain
  <2>1. k \in 1 .. Len(queue)
    BY LenProperties DEF IInv, Inv, TypeOK
  <2>2. upto + Held < queue[k] /\ acked <= upto /\ queue[k] \in Nat
    BY <2>1, Numbers DEF IInv, Inv, InOrder, Acknowledged
  <2> QED BY <2>1, <2>2, Numbers DEF IInv, Inv
<1> QED BY <1>1, Inductive, PTL

\* An update that Telegram has forgotten was handled, or is with the
\* dispatcher or in the queue (Updater._start_polling, Dispatcher.start)
THEOREM NothingGetsLost ==
  ASSUME ~Stalls
  PROVE  Spec => []NothingLost
<1>1. IInv => NothingLost
  <2> SUFFICES ASSUME IInv, crashes = 0, NEW i \in 1 .. acked
               PROVE  i \in heeded \union ignored \union {hand}
                        \/ \E k \in DOMAIN queue : queue[k] = i
    BY DEF NothingLost
  <2> USE DEF IInv, Inv
  <2>1. i \in Nat /\ 1 <= i /\ i <= LastPut
    BY Numbers DEF Offsets
  <2>2. CASE i <= upto
    BY <2>1, <2>2, Numbers DEF Handled
  <2>3. CASE upto < i /\ i <= upto + Held
    <3>1. hand \in Updates /\ i = upto + 1
      BY <2>1, <2>3, Numbers DEF Held
    <3> QED BY <3>1 DEF InOrder
  <2>4. CASE upto + Held < i
    <3>1. i \in upto + Held + 1 .. LastPut
      BY <2>1, <2>4, Numbers
    <3>2. PICK k \in 1 .. Len(queue) : queue[k] = i
      BY <3>1 DEF InOrder
    <3>3. DOMAIN queue = 1 .. Len(queue)
      BY LenProperties DEF TypeOK
    <3> QED BY <3>2, <3>3
  <2> QED BY <2>1, <2>2, <2>3, <2>4, Numbers
<1> QED BY <1>1, Inductive, PTL

\* The three threads together deliver what Inbox promises: process_update is
\* Hand, a new Updater is Restart, everything else is invisible
THEOREM ImplementsInbox ==
  ASSUME ~Stalls
  PROVE  Spec => DeliversInOrder
<1>1. Init => inbox!Init
  BY DEF Init, inbox!Init
<1>2. IInv /\ [Next]_vars => [inbox!Next]_(inbox!ivars)
  <2> SUFFICES ASSUME IInv, [Next]_vars
               PROVE  [inbox!Next]_(inbox!ivars)
    OBVIOUS
  <2>1. CASE Process
    <3>1. upto' = upto + 1 /\ upto + 1 <= sent
      BY <2>1, ProcessStep DEF IInv
    <3>2. inbox!Hand
      BY <2>1, <3>1, Numbers DEF Process, inbox!Hand, telegram, restarting, IInv, Inv
    <3> QED BY <3>2 DEF inbox!Next
  <2>2. CASE start_polling
    <3>1. dispatcher = "ended"
      BY <2>2 DEF start_polling, IInv, Inv, Stopped
    <3>2. acked <= upto /\ upto <= LastPut /\ LastPut <= acked + Limit
      BY <3>1, Numbers DEF IInv, Inv, Acknowledged, Offsets, InOrder
    <3>3. upto' = acked /\ restarts' = restarts + 1
          /\ UNCHANGED <<sent, calls, crashes>>
      BY <2>2 DEF start_polling, telegram
    <3>4. upto' + 1 \in 1 .. upto + 1 /\ upto + 1 <= upto' + 1 + Limit
      BY <3>2, <3>3, Numbers DEF IInv, Inv
    <3>5. inbox!Restart
      BY <3>3, <3>4 DEF inbox!Restart
    <3> QED BY <3>5 DEF inbox!Next
  <2>3. CASE Crash
    <3>1. upto' + 1 \in 1 .. sent + 1
      BY <2>3, Numbers DEF Crash, IInv, Inv, TypeOK
    <3>2. inbox!Crash
      BY <2>3, <3>1 DEF Crash, inbox!Crash, telegram
    <3> QED BY <3>2 DEF inbox!Next
  <2>4. CASE Send
    <3>1. inbox!Send
      BY <2>4 DEF Send, inbox!Send, dispatching, restarting
    <3> QED BY <3>1 DEF inbox!Next
  <2>5. CASE ~Process /\ ~start_polling /\ ~Crash /\ ~Send
    <3>1. UNCHANGED <<sent, upto, calls, restarts, crashes>>
      BY <2>5 DEF Next, Poller, Dispatcher, Stop, Start, vars, Bootstrap, Loop, Ask,
        Answer, TimedOut, NetworkError, InvalidToken, CheckRunning, Put, Get, GetEmpty,
        CheckEvents, ProcessError, disable, ClearRunning, StopDispatcher, DispatcherStopped,
        Join, FillWhitelist, Ready, telegram, dispatching, restarting
    <3> QED BY <3>1 DEF inbox!ivars
  <2> QED BY <2>1, <2>2, <2>3, <2>4, <2>5
<1> QED BY <1>1, <1>2, Inductive, PTL DEF Spec, DeliversInOrder, inbox!Spec

\* What Inbox itself promises of repeats, of which this module is one case
LEMMA InboxRepeats == inbox!Spec => []inbox!RepeatsAreFew
<1> DEFINE next == upto + 1
           InboxInv == /\ next \in Nat /\ calls \in Nat /\ restarts \in Nat
                       /\ crashes \in Nat /\ sent \in Nat /\ next >= 1
                       /\ inbox!RepeatsAreFew
<1> USE LimitAssumption
<1>1. inbox!Init => InboxInv
  <2>1. 0 * Limit = 0
    OBVIOUS
  <2> QED BY <2>1 DEF inbox!Init, inbox!RepeatsAreFew
<1>2. InboxInv /\ [inbox!Next]_(inbox!ivars) => InboxInv'
  <2> SUFFICES ASSUME InboxInv, [inbox!Next]_(inbox!ivars)
               PROVE  InboxInv'
    OBVIOUS
  <2>0. restarts * Limit \in Nat /\ (restarts + 1) * Limit = restarts * Limit + Limit
    OBVIOUS
  <2> HIDE LimitAssumption
  <2>1. CASE inbox!Send
    BY <2>1 DEF inbox!Send, inbox!RepeatsAreFew
  <2>2. CASE inbox!Hand
    BY <2>0, <2>2 DEF inbox!Hand, inbox!RepeatsAreFew
  <2>3. CASE inbox!Restart
    <3>1. /\ next' \in 1 .. next /\ next <= next' + Limit
          /\ restarts' = restarts + 1 /\ UNCHANGED <<sent, calls, crashes>>
      BY <2>3 DEF inbox!Restart
    <3>2. restarts' * Limit = restarts * Limit + Limit
      BY <2>0, <3>1
    <3> QED BY <2>0, <3>1, <3>2, LimitAssumption DEF inbox!RepeatsAreFew
  <2>4. CASE inbox!Crash
    <3>1. /\ next' \in 1 .. sent + 1
          /\ crashes' = crashes + 1 /\ UNCHANGED <<sent, calls, restarts>>
      BY <2>4 DEF inbox!Crash
    <3> QED BY <3>1 DEF inbox!RepeatsAreFew
  <2>5. CASE UNCHANGED inbox!ivars
    BY <2>5 DEF inbox!ivars, inbox!RepeatsAreFew
  <2> QED BY <2>1, <2>2, <2>3, <2>4, <2>5 DEF inbox!Next
<1>3. InboxInv => inbox!RepeatsAreFew
  OBVIOUS
<1> QED BY <1>1, <1>2, <1>3, PTL DEF inbox!Spec

\* As long as the daemon does not crash, the handlers see no update again but
\* for a restart, and then at most one reply's worth
THEOREM FewRepeats ==
  ASSUME ~Stalls
  PROVE  Spec => []RepeatsAreFew
BY ImplementsInbox, InboxRepeats, PTL DEF DeliversInOrder, RepeatsAreFew
=============================================================================
