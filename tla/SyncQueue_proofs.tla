-------------------------- MODULE SyncQueue_proofs --------------------------
(***************************************************************************)
(* Theorems about SyncQueue for every set of messages and loops, every     *)
(* number of attempts and retries, and any number of restarts.             *)
(***************************************************************************)
EXTENDS SyncQueue, FiniteSetTheorems, TLAPS

-----------------------------------------------------------------------------
(***************************************************************************)
(* The inductive invariant, in the parts that different steps disturb.     *)
(***************************************************************************)
SenderTypes ==
  /\ item \in [Item -> [status : ItemStatus, attempts : 0 .. MaxAttempts]]
  /\ queue \in Seq(Item)
  /\ running \in BOOLEAN
  /\ loop \in [Loop -> LoopState]
  /\ order \in Seq(Item)

SenderInv == SenderTypes /\ LoopsWork /\ AttemptsLeft /\ StatusTold /\ Places

NetworkInv ==
  /\ requests \subseteq Post
  /\ replies \subseteq [post : Post, code : Code]
  /\ AnswersTrue

ReceiverInv ==
  /\ trusted \in BOOLEAN
  /\ seen \subseteq Message
  /\ handling \subseteq Post
  /\ restarts \in 0 .. MaxRestarts
  /\ dispatched \in Seq(Message)
  /\ HandledOnce /\ WithinBudget

\* The invariant by the parts of the system.
LEMMA Parts ==
  IInv <=> SenderInv /\ NetworkInv /\ ReceiverInv /\ DeliveredWasDispatched
BY DEF IInv, TypeOK, SenderInv, SenderTypes, NetworkInv, ReceiverInv

\* The same for the next state.
LEMMA PartsAfter ==
  SenderInv' /\ NetworkInv' /\ ReceiverInv' /\ DeliveredWasDispatched' => IInv'
BY DEF IInv, TypeOK, SenderInv, SenderTypes, NetworkInv, ReceiverInv

\* What each part speaks of.
LEMMA SenderAlone == SenderInv /\ UNCHANGED sender => SenderInv'
BY DEF SenderInv, SenderTypes, LoopsWork, AttemptsLeft, StatusTold, Places, sender

\* What the receiver does not see does not disturb its part.
LEMMA ReceiverAlone == ReceiverInv /\ UNCHANGED receiver => ReceiverInv'
BY DEF ReceiverInv, HandledOnce, WithinBudget, Budget, Dispatches, receiver

\* What the network does not see does not disturb its part.
LEMMA NetworkAlone ==
  NetworkInv /\ UNCHANGED <<network, dispatched>> => NetworkInv'
BY DEF NetworkInv, AnswersTrue, network

\* Nothing is enqueued and nothing has been sent.
THEOREM InitIInv == Init => IInv
<1>. SUFFICES ASSUME Init PROVE IInv
  OBVIOUS
<1>. USE MaxAttemptsPos, MaxRetriesPos, MaxRestartsNat DEF Init
<1>1. SenderInv
  <2>1. Off \in LoopState /\ Off.pc = "off"
    BY DEF Off, LoopState
  <2>2. SenderTypes
    <3>1. item \in [Item -> [status : ItemStatus, attempts : 0 .. MaxAttempts]]
      BY DEF ItemStatus
    <3>2. queue \in Seq(Item) /\ order \in Seq(Item)
      OBVIOUS
    <3>3. loop \in [Loop -> LoopState]
      BY <2>1
    <3>. QED
      BY <3>1, <3>2, <3>3 DEF SenderTypes
  <2>3. LoopsWork /\ AttemptsLeft
    BY <2>1 DEF LoopsWork, AttemptsLeft, Active
  <2>4. StatusTold /\ Places
    BY <2>1 DEF StatusTold, Places, Active
  <2>. QED
    BY <2>2, <2>3, <2>4 DEF SenderInv
<1>2. NetworkInv
  BY DEF NetworkInv, AnswersTrue
<1>3. ASSUME NEW m \in Message
      PROVE  Dispatches(m) <= Budget(m)
  <2>1. {k \in DOMAIN dispatched : dispatched[k] = m} = {}
    OBVIOUS
  <2>. QED
    BY <2>1, FS_EmptySet DEF Dispatches, Budget
<1>4. HandledOnce /\ WithinBudget
  BY <1>3 DEF HandledOnce, WithinBudget
<1>5. ReceiverInv
  <2>1. dispatched \in Seq(Message)
    OBVIOUS
  <2>2. restarts \in 0 .. MaxRestarts
    OBVIOUS
  <2>. QED
    BY <1>4, <2>1, <2>2 DEF ReceiverInv
<1>6. DeliveredWasDispatched
  BY DEF DeliveredWasDispatched
<1>. QED
  BY <1>1, <1>2, <1>5, <1>6, Parts

-----------------------------------------------------------------------------
(***************************************************************************)
(* The sender: every item stays in its place.                              *)
(***************************************************************************)
LEMMA NextRoundIdle ==
  /\ NextRound \in {Off, Polling} /\ {Off, Polling} \subseteq LoopState
  /\ Off.pc = "off" /\ Polling.pc = "polling"
  /\ Off.item = Nil /\ Polling.item = Nil
BY MaxRetriesPos DEF NextRound, Off, Polling, LoopState

\* start, stop and the time-out of queue.get(): loops without an item.
LEMMA IdleLoopSender ==
  ASSUME SenderInv, NEW l \in Loop, loop[l] \in {Off, Polling},
         NEW r \in {Off, Polling}, loop' = [loop EXCEPT ![l] = r],
         running' \in BOOLEAN, UNCHANGED <<item, queue, order>>
  PROVE  SenderInv'
<1>1. r \in LoopState /\ r.item = Nil /\ r.pc \in {"off", "polling"}
  BY NextRoundIdle
<1>2. SenderTypes /\ loop \in [Loop -> LoopState] /\ queue \in Seq(Item)
  BY DEF SenderInv, SenderTypes
<1>3. SenderTypes'
  BY <1>1, <1>2 DEF SenderTypes
<1>4. LoopsWork'
  BY <1>1, <1>2 DEF SenderInv, LoopsWork, Off, Polling, Active
<1>5. AttemptsLeft' /\ StatusTold'
  BY <1>1, <1>2 DEF SenderInv, AttemptsLeft, StatusTold
<1>6. Places'
  <2>1. ASSUME NEW m \in Loop, NEW n \in Loop, loop'[m].pc \in Active,
               loop'[n].item = loop'[m].item
        PROVE  m = n
    <3>1. m # l /\ loop[m].pc \in Active /\ loop[m].item \in Item
      BY <1>1, <1>2, <2>1 DEF SenderInv, LoopsWork, Active
    <3>2. n # l
      BY <1>1, <1>2, <2>1, <3>1, NilIsNoItem
    <3>. QED
      BY <1>2, <2>1, <3>1, <3>2 DEF SenderInv, Places
  <2>2. \A m \in Loop, k \in DOMAIN queue : loop'[m].item # queue[k]
    BY <1>1, <1>2, NilIsNoItem DEF SenderInv, Places
  <2>3. ASSUME NEW i \in Item, item[i].status \in {"pending", "in_flight"}
        PROVE  (\E m \in Loop : loop'[m].item = i)
                 \/ (\E k \in DOMAIN queue : queue[k] = i)
    <3>1. loop[l].item # i
      BY NextRoundIdle, NilIsNoItem
    <3>. QED
      BY <1>2, <2>3, <3>1 DEF SenderInv, Places
  <2>. QED
    BY <2>1, <2>2, <2>3 DEF SenderInv, Places
<1>. QED
  BY <1>3, <1>4, <1>5, <1>6 DEF SenderInv

\* A loop goes on with its item: to another post, to a delay, or away from an
\* item that it leaves settled.
LEMMA LoopGoesOn ==
  ASSUME SenderInv, NEW l \in Loop, loop[l].pc \in Active,
         NEW i \in Item, loop[l].item = i,
         NEW r \in LoopState, NEW x \in [status : ItemStatus, attempts : 0 .. MaxAttempts],
         loop' = [loop EXCEPT ![l] = r], item' = [item EXCEPT ![i] = x],
         UNCHANGED <<queue, running, order>>,
         \/ r \in {Off, Polling} /\ x.status \in Settled
         \/ /\ r.pc \in {"posting", "awaiting"} /\ r.item = i /\ r.try # 0
            /\ x.status = "in_flight" /\ x.attempts # 0
         \/ /\ r.pc = "sleeping" /\ r.item = i
            /\ x.status = "pending" /\ x.attempts < MaxAttempts
  PROVE  SenderInv'
<1>1. SenderTypes /\ loop \in [Loop -> LoopState] /\ queue \in Seq(Item)
      /\ item \in [Item -> [status : ItemStatus, attempts : 0 .. MaxAttempts]]
  BY DEF SenderInv, SenderTypes
<1>2. SenderTypes'
  BY <1>1 DEF SenderTypes
<1>3. r \in {Off, Polling} => r.item = Nil /\ r.pc \notin Active
  BY NextRoundIdle DEF Active
<1>4. LoopsWork'
  BY <1>1, NextRoundIdle DEF SenderInv, LoopsWork, Active
<1>5. AttemptsLeft'
  BY <1>1 DEF SenderInv, AttemptsLeft, Settled
<1>6. \A m \in Loop : m # l => loop[m].item # i
  BY DEF SenderInv, Places
<1>7. \A k \in DOMAIN queue : queue[k] # i
  BY DEF SenderInv, Places
<1>8. StatusTold'
  <2>1. ASSUME NEW m \in Loop, m # l, loop[m].pc \in Active
        PROVE  loop'[m] = loop[m] /\ item'[loop[m].item] = item[loop[m].item]
    BY <1>1, <1>6, <2>1 DEF SenderInv, LoopsWork
  <2>2. \A m \in Loop :
         /\ loop'[m].pc = "sleeping" => item'[loop'[m].item].status = "pending"
         /\ loop'[m].pc \in {"posting", "awaiting"} =>
              /\ item'[loop'[m].item].status = "in_flight"
              /\ item'[loop'[m].item].attempts # 0
    <3>. TAKE m \in Loop
    <3>1. CASE m = l
      BY <1>1, <1>3, <3>1 DEF Active
    <3>2. CASE m # l
      <4>1. loop'[m] = loop[m]
        BY <1>1, <3>2
      <4>. QED
        BY <2>1, <3>2, <4>1 DEF Active, SenderInv, StatusTold
    <3>. QED
      BY <3>1, <3>2
  <2>3. \A k \in DOMAIN queue : item'[queue[k]].status = "pending"
    BY <1>1, <1>7 DEF SenderInv, StatusTold
  <2>. QED
    BY <2>2, <2>3 DEF StatusTold
<1>9. Places'
  <2>1. ASSUME NEW m \in Loop, NEW n \in Loop, loop'[m].pc \in Active,
               loop'[n].item = loop'[m].item
        PROVE  m = n
    <3>1. CASE m = l
      BY <1>1, <1>3, <1>6, <2>1, <3>1
    <3>2. CASE m # l
      <4>1. loop[m].pc \in Active /\ loop[m].item \in Item /\ loop[m].item # i
        BY <1>1, <1>6, <2>1, <3>2 DEF SenderInv, LoopsWork
      <4>2. loop'[n].item = loop[m].item
        BY <1>1, <2>1, <3>2
      <4>3. n # l
        BY <1>1, <1>3, <4>1, <4>2, NilIsNoItem
      <4>. QED
        BY <1>1, <4>1, <4>2, <4>3 DEF SenderInv, Places
    <3>. QED
      BY <3>1, <3>2
  <2>2. \A m \in Loop, k \in DOMAIN queue : loop'[m].item # queue[k]
    BY <1>1, <1>3, <1>7, NilIsNoItem DEF SenderInv, Places
  <2>3. ASSUME NEW j \in Item, item'[j].status \in {"pending", "in_flight"}
        PROVE  (\E m \in Loop : loop'[m].item = j)
                 \/ (\E k \in DOMAIN queue : queue[k] = j)
    <3>1. CASE j = i
      BY <1>1, <1>3, <2>3, <3>1 DEF Settled
    <3>2. CASE j # i
      BY <1>1, <2>3, <3>2 DEF SenderInv, Places
    <3>. QED
      BY <3>1, <3>2
  <2>. QED
    BY <2>1, <2>2, <2>3 DEF SenderInv, Places
<1>. QED
  BY <1>2, <1>4, <1>5, <1>8, <1>9 DEF SenderInv

\* A new item is appended to the queue, or a loop puts one back.
LEMMA EnqueueSender ==
  ASSUME SenderInv, NEW i \in Item, Enqueue(i)
  PROVE  SenderInv'
<1>1. SenderTypes /\ loop \in [Loop -> LoopState] /\ queue \in Seq(Item)
      /\ item \in [Item -> [status : ItemStatus, attempts : 0 .. MaxAttempts]]
  BY DEF SenderInv, SenderTypes
<1>2. /\ item[i].status = "new"
      /\ item' = [item EXCEPT ![i].status = "pending"]
      /\ queue' = Append(queue, i) /\ order' = Append(order, i)
      /\ UNCHANGED <<running, loop>>
  BY DEF Enqueue
<1>3. SenderTypes' /\ LoopsWork' /\ AttemptsLeft'
  <2>1. SenderTypes'
    <3>1. item' \in [Item -> [status : ItemStatus, attempts : 0 .. MaxAttempts]]
      BY <1>1, <1>2 DEF ItemStatus
    <3>2. queue' \in Seq(Item) /\ order' \in Seq(Item)
      BY <1>1, <1>2 DEF SenderTypes
    <3>. QED
      BY <1>1, <1>2, <3>1, <3>2 DEF SenderTypes
  <2>2. LoopsWork'
    BY <1>2 DEF SenderInv, LoopsWork
  <2>3. AttemptsLeft'
    BY <1>1, <1>2 DEF SenderInv, AttemptsLeft
  <2>. QED
    BY <2>1, <2>2, <2>3
<1>4. \A l \in Loop : loop[l].item # i
  <2>. SUFFICES ASSUME NEW l \in Loop, loop[l].item = i PROVE FALSE
    OBVIOUS
  <2>1. loop[l].pc \in Active
    BY <1>1, NextRoundIdle, NilIsNoItem DEF SenderInv, LoopsWork, LoopState, Active
  <2>. QED
    BY <1>2, <2>1 DEF SenderInv, StatusTold, Active
<1>5. \A k \in DOMAIN queue : queue[k] # i
  BY <1>2 DEF SenderInv, StatusTold
<1>6. /\ DOMAIN queue = 1 .. Len(queue) /\ Len(queue) \in Nat
      /\ DOMAIN queue' = 1 .. Len(queue) + 1
      /\ \A k \in 1 .. Len(queue) : queue'[k] = queue[k]
      /\ queue'[Len(queue) + 1] = i
  BY <1>1, <1>2
<1>7. StatusTold'
  <2>1. \A j \in Item : j # i => item'[j] = item[j]
    BY <1>1, <1>2
  <2>2. item'[i].status = "pending"
    BY <1>1, <1>2
  <2>3. \A k \in DOMAIN queue' : item'[queue'[k]].status = "pending"
    BY <1>1, <1>6, <2>1, <2>2 DEF SenderInv, StatusTold
  <2>4. \A l \in Loop : loop[l].pc \in Active =>
          item'[loop[l].item] = item[loop[l].item]
    BY <1>1, <1>4, <2>1 DEF SenderInv, LoopsWork
  <2>. QED
    BY <1>2, <2>3, <2>4 DEF SenderInv, StatusTold, Active
<1>8. Places'
  <2>1. \A j, k \in DOMAIN queue' : queue'[j] = queue'[k] => j = k
    BY <1>5, <1>6 DEF SenderInv, Places
  <2>2. \A l \in Loop, k \in DOMAIN queue' : loop[l].item # queue'[k]
    BY <1>4, <1>6 DEF SenderInv, Places
  <2>3. ASSUME NEW j \in Item, item'[j].status \in {"pending", "in_flight"}
        PROVE  (\E m \in Loop : loop[m].item = j)
                 \/ (\E k \in DOMAIN queue' : queue'[k] = j)
    <3>1. CASE j = i
      BY <1>6, <3>1
    <3>2. CASE j # i
      <4>1. item'[j] = item[j]
        BY <1>1, <1>2, <3>2
      <4>. QED
        BY <1>6, <2>3, <4>1 DEF SenderInv, Places
    <3>. QED
      BY <3>1, <3>2
  <2>. QED
    BY <1>2, <2>1, <2>2, <2>3 DEF SenderInv, Places
<1>. QED
  BY <1>3, <1>7, <1>8 DEF SenderInv

\* The retry delay is over: the item goes back into the queue.
LEMMA RequeueSender ==
  ASSUME SenderInv, NEW l \in Loop, Requeue(l)
  PROVE  SenderInv'
<1>. DEFINE i == loop[l].item
            r == NextRound
<1>1. SenderTypes /\ loop \in [Loop -> LoopState] /\ queue \in Seq(Item)
      /\ item \in [Item -> [status : ItemStatus, attempts : 0 .. MaxAttempts]]
  BY DEF SenderInv, SenderTypes
<1>2. /\ loop[l].pc = "sleeping" /\ queue' = Append(queue, i)
      /\ loop' = [loop EXCEPT ![l] = r]
      /\ UNCHANGED <<item, running, order>>
  BY DEF Requeue
<1>3. i \in Item /\ item[i].status = "pending"
  BY <1>2 DEF SenderInv, LoopsWork, StatusTold, Active
<1>4. r \in LoopState /\ r \in {Off, Polling} /\ r.item = Nil /\ r.pc \in {"off", "polling"}
  BY NextRoundIdle
<1>5. \A m \in Loop : m # l => loop[m].item # i
  BY <1>2 DEF SenderInv, Places, Active
<1>6. \A k \in DOMAIN queue : queue[k] # i
  BY DEF SenderInv, Places
<1>. HIDE DEF i, r
<1>7. /\ DOMAIN queue = 1 .. Len(queue) /\ Len(queue) \in Nat
      /\ DOMAIN queue' = 1 .. Len(queue) + 1
      /\ \A k \in 1 .. Len(queue) : queue'[k] = queue[k]
      /\ queue'[Len(queue) + 1] = i
  BY <1>1, <1>2, <1>3
<1>8. SenderTypes'
  BY <1>1, <1>2, <1>3, <1>4 DEF SenderTypes
<1>9. LoopsWork' /\ AttemptsLeft'
  BY <1>1, <1>2, <1>4 DEF SenderInv, LoopsWork, AttemptsLeft, Off, Polling, Active
<1>10. StatusTold'
  <2>1. \A k \in DOMAIN queue' : item[queue'[k]].status = "pending"
    BY <1>3, <1>7 DEF SenderInv, StatusTold
  <2>. QED
    BY <1>1, <1>2, <1>4, <2>1 DEF SenderInv, StatusTold
<1>11. Places'
  <2>1. ASSUME NEW m \in Loop, NEW n \in Loop, loop'[m].pc \in Active,
               loop'[n].item = loop'[m].item
        PROVE  m = n
    <3>1. m # l /\ loop[m].pc \in Active /\ loop[m].item \in Item
      BY <1>1, <1>2, <1>4, <2>1 DEF SenderInv, LoopsWork, Active
    <3>2. n # l
      BY <1>1, <1>2, <1>4, <2>1, <3>1, NilIsNoItem
    <3>. QED
      BY <1>1, <1>2, <2>1, <3>1, <3>2 DEF SenderInv, Places
  <2>2. \A j, k \in DOMAIN queue' : queue'[j] = queue'[k] => j = k
    BY <1>6, <1>7 DEF SenderInv, Places
  <2>3. \A m \in Loop, k \in DOMAIN queue' : loop'[m].item # queue'[k]
    <3>1. \A k \in DOMAIN queue' : queue'[k] \in Item
      BY <1>1, <1>3, <1>7
    <3>2. loop'[l].item = Nil
      BY <1>1, <1>2, <1>4
    <3>3. \A m \in Loop : m # l => loop'[m] = loop[m]
      BY <1>1, <1>2
    <3>. QED
      BY <1>5, <1>7, <3>1, <3>2, <3>3, NilIsNoItem DEF SenderInv, Places
  <2>4. ASSUME NEW j \in Item, item[j].status \in {"pending", "in_flight"}
        PROVE  (\E m \in Loop : loop'[m].item = j)
                 \/ (\E k \in DOMAIN queue' : queue'[k] = j)
    <3>1. CASE j = i
      BY <1>7, <3>1
    <3>2. CASE \E m \in Loop : loop[m].item = j /\ j # i
      BY <1>1, <1>2, <3>2 DEF i
    <3>3. CASE \E k \in DOMAIN queue : queue[k] = j
      BY <1>7, <3>3
    <3>. QED
      BY <2>4, <3>1, <3>2, <3>3 DEF SenderInv, Places
  <2>. QED
    BY <1>2, <2>1, <2>2, <2>3, <2>4 DEF Places
<1>. QED
  BY <1>8, <1>9, <1>10, <1>11 DEF SenderInv

\* The head of the queue is pending, so a loop that takes it starts to post.
LEMMA TakeItemSender ==
  ASSUME SenderInv, NEW l \in Loop, TakeItem(l)
  PROVE  SenderInv'
<1>. DEFINE i == Head(queue)
            r == [pc |-> "posting", item |-> i, try |-> 1]
<1>1. SenderTypes /\ loop \in [Loop -> LoopState] /\ queue \in Seq(Item)
      /\ item \in [Item -> [status : ItemStatus, attempts : 0 .. MaxAttempts]]
  BY DEF SenderInv, SenderTypes
<1>2. loop[l] = Polling /\ queue # <<>> /\ queue' = Tail(queue)
      /\ UNCHANGED <<running, order>>
  BY DEF TakeItem
<1>3. /\ DOMAIN queue = 1 .. Len(queue) /\ Len(queue) \in Nat \ {0}
      /\ DOMAIN queue' = 1 .. Len(queue) - 1
      /\ \A k \in 1 .. Len(queue) - 1 : queue'[k] = queue[k + 1]
      /\ i = queue[1] /\ i \in Item
  BY <1>1, <1>2
<1>4. item[i].status = "pending" /\ item[i].attempts < MaxAttempts
  BY <1>3 DEF SenderInv, StatusTold, AttemptsLeft
<1>5. /\ item' = [item EXCEPT ![i].status = "in_flight", ![i].attempts = @ + 1]
      /\ loop' = [loop EXCEPT ![l] = r]
  BY <1>4 DEF TakeItem, Settled
<1>6. r \in LoopState /\ r.item = i /\ r.pc = "posting" /\ r.try = 1
  BY <1>3, MaxRetriesPos DEF LoopState
<1>7. ASSUME NEW k \in DOMAIN queue'
      PROVE  /\ k + 1 \in DOMAIN queue /\ queue'[k] = queue[k + 1]
             /\ queue'[k] # i
  <2>1. /\ k + 1 \in DOMAIN queue /\ queue'[k] = queue[k + 1]
        /\ 1 \in DOMAIN queue /\ k + 1 # 1
    BY <1>3
  <2>. QED
    BY <1>3, <2>1 DEF SenderInv, Places
<1>8. \A m \in Loop : loop[m].item # i
  BY <1>3 DEF SenderInv, Places
<1>. HIDE DEF i, r
<1>9. /\ item'[i].status = "in_flight" /\ item'[i].attempts = item[i].attempts + 1
      /\ \A j \in Item : j # i => item'[j] = item[j]
      /\ loop'[l] = r /\ \A m \in Loop : m # l => loop'[m] = loop[m]
  BY <1>1, <1>3, <1>5
<1>10. SenderTypes'
  <2>1. item'[i] \in [status : ItemStatus, attempts : 0 .. MaxAttempts]
    BY <1>1, <1>3, <1>4, <1>5, MaxAttemptsPos DEF ItemStatus
  <2>2. item' \in [Item -> [status : ItemStatus, attempts : 0 .. MaxAttempts]]
    BY <1>1, <1>5, <1>9, <2>1
  <2>3. loop' \in [Loop -> LoopState]
    BY <1>1, <1>5, <1>6
  <2>4. queue' \in Seq(Item)
    BY <1>1, <1>2
  <2>. QED
    BY <1>1, <1>2, <2>2, <2>3, <2>4 DEF SenderTypes
<1>11. LoopsWork'
  BY <1>3, <1>6, <1>9 DEF SenderInv, LoopsWork, Active
<1>12. AttemptsLeft'
  BY <1>9 DEF SenderInv, AttemptsLeft
<1>13. StatusTold'
  <2>1. \A k \in DOMAIN queue' : item'[queue'[k]].status = "pending"
    <3>. TAKE k \in DOMAIN queue'
    <3>1. queue'[k] \in Item /\ item[queue'[k]].status = "pending"
      BY <1>1, <1>7 DEF SenderInv, StatusTold
    <3>. QED
      BY <1>7, <1>9, <3>1
  <2>2. \A m \in Loop : m # l =>
          /\ loop[m].pc = "sleeping" => item'[loop[m].item].status = "pending"
          /\ loop[m].pc \in {"posting", "awaiting"} =>
               /\ item'[loop[m].item].status = "in_flight"
               /\ item'[loop[m].item].attempts # 0
    BY <1>8, <1>9 DEF SenderInv, StatusTold, LoopsWork, Active
  <2>3. item'[i].attempts # 0
    BY <1>1, <1>3, <1>9, MaxAttemptsPos
  <2>. QED
    BY <1>6, <1>9, <2>1, <2>2, <2>3 DEF StatusTold
<1>14. Places'
  <2>1. ASSUME NEW m \in Loop, NEW n \in Loop, loop'[m].pc \in Active,
               loop'[n].item = loop'[m].item
        PROVE  m = n
    <3>1. CASE m = l
      BY <1>6, <1>8, <1>9, <2>1, <3>1
    <3>2. CASE m # l /\ n # l
      BY <1>9, <2>1, <3>2 DEF SenderInv, Places
    <3>3. CASE m # l /\ n = l
      BY <1>6, <1>8, <1>9, <2>1, <3>3
    <3>. QED
      BY <3>1, <3>2, <3>3
  <2>2. \A j, k \in DOMAIN queue' : queue'[j] = queue'[k] => j = k
    <3>1. \A j, k \in DOMAIN queue : queue[j] = queue[k] => j = k
      BY DEF SenderInv, Places
    <3>2. ASSUME NEW j \in 1 .. Len(queue) - 1, NEW k \in 1 .. Len(queue) - 1,
                 queue[j + 1] = queue[k + 1]
          PROVE  j = k
      <4>1. j + 1 \in DOMAIN queue /\ k + 1 \in DOMAIN queue
        BY <1>3
      <4>2. j + 1 = k + 1
        BY <3>1, <3>2, <4>1
      <4>. QED
        BY <4>2
    <3>. QED
      BY <1>3, <3>2
  <2>3. \A m \in Loop, k \in DOMAIN queue' : loop'[m].item # queue'[k]
    <3>. TAKE m \in Loop, k \in DOMAIN queue'
    <3>1. loop[m].item # queue'[k]
      BY <1>7 DEF SenderInv, Places
    <3>. QED
      BY <1>6, <1>7, <1>9, <3>1
  <2>4. ASSUME NEW j \in Item, item'[j].status \in {"pending", "in_flight"}
        PROVE  (\E m \in Loop : loop'[m].item = j)
                 \/ (\E k \in DOMAIN queue' : queue'[k] = j)
    <3>1. CASE j = i
      BY <1>6, <1>9, <3>1
    <3>2. CASE j # i
      <4>1. (\E m \in Loop : loop[m].item = j) \/ (\E k \in DOMAIN queue : queue[k] = j)
        BY <1>9, <2>4, <3>2 DEF SenderInv, Places
      <4>2. CASE \E m \in Loop : loop[m].item = j
        <5>1. PICK m \in Loop : loop[m].item = j
          BY <4>2
        <5>2. m # l
          BY <1>2, <5>1, NextRoundIdle, NilIsNoItem
        <5>. QED
          BY <1>9, <5>1, <5>2
      <4>3. CASE \E k \in DOMAIN queue : queue[k] = j
        <5>1. PICK k \in 1 .. Len(queue) : queue[k] = j
          BY <1>3, <4>3
        <5>2. k # 1
          BY <1>3, <3>2, <5>1
        <5>3. k - 1 \in DOMAIN queue' /\ queue'[k - 1] = queue[(k - 1) + 1]
          BY <1>3, <5>2
        <5>4. (k - 1) + 1 = k
          OBVIOUS
        <5>. QED
          BY <5>1, <5>3, <5>4
      <4>. QED
        BY <4>1, <4>2, <4>3
    <3>. QED
      BY <3>1, <3>2
  <2>. QED
    BY <2>1, <2>2, <2>3, <2>4 DEF Places
<1>. QED
  BY <1>10, <1>11, <1>12, <1>13, <1>14 DEF SenderInv

\* The item of a loop that posts.
LEMMA Posting ==
  ASSUME SenderInv, NEW l \in Loop, loop[l].pc \in {"posting", "awaiting"}
  PROVE  /\ loop[l] \in LoopState /\ loop[l].pc \in Active
         /\ loop[l].item \in Item /\ loop[l].try \in 1 .. MaxRetries
         /\ item[loop[l].item] \in [status : ItemStatus, attempts : 0 .. MaxAttempts]
         /\ item[loop[l].item].status = "in_flight"
         /\ item[loop[l].item].attempts \in 1 .. MaxAttempts
         /\ PostOf(l) \in Post /\ PostOf(l).msg.item = loop[l].item
<1>1. loop[l] \in LoopState /\ loop[l].item \in Item /\ loop[l].pc \in Active
  BY DEF SenderInv, SenderTypes, LoopsWork, Active
<1>2. /\ item[loop[l].item] \in [status : ItemStatus, attempts : 0 .. MaxAttempts]
      /\ item[loop[l].item].status = "in_flight"
      /\ item[loop[l].item].attempts # 0 /\ loop[l].try # 0
  BY <1>1 DEF SenderInv, SenderTypes, StatusTold, LoopsWork
<1>3. /\ item[loop[l].item].attempts \in 1 .. MaxAttempts
      /\ loop[l].try \in 1 .. MaxRetries
  BY <1>1, <1>2, MaxAttemptsPos, MaxRetriesPos DEF LoopState
<1>4. PostOf(l) \in Post /\ PostOf(l).msg.item = loop[l].item
  BY <1>1, <1>3 DEF PostOf, Post, Message
<1>. QED
  BY <1>1, <1>2, <1>3, <1>4

\* No answer, or another than 200: the item is posted again, put back or
\* given up, and none becomes delivered.
LEMMA RetrySender ==
  ASSUME SenderInv, NEW l \in Loop, loop[l].pc = "awaiting",
         RetryOrFail(l) \/ Failure(l), UNCHANGED <<queue, running, order>>
  PROVE  /\ SenderInv'
         /\ \A j \in Item : item'[j].status = "delivered" =>
                              item[j].status = "delivered"
<1>. DEFINE i == loop[l].item
<1>1. /\ loop[l] \in LoopState /\ loop[l].pc \in Active
      /\ i \in Item /\ loop[l].try \in 1 .. MaxRetries
      /\ item[i] \in [status : ItemStatus, attempts : 0 .. MaxAttempts]
      /\ item[i].status = "in_flight" /\ item[i].attempts \in 1 .. MaxAttempts
  BY Posting
<1>2. item \in [Item -> [status : ItemStatus, attempts : 0 .. MaxAttempts]]
      /\ loop \in [Loop -> LoopState]
  BY DEF SenderInv, SenderTypes
<1>3. CASE Failure(l)
  <2>1. CASE item[i].attempts >= MaxAttempts
    <3>. DEFINE x == [item[i] EXCEPT !.status = "failed"]
    <3>1. item' = [item EXCEPT ![i] = x] /\ loop' = [loop EXCEPT ![l] = NextRound]
      BY <1>3, <2>1 DEF Failure
    <3>2. x \in [status : ItemStatus, attempts : 0 .. MaxAttempts]
          /\ x.status = "failed"
      BY <1>1 DEF ItemStatus
    <3>. HIDE DEF x
    <3>3. SenderInv'
      BY <1>1, <3>1, <3>2, NextRoundIdle, LoopGoesOn DEF Settled
    <3>. QED
      BY <1>1, <1>2, <3>1, <3>2, <3>3
  <2>2. CASE ~(item[i].attempts >= MaxAttempts)
    <3>. DEFINE x == [item[i] EXCEPT !.status = "pending"]
                r == [loop[l] EXCEPT !.pc = "sleeping", !.try = 0]
    <3>1. item' = [item EXCEPT ![i] = x] /\ loop' = [loop EXCEPT ![l] = r]
      BY <1>2, <1>3, <2>2 DEF Failure
    <3>2. /\ x \in [status : ItemStatus, attempts : 0 .. MaxAttempts]
          /\ x.status = "pending" /\ x.attempts < MaxAttempts
      BY <1>1, <2>2, MaxAttemptsPos DEF ItemStatus
    <3>3. r \in LoopState /\ r.pc = "sleeping" /\ r.item = i
      <4>1. 0 \in 0 .. MaxRetries
        BY MaxRetriesPos
      <4>2. loop[l] \in LoopState
        BY <1>1
      <4>. QED
        BY <4>1, <4>2 DEF LoopState
    <3>. HIDE DEF x, r
    <3>4. SenderInv'
      BY <1>1, <3>1, <3>2, <3>3, LoopGoesOn
    <3>. QED
      BY <1>1, <1>2, <3>1, <3>2, <3>4
  <2>. QED
    BY <2>1, <2>2
<1>4. CASE loop[l].try < MaxRetries /\ RetryOrFail(l)
  <2>. DEFINE r == [loop[l] EXCEPT !.pc = "posting", !.try = @ + 1]
              x == item[i]
  <2>1. item' = [item EXCEPT ![i] = x] /\ loop' = [loop EXCEPT ![l] = r]
    BY <1>2, <1>4 DEF RetryOrFail
  <2>2. r \in LoopState /\ r.pc = "posting" /\ r.item = i /\ r.try # 0
    <3>1. loop[l].try + 1 \in 0 .. MaxRetries /\ loop[l].try + 1 # 0
      BY <1>1, <1>4, MaxRetriesPos
    <3>. QED
      BY <1>1, <3>1 DEF LoopState
  <2>3. item' = item
    BY <1>4 DEF RetryOrFail
  <2>4. x.status = "in_flight" /\ x.attempts # 0
    BY <1>1
  <2>. HIDE DEF r
  <2>5. SenderInv'
    BY <1>1, <2>1, <2>2, <2>4, LoopGoesOn
  <2>. QED
    BY <2>3, <2>5
<1>. QED
  BY <1>3, <1>4 DEF RetryOrFail

\* 200: the item is delivered, and no other becomes so.
LEMMA SuccessSender ==
  ASSUME SenderInv, NEW l \in Loop, loop[l].pc = "awaiting",
         Success(l), UNCHANGED <<queue, running, order>>
  PROVE  /\ SenderInv'
         /\ \A j \in Item : item'[j].status = "delivered" =>
              item[j].status = "delivered" \/ j = loop[l].item
<1>. DEFINE i == loop[l].item
            x == [item[i] EXCEPT !.status = "delivered"]
<1>1. /\ loop[l].pc \in Active /\ i \in Item
      /\ item[i] \in [status : ItemStatus, attempts : 0 .. MaxAttempts]
  BY Posting
<1>2. item' = [item EXCEPT ![i] = x] /\ loop' = [loop EXCEPT ![l] = NextRound]
  BY DEF Success
<1>3. x \in [status : ItemStatus, attempts : 0 .. MaxAttempts]
      /\ x.status = "delivered"
  BY <1>1 DEF ItemStatus
<1>. HIDE DEF x
<1>4. SenderInv'
  BY <1>1, <1>2, <1>3, NextRoundIdle, LoopGoesOn DEF Settled
<1>. QED
  BY <1>1, <1>2, <1>4 DEF SenderInv, SenderTypes

\* A loop posts its message.
LEMMA SendPostSender ==
  ASSUME SenderInv, NEW l \in Loop, SendPost(l)
  PROVE  SenderInv'
<1>. DEFINE i == loop[l].item
            x == item[i]
            r == [loop[l] EXCEPT !.pc = "awaiting"]
<1>1. /\ loop[l] \in LoopState /\ loop[l].pc \in Active
      /\ i \in Item /\ loop[l].try \in 1 .. MaxRetries
      /\ x \in [status : ItemStatus, attempts : 0 .. MaxAttempts]
      /\ x.status = "in_flight" /\ x.attempts \in 1 .. MaxAttempts
  BY Posting DEF SendPost
<1>2. item' = [item EXCEPT ![i] = x] /\ loop' = [loop EXCEPT ![l] = r]
      /\ UNCHANGED <<queue, running, order>>
  BY DEF SendPost, SenderInv, SenderTypes
<1>3. r \in LoopState /\ r.pc = "awaiting" /\ r.item = i /\ r.try # 0
  BY <1>1, MaxRetriesPos DEF LoopState
<1>4. x.attempts # 0
  BY <1>1
<1>. HIDE DEF r, x
<1>. QED
  BY <1>1, <1>2, <1>3, <1>4, LoopGoesOn

-----------------------------------------------------------------------------
(***************************************************************************)
(* The receiver: each life of it handles a message once.                   *)
(***************************************************************************)

\* Handling a message adds one to its count, and to no other.
LEMMA CountAppended ==
  ASSUME NEW s \in Seq(Message), NEW x \in Message, NEW m
  PROVE  LET count(t) == Cardinality({k \in DOMAIN t : t[k] = m}) IN
         /\ count(s) \in Nat
         /\ count(Append(s, x)) = count(s) + IF x = m THEN 1 ELSE 0
<1>. DEFINE at(t) == {k \in DOMAIN t : t[k] = m}
            n == Len(s) + 1
<1>1. /\ DOMAIN s = 1 .. Len(s) /\ Len(s) \in Nat
      /\ DOMAIN Append(s, x) = 1 .. n
      /\ \A k \in 1 .. Len(s) : Append(s, x)[k] = s[k]
      /\ Append(s, x)[n] = x
  OBVIOUS
<1>2. IsFiniteSet(at(s)) /\ Cardinality(at(s)) \in Nat
  <2>1. IsFiniteSet(1 .. Len(s))
    BY <1>1, FS_Interval
  <2>2. at(s) \subseteq 1 .. Len(s)
    BY <1>1
  <2>. HIDE DEF at
  <2>. QED
    BY <2>1, <2>2, FS_Subset, FS_CardinalityType
<1>3. CASE x = m
  <2>1. at(Append(s, x)) = at(s) \cup {n} /\ n \notin at(s)
    BY <1>1, <1>3
  <2>. HIDE DEF at
  <2>. QED
    BY <1>2, <1>3, <2>1, FS_AddElement DEF at
<1>4. CASE x # m
  <2>1. at(Append(s, x)) = at(s)
    BY <1>1, <1>4
  <2>. HIDE DEF at
  <2>2. Cardinality(at(Append(s, x))) = Cardinality(at(s)) + 0
    BY <1>2, <2>1
  <2>. QED
    BY <1>2, <1>4, <2>2 DEF at
<1>. QED
  BY <1>3, <1>4

\* No answer is sent but the one of the handler or of the check.
LEMMA Responds ==
  ASSUME NEW p, NEW code, Respond(p, code)
  PROVE  replies' \subseteq replies \cup {[post |-> p, code |-> code]}
BY DEF Respond

\* What has been handled stays handled.
LEMMA HandledStays ==
  ASSUME ReceiverInv, dispatched' = dispatched \/ \E m : dispatched' = Append(dispatched, m)
  PROVE  \A k \in DOMAIN dispatched :
           k \in DOMAIN dispatched' /\ dispatched'[k] = dispatched[k]
<1>1. dispatched \in Seq(Message)
  BY DEF ReceiverInv
<1>. QED
  BY <1>1

\* An answer other than 200, a post that is lost or read: the answers stay
\* true.
LEMMA NetworkStays ==
  ASSUME NetworkInv, ReceiverInv,
         dispatched' = dispatched \/ \E m : dispatched' = Append(dispatched, m),
         requests' \subseteq Post,
         \A r \in replies' \ replies :
           /\ r \in [post : Post, code : Code]
           /\ r.code = 200 =>
                \E k \in DOMAIN dispatched' : dispatched'[k] = r.post.msg
  PROVE  NetworkInv'
<1>1. \A k \in DOMAIN dispatched :
        k \in DOMAIN dispatched' /\ dispatched'[k] = dispatched[k]
  BY HandledStays
<1>2. AnswersTrue'
  BY <1>1 DEF NetworkInv, AnswersTrue
<1>. QED
  BY <1>2 DEF NetworkInv

\* What is delivered has been handled, after a step that delivers nothing.
LEMMA DeliveredStays ==
  ASSUME ReceiverInv, DeliveredWasDispatched,
         dispatched' = dispatched \/ \E m : dispatched' = Append(dispatched, m),
         \A i \in Item : item'[i].status = "delivered" =>
                           item[i].status = "delivered"
  PROVE  DeliveredWasDispatched'
<1>1. \A k \in DOMAIN dispatched :
        k \in DOMAIN dispatched' /\ dispatched'[k] = dispatched[k]
  BY HandledStays
<1>. QED
  BY <1>1 DEF DeliveredWasDispatched

\* The receiver handles a post.
LEMMA ReceivePostIInv ==
  ASSUME IInv, NEW p \in requests, ReceivePost(p)
  PROVE  IInv'
<1>1. SenderInv /\ NetworkInv /\ ReceiverInv /\ DeliveredWasDispatched
  BY Parts
<1>2. p \in Post /\ p.msg \in Message
  BY <1>1 DEF NetworkInv, Post
<1>3. UNCHANGED <<sender, trusted, restarts, dispatched>>
  BY DEF ReceivePost
<1>4. SenderInv'
  BY <1>1, <1>3, SenderAlone
<1>5. NetworkInv'
  <2>1. requests' \subseteq Post
    BY <1>1 DEF ReceivePost, NetworkInv
  <2>2. \A r \in replies' \ replies :
          r \in [post : Post, code : Code] /\ r.code # 200
    BY <1>2, Responds DEF ReceivePost, Code
  <2>. QED
    BY <1>1, <1>3, <2>1, <2>2, NetworkStays
<1>6. ReceiverInv'
  <2>1. seen' = seen \cup {p.msg} /\ seen' \subseteq Message
    BY <1>1, <1>2 DEF ReceivePost, ReceiverInv
  <2>2. \/ handling' = handling
        \/ p.msg \notin seen /\ handling' = handling \cup {p}
    BY DEF ReceivePost
  <2>3. HandledOnce' /\ handling' \subseteq Post
    BY <1>1, <1>2, <2>1, <2>2 DEF ReceiverInv, HandledOnce
  <2>4. ASSUME NEW m \in Message
        PROVE  Dispatches(m)' <= Budget(m)'
    <3>1. Dispatches(m)' = Dispatches(m) /\ restarts' = restarts
      BY <1>3 DEF Dispatches
    <3>2. Dispatches(m) <= Budget(m) /\ restarts \in Nat /\ Dispatches(m) \in Nat
      <4>1. dispatched \in Seq(Message) /\ restarts \in Nat
        BY <1>1, MaxRestartsNat DEF ReceiverInv
      <4>2. Dispatches(m) \in Nat
        BY <1>2, <4>1, CountAppended DEF Dispatches
      <4>. QED
        BY <1>1, <4>1, <4>2 DEF ReceiverInv, WithinBudget
    <3>3. Budget(m) <= Budget(m)'
      <4>1. CASE m \in seen /\ (\A q \in handling : q.msg # m)
        <5>1. m \in seen' /\ (\A q \in handling' : q.msg # m)
          BY <2>1, <2>2, <4>1
        <5>. QED
          BY <3>1, <3>2, <5>1, <4>1 DEF Budget
      <4>2. CASE ~(m \in seen /\ (\A q \in handling : q.msg # m))
        BY <3>1, <3>2, <4>2 DEF Budget
      <4>. QED
        BY <4>1, <4>2
    <3>4. Budget(m) \in Nat /\ Budget(m)' \in Nat
      BY <3>1, <3>2 DEF Budget
    <3>. QED
      BY <3>1, <3>2, <3>3, <3>4
  <2>. QED
    BY <1>1, <1>3, <2>1, <2>3, <2>4 DEF ReceiverInv, WithinBudget
<1>7. DeliveredWasDispatched'
  BY <1>1, <1>3, DeliveredStays DEF sender
<1>. QED
  BY <1>4, <1>5, <1>6, <1>7, PartsAfter

\* The handler ends: it is counted once, and its answer is true.
LEMMA DispatchDoneIInv ==
  ASSUME IInv, NEW p \in handling, DispatchDone(p)
  PROVE  IInv'
<1>1. SenderInv /\ NetworkInv /\ ReceiverInv /\ DeliveredWasDispatched
  BY Parts
<1>2. p \in Post /\ p.msg \in Message
  BY <1>1 DEF ReceiverInv, Post
<1>3. /\ UNCHANGED <<sender, requests, trusted, seen, restarts>>
      /\ dispatched' = Append(dispatched, p.msg)
      /\ handling' = handling \ {p}
  BY DEF DispatchDone
<1>4. SenderInv'
  BY <1>1, <1>3, SenderAlone
<1>5. /\ dispatched \in Seq(Message) /\ restarts \in Nat
      /\ Len(dispatched) + 1 \in DOMAIN dispatched'
      /\ dispatched'[Len(dispatched) + 1] = p.msg
  BY <1>1, <1>2, <1>3, MaxRestartsNat DEF ReceiverInv
<1>6. NetworkInv'
  <2>1. \A r \in replies' \ replies : r = [post |-> p, code |-> 200]
    BY Responds DEF DispatchDone
  <2>2. \A r \in replies' \ replies :
          /\ r \in [post : Post, code : Code]
          /\ \E k \in DOMAIN dispatched' : dispatched'[k] = r.post.msg
    BY <1>2, <1>5, <2>1 DEF Code
  <2>3. requests' \subseteq Post
    BY <1>1, <1>3 DEF NetworkInv
  <2>. QED
    BY <1>1, <1>3, <2>2, <2>3, NetworkStays
<1>7. ReceiverInv'
  <2>1. HandledOnce'
    BY <1>1, <1>3 DEF ReceiverInv, HandledOnce
  <2>2. ASSUME NEW m \in Message
        PROVE  Dispatches(m)' <= Budget(m)'
    <3>1. /\ Dispatches(m) \in Nat
          /\ Dispatches(m)' = Dispatches(m) + IF p.msg = m THEN 1 ELSE 0
      <4>. DEFINE d == Append(dispatched, p.msg)
      <4>1. /\ Dispatches(m) \in Nat
            /\ Cardinality({k \in DOMAIN d : d[k] = m})
                 = Dispatches(m) + IF p.msg = m THEN 1 ELSE 0
        BY <1>2, <1>5, CountAppended DEF Dispatches
      <4>2. Dispatches(m)' = Cardinality({k \in DOMAIN d : d[k] = m})
        BY <1>3 DEF Dispatches
      <4>. QED
        BY <4>1, <4>2
    <3>2. Dispatches(m) <= Budget(m)
      BY <1>1 DEF ReceiverInv, WithinBudget
    <3>3. CASE p.msg = m
      <4>1. m \in seen /\ \A q \in handling' : q.msg # m
        BY <1>1, <1>3, <3>3 DEF ReceiverInv, HandledOnce
      <4>2. Budget(m)' = restarts + 1 /\ Budget(m) = restarts
        BY <1>3, <1>5, <3>3, <4>1 DEF Budget
      <4>. QED
        BY <1>5, <3>1, <3>2, <3>3, <4>2
    <3>4. CASE p.msg # m
      <4>1. (\A q \in handling' : q.msg # m) <=> (\A q \in handling : q.msg # m)
        BY <1>3, <3>4
      <4>2. Budget(m)' = Budget(m)
        BY <1>3, <4>1 DEF Budget
      <4>. QED
        BY <3>1, <3>2, <3>4, <4>2
    <3>. QED
      BY <3>3, <3>4
  <2>3. dispatched' \in Seq(Message)
    BY <1>2, <1>3, <1>5
  <2>. QED
    BY <1>1, <1>3, <2>1, <2>2, <2>3 DEF ReceiverInv, WithinBudget
<1>8. DeliveredWasDispatched'
  BY <1>1, <1>3, DeliveredStays DEF sender
<1>. QED
  BY <1>4, <1>6, <1>7, <1>8, PartsAfter

\* A handler fails, or the receiver restarts: the handlers that run are given
\* up.  A restart forgets the ids and starts another life.
LEMMA GiveUpIInv ==
  ASSUME IInv, (\E p \in handling : DispatchFails(p)) \/ Restart
  PROVE  IInv'
<1>1. SenderInv /\ NetworkInv /\ ReceiverInv /\ DeliveredWasDispatched
  BY Parts
<1>2. /\ UNCHANGED <<sender, requests, dispatched>>
      /\ handling' \subseteq handling
  BY DEF DispatchFails, Restart, network
<1>3. SenderInv'
  BY <1>1, <1>2, SenderAlone
<1>4. NetworkInv'
  <2>1. \A r \in replies' \ replies :
          r \in [post : Post, code : Code] /\ r.code # 200
    BY <1>1, Responds DEF DispatchFails, Restart, network, Code, ReceiverInv
  <2>2. requests' \subseteq Post
    BY <1>1, <1>2 DEF NetworkInv
  <2>. QED
    BY <1>1, <1>2, <2>1, <2>2, NetworkStays
<1>5. restarts \in Nat /\ dispatched \in Seq(Message)
  BY <1>1, MaxRestartsNat DEF ReceiverInv
<1>6. ReceiverInv'
  <2>1. HandledOnce'
    BY <1>1, <1>2 DEF ReceiverInv, HandledOnce, DispatchFails, Restart
  <2>2. ASSUME NEW m \in Message
        PROVE  Dispatches(m)' <= Budget(m)'
    <3>1. /\ Dispatches(m)' = Dispatches(m) /\ Dispatches(m) <= Budget(m)
          /\ Dispatches(m) \in Nat
      <4>1. Dispatches(m)' = Dispatches(m)
        BY <1>2 DEF Dispatches
      <4>2. {k \in DOMAIN dispatched : dispatched[k] = m} \subseteq 1 .. Len(dispatched)
        BY <1>5
      <4>3. IsFiniteSet(1 .. Len(dispatched))
        BY <1>5, FS_Interval
      <4>4. Dispatches(m) \in Nat
        BY <4>2, <4>3, FS_Subset, FS_CardinalityType DEF Dispatches
      <4>. QED
        BY <1>1, <4>1, <4>4 DEF ReceiverInv, WithinBudget
    <3>2. CASE Restart
      <4>1. Budget(m) <= restarts + 1 /\ Budget(m) \in Nat
        BY <1>5 DEF Budget
      <4>2. Budget(m)' = restarts + 1
        BY <1>5, <3>2 DEF Budget, Restart
      <4>. QED
        BY <1>5, <3>1, <4>1, <4>2
    <3>3. CASE \E p \in handling : DispatchFails(p)
      <4>1. UNCHANGED <<seen, restarts>>
        BY <3>3 DEF DispatchFails
      <4>2. Budget(m) <= Budget(m)' /\ Budget(m) \in Nat /\ Budget(m)' \in Nat
        BY <1>2, <1>5, <4>1 DEF Budget
      <4>. QED
        BY <3>1, <4>2
    <3>. QED
      BY <3>2, <3>3
  <2>3. /\ trusted' \in BOOLEAN /\ seen' \subseteq Message
        /\ restarts' \in 0 .. MaxRestarts
    <3>1. CASE Restart
      <4>1. trusted' = FALSE /\ seen' = {}
        BY <3>1 DEF Restart
      <4>2. restarts' = restarts + 1 /\ restarts < MaxRestarts
        BY <3>1 DEF Restart
      <4>3. restarts' \in 0 .. MaxRestarts
        BY <1>5, <4>2, MaxRestartsNat
      <4>. QED
        BY <4>1, <4>3
    <3>2. CASE \E p \in handling : DispatchFails(p)
      BY <1>1, <3>2 DEF DispatchFails, ReceiverInv
    <3>. QED
      BY <3>1, <3>2
  <2>. QED
    BY <1>1, <1>2, <2>1, <2>2, <2>3 DEF ReceiverInv, WithinBudget
<1>7. DeliveredWasDispatched'
  BY <1>1, <1>2, DeliveredStays DEF sender
<1>. QED
  BY <1>3, <1>4, <1>6, <1>7, PartsAfter

\* The receiver comes to trust the sender.
LEMMA HandshakeIInv ==
  ASSUME IInv, Handshake
  PROVE  IInv'
<1>1. SenderInv /\ NetworkInv /\ ReceiverInv /\ DeliveredWasDispatched
  BY Parts
<1>2. SenderInv' /\ NetworkInv'
  BY <1>1, SenderAlone, NetworkAlone DEF Handshake
<1>3. ReceiverInv'
  BY <1>1 DEF Handshake, ReceiverInv, HandledOnce, WithinBudget, Budget, Dispatches
<1>4. DeliveredWasDispatched'
  BY <1>1, DeliveredStays DEF Handshake, sender
<1>. QED
  BY <1>2, <1>3, <1>4, PartsAfter

\* A request is lost.
LEMMA LoseRequestIInv ==
  ASSUME IInv, NEW p \in requests, LoseRequest(p)
  PROVE  IInv'
<1>1. SenderInv /\ NetworkInv /\ ReceiverInv /\ DeliveredWasDispatched
  BY Parts
<1>2. SenderInv' /\ ReceiverInv'
  BY <1>1, SenderAlone, ReceiverAlone DEF LoseRequest
<1>3. NetworkInv'
  BY <1>1 DEF LoseRequest, NetworkInv, AnswersTrue, receiver
<1>4. DeliveredWasDispatched'
  BY <1>1, DeliveredStays DEF LoseRequest, sender, receiver
<1>. QED
  BY <1>2, <1>3, <1>4, PartsAfter

-----------------------------------------------------------------------------
(***************************************************************************)
(* The steps of the sender leave the receiver alone.                       *)
(***************************************************************************)
LEMMA SenderStep ==
  ASSUME IInv, SenderInv', NetworkInv', UNCHANGED receiver,
         DeliveredWasDispatched'
  PROVE  IInv'
BY Parts, PartsAfter, ReceiverAlone

\* No message is sent or answered, and none becomes delivered.
LEMMA QueueIInv ==
  ASSUME IInv,
         \/ Stop
         \/ \E i \in Item : Enqueue(i)
         \/ \E l \in Loop : Start(l) \/ PollTimeout(l) \/ TakeItem(l) \/ Requeue(l)
  PROVE  IInv'
<1>1. SenderInv /\ NetworkInv /\ ReceiverInv /\ DeliveredWasDispatched
  BY Parts
<1>2. UNCHANGED <<network, receiver>>
  BY DEF Stop, Enqueue, Start, PollTimeout, TakeItem, Requeue
<1>3. item \in [Item -> [status : ItemStatus, attempts : 0 .. MaxAttempts]]
  BY <1>1 DEF SenderInv, SenderTypes
<1>4. SenderInv' /\ \A j \in Item : item'[j].status = "delivered" =>
                                      item[j].status = "delivered"
  <2>1. CASE Stop
    <3>1. running' \in BOOLEAN /\ UNCHANGED <<item, queue, loop, order>>
      BY <2>1 DEF Stop
    <3>. QED
      BY <1>1, <3>1 DEF SenderInv, SenderTypes, LoopsWork, AttemptsLeft,
                        StatusTold, Places
  <2>2. ASSUME NEW i \in Item, Enqueue(i)
        PROVE  SenderInv' /\ \A j \in Item : item'[j].status = "delivered" =>
                                               item[j].status = "delivered"
    <3>1. item' = [item EXCEPT ![i].status = "pending"]
      BY <2>2 DEF Enqueue
    <3>. QED
      BY <1>1, <1>3, <2>2, <3>1, EnqueueSender
  <2>3. ASSUME NEW l \in Loop, Start(l) \/ PollTimeout(l)
        PROVE  SenderInv' /\ item' = item
    <3>1. /\ loop[l] \in {Off, Polling} /\ UNCHANGED <<item, queue, order>>
          /\ \E r \in {Off, Polling} : loop' = [loop EXCEPT ![l] = r]
          /\ running' \in BOOLEAN
      BY <1>1, <2>3 DEF Start, PollTimeout, SenderInv, SenderTypes
    <3>. QED
      BY <1>1, <3>1, IdleLoopSender
  <2>4. ASSUME NEW l \in Loop, TakeItem(l)
        PROVE  SenderInv' /\ \A j \in Item : item'[j].status = "delivered" =>
                                               item[j].status = "delivered"
    <3>1. \/ item' = item
          \/ \E i : item' = [item EXCEPT ![i].status = "in_flight",
                                         ![i].attempts = @ + 1]
      BY <2>4 DEF TakeItem
    <3>. QED
      BY <1>1, <1>3, <2>4, <3>1, TakeItemSender
  <2>5. ASSUME NEW l \in Loop, Requeue(l)
        PROVE  SenderInv' /\ item' = item
    BY <1>1, <2>5, RequeueSender DEF Requeue
  <2>. QED
    BY <2>1, <2>2, <2>3, <2>4, <2>5
<1>5. NetworkInv' /\ DeliveredWasDispatched'
  BY <1>1, <1>2, <1>4, NetworkAlone, DeliveredStays DEF receiver
<1>. QED
  BY <1>2, <1>4, <1>5, SenderStep

\* The posts of a loop, and their answers.
LEMMA PostsIInv ==
  ASSUME IInv, NEW l \in Loop, SendPost(l) \/ PostTimeout(l) \/ GetReply(l)
  PROVE  IInv'
<1>1. SenderInv /\ NetworkInv /\ ReceiverInv /\ DeliveredWasDispatched
  BY Parts
<1>2. UNCHANGED receiver /\ UNCHANGED dispatched
  BY DEF SendPost, PostTimeout, GetReply, receiver
<1>3. CASE SendPost(l)
  <2>1. SenderInv'
    BY <1>1, <1>3, SendPostSender
  <2>2. requests' \subseteq Post
    BY <1>1, <1>3, Posting DEF SendPost, NetworkInv
  <2>3. NetworkInv'
    BY <1>1, <1>2, <1>3, <2>2 DEF SendPost, NetworkInv, AnswersTrue
  <2>4. DeliveredWasDispatched'
    BY <1>1, <1>2, <1>3, DeliveredStays DEF SendPost
  <2>. QED
    BY <1>2, <2>1, <2>3, <2>4, SenderStep
<1>4. ASSUME requests' = requests, replies' \subseteq replies
      PROVE  NetworkInv'
  BY <1>1, <1>2, <1>4 DEF NetworkInv, AnswersTrue
<1>5. ASSUME RetryOrFail(l) \/ Failure(l), loop[l].pc = "awaiting",
             UNCHANGED <<queue, running, order>>
      PROVE  SenderInv' /\ DeliveredWasDispatched'
  BY <1>1, <1>2, <1>5, RetrySender, DeliveredStays
<1>6. CASE PostTimeout(l)
  <2>1. /\ loop[l].pc = "awaiting" /\ RetryOrFail(l)
        /\ UNCHANGED <<queue, running, order>>
        /\ requests' = requests /\ replies' \subseteq replies
    BY <1>6 DEF PostTimeout
  <2>. QED
    BY <1>2, <1>4, <1>5, <2>1, SenderStep
<1>7. CASE GetReply(l)
  <2>1. PICK r \in replies :
          /\ r.post = PostOf(l)
          /\ replies' = replies \ {r}
          /\ \/ r.code = 200 /\ Success(l)
             \/ Failure(l) \/ RetryOrFail(l)
    BY <1>7 DEF GetReply
  <2>2. /\ loop[l].pc = "awaiting" /\ UNCHANGED <<queue, running, order>>
        /\ requests' = requests
    BY <1>7 DEF GetReply
  <2>3. NetworkInv'
    BY <1>4, <2>1, <2>2
  <2>4. CASE r.code = 200 /\ Success(l)
    <3>1. PICK k \in DOMAIN dispatched : dispatched[k] = PostOf(l).msg
      BY <1>1, <2>1, <2>4 DEF NetworkInv, AnswersTrue
    <3>2. dispatched[k].item = loop[l].item
      BY <1>1, <2>2, <3>1, Posting
    <3>3. SenderInv' /\ DeliveredWasDispatched'
      BY <1>1, <1>2, <2>2, <2>4, <3>2, SuccessSender DEF DeliveredWasDispatched
    <3>. QED
      BY <1>2, <2>3, <3>3, SenderStep
  <2>5. CASE Failure(l) \/ RetryOrFail(l)
    BY <1>2, <1>5, <2>2, <2>3, <2>5, SenderStep
  <2>. QED
    BY <2>1, <2>4, <2>5
<1>. QED
  BY <1>3, <1>6, <1>7

\* Every step keeps the inductive invariant.
THEOREM NextIInv == IInv /\ [Next]_vars => IInv'
<1>. SUFFICES ASSUME IInv, [Next]_vars PROVE IInv'
  OBVIOUS
<1>1. CASE UNCHANGED vars
  <2>1. /\ UNCHANGED sender /\ UNCHANGED network
        /\ UNCHANGED receiver /\ UNCHANGED dispatched /\ UNCHANGED item
    BY <1>1 DEF vars, sender, network, receiver
  <2>2. SenderInv' /\ NetworkInv'
    BY <2>1, Parts, SenderAlone, NetworkAlone
  <2>3. DeliveredWasDispatched'
    BY <2>1, Parts, DeliveredStays
  <2>. QED
    BY <2>1, <2>2, <2>3, SenderStep
<1>2. CASE Stop \/ \E i \in Item : Enqueue(i)
  BY <1>2, QueueIInv
<1>3. ASSUME NEW l \in Loop, Start(l) \/ LoopStep(l)
      PROVE  IInv'
  BY <1>3, QueueIInv, PostsIInv DEF LoopStep
<1>4. ASSUME NEW p \in requests, ReceivePost(p) \/ LoseRequest(p)
      PROVE  IInv'
  BY <1>4, ReceivePostIInv, LoseRequestIInv
<1>5. ASSUME NEW p \in handling, DispatchDone(p) \/ DispatchFails(p)
      PROVE  IInv'
  BY <1>5, DispatchDoneIInv, GiveUpIInv
<1>6. CASE Handshake \/ Restart
  BY <1>6, HandshakeIInv, GiveUpIInv
<1>. QED
  BY <1>1, <1>2, <1>3, <1>4, <1>5, <1>6 DEF Next

\* The inductive invariant holds in every reachable state.
THEOREM Inductive == Spec => []IInv
BY InitIInv, NextIInv, PTL DEF Spec

-----------------------------------------------------------------------------
(***************************************************************************)
(* What follows from it.                                                   *)
(***************************************************************************)

\* Items, loops, posts and the receiver keep their types, and no item is
\* attempted more often than allowed.
THEOREM TypeCorrect == Spec => []TypeOK
<1>1. IInv => TypeOK
  BY DEF IInv
<1>. QED
  BY <1>1, Inductive, PTL

\* Places, counted.
LEMMA PlacesCounted ==
  ASSUME IInv, NEW i \in Item
  PROVE  Cardinality(HeldBy(i)) + Cardinality({k \in DOMAIN queue : queue[k] = i})
           = IF item[i].status \in {"pending", "in_flight"} THEN 1 ELSE 0
<1>. DEFINE inQueue == {k \in DOMAIN queue : queue[k] = i}
<1>1. SenderInv
  BY Parts
<1>2. \A l \in Loop : loop[l].item = i => loop[l].pc \in Active
  <2>. SUFFICES ASSUME NEW l \in Loop, loop[l].item = i PROVE loop[l].pc \in Active
    OBVIOUS
  <2>1. loop[l] \in LoopState
    BY <1>1 DEF SenderInv, SenderTypes
  <2>. QED
    BY <1>1, <2>1, NextRoundIdle, NilIsNoItem
       DEF SenderInv, LoopsWork, LoopState, Active
<1>3. HeldBy(i) # {} => \E l : HeldBy(i) = {l}
  <2>. SUFFICES ASSUME NEW l \in HeldBy(i) PROVE HeldBy(i) = {l}
    OBVIOUS
  <2>1. l \in Loop /\ loop[l].item = i /\ loop[l].pc \in Active
    BY <1>2 DEF HeldBy
  <2>2. \A m \in Loop : loop[m].item = i => m = l
    BY <1>1, <2>1 DEF SenderInv, Places
  <2>. QED
    BY <2>1, <2>2 DEF HeldBy
<1>4. inQueue # {} => \E k : inQueue = {k}
  BY <1>1 DEF SenderInv, Places
<1>5. HeldBy(i) = {} \/ inQueue = {}
  BY <1>1 DEF SenderInv, Places, HeldBy
<1>6. item[i].status \in {"pending", "in_flight"} <=>
        HeldBy(i) # {} \/ inQueue # {}
  <2>1. ASSUME NEW l \in HeldBy(i)
        PROVE  item[i].status \in {"pending", "in_flight"}
    BY <1>1, <1>2 DEF SenderInv, StatusTold, HeldBy, Active
  <2>2. ASSUME NEW k \in inQueue
        PROVE  item[i].status \in {"pending", "in_flight"}
    BY <1>1 DEF SenderInv, StatusTold
  <2>3. item[i].status \in {"pending", "in_flight"} =>
          HeldBy(i) # {} \/ inQueue # {}
    BY <1>1 DEF SenderInv, Places, HeldBy
  <2>. QED
    BY <2>1, <2>2, <2>3
<1>. HIDE DEF inQueue
<1>7. /\ Cardinality(HeldBy(i)) = IF HeldBy(i) = {} THEN 0 ELSE 1
      /\ Cardinality(inQueue) = IF inQueue = {} THEN 0 ELSE 1
  BY <1>3, <1>4, FS_EmptySet, FS_Singleton
<1>. QED
  BY <1>5, <1>6, <1>7 DEF inQueue

\* An item that is not settled is in exactly one place of the sender.
THEOREM OnePlaceSafe == Spec => []OnePlace
<1>1. IInv => OnePlace
  BY PlacesCounted DEF OnePlace
<1>. QED
  BY <1>1, Inductive, PTL

\* At least once: the receiver has handled what is called delivered.
THEOREM DeliveredSafe == Spec => []DeliveredWasDispatched
<1>1. IInv => DeliveredWasDispatched
  BY DEF IInv
<1>. QED
  BY <1>1, Inductive, PTL

\* At most once for each life of the receiver.
THEOREM OncePerMessageSafe == Spec => []OncePerMessage
<1>1. IInv => OncePerMessage
  <2>. SUFFICES ASSUME IInv, NEW i \in Item, NEW a \in 1 .. MaxAttempts
                PROVE  Dispatches([item |-> i, attempt |-> a]) <= 1 + restarts
    BY DEF OncePerMessage
  <2>. DEFINE m == [item |-> i, attempt |-> a]
  <2>1. m \in Message
    BY DEF Message
  <2>. HIDE DEF m
  <2>2. /\ Dispatches(m) <= Budget(m) /\ restarts \in Nat
        /\ dispatched \in Seq(Message)
    BY <2>1, MaxRestartsNat DEF IInv, TypeOK, WithinBudget
  <2>3. Dispatches(m) \in Nat
    BY <2>1, <2>2, CountAppended DEF Dispatches
  <2>4. Budget(m) \in Nat /\ Budget(m) <= 1 + restarts
    BY <2>2 DEF Budget
  <2>5. Dispatches(m) <= 1 + restarts
    BY <2>2, <2>3, <2>4
  <2>. QED
    BY <2>5 DEF m
<1>. QED
  BY <1>1, Inductive, PTL

-----------------------------------------------------------------------------
(***************************************************************************)
(* The refinement of Outbox.                                               *)
(***************************************************************************)

\* How a step of the sender may change an item, and what Outbox sees of it.
\* Taking it from the queue is a try; putting it back is nothing.
Accepted(x, y) ==
  x.status = "new" /\ y.status = "pending" /\ y.attempts = x.attempts

Tried(x, y) ==
  /\ x.status = "pending" /\ y.status = "in_flight"
  /\ x.attempts < MaxAttempts /\ y.attempts = x.attempts + 1

PutBack(x, y) ==
  x.status = "in_flight" /\ y.status = "pending" /\ y.attempts = x.attempts

GivenUp(x, y) ==
  /\ x.status = "in_flight" /\ y.status = "failed"
  /\ x.attempts = MaxAttempts /\ y.attempts = x.attempts

Delivered(i, x, y) ==
  /\ x.status = "in_flight" /\ y.status = "delivered" /\ y.attempts = x.attempts
  /\ <<i, x.attempts>> \in BoxHandled

ItemChange(i, x, y) ==
  Accepted(x, y) \/ Tried(x, y) \/ PutBack(x, y) \/ GivenUp(x, y) \/ Delivered(i, x, y)

\* A step of the sender changes one item in one of these ways, or none.
SenderChanges ==
  \/ item' = item
  \/ \E i \in Item : \E y \in [status : ItemStatus, attempts : 0 .. MaxAttempts] :
       item' = [item EXCEPT ![i] = y] /\ ItemChange(i, item[i], y)

\* The queue and its loops accept an item, try it, or leave items alone.
LEMMA QueueChanges ==
  ASSUME SenderInv,
         \/ Stop
         \/ \E i \in Item : Enqueue(i)
         \/ \E l \in Loop : Start(l) \/ PollTimeout(l) \/ TakeItem(l) \/ Requeue(l)
  PROVE  SenderChanges
<1>1. /\ item \in [Item -> [status : ItemStatus, attempts : 0 .. MaxAttempts]]
      /\ queue \in Seq(Item)
  BY DEF SenderInv, SenderTypes
<1>2. CASE Stop \/ \E l \in Loop : Start(l) \/ PollTimeout(l) \/ Requeue(l)
  BY <1>2 DEF Stop, Start, PollTimeout, Requeue, SenderChanges
<1>3. ASSUME NEW i \in Item, Enqueue(i)
      PROVE  SenderChanges
  <2>. DEFINE y == [item[i] EXCEPT !.status = "pending"]
  <2>1. item' = [item EXCEPT ![i] = y] /\ item[i].status = "new"
    BY <1>3 DEF Enqueue
  <2>2. /\ y \in [status : ItemStatus, attempts : 0 .. MaxAttempts]
        /\ y.status = "pending" /\ y.attempts = item[i].attempts
    BY <1>1 DEF ItemStatus
  <2>. HIDE DEF y
  <2>. QED
    BY <2>1, <2>2 DEF SenderChanges, ItemChange, Accepted
<1>4. ASSUME NEW l \in Loop, TakeItem(l)
      PROVE  SenderChanges
  <2>. DEFINE i == Head(queue)
              y == [item[i] EXCEPT !.status = "in_flight", !.attempts = @ + 1]
  <2>1. queue # <<>> /\ i \in Item /\ 1 \in DOMAIN queue /\ i = queue[1]
    BY <1>1, <1>4 DEF TakeItem
  <2>2. item[i].status = "pending" /\ item[i].attempts < MaxAttempts
    BY <2>1 DEF SenderInv, StatusTold, AttemptsLeft
  <2>3. item' = [item EXCEPT ![i] = y]
    BY <1>1, <1>4, <2>1, <2>2 DEF TakeItem, Settled
  <2>4. /\ y \in [status : ItemStatus, attempts : 0 .. MaxAttempts]
        /\ y.status = "in_flight" /\ y.attempts = item[i].attempts + 1
    <3>1. item[i] \in [status : ItemStatus, attempts : 0 .. MaxAttempts]
      BY <1>1, <2>1
    <3>2. item[i].attempts + 1 \in 0 .. MaxAttempts
      BY <2>2, <3>1, MaxAttemptsPos
    <3>. QED
      BY <3>1, <3>2 DEF ItemStatus
  <2>. HIDE DEF y, i
  <2>. QED
    BY <2>1, <2>2, <2>3, <2>4 DEF SenderChanges, ItemChange, Tried
<1>. QED
  BY <1>2, <1>3, <1>4

\* A loop that posts puts its item back, gives it up or delivers it, or
\* leaves it.
LEMMA PostsChange ==
  ASSUME IInv, NEW l \in Loop, SendPost(l) \/ PostTimeout(l) \/ GetReply(l)
  PROVE  SenderChanges
<1>. DEFINE i == loop[l].item
<1>1. SenderInv /\ NetworkInv
  BY Parts
<1>2. /\ i \in Item /\ item[i].status = "in_flight"
      /\ item[i] \in [status : ItemStatus, attempts : 0 .. MaxAttempts]
      /\ PostOf(l).msg = [item |-> i, attempt |-> item[i].attempts]
  BY <1>1, Posting DEF SendPost, PostTimeout, GetReply, PostOf
<1>3. ASSUME Failure(l)
      PROVE  SenderChanges
  <2>1. PICK st \in {"failed", "pending"} :
          /\ item' = [item EXCEPT ![i].status = st]
          /\ st = "failed" => item[i].attempts >= MaxAttempts
    BY <1>3 DEF Failure
  <2>. DEFINE y == [item[i] EXCEPT !.status = st]
  <2>2. item' = [item EXCEPT ![i] = y]
    BY <2>1
  <2>3. /\ y \in [status : ItemStatus, attempts : 0 .. MaxAttempts]
        /\ y.status = st /\ y.attempts = item[i].attempts
    BY <1>2 DEF ItemStatus
  <2>. HIDE DEF y
  <2>4. GivenUp(item[i], y) \/ PutBack(item[i], y)
    BY <1>2, <2>1, <2>3, MaxAttemptsPos DEF GivenUp, PutBack
  <2>. QED
    BY <1>2, <2>2, <2>3, <2>4 DEF SenderChanges, ItemChange
<1>4. ASSUME RetryOrFail(l)
      PROVE  SenderChanges
  BY <1>3, <1>4 DEF RetryOrFail, SenderChanges
<1>5. ASSUME NEW r \in replies, r.post = PostOf(l), r.code = 200, Success(l)
      PROVE  SenderChanges
  <2>. DEFINE y == [item[i] EXCEPT !.status = "delivered"]
  <2>1. item' = [item EXCEPT ![i] = y]
    BY <1>5 DEF Success
  <2>2. /\ y \in [status : ItemStatus, attempts : 0 .. MaxAttempts]
        /\ y.status = "delivered" /\ y.attempts = item[i].attempts
    BY <1>2 DEF ItemStatus
  <2>3. PICK k \in DOMAIN dispatched : dispatched[k] = PostOf(l).msg
    BY <1>1, <1>5 DEF NetworkInv, AnswersTrue
  <2>4. <<i, item[i].attempts>> \in BoxHandled
    BY <1>2, <2>3 DEF BoxHandled
  <2>. HIDE DEF y
  <2>. QED
    BY <1>2, <2>1, <2>2, <2>4 DEF SenderChanges, ItemChange, Delivered
<1>6. CASE SendPost(l)
  BY <1>6 DEF SendPost, SenderChanges
<1>7. CASE PostTimeout(l)
  BY <1>4, <1>7 DEF PostTimeout
<1>8. CASE GetReply(l)
  BY <1>3, <1>4, <1>5, <1>8 DEF GetReply
<1>. QED
  BY <1>6, <1>7, <1>8

\* Which steps change what Outbox sees.
LEMMA StepChanges ==
  ASSUME IInv, [Next]_vars
  PROVE  \/ SenderChanges /\ dispatched' = dispatched
         \/ \E p \in handling : DispatchDone(p)
<1>1. SenderInv
  BY Parts
<1>2. CASE UNCHANGED vars
  BY <1>2 DEF vars, SenderChanges
<1>3. ASSUME \/ Stop
             \/ \E i \in Item : Enqueue(i)
             \/ \E l \in Loop : Start(l) \/ PollTimeout(l) \/ TakeItem(l) \/ Requeue(l)
      PROVE  SenderChanges /\ dispatched' = dispatched
  <2>1. dispatched' = dispatched
    BY <1>3 DEF Stop, Enqueue, Start, PollTimeout, TakeItem, Requeue, receiver
  <2>. QED
    BY <1>1, <1>3, <2>1, QueueChanges
<1>4. ASSUME NEW l \in Loop, SendPost(l) \/ PostTimeout(l) \/ GetReply(l)
      PROVE  SenderChanges /\ dispatched' = dispatched
  <2>1. dispatched' = dispatched
    BY <1>4 DEF SendPost, PostTimeout, GetReply, receiver
  <2>. QED
    BY <1>4, <2>1, PostsChange
<1>5. ASSUME NEW p \in requests, ReceivePost(p) \/ LoseRequest(p)
      PROVE  item' = item /\ dispatched' = dispatched
  BY <1>5 DEF ReceivePost, LoseRequest, sender, receiver
<1>6. ASSUME NEW p \in handling, DispatchFails(p)
      PROVE  item' = item /\ dispatched' = dispatched
  BY <1>6 DEF DispatchFails, sender
<1>7. CASE Handshake \/ Restart
  BY <1>7 DEF Handshake, Restart, sender, SenderChanges
<1>. QED
  BY <1>2, <1>3, <1>4, <1>5, <1>6, <1>7 DEF Next, LoopStep, SenderChanges

\* What is posted or handled belongs to an attempt that was begun: attempts
\* are counted before they are posted, and never down.
LEMMA PostsBegunStay ==
  ASSUME IInv, PostsBegun, [Next]_vars
  PROVE  PostsBegun'
<1>1. /\ SenderInv
      /\ item \in [Item -> [status : ItemStatus, attempts : 0 .. MaxAttempts]]
      /\ requests \cup handling \subseteq Post
  BY Parts DEF SenderInv, SenderTypes, NetworkInv, ReceiverInv
<1>2. \A p \in requests' \cup handling' :
        \/ p \in requests \cup handling
        \/ \E l \in Loop : SendPost(l) /\ p = PostOf(l)
  <2>1. CASE UNCHANGED vars
    BY <2>1 DEF vars
  <2>2. ASSUME \/ Stop \/ Handshake \/ Restart
               \/ \E i \in Item : Enqueue(i)
               \/ \E l \in Loop : \/ Start(l) \/ PollTimeout(l) \/ TakeItem(l)
                                  \/ Requeue(l) \/ PostTimeout(l) \/ GetReply(l)
        PROVE  requests' = requests /\ handling' \subseteq handling
    BY <2>2 DEF Stop, Handshake, Restart, Enqueue, Start, PollTimeout, TakeItem,
                Requeue, PostTimeout, GetReply, network, receiver
  <2>3. ASSUME NEW l \in Loop, SendPost(l)
        PROVE  requests' = requests \cup {PostOf(l)} /\ handling' = handling
    BY <2>3 DEF SendPost, receiver
  <2>4. ASSUME NEW p \in requests, ReceivePost(p) \/ LoseRequest(p)
        PROVE  requests' \subseteq requests /\ handling' \subseteq handling \cup {p}
    BY <2>4 DEF ReceivePost, LoseRequest, receiver
  <2>5. ASSUME NEW p \in handling, DispatchDone(p) \/ DispatchFails(p)
        PROVE  requests' = requests /\ handling' \subseteq handling
    BY <2>5 DEF DispatchDone, DispatchFails
  <2>. QED
    BY <2>1, <2>2, <2>3, <2>4, <2>5 DEF Next, LoopStep
<1>3. \A i \in Item : item'[i].attempts >= item[i].attempts
  <2>1. CASE item' = item
    BY <1>1, <2>1
  <2>2. CASE SenderChanges
    <3>. SUFFICES ASSUME NEW i \in Item,
                         NEW y \in [status : ItemStatus, attempts : 0 .. MaxAttempts],
                         item' = [item EXCEPT ![i] = y], ItemChange(i, item[i], y)
                  PROVE  \A j \in Item : item'[j].attempts >= item[j].attempts
      BY <2>1, <2>2 DEF SenderChanges
    <3>1. y.attempts >= item[i].attempts
      BY <1>1 DEF ItemChange, Accepted, Tried, PutBack, GivenUp, Delivered
    <3>. QED
      BY <1>1, <3>1
  <2>3. ASSUME NEW p \in handling, DispatchDone(p)
        PROVE  item' = item
    BY <2>3 DEF DispatchDone, sender
  <2>. QED
    BY <2>1, <2>2, <2>3, StepChanges
<1>4. ASSUME NEW p \in requests' \cup handling'
      PROVE  p.msg.attempt <= item'[p.msg.item].attempts
  <2>1. CASE p \in requests \cup handling
    <3>1. /\ p.msg.item \in Item /\ p.msg.attempt \in Nat
          /\ p.msg.attempt <= item[p.msg.item].attempts
      BY <1>1, <2>1 DEF PostsBegun, Post, Message
    <3>2. /\ item[p.msg.item].attempts \in Nat /\ item'[p.msg.item].attempts \in Nat
          /\ item'[p.msg.item].attempts >= item[p.msg.item].attempts
      BY <1>1, <1>3, <3>1, NextIInv DEF IInv, TypeOK
    <3>. QED
      BY <3>1, <3>2
  <2>2. ASSUME NEW l \in Loop, SendPost(l), p = PostOf(l)
        PROVE  p.msg.attempt <= item'[p.msg.item].attempts
    <3>1. item' = item /\ loop[l].pc = "posting"
      BY <2>2 DEF SendPost
    <3>2. p.msg = [item |-> loop[l].item, attempt |-> item[loop[l].item].attempts]
      BY <2>2 DEF PostOf
    <3>3. item[loop[l].item].attempts \in Nat
      BY <1>1, <3>1, Posting
    <3>. QED
      BY <3>1, <3>2, <3>3
  <2>. QED
    BY <1>2, <2>1, <2>2
<1>. QED
  BY <1>4 DEF PostsBegun

\* A step of the sender is a step of Outbox or none.
LEMMA SenderRefines ==
  ASSUME IInv, SenderChanges, dispatched' = dispatched
  PROVE  [Box!OutboxNext]_(Box!outboxVars)
<1>1. item \in [Item -> [status : ItemStatus, attempts : 0 .. MaxAttempts]]
  BY DEF IInv, TypeOK
<1>2. BoxHandled' = BoxHandled
  BY DEF BoxHandled
<1>3. CASE item' = item
  BY <1>2, <1>3 DEF Box!outboxVars, BoxStatus, BoxTries
<1>4. ASSUME NEW i \in Item,
             NEW y \in [status : ItemStatus, attempts : 0 .. MaxAttempts],
             item' = [item EXCEPT ![i] = y], ItemChange(i, item[i], y)
      PROVE  [Box!OutboxNext]_(Box!outboxVars)
  <2>1. /\ BoxStatus[i] = IF item[i].status = "in_flight" THEN "pending" ELSE item[i].status
        /\ BoxStatus' = [BoxStatus EXCEPT ![i] = IF y.status = "in_flight"
                                                   THEN "pending" ELSE y.status]
        /\ BoxStatus = [BoxStatus EXCEPT ![i] = BoxStatus[i]]
    BY <1>1, <1>4 DEF BoxStatus
  <2>2. /\ BoxTries[i] = item[i].attempts
        /\ BoxTries' = [BoxTries EXCEPT ![i] = y.attempts]
        /\ BoxTries = [BoxTries EXCEPT ![i] = BoxTries[i]]
    BY <1>1, <1>4 DEF BoxTries
  <2>3. CASE Accepted(item[i], y)
    <3>1. Box!Accept(i)
      BY <1>2, <2>1, <2>2, <2>3 DEF Accepted, Box!Accept
    <3>. QED
      BY <3>1 DEF Box!OutboxNext
  <2>4. CASE Tried(item[i], y)
    <3>1. Box!Try(i)
      BY <1>2, <2>1, <2>2, <2>4 DEF Tried, Box!Try
    <3>. QED
      BY <3>1 DEF Box!OutboxNext
  <2>5. CASE PutBack(item[i], y)
    <3>1. UNCHANGED Box!outboxVars
      BY <1>2, <2>1, <2>2, <2>5 DEF PutBack, Box!outboxVars
    <3>. QED
      BY <3>1
  <2>6. CASE GivenUp(item[i], y)
    <3>1. Box!GiveUp(i)
      BY <1>2, <2>1, <2>2, <2>6 DEF GivenUp, Box!GiveUp
    <3>. QED
      BY <3>1 DEF Box!OutboxNext
  <2>7. CASE Delivered(i, item[i], y)
    <3>1. Box!Deliver(i)
      BY <1>2, <2>1, <2>2, <2>7 DEF Delivered, Box!Deliver
    <3>. QED
      BY <3>1 DEF Box!OutboxNext
  <2>. QED
    BY <1>4, <2>3, <2>4, <2>5, <2>6, <2>7 DEF ItemChange
<1>. QED
  BY <1>3, <1>4 DEF SenderChanges

\* The end of a handler is the handling of a try, perhaps not the first.
LEMMA HandlerRefines ==
  ASSUME IInv, PostsBegun, NEW p \in handling, DispatchDone(p)
  PROVE  Box!OutboxNext
<1>1. /\ p.msg.item \in Item /\ p.msg.attempt \in 1 .. MaxAttempts /\ p.msg \in Message
      /\ dispatched \in Seq(Message)
      /\ item \in [Item -> [status : ItemStatus, attempts : 0 .. MaxAttempts]]
  BY DEF IInv, TypeOK, Post, Message
<1>2. item' = item /\ dispatched' = Append(dispatched, p.msg)
  BY DEF DispatchDone, sender
<1>3. BoxStatus' = BoxStatus /\ BoxTries' = BoxTries
  BY <1>2 DEF BoxStatus, BoxTries
<1>4. BoxHandled' = BoxHandled \cup {<<p.msg.item, p.msg.attempt>>}
  <2>1. /\ DOMAIN dispatched = 1 .. Len(dispatched) /\ Len(dispatched) \in Nat
        /\ DOMAIN dispatched' = 1 .. Len(dispatched) + 1
        /\ \A k \in 1 .. Len(dispatched) : dispatched'[k] = dispatched[k]
        /\ dispatched'[Len(dispatched) + 1] = p.msg
    BY <1>1, <1>2
  <2>. QED
    BY <2>1 DEF BoxHandled
<1>5. p.msg.attempt \in 1 .. BoxTries[p.msg.item]
  <2>1. /\ p.msg.attempt <= item[p.msg.item].attempts
        /\ item[p.msg.item].attempts \in Nat
    BY <1>1, MaxAttemptsPos DEF PostsBegun
  <2>. QED
    BY <1>1, <2>1, MaxAttemptsPos DEF BoxTries
<1>6. Box!Handle(p.msg.item, p.msg.attempt)
  BY <1>3, <1>4, <1>5 DEF Box!Handle
<1>. QED
  BY <1>1, <1>5, <1>6 DEF Box!OutboxNext

\* Every step of the queue, the network and the receiver is a step of Outbox
\* or none, whatever is lost, retried, late, or forgotten in a restart.
THEOREM OutboxRefinement == Spec => ImplementsOutbox
<1>1. Init => Box!OutboxInit /\ PostsBegun
  <2>. SUFFICES ASSUME Init PROVE Box!OutboxInit /\ PostsBegun
    OBVIOUS
  <2>1. BoxStatus = [i \in Item |-> "new"] /\ BoxTries = [i \in Item |-> 0]
    BY DEF Init, BoxStatus, BoxTries
  <2>2. BoxHandled = {}
    BY DEF Init, BoxHandled
  <2>. QED
    BY <2>1, <2>2 DEF Box!OutboxInit, Init, PostsBegun
<1>2. IInv /\ PostsBegun /\ [Next]_vars => PostsBegun'
  BY PostsBegunStay
<1>3. IInv /\ PostsBegun /\ [Next]_vars => [Box!OutboxNext]_(Box!outboxVars)
  BY StepChanges, SenderRefines, HandlerRefines
<1>. QED
  BY <1>1, <1>2, <1>3, Inductive, PTL DEF Spec, ImplementsOutbox, Box!OutboxSpec
=============================================================================
