------------------------------ MODULE SyncQueue ------------------------------
(***************************************************************************)
(* Delivery of federation messages from one node to a peer: the sender's   *)
(* in-memory SyncQueue and its processing loops, the HTTP client with its  *)
(* own retries, a network that loses and delays, and the receiving         *)
(* endpoint with its replay protection and peer table, both in memory.     *)
(*                                                                         *)
(* Times are left out: a request may time out at any moment and a wait may *)
(* end at any moment.  A message stays inside the replay window while it   *)
(* is retried (three posts within 10 s each and 3 s of waits, against 300  *)
(* s), so its id is not forgotten in between, unless the receiver restarts.*)
(***************************************************************************)
EXTENDS Naturals, Sequences, FiniteSets

CONSTANTS
  Item,          \* the messages the node may enqueue, all for one peer
  Loop,          \* the processing loops start() may create
  MaxAttempts,   \* SyncQueue(max_attempts)
  MaxRetries,    \* UAE_FEDERATION_MAX_RETRIES: posts per send_message
  MaxRestarts,   \* bound on restarts of the receiver
  Nil

ASSUME MaxAttemptsPos == MaxAttempts \in Nat \ {0}
ASSUME MaxRetriesPos == MaxRetries \in Nat \ {0}
ASSUME MaxRestartsNat == MaxRestarts \in Nat
ASSUME NilIsNoItem == Nil \notin Item

VARIABLES
  \* the sender
  item,       \* status and attempts of every item
  queue,      \* asyncio.Queue
  running,    \* SyncQueue._running
  loop,       \* what each processing loop is doing
  order,      \* the items in the order they were enqueued (history)
  \* the network
  requests,   \* posts under way
  replies,    \* responses under way
  \* the receiver
  trusted,    \* the sender completed its handshake with this process
  seen,       \* ReplayProtection._seen
  handling,   \* posts that passed the checks, with the handler running
  restarts,
  dispatched  \* the messages whose handler completed, in order (history)

sender == <<item, queue, running, loop, order>>
network == <<requests, replies>>
receiver == <<trusted, seen, handling, restarts, dispatched>>
vars == <<item, queue, running, loop, order, requests, replies,
          trusted, seen, handling, restarts, dispatched>>

ItemStatus == {"new", "pending", "in_flight", "delivered", "failed"}
Settled == {"delivered", "failed"}

\* Each send_message builds a message with an id of its own; the attempt
\* tells the messages of an item apart.
Message == [item : Item, attempt : 1 .. MaxAttempts]

\* off; polling in queue.get(); posting: about to post; awaiting a response;
\* sleeping before the item is put back.
LoopState == [pc : {"off", "polling", "posting", "awaiting", "sleeping"},
              item : Item \cup {Nil}, try : 0 .. MaxRetries]

Off == [pc |-> "off", item |-> Nil, try |-> 0]
Polling == [pc |-> "polling", item |-> Nil, try |-> 0]

\* One post of a message; the loop and the try name the connection.
Post == [msg : Message, loop : Loop, try : 1 .. MaxRetries]
Code == {200, 401, 409, 500}

\* Items, queue, posts and the receiver keep their types; attempts stay within
\* the maximum.
TypeOK ==
  /\ item \in [Item -> [status : ItemStatus, attempts : 0 .. MaxAttempts]]
  /\ queue \in Seq(Item)
  /\ running \in BOOLEAN
  /\ loop \in [Loop -> LoopState]
  /\ order \in Seq(Item)
  /\ requests \subseteq Post
  /\ replies \subseteq [post : Post, code : Code]
  /\ trusted \in BOOLEAN
  /\ seen \subseteq Message
  /\ handling \subseteq Post
  /\ restarts \in 0 .. MaxRestarts
  /\ dispatched \in Seq(Message)

Init ==
  /\ item = [i \in Item |-> [status |-> "new", attempts |-> 0]]
  /\ queue = <<>>
  /\ running = FALSE
  /\ loop = [l \in Loop |-> Off]
  /\ order = <<>>
  /\ requests = {} /\ replies = {}
  /\ trusted = FALSE
  /\ seen = {} /\ handling = {}
  /\ restarts = 0
  /\ dispatched = <<>>

-----------------------------------------------------------------------------
(***************************************************************************)
(* The sender's queue.                                                     *)
(***************************************************************************)
Enqueue(i) ==
  /\ item[i].status = "new"
  /\ item' = [item EXCEPT ![i].status = "pending"]
  /\ queue' = Append(queue, i)
  /\ order' = Append(order, i)
  /\ UNCHANGED <<running, loop, network, receiver>>

\* start() does not look whether a loop is running already.
Start(l) ==
  /\ loop[l] = Off
  /\ running' = TRUE
  /\ loop' = [loop EXCEPT ![l] = Polling]
  /\ UNCHANGED <<item, queue, order, network, receiver>>

Stop ==
  /\ running
  /\ running' = FALSE
  /\ UNCHANGED <<item, queue, loop, order, network, receiver>>

\* The while test of _process_loop.
NextRound == IF running THEN Polling ELSE Off

\* queue.get() timed out after a second.
PollTimeout(l) ==
  /\ loop[l] = Polling /\ ~running
  /\ loop' = [loop EXCEPT ![l] = Off]
  /\ UNCHANGED <<item, queue, running, order, network, receiver>>

\* queue.get() returned: _process_item begins.  A loop that waits when stop()
\* is called still takes an item that comes in time.
TakeItem(l) ==
  /\ loop[l] = Polling /\ queue # <<>>
  /\ queue' = Tail(queue)
  /\ LET i == Head(queue) IN
     IF item[i].status \in Settled
       THEN /\ loop' = [loop EXCEPT ![l] = NextRound]
            /\ UNCHANGED item
       ELSE /\ item' = [item EXCEPT ![i].status = "in_flight",
                                    ![i].attempts = @ + 1]
            /\ loop' = [loop EXCEPT ![l] =
                          [pc |-> "posting", item |-> i, try |-> 1]]
  /\ UNCHANGED <<running, order, network, receiver>>

\* send_message raised.
Failure(l) ==
  LET i == loop[l].item IN
  IF item[i].attempts >= MaxAttempts
    THEN /\ item' = [item EXCEPT ![i].status = "failed"]
         /\ loop' = [loop EXCEPT ![l] = NextRound]
    ELSE /\ item' = [item EXCEPT ![i].status = "pending"]
         /\ loop' = [loop EXCEPT ![l].pc = "sleeping", ![l].try = 0]

\* send_message returned.
Success(l) ==
  /\ item' = [item EXCEPT ![loop[l].item].status = "delivered"]
  /\ loop' = [loop EXCEPT ![l] = NextRound]

\* Mutated form: the item is put back, and kept.
RequeueKept(l) ==
  /\ loop[l].pc = "sleeping"
  /\ queue' = Append(queue, loop[l].item)
  /\ loop' = [loop EXCEPT ![l].pc = "posting", ![l].try = 1]
  /\ UNCHANGED <<item, running, order, network, receiver>>

\* Mutated form: the item is not put back.
RequeueDropped(l) ==
  /\ loop[l].pc = "sleeping"
  /\ loop' = [loop EXCEPT ![l] = NextRound]
  /\ UNCHANGED <<item, queue, running, order, network, receiver>>

\* The retry delay is over: the item goes to the end of the queue.
Requeue(l) ==
  /\ loop[l].pc = "sleeping"
  /\ queue' = Append(queue, loop[l].item)
  /\ loop' = [loop EXCEPT ![l] = NextRound]
  /\ UNCHANGED <<item, running, order, network, receiver>>

-----------------------------------------------------------------------------
(***************************************************************************)
(* The HTTP client: up to MaxRetries posts of one signed message.          *)
(***************************************************************************)
PostOf(l) == [msg |-> [item |-> loop[l].item,
                       attempt |-> item[loop[l].item].attempts],
              loop |-> l, try |-> loop[l].try]

SendPost(l) ==
  /\ loop[l].pc = "posting"
  /\ requests' = requests \cup {PostOf(l)}
  /\ loop' = [loop EXCEPT ![l].pc = "awaiting"]
  /\ UNCHANGED <<item, queue, running, order, replies, receiver>>

\* Anything but 200 and a refusal: wait and post the same message again.
RetryOrFail(l) ==
  IF loop[l].try < MaxRetries
    THEN /\ loop' = [loop EXCEPT ![l].pc = "posting", ![l].try = @ + 1]
         /\ UNCHANGED item
    ELSE Failure(l)

\* A network error or a timeout; a response that comes later is not read.
PostTimeout(l) ==
  /\ loop[l].pc = "awaiting"
  /\ RetryOrFail(l)
  /\ replies' = {r \in replies : r.post # PostOf(l)}
  /\ UNCHANGED <<queue, running, order, requests, receiver>>

\* Mutated form: a duplicate counts as delivered.
GetReplyDuplicate(l) ==
  /\ loop[l].pc = "awaiting"
  /\ \E r \in replies :
       /\ r.post = PostOf(l)
       /\ replies' = replies \ {r}
       /\ \/ r.code \in {200, 409} /\ Success(l)
          \/ r.code = 401 /\ Failure(l)
          \/ r.code = 500 /\ RetryOrFail(l)
  /\ UNCHANGED <<queue, running, order, requests, receiver>>

GetReply(l) ==
  /\ loop[l].pc = "awaiting"
  /\ \E r \in replies :
       /\ r.post = PostOf(l)
       /\ replies' = replies \ {r}
       /\ \/ r.code = 200 /\ Success(l)
          \/ r.code = 401 /\ Failure(l)
          \/ r.code \in {409, 500} /\ RetryOrFail(l)
  /\ UNCHANGED <<queue, running, order, requests, receiver>>

LoseRequest(p) ==
  /\ requests' = requests \ {p}
  /\ UNCHANGED <<sender, replies, receiver>>

\* The response to a post, unless the client has given up on it.
Respond(p, code) ==
  replies' = IF loop[p.loop].pc = "awaiting" /\ PostOf(p.loop) = p
               THEN replies \cup {[post |-> p, code |-> code]}
               ELSE replies

-----------------------------------------------------------------------------
(***************************************************************************)
(* The receiver.                                                           *)
(***************************************************************************)
Handshake ==
  /\ ~trusted
  /\ trusted' = TRUE
  /\ UNCHANGED <<sender, network, seen, handling, restarts, dispatched>>

\* Mutated form: the message id is not recorded.
ReceivePostForgetful(p) ==
  /\ p \in requests
  /\ requests' = requests \ {p}
  /\ IF p.msg \in seen
       THEN Respond(p, 409) /\ UNCHANGED <<seen, handling>>
       ELSE IF trusted
              THEN handling' = handling \cup {p} /\ UNCHANGED <<seen, replies>>
              ELSE Respond(p, 401) /\ UNCHANGED <<seen, handling>>
  /\ UNCHANGED <<sender, trusted, restarts, dispatched>>

\* The replay check comes first and records the id; then an unknown sender
\* is refused; no await separates them.
ReceivePost(p) ==
  /\ p \in requests
  /\ requests' = requests \ {p}
  /\ seen' = seen \cup {p.msg}
  /\ \/ /\ p.msg \in seen
        /\ Respond(p, 409)
        /\ UNCHANGED handling
     \/ /\ p.msg \notin seen /\ ~trusted
        /\ Respond(p, 401)
        /\ UNCHANGED handling
     \/ /\ p.msg \notin seen /\ trusted
        /\ handling' = handling \cup {p}
        /\ UNCHANGED replies
  /\ UNCHANGED <<sender, trusted, restarts, dispatched>>

\* The handler returned and its session committed.  A handler that refuses
\* the body answers 200 as well.
DispatchDone(p) ==
  /\ p \in handling
  /\ handling' = handling \ {p}
  /\ dispatched' = Append(dispatched, p.msg)
  /\ Respond(p, 200)
  /\ UNCHANGED <<sender, requests, trusted, seen, restarts>>

\* The commit raised.
DispatchFails(p) ==
  /\ p \in handling
  /\ handling' = handling \ {p}
  /\ Respond(p, 500)
  /\ UNCHANGED <<sender, requests, trusted, seen, restarts, dispatched>>

\* Peers, message ids and running handlers are lost.
Restart ==
  /\ restarts < MaxRestarts
  /\ restarts' = restarts + 1
  /\ trusted' = FALSE /\ seen' = {} /\ handling' = {}
  /\ UNCHANGED <<sender, network, dispatched>>

-----------------------------------------------------------------------------
LoopStep(l) ==
  \/ PollTimeout(l) \/ TakeItem(l) \/ Requeue(l)
  \/ SendPost(l) \/ PostTimeout(l) \/ GetReply(l)

Next ==
  \/ \E i \in Item : Enqueue(i)
  \/ \E l \in Loop : Start(l) \/ LoopStep(l)
  \/ Stop
  \/ \E p \in requests : ReceivePost(p) \/ LoseRequest(p)
  \/ \E p \in handling : DispatchDone(p) \/ DispatchFails(p)
  \/ Handshake \/ Restart

Spec == Init /\ [][Next]_vars

\* The event loop runs every task that can run, and posts and waits end.
FairSpec == Spec /\ \A l \in Loop : WF_vars(LoopStep(l))

-----------------------------------------------------------------------------
(***************************************************************************)
(* Properties.                                                             *)
(***************************************************************************)
HeldBy(i) == {l \in Loop : loop[l].item = i}

\* Nothing is lost or doubled inside the sender, however often it is started
\* and stopped: an item that is not settled is in the queue once or with one
\* loop, and a settled one is nowhere.
OnePlace ==
  \A i \in Item :
    LET places == Cardinality(HeldBy(i))
                  + Cardinality({k \in DOMAIN queue : queue[k] = i})
    IN  places = IF item[i].status \in {"pending", "in_flight"} THEN 1 ELSE 0

Dispatches(m) == Cardinality({k \in DOMAIN dispatched : dispatched[k] = m})

\* At least once: what the queue calls delivered, the receiver has handled.
DeliveredWasDispatched ==
  \A i \in Item : item[i].status = "delivered" =>
    \E k \in DOMAIN dispatched : dispatched[k].item = i

\* At most once per message: retried, delayed and overlapping posts of one
\* message are handled once, but for restarts of the receiver, which forget.
OncePerMessage ==
  \A i \in Item, a \in 1 .. MaxAttempts :
    Dispatches([item |-> i, attempt |-> a]) <= 1 + restarts

\* What a user of the queue sees of it: an item in flight is pending, and of
\* the receiver only which attempts it has handled counts.
BoxStatus == [i \in Item |-> IF item[i].status = "in_flight" THEN "pending"
                             ELSE item[i].status]
BoxTries == [i \in Item |-> item[i].attempts]
BoxHandled == {<<dispatched[k].item, dispatched[k].attempt>> : k \in DOMAIN dispatched}

Box == INSTANCE Outbox
         WITH status <- BoxStatus, tries <- BoxTries, handled <- BoxHandled

\* At least once, whatever the loops, the client's retries, the network and
\* restarts do: an item is called delivered only when its latest attempt has
\* been handled, failed only when its attempts are used up, and is then final;
\* the receiver handles only what was sent.
ImplementsOutbox == Box!OutboxSpec

\* Every message is settled in the end if the queue keeps running.
EverySettles ==
  <>[]running => \A i \in Item :
                   item[i].status = "pending" ~> item[i].status \in Settled

-----------------------------------------------------------------------------
(***************************************************************************)
(* The inductive invariant behind the safety properties.                   *)
(***************************************************************************)
Active == {"posting", "awaiting", "sleeping"}

\* A loop works on an item, with a post to make or to wait for, or on none.
LoopsWork ==
  \A l \in Loop :
    /\ loop[l].pc = "off" => loop[l] = Off
    /\ loop[l].pc = "polling" => loop[l] = Polling
    /\ loop[l].pc \in Active => loop[l].item \in Item
    /\ loop[l].pc \in {"posting", "awaiting"} => loop[l].try # 0

\* An item that is to be taken, now or later, has an attempt left.
AttemptsLeft ==
  \A i \in Item : item[i].status \in {"new", "pending"} =>
                   item[i].attempts < MaxAttempts

\* The loop tells the status: an item is in flight while it is posted, and
\* pending while it waits in the queue or for the end of a delay.
StatusTold ==
  /\ \A l \in Loop :
       /\ loop[l].pc = "sleeping" => item[loop[l].item].status = "pending"
       /\ loop[l].pc \in {"posting", "awaiting"} =>
            /\ item[loop[l].item].status = "in_flight"
            /\ item[loop[l].item].attempts # 0
  /\ \A k \in DOMAIN queue : item[queue[k]].status = "pending"

\* OnePlace without counting.
Places ==
  /\ \A l, m \in Loop :
       loop[l].pc \in Active /\ loop[m].item = loop[l].item => l = m
  /\ \A j, k \in DOMAIN queue : queue[j] = queue[k] => j = k
  /\ \A l \in Loop, k \in DOMAIN queue : loop[l].item # queue[k]
  /\ \A i \in Item : item[i].status \in {"pending", "in_flight"} =>
       (\E l \in Loop : loop[l].item = i) \/ (\E k \in DOMAIN queue : queue[k] = i)

\* Only what was handled is answered with 200.
AnswersTrue ==
  \A r \in replies : r.code = 200 =>
    \E k \in DOMAIN dispatched : dispatched[k] = r.post.msg

\* One handler at most runs for a message, and its id has been recorded.
HandledOnce ==
  /\ \A p \in handling : p.msg \in seen
  /\ \A p, q \in handling : p.msg = q.msg => p = q

\* A message is handled once for each life of the receiver that is over, and
\* in the present one if its id is recorded and no handler runs for it.
Budget(m) ==
  restarts + IF m \in seen /\ (\A p \in handling : p.msg # m) THEN 1 ELSE 0

WithinBudget == \A m \in Message : Dispatches(m) <= Budget(m)

\* What is under way or being handled belongs to an attempt that was begun.
PostsBegun ==
  \A p \in requests \cup handling : p.msg.attempt <= item[p.msg.item].attempts

IInv ==
  /\ TypeOK /\ LoopsWork /\ AttemptsLeft /\ StatusTold /\ Places
  /\ AnswersTrue /\ DeliveredWasDispatched
  /\ HandledOnce /\ WithinBudget

-----------------------------------------------------------------------------
\* "Messages are not delivered out of order per target node": the first
\* handling of each item follows the order of enqueueing.
InOrder ==
  \A a, b \in DOMAIN order :
    a < b => \A k \in DOMAIN dispatched :
      dispatched[k].item = order[b] =>
        \/ \E j \in 1 .. k : dispatched[j].item = order[a]
        \/ item[order[a]].status = "failed"
=============================================================================
