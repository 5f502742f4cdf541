---------------------------- MODULE MessageQueue ----------------------------
(***************************************************************************)
(* One of the shared message queues of private/message/message.c: a ring   *)
(* of MESSAGE_QUEUE_SIZE message pointers under the mutex queueInfo with   *)
(* the condition variable queueCV.  The queues of msgQueueList share       *)
(* nothing, so one stands for all.                                         *)
(*                                                                         *)
(* A call holds queueInfo from its first statement to its last, except     *)
(* while pthread_cond_wait has given it up, so each stretch between two    *)
(* such points is one step.  One path of Message_send ends without the     *)
(* unlock: there the mutex stays with its caller (lock).                   *)
(***************************************************************************)
EXTENDS Integers, Sequences

CONSTANTS
  MESSAGE_QUEUE_SIZE,  (* slots of the ring, 32 in the code               *)
  Messages,            (* the message buffers that travel                 *)
  Senders,             (* threads that call Message_send, Message_forward *)
  Receivers,           (* threads that call Message_receive               *)
  NULL,                (* the null pointer                                *)
  NoThread             (* owner of a free mutex                           *)

ASSUME SizeAssumption == MESSAGE_QUEUE_SIZE \in Nat \ {0, 1}
ASSUME ThreadAssumption == NoThread \notin Senders

Slots == 0 .. MESSAGE_QUEUE_SIZE - 1

VARIABLES
  queue,             (* the ring; a slot keeps its pointer when it is read *)
  nextElemPut,       (* slot the next send stores to                       *)
  nextElemGet,       (* slot the next receive reads                        *)
  receiverWaiting,   (* some receiver went to sleep since the last receive *)
  lock,              (* the sender that kept queueInfo, or NoThread        *)
  pc,                (* pc[r]: out of Message_receive, waiting on queueCV, *)
                     (* or woken and about to test the queue again         *)
  got,               (* got[r]: the message last returned to receiver r    *)
  ret,               (* ret[s]: what the last Message_send returned to s   *)
  inFlight,          (* sent with MEM_SUCCESS and not yet received: the    *)
                     (* messages their senders no longer own               *)
  turns              (* whether senders have taken turns: none has sent    *)
                     (* while a message was on its way                     *)

vars == <<queue, nextElemPut, nextElemGet, receiverWaiting, lock, pc, got, ret,
          inFlight, turns>>

(* Message_createQueue, before any thread uses the queue. *)
Init ==
  /\ queue = [i \in Slots |-> NULL]
  /\ nextElemPut = 0
  /\ nextElemGet = 0
  /\ receiverWaiting = FALSE
  /\ lock = NoThread
  /\ pc = [r \in Receivers |-> "out"]
  /\ got = [r \in Receivers |-> NULL]
  /\ ret = [s \in Senders |-> "none"]
  /\ inFlight = {}
  /\ turns = TRUE

(* Bug: the cursor runs one slot past the ring. *)
BumpTooFar(i) == IF i + 1 > MESSAGE_QUEUE_SIZE THEN 0 ELSE i + 1

Bump(i) == IF i + 1 >= MESSAGE_QUEUE_SIZE THEN 0 ELSE i + 1
-----------------------------------------------------------------------------
(* Message_send, the two tests that lead to "we're full". *)
LooksFull ==
  \/ /\ nextElemPut > nextElemGet
     /\ nextElemPut # MESSAGE_QUEUE_SIZE - 1
     /\ nextElemGet = 0
  \/ /\ nextElemPut < nextElemGet
     /\ nextElemGet - nextElemPut >= 1

Refuse(s) ==
  /\ LooksFull
  /\ ret' = [ret EXCEPT ![s] = "MEM_ERROR"]
  /\ UNCHANGED <<queue, nextElemPut, nextElemGet, receiverWaiting, lock, pc, got,
                 inFlight>>

(* Bug: the send wakes nobody. *)
AcceptNoBroadcast(s, m) ==
  /\ nextElemPut = nextElemGet
  /\ queue' = [queue EXCEPT ![nextElemPut] = m]
  /\ nextElemPut' = Bump(nextElemPut)
  /\ ret' = [ret EXCEPT ![s] = "MEM_SUCCESS"]
  /\ inFlight' = inFlight \cup {m}
  /\ UNCHANGED <<nextElemGet, receiverWaiting, lock, pc, got>>

(* Bug: two messages fit before a send is refused. *)
AcceptTwo(s, m) ==
  /\ \/ nextElemPut = nextElemGet
     \/ nextElemPut = nextElemGet + 1 /\ nextElemPut < MESSAGE_QUEUE_SIZE - 1
  /\ queue' = [queue EXCEPT ![nextElemPut] = m]
  /\ nextElemPut' = Bump(nextElemPut)
  /\ ret' = [ret EXCEPT ![s] = "MEM_SUCCESS"]
  /\ inFlight' = inFlight \cup {m}
  /\ pc' = IF receiverWaiting
           THEN [r \in Receivers |-> IF pc[r] = "waiting" THEN "woken" ELSE pc[r]]
           ELSE pc
  /\ UNCHANGED <<nextElemGet, receiverWaiting, lock, got>>

(* Bug: the accepting path, too, keeps the mutex. *)
AcceptKeepsLock(s, m) ==
  /\ nextElemPut = nextElemGet
  /\ queue' = [queue EXCEPT ![nextElemPut] = m]
  /\ nextElemPut' = Bump(nextElemPut)
  /\ lock' = s
  /\ ret' = [ret EXCEPT ![s] = "MEM_SUCCESS"]
  /\ inFlight' = inFlight \cup {m}
  /\ UNCHANGED <<nextElemGet, receiverWaiting, pc, got>>

(* Bug: the pointer is stored after the cursor has moved. *)
AcceptWrongSlot(s, m) ==
  /\ nextElemPut = nextElemGet
  /\ nextElemPut' = Bump(nextElemPut)
  /\ queue' = [queue EXCEPT ![nextElemPut'] = m]
  /\ ret' = [ret EXCEPT ![s] = "MEM_SUCCESS"]
  /\ inFlight' = inFlight \cup {m}
  /\ pc' = IF receiverWaiting
           THEN [r \in Receivers |-> IF pc[r] = "waiting" THEN "woken" ELSE pc[r]]
           ELSE pc
  /\ UNCHANGED <<nextElemGet, receiverWaiting, lock, got>>

(* The message is stored and, if a receiver may be asleep, all sleepers    *)
(* are woken (pthread_cond_broadcast).                                     *)
Accept(s, m) ==
  /\ nextElemPut = nextElemGet
  /\ queue' = [queue EXCEPT ![nextElemPut] = m]
  /\ nextElemPut' = Bump(nextElemPut)
  /\ ret' = [ret EXCEPT ![s] = "MEM_SUCCESS"]
  /\ inFlight' = inFlight \cup {m}
  /\ pc' = IF receiverWaiting
           THEN [r \in Receivers |-> IF pc[r] = "waiting" THEN "woken" ELSE pc[r]]
           ELSE pc
  /\ UNCHANGED <<nextElemGet, receiverWaiting, lock, got>>

(* The first test holds and its inner tests do not: control leaves the if  *)
(* chain and the function without an unlock and without a return value, so *)
(* the caller reads an arbitrary one.                                      *)
FallOffEnd(s, m) ==
  /\ nextElemPut > nextElemGet
  /\ ~ LooksFull
  /\ lock' = s
  /\ \E v \in {"MEM_SUCCESS", "MEM_ERROR"} :
       /\ ret' = [ret EXCEPT ![s] = v]
       /\ inFlight' = IF v = "MEM_SUCCESS" THEN inFlight \cup {m} ELSE inFlight
  /\ UNCHANGED <<queue, nextElemPut, nextElemGet, receiverWaiting, pc, got>>

(* Message_send, and Message_forward, which only calls it.  A sender sends *)
(* a message it owns.                                                      *)
Message_send(s, m) ==
  /\ lock = NoThread
  /\ m \notin inFlight
  /\ Refuse(s) \/ Accept(s, m) \/ FallOffEnd(s, m)
  /\ turns' = (turns /\ inFlight = {})
-----------------------------------------------------------------------------
(* Message_receive on an empty queue: announce a waiter and sleep.         *)
Wait(r) ==
  /\ nextElemGet = nextElemPut
  /\ receiverWaiting' = TRUE
  /\ pc' = [pc EXCEPT ![r] = "waiting"]
  /\ UNCHANGED <<queue, nextElemPut, nextElemGet, lock, got, ret, inFlight, turns>>

(* Take the oldest message; the statements both receives share.            *)
TakeElem(r) ==
  /\ nextElemGet # nextElemPut
  /\ got' = [got EXCEPT ![r] = queue[nextElemGet]]
  /\ nextElemGet' = Bump(nextElemGet)
  /\ inFlight' = inFlight \ {queue[nextElemGet]}
  /\ UNCHANGED <<queue, nextElemPut, lock, ret, turns>>

(* Bug: a receiver that has been woken does not test the queue again. *)
ReceiveNoRetest(r) ==
  /\ lock = NoThread
  /\ \/ pc[r] = "out" /\ Wait(r)
     \/ /\ pc[r] = "woken" \/ nextElemGet # nextElemPut
        /\ pc[r] \in {"out", "woken"}
        /\ got' = [got EXCEPT ![r] = queue[nextElemGet]]
        /\ nextElemGet' = Bump(nextElemGet)
        /\ inFlight' = inFlight \ {queue[nextElemGet]}
        /\ receiverWaiting' = FALSE
        /\ pc' = [pc EXCEPT ![r] = "out"]
        /\ UNCHANGED <<queue, nextElemPut, lock, ret, turns>>

(* Bug: the flag is cleared by a receiver that goes back to sleep. *)
ReceiveClearsFlag(r) ==
  /\ lock = NoThread
  /\ \/ pc[r] = "out" /\ Wait(r)
     \/ /\ pc[r] = "woken"
        /\ nextElemGet = nextElemPut
        /\ receiverWaiting' = FALSE
        /\ pc' = [pc EXCEPT ![r] = "waiting"]
        /\ UNCHANGED <<queue, nextElemPut, nextElemGet, lock, got, ret, inFlight,
                       turns>>
     \/ /\ pc[r] \in {"out", "woken"}
        /\ TakeElem(r)
        /\ receiverWaiting' = FALSE
        /\ pc' = [pc EXCEPT ![r] = "out"]

(* Message_receive: called by a receiver that is out, or resumed by one    *)
(* that was woken and has got the mutex back.                              *)
Message_receive(r) ==
  /\ lock = NoThread
  /\ pc[r] \in {"out", "woken"}
  /\ \/ Wait(r)
     \/ /\ TakeElem(r)
        /\ receiverWaiting' = FALSE
        /\ pc' = [pc EXCEPT ![r] = "out"]

(* Message_receive_nonblock; on an empty queue it changes nothing.         *)
Message_receive_nonblock(r) ==
  /\ lock = NoThread
  /\ pc[r] = "out"
  /\ TakeElem(r)
  /\ UNCHANGED <<receiverWaiting, pc>>

(* pthread_cond_wait may return without a broadcast. *)
SpuriousWakeup(r) ==
  /\ pc[r] = "waiting"
  /\ pc' = [pc EXCEPT ![r] = "woken"]
  /\ UNCHANGED <<queue, nextElemPut, nextElemGet, receiverWaiting, lock, got, ret,
                 inFlight, turns>>

Receive ==
  \E r \in Receivers :
    Message_receive(r) \/ Message_receive_nonblock(r) \/ SpuriousWakeup(r)

Next == (\E s \in Senders, m \in Messages : Message_send(s, m)) \/ Receive

(* A receiver that is inside Message_receive and may run does run; one     *)
(* that is out keeps calling.                                              *)
Spec == Init /\ [][Next]_vars /\ \A r \in Receivers : WF_vars(Message_receive(r))
-----------------------------------------------------------------------------
(* Type correctness of the ring, its flag, the mutex and the threads. *)
TypeOK ==
  /\ queue \in [Slots -> Messages \cup {NULL}]
  /\ nextElemPut \in Slots
  /\ nextElemGet \in Slots
  /\ receiverWaiting \in BOOLEAN
  /\ lock \in Senders \cup {NoThread}
  /\ pc \in [Receivers -> {"out", "waiting", "woken"}]
  /\ got \in [Receivers -> Messages \cup {NULL}]
  /\ ret \in [Senders -> {"none", "MEM_SUCCESS", "MEM_ERROR"}]
  /\ inFlight \subseteq Messages
  /\ turns \in BOOLEAN

Count ==
  IF nextElemPut >= nextElemGet
  THEN nextElemPut - nextElemGet
  ELSE MESSAGE_QUEUE_SIZE - nextElemGet + nextElemPut

(* The messages in the ring, oldest first. *)
Contents ==
  [k \in 1 .. Count |->
     queue[IF nextElemGet + k - 1 < MESSAGE_QUEUE_SIZE
           THEN nextElemGet + k - 1
           ELSE nextElemGet + k - 1 - MESSAGE_QUEUE_SIZE]]

(* No receiver sleeps through a message: while one waits on queueCV the    *)
(* queue is empty and the flag is up that makes the next send broadcast.   *)
(* One flag serves all receivers, and every receive that succeeds lowers   *)
(* it, also while others sleep.                                            *)
NoLostWakeup ==
  (\E r \in Receivers : pc[r] = "waiting") =>
    receiverWaiting /\ nextElemGet = nextElemPut

(* Message_send stores only into an empty ring, so that the ring of        *)
(* MESSAGE_QUEUE_SIZE slots never holds more than one message.             *)
AtMostOneQueued == Count <= 1

Channel == INSTANCE MessageChannel
             WITH chan <- Contents, Capacity <- MESSAGE_QUEUE_SIZE - 1

(* However Message_send and the receives interleave, the queue is a        *)
(* first-in first-out channel: nothing is duplicated, reordered or         *)
(* delivered to two receivers, also after a sender kept the mutex.         *)
ChannelSpec == Channel!Spec

(* message.c comments both refusals of Message_send with "we're full", and *)
(* the end of a call with "unlock info struct lock" or "now release the    *)
(* lock and return".  At least one of these holds: either no send that     *)
(* returned was refused, the ring being never full (AtMostOneQueued), or   *)
(* every call has released the mutex.                                      *)
SendAsCommented ==
  lock = NoThread \/ \A s \in Senders \ {lock} : ret[s] # "MEM_ERROR"

(* The use under which the queue works: nobody sends while a message is on *)
(* its way, as when every message is a request or the reply to it.  Until  *)
(* somebody has, every call releases the mutex of the queue.               *)
LockReleased == turns => lock = NoThread

(* Until then, too, a message whose sender was told MEM_SUCCESS is in the  *)
(* ring until a receive returns it, and the ring holds no other.           *)
AcceptedIsQueued == turns => inFlight = {Contents[k] : k \in 1 .. Count}

(* A message that Message_send accepted is received, if senders go on      *)
(* taking turns: no receiver is left asleep on queueCV beside it.          *)
Delivered ==
  \A m \in Messages : turns /\ m \in inFlight ~> ~ turns \/ m \notin inFlight

=============================================================================
