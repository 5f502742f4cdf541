------------------------- MODULE MessageQueueProofs -------------------------
(***************************************************************************)
(* Proofs about a message queue, for every size of the ring and every set  *)
(* of threads and messages.                                                *)
(***************************************************************************)
EXTENDS MessageQueue, SequenceTheorems, TLAPS

(* The put cursor is never more than one slot ahead: a send is accepted    *)
(* only where the cursors are equal.                                       *)
OneApart == nextElemPut = nextElemGet \/ nextElemPut = Bump(nextElemGet)

IInv == TypeOK /\ OneApart /\ NoLostWakeup

(* A bumped cursor stays on the ring and moves.                            *)
LEMMA BumpInSlots == \A i \in Slots : Bump(i) \in Slots /\ Bump(i) # i
  BY SizeAssumption DEF Slots, Bump

(* The empty queue, with nobody waiting, satisfies the invariant.          *)
LEMMA InitIInv == Init => IInv
<1> SUFFICES ASSUME Init
             PROVE  IInv
  OBVIOUS
<1>1. 0 \in Slots
  BY SizeAssumption DEF Slots
<1>2. TypeOK
  BY <1>1 DEF Init, TypeOK
<1>3. NoLostWakeup
  BY DEF Init, NoLostWakeup
<1> QED
  BY <1>2, <1>3 DEF Init, IInv, OneApart

(* Every way through Message_send keeps the invariant: where it accepts,   *)
(* it wakes all that sleep, because the flag is up when any does.          *)
LEMMA SendIInv ==
  ASSUME IInv, NEW s \in Senders, NEW m \in Messages, Message_send(s, m)
  PROVE  IInv'
<1>0. turns' \in BOOLEAN
  BY DEF Message_send
<1>1. CASE Refuse(s)
  BY <1>0, <1>1 DEF IInv, Refuse, TypeOK, OneApart, NoLostWakeup, Bump
<1>2. CASE Accept(s, m)
  <2>1. TypeOK'
    BY <1>0, <1>2, BumpInSlots DEF IInv, Accept, TypeOK
  <2>2. OneApart'
    BY <1>2 DEF IInv, Accept, OneApart, Bump
  <2>3. \A r \in Receivers : pc'[r] # "waiting"
    BY <1>2 DEF IInv, Accept, TypeOK, NoLostWakeup
  <2> QED
    BY <2>1, <2>2, <2>3 DEF IInv, NoLostWakeup
<1>3. CASE FallOffEnd(s, m)
  BY <1>0, <1>3 DEF IInv, FallOffEnd, TypeOK, OneApart, NoLostWakeup, Bump
<1> QED
  BY <1>1, <1>2, <1>3 DEF Message_send

(* A receive empties the queue, and nobody slept beside the message.       *)
LEMMA TakeIInv ==
  ASSUME IInv, NEW r \in Receivers, TakeElem(r),
         pc' \in [Receivers -> {"out", "waiting", "woken"}],
         \A w \in Receivers : pc'[w] = "waiting" => pc[w] = "waiting",
         receiverWaiting' \in BOOLEAN
  PROVE  IInv'
<1>1. TypeOK'
  BY BumpInSlots DEF IInv, TakeElem, TypeOK
<1>2. OneApart'
  BY DEF IInv, TakeElem, OneApart
<1>3. NoLostWakeup'
  BY DEF IInv, TakeElem, NoLostWakeup
<1> QED
  BY <1>1, <1>2, <1>3 DEF IInv

(* So do the other steps of the receivers.                                 *)
LEMMA ReceiveIInv == IInv /\ Receive => IInv'
<1> SUFFICES ASSUME IInv, Receive
             PROVE  IInv'
  OBVIOUS
<1>1. ASSUME NEW r \in Receivers, Message_receive(r)
      PROVE  IInv'
  <2>1. CASE Wait(r)
    BY <2>1 DEF IInv, Wait, TypeOK, OneApart, NoLostWakeup, Bump
  <2>2. CASE TakeElem(r) /\ receiverWaiting' = FALSE /\ pc' = [pc EXCEPT ![r] = "out"]
    <3>1. /\ pc' \in [Receivers -> {"out", "waiting", "woken"}]
          /\ \A w \in Receivers : pc'[w] = "waiting" => pc[w] = "waiting"
      BY <2>2 DEF IInv, TypeOK
    <3> QED
      BY <2>2, <3>1, TakeIInv
  <2> QED
    BY <1>1, <2>1, <2>2 DEF Message_receive
<1>2. ASSUME NEW r \in Receivers, Message_receive_nonblock(r)
      PROVE  IInv'
  <2>1. TakeElem(r) /\ pc' = pc /\ receiverWaiting' = receiverWaiting
    BY <1>2 DEF Message_receive_nonblock
  <2>2. pc \in [Receivers -> {"out", "waiting", "woken"}] /\ receiverWaiting \in BOOLEAN
    BY DEF IInv, TypeOK
  <2> QED
    BY <2>1, <2>2, TakeIInv
<1>3. ASSUME NEW r \in Receivers, SpuriousWakeup(r)
      PROVE  IInv'
  BY <1>3 DEF IInv, SpuriousWakeup, TypeOK, OneApart, NoLostWakeup, Bump
<1> QED
  BY <1>1, <1>2, <1>3 DEF Receive

(* A step that changes nothing keeps the invariant.                        *)
LEMMA StutterIInv == IInv /\ UNCHANGED vars => IInv'
  BY DEF IInv, vars, TypeOK, OneApart, NoLostWakeup, Bump

(* The invariant holds in every behaviour of the queue.                    *)
LEMMA Invariance == Spec => []IInv
<1>1. IInv /\ [Next]_vars => IInv'
  BY SendIInv, ReceiveIInv, StutterIInv DEF Next
<1> QED
  BY <1>1, InitIInv, PTL DEF Spec

(* Ring, flag, mutex and threads keep their types. *)
THEOREM TypeCorrect == Spec => []TypeOK
  BY Invariance, PTL DEF IInv

(* No receiver sleeps through a message, though one flag serves them all.  *)
THEOREM NoLostWakeupHolds == Spec => []NoLostWakeup
  BY Invariance, PTL DEF IInv

(* The number of messages is 0 where the cursors meet and 1 elsewhere.     *)
LEMMA CountValue ==
  IInv => Count = IF nextElemPut = nextElemGet THEN 0 ELSE 1
  BY SizeAssumption DEF IInv, TypeOK, OneApart, Count, Bump, Slots

(* The ring never holds more than one message, whatever its size.          *)
THEOREM AtMostOneQueuedHolds == Spec => []AtMostOneQueued
<1>1. IInv => AtMostOneQueued
  BY CountValue DEF AtMostOneQueued
<1> QED
  BY <1>1, Invariance, PTL
-----------------------------------------------------------------------------
(* What the ring holds, as a sequence.                                     *)
LEMMA ContentsValue ==
  IInv => Contents = IF nextElemPut = nextElemGet THEN <<>>
                                                 ELSE <<queue[nextElemGet]>>
<1> SUFFICES ASSUME IInv
             PROVE  Contents = IF nextElemPut = nextElemGet
                               THEN <<>> ELSE <<queue[nextElemGet]>>
  OBVIOUS
<1>1. nextElemGet \in Slots /\ queue[nextElemGet] \in Messages \cup {NULL}
  BY DEF IInv, TypeOK
<1>2. CASE nextElemPut = nextElemGet
  <2>1. Count = 0
    BY <1>2, CountValue
  <2> QED
    BY <1>2, <2>1 DEF Contents
<1>3. CASE nextElemPut # nextElemGet
  <2>1. Count = 1
    BY <1>3, CountValue
  <2>2. Contents = [k \in 1 .. 1 |-> queue[nextElemGet]]
    BY <1>1, <2>1, SizeAssumption DEF Contents, Slots
  <2> QED
    BY <1>3, <2>2
<1> QED
  BY <1>2, <1>3

(* A send puts its message into the channel or leaves it as it was.        *)
LEMMA SendPuts ==
  ASSUME IInv, IInv', NEW s \in Senders, NEW m \in Messages, Message_send(s, m)
  PROVE  Channel!Put(m) \/ UNCHANGED Channel!chanVars
<1>1. CASE Refuse(s) \/ FallOffEnd(s, m)
  BY <1>1 DEF Refuse, FallOffEnd, Channel!chanVars, Contents, Count
<1>2. CASE Accept(s, m)
  <2>1. Contents = <<>>
    BY <1>2, ContentsValue DEF Accept
  <2>2. (Contents = IF nextElemPut = nextElemGet THEN <<>>
                                                 ELSE <<queue[nextElemGet]>>)'
    BY ContentsValue, PTL
  <2>3. nextElemPut' # nextElemGet' /\ queue'[nextElemGet'] = m
    BY <1>2, BumpInSlots DEF IInv, TypeOK, Accept
  <2>4. Len(Contents) < MESSAGE_QUEUE_SIZE - 1
    BY <2>1, SizeAssumption
  <2>5. Contents' = Append(Contents, m)
    BY <2>1, <2>2, <2>3
  <2> QED
    BY <1>2, <2>4, <2>5 DEF Accept, Channel!Put
<1> QED
  BY <1>1, <1>2 DEF Message_send

(* A receive takes the oldest message out of the channel.                  *)
LEMMA TakeGets ==
  ASSUME IInv, IInv', NEW r \in Receivers, TakeElem(r)
  PROVE  Channel!Get(r)
<1>1. Contents = <<queue[nextElemGet]>>
  BY ContentsValue DEF TakeElem
<1>2. nextElemPut' = nextElemGet'
  BY DEF IInv, TakeElem, OneApart
<1>3. (Contents = IF nextElemPut = nextElemGet THEN <<>>
                                               ELSE <<queue[nextElemGet]>>)'
  BY ContentsValue, PTL
<1> QED
  BY <1>1, <1>2, <1>3 DEF TakeElem, Channel!Get

(* The queue implements the first-in first-out channel, from which each    *)
(* message goes to one receiver.                                           *)
THEOREM ImplementsChannel == Spec => ChannelSpec
<1>1. Init => Channel!Init
  BY SizeAssumption DEF Init, Channel!Init, Contents, Count
<1>2. IInv /\ IInv' /\ [Next]_vars => [Channel!Next]_(Channel!chanVars)
  <2> SUFFICES ASSUME IInv, IInv', [Next]_vars
               PROVE  [Channel!Next]_(Channel!chanVars)
    OBVIOUS
  <2>1. ASSUME NEW s \in Senders, NEW m \in Messages, Message_send(s, m)
        PROVE  [Channel!Next]_(Channel!chanVars)
    BY <2>1, SendPuts DEF Channel!Next
  <2>2. ASSUME NEW r \in Receivers, TakeElem(r)
        PROVE  Channel!Next
    BY <2>2, TakeGets DEF Channel!Next
  <2>3. ASSUME NEW r \in Receivers, Wait(r) \/ SpuriousWakeup(r)
        PROVE  UNCHANGED Channel!chanVars
    BY <2>3 DEF Wait, SpuriousWakeup, Channel!chanVars, Contents, Count
  <2>4. CASE UNCHANGED vars
    BY <2>4 DEF vars, Channel!chanVars, Contents, Count
  <2> QED
    BY <2>1, <2>2, <2>3, <2>4
    DEF Next, Receive, Message_receive, Message_receive_nonblock
<1> QED
  BY <1>1, <1>2, Invariance, PTL DEF Spec, ChannelSpec, Channel!Spec
-----------------------------------------------------------------------------
(* What else holds while senders take turns: the mutex is free between two *)
(* calls, the message in the ring is the one that is on its way, and no    *)
(* send has been refused.                                                  *)
Turns ==
  /\ lock = NoThread
  /\ inFlight = IF nextElemPut = nextElemGet THEN {} ELSE {queue[nextElemGet]}
  /\ \A s \in Senders : ret[s] # "MEM_ERROR"

TurnsInv == IInv /\ (turns => Turns)

(* With nothing on its way the cursors are equal, so that Message_send     *)
(* takes neither the refusing nor the lock-keeping path.                   *)
LEMMA SendTurns ==
  ASSUME TurnsInv, NEW s \in Senders, NEW m \in Messages, Message_send(s, m), turns'
  PROVE  Turns'
<1>1. turns /\ inFlight = {}
  BY DEF Message_send
<1>2. nextElemPut = nextElemGet
  BY <1>1 DEF TurnsInv, Turns
<1>3. Accept(s, m)
  BY <1>2 DEF Message_send, Refuse, FallOffEnd, LooksFull, TurnsInv, IInv, TypeOK, Slots
<1>4. nextElemPut' # nextElemGet' /\ queue'[nextElemGet'] = m /\ inFlight' = {m}
  BY <1>1, <1>2, <1>3, BumpInSlots DEF Accept, TurnsInv, IInv, TypeOK
<1>5. \A t \in Senders : ret'[t] # "MEM_ERROR"
  BY <1>1, <1>3 DEF Accept, TurnsInv, Turns, IInv, TypeOK
<1> QED
  BY <1>1, <1>3, <1>4, <1>5 DEF Accept, TurnsInv, Turns

(* A receive that takes the message leaves the ring empty.                 *)
LEMMA ReceiveTurns ==
  ASSUME TurnsInv, Receive, turns'
  PROVE  Turns'
<1>1. ASSUME NEW r \in Receivers, TakeElem(r)
      PROVE  Turns'
  BY <1>1 DEF TakeElem, TurnsInv, Turns, IInv, OneApart
<1>2. ASSUME NEW r \in Receivers, Wait(r) \/ SpuriousWakeup(r)
      PROVE  Turns'
  BY <1>2 DEF Wait, SpuriousWakeup, TurnsInv, Turns
<1> QED
  BY <1>1, <1>2 DEF Receive, Message_receive, Message_receive_nonblock

(* This holds until somebody sends while a message is on its way.          *)
LEMMA TurnsInvariance == Spec => []TurnsInv
<1>1. Init => TurnsInv
  BY InitIInv DEF Init, TurnsInv, Turns
<1>2. TurnsInv /\ IInv' /\ [Next]_vars => TurnsInv'
  <2> SUFFICES ASSUME TurnsInv, IInv', [Next]_vars, turns'
               PROVE  Turns'
    BY DEF TurnsInv
  <2>1. CASE Next
    BY <2>1, SendTurns, ReceiveTurns DEF Next
  <2>2. CASE UNCHANGED vars
    BY <2>2 DEF TurnsInv, Turns, vars
  <2> QED
    BY <2>1, <2>2
<1> QED
  BY <1>1, <1>2, Invariance, PTL DEF Spec

(* While senders take turns, every call releases the mutex of the queue.   *)
THEOREM LockReleasedHolds == Spec => []LockReleased
<1>1. TurnsInv => LockReleased
  BY DEF TurnsInv, Turns, LockReleased
<1> QED
  BY <1>1, TurnsInvariance, PTL

(* While senders take turns, the ring holds just the accepted messages     *)
(* that have not been received.                                            *)
THEOREM AcceptedIsQueuedHolds == Spec => []AcceptedIsQueued
<1>1. TurnsInv => AcceptedIsQueued
  <2> SUFFICES ASSUME TurnsInv, turns
               PROVE  inFlight = {Contents[k] : k \in 1 .. Count}
    BY DEF AcceptedIsQueued
  <2>1. CASE nextElemPut = nextElemGet
    BY <2>1, CountValue DEF TurnsInv, Turns
  <2>2. CASE nextElemPut # nextElemGet
    <3>1. Count = 1 /\ inFlight = {queue[nextElemGet]}
      BY <2>2, CountValue DEF TurnsInv, Turns
    <3>2. Contents[1] = queue[nextElemGet]
      BY <2>2, ContentsValue DEF TurnsInv
    <3> QED
      BY <3>1, <3>2
  <2> QED
    BY <2>1, <2>2
<1> QED
  BY <1>1, TurnsInvariance, PTL

(* While senders take turns, no Message_send is refused, at whatever slots *)
(* of the ring the cursors stand: the code's test for a full ring goes     *)
(* wrong only while a message is queued.                                   *)
THEOREM NoneRefusedInTurns ==
  Spec => [](turns => \A s \in Senders : ret[s] # "MEM_ERROR")
<1>1. TurnsInv => (turns => \A s \in Senders : ret[s] # "MEM_ERROR")
  BY DEF TurnsInv, Turns
<1> QED
  BY <1>1, TurnsInvariance, PTL

=============================================================================
