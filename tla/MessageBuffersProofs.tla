------------------------ MODULE MessageBuffersProofs ------------------------
(***************************************************************************)
(* Proofs about the buffer ring, for every number of buffers and every set *)
(* of callers.                                                             *)
(***************************************************************************)
EXTENDS MessageBuffers, FiniteSetTheorems, SequenceTheorems, TLAPS

(* The slots the two cursors delimit, from nextMsgFree up to lastMsgFree   *)
(* around the ring; where they meet, slot nextMsgFree tells full from empty. *)
Occupied(i) ==
  IF nextMsgFree < lastMsgFree THEN nextMsgFree <= i /\ i < lastMsgFree
  ELSE IF nextMsgFree > lastMsgFree THEN nextMsgFree <= i \/ i < lastMsgFree
  ELSE msgFreeList[nextMsgFree] # NULL

(* Exactly the slots between the cursors hold a buffer. *)
RingInv == \A i \in Slots : msgFreeList[i] # NULL <=> Occupied(i)

IInv == TypeOK /\ RingInv /\ EachBufferOnce /\ NeverCorrupt

(* A cursor stays on the ring. *)
LEMMA AdvanceInSlots == \A i \in Slots : Advance(i) \in Slots
  BY MaxMsgAssumption DEF Slots, Advance

(* The initial ring is full and in order. *)
LEMMA InitIInv == Init => IInv
  BY MaxMsgAssumption, NullAssumption, LengthsAssumption
  DEF Init, messageBuffers_init, IInv, TypeOK, RingInv, Occupied,
      EachBufferOnce, NeverCorrupt, Slots, Buffers

(* The slot a release stores to is empty while a caller holds a buffer:    *)
(* otherwise MAX_MSG slots would hold different buffers of the remaining   *)
(* MAX_MSG - 1 (pigeonhole).                                               *)
LEMMA ReleaseSlotEmpty ==
  ASSUME IInv, NEW c \in Clients, NEW m \in held[c]
  PROVE  msgFreeList[lastMsgFree] = NULL
<1> SUFFICES ASSUME msgFreeList[lastMsgFree] # NULL
             PROVE  FALSE
  OBVIOUS
<1>1. \A i \in Slots : msgFreeList[i] # NULL
  BY MaxMsgAssumption DEF IInv, TypeOK, RingInv, Occupied, Slots
<1>2. m \in Buffers /\ \A i \in Slots : msgFreeList[i] # m
  BY DEF IInv, TypeOK, EachBufferOnce
<1>3. msgFreeList \in [Slots -> Buffers \ {m}]
  BY <1>1, <1>2 DEF IInv, TypeOK
<1>4. IsFiniteSet(Slots) /\ Cardinality(Slots) = MAX_MSG
  <2>1. 0 \in Int /\ MAX_MSG - 1 \in Int
    BY MaxMsgAssumption
  <2> QED
    BY <2>1, FS_Interval, MaxMsgAssumption DEF Slots
<1>5. /\ IsFiniteSet(Buffers \ {m})
      /\ Cardinality(Buffers \ {m}) = MAX_MSG - 1
  BY <1>2, <1>4, FS_RemoveElement DEF Slots, Buffers
<1>6. Cardinality(Buffers \ {m}) < Cardinality(Slots)
  BY <1>4, <1>5, MaxMsgAssumption
<1>7. \E i, j \in Slots : i # j /\ msgFreeList[i] = msgFreeList[j]
  BY <1>3, <1>4, <1>5, <1>6, FS_PigeonHole
<1> QED
  BY <1>1, <1>7 DEF IInv, EachBufferOnce

(* Taking the buffer under nextMsgFree keeps the invariant. *)
LEMMA AllocateIInv ==
  ASSUME IInv, NEW c \in Clients, messageBuffers_allocate(c)
  PROVE  IInv'
<1>1. PICK m \in Buffers :
        /\ TakeSlot(m)
        /\ dlen' = [dlen EXCEPT ![m] = 0]
        /\ held' = [held EXCEPT ![c] = @ \cup {m}]
  BY DEF messageBuffers_allocate
<1>2. TypeOK'
  BY <1>1, AdvanceInSlots, LengthsAssumption DEF IInv, TypeOK, TakeSlot
<1>3. RingInv'
  BY <1>1, MaxMsgAssumption, NullAssumption
  DEF IInv, TypeOK, TakeSlot, RingInv, Occupied, Advance, Slots
<1>4. EachBufferOnce'
  <2>1. \A d \in Clients : m \notin held[d]
    BY <1>1 DEF IInv, TypeOK, TakeSlot, EachBufferOnce
  <2>2. (\A i, j \in Slots :
          msgFreeList[i] # NULL /\ msgFreeList[i] = msgFreeList[j] => i = j)'
    BY <1>1 DEF IInv, TypeOK, TakeSlot, EachBufferOnce
  <2>3. (\A d, e \in Clients : d # e => held[d] \cap held[e] = {})'
    BY <1>1, <2>1 DEF IInv, TypeOK, EachBufferOnce
  <2>4. ASSUME NEW b \in Buffers
        PROVE  ((\E i \in Slots : msgFreeList[i] = b)
                  <=> (\A d \in Clients : b \notin held[d]))'
    <3>1. CASE b = m
      BY <1>1, <2>1, <3>1, NullAssumption DEF IInv, TypeOK, TakeSlot, EachBufferOnce
    <3>2. CASE b # m
      BY <1>1, <2>1, <3>2, NullAssumption DEF IInv, TypeOK, TakeSlot, EachBufferOnce
    <3> QED
      BY <3>1, <3>2
  <2> QED
    BY <2>2, <2>3, <2>4 DEF EachBufferOnce
<1>5. NeverCorrupt'
  BY <1>1 DEF IInv, NeverCorrupt, TakeSlot
<1> QED
  BY <1>2, <1>3, <1>4, <1>5 DEF IInv

(* Storing a held buffer under lastMsgFree keeps the invariant. *)
LEMMA ReleaseIInv ==
  ASSUME IInv, NEW c \in Clients, NEW m \in Buffers, messageBuffers_release(c, m)
  PROVE  IInv'
<1>1. m \in held[c] /\ held' = [held EXCEPT ![c] = @ \ {m}] /\ dlen' = dlen
  BY DEF messageBuffers_release
<1>2. msgFreeList[lastMsgFree] = NULL
  BY <1>1, ReleaseSlotEmpty
<1>3. /\ msgFreeList' = [msgFreeList EXCEPT ![lastMsgFree] = m]
      /\ lastMsgFree' = Advance(lastMsgFree)
      /\ nextMsgFree' = nextMsgFree
      /\ freeListCorrupt' = freeListCorrupt
  BY <1>2 DEF messageBuffers_release, PutSlot
<1>4. TypeOK'
  BY <1>1, <1>3, AdvanceInSlots DEF IInv, TypeOK
<1>5. RingInv'
  BY <1>2, <1>3, MaxMsgAssumption, NullAssumption
  DEF IInv, TypeOK, RingInv, Occupied, Advance, Slots, Buffers
<1>6. EachBufferOnce'
  <2>1. \A i \in Slots : msgFreeList[i] # m
    BY <1>1 DEF IInv, TypeOK, EachBufferOnce
  <2>2. (\A i, j \in Slots :
          msgFreeList[i] # NULL /\ msgFreeList[i] = msgFreeList[j] => i = j)'
    BY <1>3, <2>1 DEF IInv, TypeOK, EachBufferOnce
  <2>3. (\A d, e \in Clients : d # e => held[d] \cap held[e] = {})'
    BY <1>1 DEF IInv, TypeOK, EachBufferOnce
  <2>4. ASSUME NEW b \in Buffers
        PROVE  ((\E i \in Slots : msgFreeList[i] = b)
                  <=> (\A d \in Clients : b \notin held[d]))'
    <3>1. CASE b = m
      BY <1>1, <1>3, <3>1 DEF IInv, TypeOK, EachBufferOnce
    <3>2. CASE b # m
      BY <1>1, <1>2, <1>3, <3>2, NullAssumption DEF IInv, TypeOK, EachBufferOnce
    <3> QED
      BY <3>1, <3>2
  <2> QED
    BY <2>2, <2>3, <2>4 DEF EachBufferOnce
<1>7. NeverCorrupt'
  BY <1>3 DEF IInv, NeverCorrupt
<1> QED
  BY <1>4, <1>5, <1>6, <1>7 DEF IInv

(* Every step of the allocator and its callers keeps the invariant. *)
LEMMA NextIInv == IInv /\ [Next]_vars => IInv'
<1> SUFFICES ASSUME IInv, [Next]_vars
             PROVE  IInv'
  OBVIOUS
<1>1. ASSUME NEW c \in Clients, messageBuffers_allocate(c)
      PROVE  IInv'
  BY <1>1, AllocateIInv
<1>2. ASSUME NEW c \in Clients, NEW m \in Buffers, messageBuffers_release(c, m)
      PROVE  IInv'
  BY <1>2, ReleaseIInv
<1>3. ASSUME NEW c \in Clients, NEW m \in Buffers, Fill(c, m)
      PROVE  IInv'
  BY <1>3 DEF Fill, IInv, TypeOK, RingInv, Occupied, EachBufferOnce, NeverCorrupt
<1>4. CASE UNCHANGED vars
  BY <1>4 DEF vars, IInv, TypeOK, RingInv, Occupied, EachBufferOnce, NeverCorrupt
<1> QED
  BY <1>1, <1>2, <1>3, <1>4 DEF Next

(* The inductive invariant holds in every state. *)
LEMMA Invariance == Spec => []IInv
  BY InitIInv, NextIInv, PTL DEF Spec

(* messageBuffers.c keeps its ring and cursors well typed. *)
THEOREM TypeCorrect == Spec => []TypeOK
  BY Invariance, PTL DEF IInv

(* No buffer is lost by messageBuffers_release or handed out twice by      *)
(* messageBuffers_allocate.                                                *)
THEOREM EachBufferOnceHolds == Spec => []EachBufferOnce
  BY Invariance, PTL DEF IInv

(* The corruption branch of messageBuffers_release is never taken.         *)
THEOREM NeverCorruptHolds == Spec => []NeverCorrupt
  BY Invariance, PTL DEF IInv

(* messageBuffers_allocate returns NULL only when all buffers are held.    *)
THEOREM RefusedOnlyWhenEmptyHolds == Spec => []RefusedOnlyWhenEmpty
<1>1. IInv => RefusedOnlyWhenEmpty
  <2> SUFFICES ASSUME IInv, msgFreeList[nextMsgFree] = NULL, NEW m \in Buffers
               PROVE  \E c \in Clients : m \in held[c]
    BY DEF RefusedOnlyWhenEmpty
  <2>1. \A i \in Slots : msgFreeList[i] = NULL
    BY MaxMsgAssumption DEF IInv, TypeOK, RingInv, Occupied, Slots
  <2>2. \A i \in Slots : msgFreeList[i] # m
    BY <2>1, NullAssumption
  <2> QED
    BY <2>2 DEF IInv, EachBufferOnce
<1> QED
  BY <1>1, Invariance, PTL

(* A buffer handed out by messageBuffers_allocate is nobody's and empty.   *)
THEOREM FreshBufferHolds == Spec => FreshBuffer
<1> DEFINE Fresh == \A c \in Clients : \A m \in held'[c] \ held[c] :
                      dlen'[m] = 0 /\ \A d \in Clients : m \notin held[d]
<1>1. IInv /\ [Next]_vars => [Fresh]_vars
  <2> SUFFICES ASSUME IInv, [Next]_vars
               PROVE  [Fresh]_vars
    OBVIOUS
  <2>1. ASSUME NEW c \in Clients, messageBuffers_allocate(c)
        PROVE  Fresh
    BY <2>1 DEF messageBuffers_allocate, TakeSlot, IInv, TypeOK, EachBufferOnce
  <2>2. ASSUME NEW c \in Clients, NEW m \in Buffers, messageBuffers_release(c, m)
        PROVE  Fresh
    BY <2>2 DEF messageBuffers_release, IInv, TypeOK
  <2>3. ASSUME NEW c \in Clients, NEW m \in Buffers, Fill(c, m)
        PROVE  Fresh
    BY <2>3 DEF Fill
  <2> QED
    BY <2>1, <2>2, <2>3 DEF Next
<1>2. [Fresh]_vars <=> [\A c \in Clients : \A m \in held'[c] \ held[c] :
                          dlen'[m] = 0 /\ \A d \in Clients : m \notin held[d]]_vars
  OBVIOUS
<1> QED
  BY <1>1, Invariance, PTL DEF Spec, FreshBuffer

(* The slots that hold a buffer, counted along the ring. *)
LEMMA OccupiedCount ==
  ASSUME IInv
  PROVE  FreeCntExact
<1> DEFINE Full == {i \in Slots : msgFreeList[i] # NULL}
<1>1. /\ MAX_MSG \in Int /\ MAX_MSG > 0
      /\ nextMsgFree \in 0 .. MAX_MSG - 1 /\ lastMsgFree \in 0 .. MAX_MSG - 1
  BY MaxMsgAssumption DEF IInv, TypeOK, Slots
<1>2. Full = {i \in Slots : Occupied(i)}
  BY DEF IInv, RingInv
<1>3. CASE nextMsgFree < lastMsgFree
  <2>1. Full = nextMsgFree .. lastMsgFree - 1
    BY <1>1, <1>2, <1>3 DEF Occupied, Slots
  <2>2. Cardinality(nextMsgFree .. lastMsgFree - 1) = lastMsgFree - nextMsgFree
    BY <1>1, <1>3, FS_Interval
  <2> QED
    BY <1>3, <2>1, <2>2 DEF FreeCnt, FreeCntExact
<1>4. CASE nextMsgFree > lastMsgFree
  <2> DEFINE High == nextMsgFree .. MAX_MSG - 1
             Low == 0 .. lastMsgFree - 1
  <2>1. Full = High \cup Low /\ High \cap Low = {}
    BY <1>1, <1>2, <1>4 DEF Occupied, Slots
  <2>2. IsFiniteSet(High) /\ Cardinality(High) = MAX_MSG - nextMsgFree
    BY <1>1, FS_Interval
  <2>3. IsFiniteSet(Low) /\ Cardinality(Low) = lastMsgFree
    BY <1>1, FS_Interval
  <2>4. Cardinality(Full) = MAX_MSG - nextMsgFree + lastMsgFree
    <3> HIDE DEF Full, High, Low
    <3>1. Cardinality(High \cap Low) = 0
      BY <2>1, FS_EmptySet
    <3>2. Cardinality(High \cup Low)
            = Cardinality(High) + Cardinality(Low) - Cardinality(High \cap Low)
      BY <2>2, <2>3, FS_Union
    <3> QED
      BY <1>1, <2>1, <2>2, <2>3, <3>1, <3>2
  <2> QED
    BY <1>4, <1>1, <2>4 DEF FreeCnt, FreeCntExact
<1>5. CASE nextMsgFree = lastMsgFree
  <2>1. CASE msgFreeList[nextMsgFree] = NULL
    <3>1. Full = {}
      BY <1>1, <1>2, <1>5, <2>1 DEF Occupied
    <3>2. FreeCnt = 0
      BY <1>1, <1>5, <2>1 DEF FreeCnt
    <3> QED
      BY <3>1, <3>2, FS_EmptySet DEF FreeCntExact
  <2>2. CASE msgFreeList[nextMsgFree] # NULL
    <3>1. Full = 0 .. MAX_MSG - 1
      BY <1>1, <1>2, <1>5, <2>2 DEF Occupied, Slots
    <3>2. Cardinality(0 .. MAX_MSG - 1) = MAX_MSG
      BY <1>1, FS_Interval
    <3>3. FreeCnt = MAX_MSG
      BY <1>1, <1>5, <2>2 DEF FreeCnt
    <3> QED
      BY <3>1, <3>2, <3>3 DEF FreeCntExact
  <2> QED
    BY <2>1, <2>2
<1> QED
  BY <1>1, <1>3, <1>4, <1>5

(* messageBuffers_freeCnt is exact. *)
THEOREM FreeCntExactHolds == Spec => []FreeCntExact
  BY Invariance, OccupiedCount, PTL
-----------------------------------------------------------------------------
(* The ring as a queue: FreeQueue lists FreeCnt buffers.                   *)
LEMMA FreeQueueSeq ==
  IInv => /\ FreeCnt \in 0 .. MAX_MSG
          /\ FreeQueue \in Seq(Buffers)
          /\ Len(FreeQueue) = FreeCnt
<1> SUFFICES ASSUME IInv
             PROVE  /\ FreeCnt \in 0 .. MAX_MSG
                    /\ FreeQueue \in Seq(Buffers)
                    /\ Len(FreeQueue) = FreeCnt
  OBVIOUS
<1>1. FreeCnt \in 0 .. MAX_MSG
  BY MaxMsgAssumption DEF IInv, TypeOK, Slots, FreeCnt
<1>2. ASSUME NEW k \in 1 .. FreeCnt
      PROVE  FreeQueue[k] \in Buffers
  <2> DEFINE i == IF nextMsgFree + k - 1 < MAX_MSG
                  THEN nextMsgFree + k - 1
                  ELSE nextMsgFree + k - 1 - MAX_MSG
  <2>1. i \in Slots /\ Occupied(i)
    BY <1>1, MaxMsgAssumption DEF IInv, TypeOK, Slots, FreeCnt, Occupied
  <2> QED
    BY <2>1 DEF FreeQueue, IInv, TypeOK, RingInv
<1> QED
  BY <1>1, <1>2 DEF FreeQueue

(* The ring starts as the pool does: full, each buffer once. *)
LEMMA PoolInit == Init => Pool!Init
<1> SUFFICES ASSUME Init
             PROVE  Pool!Init
  OBVIOUS
<1>1. IInv
  BY InitIInv
<1>2. FreeCnt = MAX_MSG /\ Len(FreeQueue) = MAX_MSG /\ FreeQueue \in Seq(Buffers)
  BY <1>1, FreeQueueSeq, MaxMsgAssumption, NullAssumption
  DEF Init, messageBuffers_init, FreeCnt, Slots, Buffers
<1>3. \A k \in 1 .. MAX_MSG : FreeQueue[k] = k - 1
  BY <1>2, MaxMsgAssumption DEF FreeQueue, Init, messageBuffers_init, Slots
<1>4. {FreeQueue[k] : k \in 1 .. MAX_MSG} = Buffers
  BY <1>3, MaxMsgAssumption DEF Buffers
<1> QED
  BY <1>2, <1>3, <1>4 DEF Pool!Init, Pool!FreeSet, Init

(* An allocation takes the head of the queue. *)
LEMMA AllocateTakes ==
  ASSUME IInv, IInv', NEW c \in Clients, messageBuffers_allocate(c)
  PROVE  Pool!Take(c)
<1>1. PICK m \in Buffers :
        TakeSlot(m) /\ held' = [held EXCEPT ![c] = @ \cup {m}]
  BY DEF messageBuffers_allocate
<1>2. /\ FreeCnt \in 0 .. MAX_MSG /\ FreeQueue \in Seq(Buffers)
      /\ Len(FreeQueue) = FreeCnt
  BY FreeQueueSeq
<1>3. (/\ FreeCnt \in 0 .. MAX_MSG /\ FreeQueue \in Seq(Buffers)
       /\ Len(FreeQueue) = FreeCnt)'
  BY FreeQueueSeq, PTL
<1>4. FreeCnt > 0 /\ FreeCnt' = FreeCnt - 1
  <2>1. /\ MAX_MSG \in Int /\ MAX_MSG > 0
        /\ nextMsgFree \in 0 .. MAX_MSG - 1 /\ lastMsgFree \in 0 .. MAX_MSG - 1
    BY MaxMsgAssumption DEF IInv, TypeOK, Slots
  <2>2. /\ msgFreeList[nextMsgFree] # NULL
        /\ lastMsgFree' = lastMsgFree
        /\ nextMsgFree' = IF nextMsgFree + 1 >= MAX_MSG THEN 0 ELSE nextMsgFree + 1
    BY <1>1 DEF TakeSlot, Advance
  <2>3. nextMsgFree' = lastMsgFree' => msgFreeList'[nextMsgFree'] = NULL
    <3>1. CASE nextMsgFree = lastMsgFree
      BY <1>1, <2>1, <2>2, <3>1 DEF TakeSlot, IInv, TypeOK, Slots
    <3>2. CASE nextMsgFree # lastMsgFree
      <4>1. msgFreeList[lastMsgFree] = NULL
        BY <2>1, <3>2 DEF IInv, RingInv, Occupied, Slots
      <4> QED
        BY <1>1, <2>1, <2>2, <3>2, <4>1 DEF TakeSlot, IInv, TypeOK, Slots
    <3> QED
      BY <3>1, <3>2
  <2>4. CASE nextMsgFree < lastMsgFree
    BY <2>1, <2>2, <2>3, <2>4 DEF FreeCnt
  <2>5. CASE nextMsgFree > lastMsgFree
    BY <2>1, <2>2, <2>3, <2>5 DEF FreeCnt
  <2>6. CASE nextMsgFree = lastMsgFree
    BY <2>1, <2>2, <2>3, <2>6 DEF FreeCnt
  <2> QED
    BY <2>1, <2>4, <2>5, <2>6
<1>5. FreeQueue[1] = m
  BY <1>1, <1>2, <1>4, MaxMsgAssumption DEF FreeQueue, IInv, TypeOK, TakeSlot, Slots
<1>6. ASSUME NEW k \in 1 .. FreeCnt'
      PROVE  FreeQueue'[k] = FreeQueue[k + 1]
  <2> DEFINE i == IF nextMsgFree + k < MAX_MSG
                  THEN nextMsgFree + k
                  ELSE nextMsgFree + k - MAX_MSG
  <2>1. k \in Int /\ 1 <= k /\ k <= FreeCnt - 1 /\ FreeCnt <= MAX_MSG
    BY <1>2, <1>4
  <2>2. i \in Slots /\ i # nextMsgFree
    BY <1>2, <2>1, MaxMsgAssumption DEF IInv, TypeOK, Slots
  <2>3. FreeQueue[k + 1] = msgFreeList[i]
    BY <1>2, <2>1, MaxMsgAssumption DEF FreeQueue, IInv, TypeOK, Slots
  <2>4. FreeQueue'[k] = msgFreeList'[i]
    <3>1. nextMsgFree' = IF nextMsgFree + 1 >= MAX_MSG THEN 0 ELSE nextMsgFree + 1
      BY <1>1 DEF TakeSlot, Advance
    <3>2. i = IF nextMsgFree' + k - 1 < MAX_MSG
              THEN nextMsgFree' + k - 1
              ELSE nextMsgFree' + k - 1 - MAX_MSG
      BY <1>2, <2>1, <3>1, MaxMsgAssumption DEF IInv, TypeOK, Slots
    <3> HIDE DEF i
    <3> QED
      BY <1>6, <3>2 DEF FreeQueue
  <2>5. msgFreeList'[i] = msgFreeList[i]
    BY <1>1, <2>2 DEF IInv, TypeOK, TakeSlot
  <2> QED
    BY <2>3, <2>4, <2>5
<1>7. FreeQueue' = Tail(FreeQueue)
  <2>1. /\ Tail(FreeQueue) \in Seq(Buffers)
        /\ Len(Tail(FreeQueue)) = FreeCnt - 1
        /\ \A k \in 1 .. FreeCnt - 1 : Tail(FreeQueue)[k] = FreeQueue[k + 1]
    BY <1>2, <1>4
  <2>2. FreeQueue' \in Seq(Buffers')
    BY <1>3
  <2> QED
    BY <1>3, <1>4, <1>6, <2>1, <2>2, SeqEqual DEF Buffers
<1>8. FreeQueue # <<>> /\ Head(FreeQueue) = m
  BY <1>2, <1>4, <1>5
<1> QED
  BY <1>1, <1>7, <1>8 DEF Pool!Take

(* A release appends to the queue. *)
LEMMA ReleaseGivesBack ==
  ASSUME IInv, IInv', NEW c \in Clients, NEW m \in Buffers,
         messageBuffers_release(c, m)
  PROVE  Pool!GiveBack(c, m)
<1>1. m \in held[c] /\ held' = [held EXCEPT ![c] = @ \ {m}]
  BY DEF messageBuffers_release
<1>2. msgFreeList[lastMsgFree] = NULL
  BY <1>1, ReleaseSlotEmpty
<1>3. /\ msgFreeList' = [msgFreeList EXCEPT ![lastMsgFree] = m]
      /\ lastMsgFree' = Advance(lastMsgFree)
      /\ nextMsgFree' = nextMsgFree
  BY <1>2 DEF messageBuffers_release, PutSlot
<1>4. /\ FreeCnt \in 0 .. MAX_MSG /\ FreeQueue \in Seq(Buffers)
      /\ Len(FreeQueue) = FreeCnt
  BY FreeQueueSeq
<1>5. (/\ FreeCnt \in 0 .. MAX_MSG /\ FreeQueue \in Seq(Buffers)
       /\ Len(FreeQueue) = FreeCnt)'
  BY FreeQueueSeq, PTL
<1>6. FreeCnt' = FreeCnt + 1
  BY <1>2, <1>3, MaxMsgAssumption, NullAssumption
  DEF IInv, TypeOK, RingInv, Occupied, FreeCnt, Advance, Slots, Buffers
<1>7. ASSUME NEW k \in 1 .. FreeCnt
      PROVE  FreeQueue'[k] = FreeQueue[k]
  <2> DEFINE i == IF nextMsgFree + k - 1 < MAX_MSG
                  THEN nextMsgFree + k - 1
                  ELSE nextMsgFree + k - 1 - MAX_MSG
  <2>1. i \in Slots /\ msgFreeList[i] # NULL
    BY <1>4, MaxMsgAssumption DEF IInv, TypeOK, RingInv, Slots, FreeCnt, Occupied
  <2>2. i # lastMsgFree
    BY <1>2, <2>1
  <2> QED
    BY <1>3, <1>4, <1>6, <2>1, <2>2, MaxMsgAssumption
    DEF FreeQueue, IInv, TypeOK, Slots
<1>8. FreeQueue'[FreeCnt + 1] = m
  BY <1>2, <1>3, <1>4, <1>6, MaxMsgAssumption
  DEF FreeQueue, FreeCnt, IInv, TypeOK, Slots
<1>9. FreeQueue' = Append(FreeQueue, m)
  <2>1. /\ Append(FreeQueue, m) \in Seq(Buffers)
        /\ Len(Append(FreeQueue, m)) = FreeCnt + 1
        /\ \A k \in 1 .. FreeCnt : Append(FreeQueue, m)[k] = FreeQueue[k]
        /\ Append(FreeQueue, m)[FreeCnt + 1] = m
    BY <1>4
  <2>2. FreeQueue' \in Seq(Buffers')
    BY <1>5
  <2> QED
    BY <1>4, <1>5, <1>6, <1>7, <1>8, <2>1, <2>2, SeqEqual DEF Buffers
<1> QED
  BY <1>1, <1>9 DEF Pool!GiveBack

(* The ring of messageBuffers.c implements the first-in first-out pool.    *)
THEOREM ImplementsPool == Spec => PoolSpec
<1>1. IInv /\ IInv' /\ [Next]_vars => [Pool!Next]_(Pool!poolVars)
  <2> SUFFICES ASSUME IInv, IInv', [Next]_vars
               PROVE  [Pool!Next]_(Pool!poolVars)
    OBVIOUS
  <2>1. ASSUME NEW c \in Clients, messageBuffers_allocate(c)
        PROVE  Pool!Next
    BY <2>1, AllocateTakes DEF Pool!Next
  <2>2. ASSUME NEW c \in Clients, NEW m \in Buffers, messageBuffers_release(c, m)
        PROVE  Pool!Next
    BY <2>2, ReleaseGivesBack DEF Pool!Next
  <2>3. ASSUME NEW c \in Clients, NEW m \in Buffers, Fill(c, m)
        PROVE  UNCHANGED Pool!poolVars
    BY <2>3 DEF Fill, Pool!poolVars, FreeQueue, FreeCnt
  <2>4. CASE UNCHANGED vars
    BY <2>4 DEF vars, Pool!poolVars, FreeQueue, FreeCnt
  <2> QED
    BY <2>1, <2>2, <2>3, <2>4 DEF Next
<1> QED
  BY <1>1, PoolInit, Invariance, PTL DEF Spec, PoolSpec, Pool!Spec

=============================================================================
