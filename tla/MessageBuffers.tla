--------------------------- MODULE MessageBuffers ---------------------------
(***************************************************************************)
(* The pool of message buffers of private/message/messageBuffers.c: a ring *)
(* of MAX_MSG slots that hold pointers to free buffers, the cursor         *)
(* nextMsgFree where the next allocation looks and the cursor lastMsgFree  *)
(* where the next release stores.  Every function of the file runs between *)
(* pthread_mutex_lock and pthread_mutex_unlock of the one msgBuffersMutex, *)
(* so a call is one step.                                                  *)
(*                                                                         *)
(* Buffer i is &msgHdr[i]; its data area is msgData[i] for ever, so a      *)
(* buffer is its index and only its length field is state here.  The       *)
(* callers follow the rule recvMsg and sendMsg follow: a caller writes and *)
(* releases only a buffer that it got from an allocation and has not       *)
(* released since (held).                                                  *)
(***************************************************************************)
EXTENDS Integers, FiniteSets

CONSTANTS
  MAX_MSG,   (* number of buffers and of ring slots, 16 in the code *)
  Clients,   (* threads that call the allocator                     *)
  NULL,      (* the null pointer                                    *)
  Lengths    (* values a caller may leave in a buffer's length      *)

Slots == 0 .. MAX_MSG - 1
Buffers == 0 .. MAX_MSG - 1

ASSUME MaxMsgAssumption == MAX_MSG \in Nat \ {0}
ASSUME NullAssumption == NULL \notin Buffers
ASSUME LengthsAssumption == 0 \in Lengths

VARIABLES
  msgFreeList,       (* the ring: a free buffer or NULL in each slot    *)
  nextMsgFree,       (* slot the next allocation takes from             *)
  lastMsgFree,       (* slot the next release stores to                 *)
  freeListCorrupt,   (* releases that found their slot occupied         *)
  dlen,              (* the length field of each buffer's header        *)
  held               (* held[c]: allocated by c and not yet released    *)

ringVars == <<msgFreeList, nextMsgFree, lastMsgFree, freeListCorrupt>>
vars == <<msgFreeList, nextMsgFree, lastMsgFree, freeListCorrupt, dlen, held>>

messageBuffers_init ==
  /\ msgFreeList = [i \in Slots |-> i]
  /\ nextMsgFree = 0
  /\ lastMsgFree = 0

Init ==
  /\ messageBuffers_init
  /\ freeListCorrupt = 0
  /\ dlen = [m \in Buffers |-> 0]
  /\ held = [c \in Clients |-> {}]

(* Bug: the cursor is compared with > and runs one slot past the ring's end. *)
AdvanceTooFar(i) == IF i + 1 > MAX_MSG THEN 0 ELSE i + 1

(* Bug: the cursor turns back one slot early and the last slot is skipped. *)
AdvanceEarly(i) == IF i + 2 >= MAX_MSG THEN 0 ELSE i + 1

(* A cursor moved to the next slot, back to 0 at the end of the ring. *)
Advance(i) == IF i + 1 >= MAX_MSG THEN 0 ELSE i + 1
-----------------------------------------------------------------------------
(* Bug: the slot is not cleared, so the buffer stays in the ring. *)
TakeSlotNotCleared(m) ==
  /\ m = msgFreeList[nextMsgFree]
  /\ m # NULL
  /\ nextMsgFree' = Advance(nextMsgFree)
  /\ UNCHANGED <<msgFreeList, lastMsgFree, freeListCorrupt>>

(* The ring's part of messageBuffers_allocate when it returns buffer m.  A *)
(* call that finds NULL in the slot returns NULL and changes nothing.      *)
TakeSlot(m) ==
  /\ m = msgFreeList[nextMsgFree]
  /\ m # NULL
  /\ msgFreeList' = [msgFreeList EXCEPT ![nextMsgFree] = NULL]
  /\ nextMsgFree' = Advance(nextMsgFree)
  /\ UNCHANGED <<lastMsgFree, freeListCorrupt>>

(* Bug: the release pushes the buffer in front of the next allocation. *)
PutSlotLifo(m) ==
  LET top == IF nextMsgFree = 0 THEN MAX_MSG - 1 ELSE nextMsgFree - 1
  IN  /\ msgFreeList' = [msgFreeList EXCEPT ![top] = m]
      /\ nextMsgFree' = top
      /\ UNCHANGED <<lastMsgFree, freeListCorrupt>>

(* Bug: the release forgets to move its cursor. *)
PutSlotCursorStays(m) ==
  IF msgFreeList[lastMsgFree] = NULL
  THEN /\ msgFreeList' = [msgFreeList EXCEPT ![lastMsgFree] = m]
       /\ UNCHANGED <<nextMsgFree, lastMsgFree, freeListCorrupt>>
  ELSE /\ freeListCorrupt' = freeListCorrupt + 1
       /\ UNCHANGED <<msgFreeList, nextMsgFree, lastMsgFree>>

(* The ring's part of messageBuffers_release: an occupied slot is counted  *)
(* as a corruption and the buffer dropped.                                 *)
PutSlot(m) ==
  IF msgFreeList[lastMsgFree] = NULL
  THEN /\ msgFreeList' = [msgFreeList EXCEPT ![lastMsgFree] = m]
       /\ lastMsgFree' = Advance(lastMsgFree)
       /\ UNCHANGED <<nextMsgFree, freeListCorrupt>>
  ELSE /\ freeListCorrupt' = freeListCorrupt + 1
       /\ UNCHANGED <<msgFreeList, nextMsgFree, lastMsgFree>>

(* Bug: the count ignores the wrap of the release cursor. *)
FreeCntNoWrap ==
  IF nextMsgFree = lastMsgFree
  THEN IF msgFreeList[nextMsgFree] = NULL THEN 0 ELSE MAX_MSG
  ELSE IF nextMsgFree < lastMsgFree
       THEN lastMsgFree - nextMsgFree
       ELSE nextMsgFree - lastMsgFree

(* messageBuffers_freeCnt: the number of free buffers, from the cursors. *)
FreeCnt ==
  IF nextMsgFree < lastMsgFree THEN lastMsgFree - nextMsgFree
  ELSE IF nextMsgFree > lastMsgFree THEN MAX_MSG - nextMsgFree + lastMsgFree
  ELSE IF msgFreeList[nextMsgFree] = NULL THEN 0 ELSE MAX_MSG
-----------------------------------------------------------------------------
(* Bug: the allocation hands out the buffer with the length of its last use. *)
AllocateKeepsLength(c) ==
  \E m \in Buffers :
    /\ TakeSlot(m)
    /\ held' = [held EXCEPT ![c] = @ \cup {m}]
    /\ UNCHANGED dlen

messageBuffers_allocate(c) ==
  \E m \in Buffers :
    /\ TakeSlot(m)
    /\ dlen' = [dlen EXCEPT ![m] = 0]
    /\ held' = [held EXCEPT ![c] = @ \cup {m}]

messageBuffers_release(c, m) ==
  /\ m \in held[c]
  /\ PutSlot(m)
  /\ held' = [held EXCEPT ![c] = @ \ {m}]
  /\ UNCHANGED dlen

(* The holder writes the header (Message_setData, Message_setDataLen, the  *)
(* header copied in by a receive).                                         *)
Fill(c, m) ==
  /\ m \in held[c]
  /\ \E l \in Lengths : dlen' = [dlen EXCEPT ![m] = l]
  /\ UNCHANGED <<msgFreeList, nextMsgFree, lastMsgFree, freeListCorrupt, held>>

Next ==
  \E c \in Clients :
    \/ messageBuffers_allocate(c)
    \/ \E m \in Buffers : messageBuffers_release(c, m) \/ Fill(c, m)

Spec == Init /\ [][Next]_vars
-----------------------------------------------------------------------------
(* Type correctness of the ring, its cursors and the callers' holdings. *)
TypeOK ==
  /\ msgFreeList \in [Slots -> Buffers \cup {NULL}]
  /\ nextMsgFree \in Slots
  /\ lastMsgFree \in Slots
  /\ freeListCorrupt \in Nat
  /\ dlen \in [Buffers -> Lengths]
  /\ held \in [Clients -> SUBSET Buffers]

(* Every buffer is in exactly one place: one slot of the ring or the hands *)
(* of one caller.  messageBuffers.c loses a buffer for good if a release   *)
(* drops it, and gives it to two callers if it is in the ring twice.       *)
EachBufferOnce ==
  /\ \A i, j \in Slots :
       msgFreeList[i] # NULL /\ msgFreeList[i] = msgFreeList[j] => i = j
  /\ \A c, d \in Clients : c # d => held[c] \cap held[d] = {}
  /\ \A m \in Buffers :
       (\E i \in Slots : msgFreeList[i] = m) <=> (\A c \in Clients : m \notin held[c])

(* messageBuffers_freeCnt counts from the two cursors alone and is right,  *)
(* across every wrap and also when the cursors meet.                       *)
FreeCntExact == FreeCnt = Cardinality({i \in Slots : msgFreeList[i] # NULL})

(* A caller that releases only what it holds never meets an occupied slot: *)
(* the else branch of messageBuffers_release is not reached.               *)
NeverCorrupt == freeListCorrupt = 0

(* The slot under nextMsgFree is NULL, and so an allocation refused, only  *)
(* when every buffer is in some caller's hands.                            *)
RefusedOnlyWhenEmpty ==
  msgFreeList[nextMsgFree] = NULL =>
    \A m \in Buffers : \E c \in Clients : m \in held[c]

(* An allocation never takes a buffer from under a caller, and the buffer  *)
(* it hands out carries no length of an earlier message.                   *)
FreshBuffer ==
  [][\A c \in Clients : \A m \in held'[c] \ held[c] :
       dlen'[m] = 0 /\ \A d \in Clients : m \notin held[d]]_vars

(* The free buffers in the order in which allocations will take them. *)
FreeQueue ==
  [k \in 1 .. FreeCnt |->
     msgFreeList[IF nextMsgFree + k - 1 < MAX_MSG
                 THEN nextMsgFree + k - 1
                 ELSE nextMsgFree + k - 1 - MAX_MSG]]

Pool == INSTANCE BufferPool WITH free <- FreeQueue

(* The ring is a first-in first-out pool: it implements BufferPool. *)
PoolSpec == Pool!Spec

=============================================================================
