# testdomapp in TLA+

TLA+ models of `testdomapp`, the C program that simulates the application of an
IceCube digital optical module (DOM) under Linux or Cygwin. `domapp` reads
request messages from stdin, handles them and writes the replies to stdout;
`simboot` starts it with both mapped to a socket, and a device driver file works
as well. All paths below are relative to the repository.

## Inventory

| Component | Source | State | Operations |
|---|---|---|---|
| buffer pool | `private/message/messageBuffers.c` | ring `msgFreeList` of 16 pointers, cursors `nextMsgFree`, `lastMsgFree`, counter `freeListCorrupt`, mutex | init, allocate, release, freeCnt, totalCnt |
| message queues | `private/message/message.c` 28-232 | per queue: ring of 32 pointers, cursors, `receiverWaiting`, mutex, condition variable | create, send, forward, receive, receive_nonblock |
| header accessors | `private/message/message.c` 21-106 | the 8 header bytes of a message | get/set type, subtype, status, data, length |
| send and receive | `private/message/genericMsgSendRecv.c` | static `tmpbuf` of the device receive | descriptor mode, receive from device or socket, send |
| message handler | `private/msgHandler/msgHandler.c` | `msgHand`: last error (ID, severity, text) and three counters | init, `msgHandler` with 5 types and 18 subtypes |
| main loop | `private/domapp/domapp.c` | `messageBuffer`, descriptors, log | main, `recvMsg`, `sendMsg`, `cleanup_exit` |
| echo client | `private/domapp/domEchoClient.c` | two messages, loop counter | 1000 stop-and-wait echoes with comparison |
| number formatting | `private/domapp_common/commonServices.c` | none | big-endian shorts and longs |
| services | not in the repository (`domSControl`, `expControl`, `hal`) | external | called by `msgHandler` and `main` |

How they interact: `main` calls `recvMsg`, which takes a buffer from the pool
and fills it through the generic receive; `msgHandler` turns the request into the
reply in the same buffer; `sendMsg` writes it and returns the buffer to the pool.
Everything is a plain call in one thread; the program's only concurrency is with
the hub at the other end of the connection and with signals. The queues and the
pool carry their own locks because the DOM's real-time version shares them
between threads; nothing in this repository calls the queues any more, but they
are a public interface (`public/message/message.h`) and are modelled as one.

What is hard here, and what makes each part correct:

- *pool*: two cursors that wrap independently and are equal both when the ring
  is full and when it is empty. No buffer may be lost or given out twice, the
  count must be exact, and a release must always find an empty slot.
- *queues*: one flag for all sleeping receivers, tests for a full ring,
  locks on every path. No wakeup may be lost, no message lost, doubled or
  reordered, every call must unlock.
- *handler*: six places record an error with their own assignments. What the
  queries report must fit the replies that were given.
- *main loop*: one buffer reused in place; five ways for a receive to fail; a
  pointer that stays set after a release. Replies must match their requests, in
  order, no path may leak a buffer, and the program must end when, and only
  when, the connection does.
- *send and receive*: fragments, short reads, partial writes, lengths that wrap.
- *signals*: a handler that can interrupt itself.

`PROJECT.json` lists the hazards line by line with the properties that cover
them.

## Modules

| Module | What it is |
|---|---|
| `BufferPool` | abstract: first-in first-out pool, each buffer free or held by one caller |
| `MessageBuffers` | the ring with two cursors; implements `BufferPool` |
| `MessageBuffersProofs` | proofs about it |
| `MessageChannel` | abstract: bounded first-in first-out channel, one receiver per message |
| `MessageQueue` | one queue of `message.c`; implements `MessageChannel` |
| `MessageQueueProofs` | proofs about it |
| `MessageFormat` | header bytes, lengths, big-endian numbers as operators |
| `MessageFormatProofs` | proofs about them |
| `MessageHandler` | `msgHandler.c`, one step per request |
| `MessageHandlerProofs` | proofs about it |
| `RequestServer` | abstract: what domapp promises the hub |
| `Domapp` | the main loop composed with ring, handler and connection; implements `RequestServer` |
| `DomappProofs` | proofs about it |
| `FrameTransport` | abstract: messages arrive whole and in order, or, over a lossy link, cut off in their data or within their header |
| `GenericMsgSendRecv` | `genericMsgSendRecv.c` byte by byte; implements `FrameTransport` |
| `GenericMsgSendRecvProofs` | proofs about it |
| `SignalExit` | `cleanup_exit` with the signals that interrupt it |
| `SignalExitProofs` | proofs about it |
| `EchoSystem` | `domEchoClient`, `Domapp` and `SignalExit` composed |
| `EchoSystemProofs` | proofs about it, from those about `Domapp` and `SignalExit` |
| `MC*` | the instances TLC checks, one per component |

**MessageBuffers.** A buffer is its index in `msgHdr`; its data area never
changes, so only the length field of its header is state. Each function holds
`msgBuffersMutex` throughout and is one step. `held` records which caller has
which buffer, and callers keep to the discipline of `recvMsg` and `sendMsg`:
they write and release only what they got and have not released. `TakeSlot` and
`PutSlot` are the ring's part of an allocation and a release, so that `Domapp`
can use them. A refused allocation changes nothing and is no step.

**MessageQueue.** A call holds the mutex except inside `pthread_cond_wait`, so
the steps are: a whole send, a receive that sleeps or takes, a poll. A broadcast
turns every `waiting` receiver into a `woken` one, which tests the queue again;
spurious wakeups are steps. `Message_send` has three outcomes, as in the code:
`Refuse`, `Accept`, and `FallOffEnd`, the path that ends without an unlock or a
return value, where the mutex stays with its caller and the caller reads an
arbitrary result. `inFlight` holds the messages whose senders were told
`MEM_SUCCESS`, and `turns` is whether senders have taken turns, so that no one sent
while a message was on its way. `Init` is a `Message_createQueue` that succeeds.

**MessageHandler.** Each group of cases of `msgHandler` is an action from the
request to the reply in `M` and the new `msgHand`. Statuses are pairs of code
and severity mask. A report is a record of the writes to the data area, each with
its place, its number of bytes and its value; a text is one byte longer than its
`strlen`, for the zero byte that `strcpy` writes. The length of the reply is
modelled apart from the writes, as the code computes it. `hub` is the bookkeeping
a client could do from requests and replies alone. `domSControl` and `expControl`
may reply with any status, and with the length of the request or any of
`ServiceLens`. Left out: the driver statistics and the overflow counters, which are
never counted respectively never read.

**Domapp.** `pc` walks through `loop` (before `recvMsg`), `recv` (in its read),
`handle`, `send`. `mode` is what `gmsr_get_file_descriptor_mode` finds. The
receive and send functions appear here at the level of whole messages:
`Acceptable`, `Stored` and `Failures` are what they return and when. A message on
its way down has its header and `dlen`, how many bytes follow it; where a device
driver has taken less than a header, `dlen` is negative, from -7 for a single
byte, and `HubSend` may so cut off a request at any of `Cuts`. `Stored` then is what
the receive makes of it, as a success: the fields that arrived, those that did not
from `tmpbuf`, and in `StoredLen` the negative length in 16 bits. A reply that keeps
such a length is an `Overrun`: `gmsr_sendMessageGeneric` copies some 65530 bytes to
the 4096 of `txbuf`, and the process dies of it, with the write done or not. The hub
is an environment that sends and collects when it likes, or never, and hangs up at
most once; after that a read may still deliver what is under way, or fail, and so
may a write. `Killed` is a signal, or SIGPIPE from a write to a dead socket, at any
moment. `status` is what `recvMsg` or `sendMsg` returned last.

`RequestServer`, which it implements, has for each pending request the set of
tickets (type, subtype, ID) of which the reply has one. It is a single ticket for a
request with a whole header; for one that was cut off within it `Submit` promises
the fields that arrived and any value of the others, and `Settle` is the moment
they are filled in.

**MessageFormat.** No state. `SetLength` stores the low 16 bits of an int in two
header bytes, as `Message_setData` does; `Message_setDataLen` clamps first. The
four conversions of `commonServices.c` are the byte sequences they write and
read. A `ULONG` has four bytes, as on the i386 the program was written for.
`MessageHandler` reports its counters through them.

**GenericMsgSendRecv.** A sender and a receiver with one connection between
them. Over a socket, `unsent` is what a write has not got rid of yet and `conn`
the bytes in the socket; `RecvHeader` and `RecvData` are one `recv` each of the
two loops, which takes any number of the bytes there are. Over a device, `conn`
is a sequence of packets, each any prefix of what was written, and `ReadPacket`
is the one `read` with its copies from `tmpbuf`. `tmpbuf`, the header and the
data area keep their bytes from one message to the next. `got` and `inFlight`
record what was received last and what is still due, and are what
`FrameTransport` speaks of: `got` is the header bytes and as many data bytes as the
length in them says, or all the data area where it says more. After a read of less
than a header these are new bytes followed by those of an earlier packet, with a
length that no message has, and the receive returns success; `Torn` of
`FrameTransport` says what is known of such a message. All its other messages are
whole, or cut off in their data with their own header.

**SignalExit.** Signals have the meaning that `signal()` gives them on Linux and
Cygwin: a kind is blocked while its own handler runs and stays installed. `frames`
is the stack of runs of `cleanup_exit`, each at one of its calls; `TakeSignal`
pushes one, or ends the process if `SIG_DFL` was put back. A pending signal that
is not blocked is delivered before the next step. Use of the log after its
`fclose` is undefined: it may do nothing or crash the process.

**EchoSystem.** The client's loop against `Domapp`, instantiated with the
messages the client sends, and `SignalExit`, whose first run stops `Domapp` where
it is. `DriverCuts` is the lossy device of `FrameTransport`, on messages: it
shortens what is on its way down or up to any length below, in the data or within
the header, and `cut` records which way. `Recvd` is what the generic receive
returns, which for a socket leaves out the header. The client's messages are alike;
in the model `msgID`, which the client does not set, tells them apart, so that
`CountsOwnEcho` can speak of them.

## Runs

| Run | Instance | What it shows |
|---|---|---|
| `buffers` | 4 buffers, 2 callers, 2 lengths | `EachBufferOnce`, `FreeCntExact`, `NeverCorrupt`, `RefusedOnlyWhenEmpty`, `FreshBuffer`; `PoolSpec`: the ring implements `BufferPool` |
| `queue` | ring of 3, 2 senders, 2 receivers, 2 messages | `NoLostWakeup`, `AtMostOneQueued`; `LockReleased`, `AcceptedIsQueued`, `Delivered`: while senders take turns; `ChannelSpec`: the queue implements `MessageChannel` |
| `queue_send` | the same | violation: a send is refused by a ring that is not full, and another keeps the mutex |
| `handler` | every type and subtype, counters modulo 3, services that reply with 0, 5 or the request's number of bytes | `LastErrorReported`, `StatsReported`, `LengthCoversReport` |
| `handler_severity` | the same | violation: the severity reported is not that of the last error |
| `handler_text` | the same | violation: an error text goes without its zero byte |
| `domapp` | 2 buffers, 4 requests, cut off after 1 or 6 bytes or not, 2 replies in the connection, all three modes | `AllFreeBetweenMessages`, `BufferInUseIsOurs`; `ServerSpec`: domapp implements `RequestServer`; `Answered`, `EndsAfterHangUp` |
| `domapp_eof` | the same, one more request under way | violation: an end of file is reported on a good connection |
| `reply_overrun` | the same as `domapp_eof` | violation: a reply is longer than the buffer it is sent from |
| `transport` | data areas of 2 bytes, messages of 0 to 3 bytes, room for 4 bytes or packets, 3 sends, all three modes | `StreamInStep`; `FrameSpec`: the functions implement `FrameTransport`; `Received` |
| `echo` | 2 buffers, 3 echoes of 2 bytes, cut off anywhere, 2 kinds of signal, socket and device | `OnlyFaultsFail`, `CountsOwnEcho`, `ClosedBeforeDeath`, `OneKindOneCleanup`; `ClientFinishes`, `SignalEnds` |
| `signal_log` | the same | violation: the log is used after its `fclose` |

Every property of a passing run is also shown to fail on a mutant of the model,
the operators marked `Bug:` in the modules.

*Bounds.* Four buffers are enough for each cursor to wrap while the other is
anywhere, and for empty, full and everything between; the proofs cover all
sizes. In a ring of three slots every branch of `Message_send` is taken at some
cursor position; two receivers are needed for one to clear the flag while the
other sleeps. Counters modulo 3 wrap with different values in each. In the
`domapp` runs the counters are left out (`CounterMod` is 1), since no property there
looks at them, and two buffers let the ring wrap with one out. `Window` (requests
and replies in the connection when a request is sent) and `OutCap` (replies that
fit in the connection) let requests queue behind the one being handled and make a
write wait. The four requests go each way through `recvMsg`: accepted, without data,
too long, and for a server that does not exist; they differ in their IDs
(`RequestsDistinct`), so that `Answered` can tell their replies apart. A request is
cut off after its type, which leaves the subtype to `tmpbuf`, or before its ID. In
`transport` a header does not fit in the socket (`Room`), so that every message
arrives in pieces and a piece may hold the end of one message and the start of the
next; three sends let a third packet find what two others left in `tmpbuf`.
Messages of 3 bytes exceed the data area. In `echo` three echoes turn the ring of
two buffers, messages can be cut at each byte, and two kinds of signal are enough
for one run of `cleanup_exit` to interrupt another; how often each arrives is not
bounded.

*Deadlock* is not checked in `queue` and `queue_send`, where a kept mutex really
stops everybody, in `domapp`, `domapp_eof` and `reply_overrun`, where the program
ends or waits for a hub that does not read, and in `transport`, `echo` and
`signal_log`, where the programs end.

*Fairness.* `MessageQueue!Spec` assumes that a receiver that is out of
`Message_receive`, or was woken, and may run does run; it says nothing of
senders. `Domapp!Spec` assumes weak fairness of `Main`, the one thread of the
program, which nothing but a read or write without a counterpart blocks. It says
nothing of the hub: one that never reads fills the connection and then domapp, and
itself, wait for ever, and `Answered` excepts just that, a connection that stays
full. `GenericMsgSendRecv!Spec` assumes it of the receiver, one thread again, and of
the kernel that moves a blocked write into the socket; `EchoSystem!Spec` of the
client, of domapp's main and of the delivery and the handling of signals, each of
which is one thread or the kernel. Nothing is assumed of the arrival of signals, of
requests, of a hang-up, or of a driver that cuts.

## What the violations say

- `queue_send` (`message.c:150`, `:148`): two faults of `Message_send`, one behaviour
  with both. After a receive, the cursor tests take one queued message at some
  positions for a full ring and return `MEM_ERROR`; the ring never holds more than
  one message (`AtMostOneQueued`). And with `nextElemPut > nextElemGet > 0`, or
  `nextElemPut` at the last slot, no branch is taken: the call ends with the mutex
  locked and no return value, and all later calls block. The property, that at
  least one of these faults is not there, fails only where both are. While senders
  take turns, no send is refused (`NoneRefusedInTurns`, proved) or keeps the mutex
  (`LockReleased`, proved).
- `handler_severity` (`msgHandler.c:112`, `:333`): two of the paths that record
  an error leave `lastErrorSeverity` as it was. They are the only two: without a
  request for the test manager or for an unknown server, the severity reported is
  that of the last error (`SeverityOfKnownServers`, proved).
- `handler_text` (`msgHandler.c:160`): `commonMessageAPIstatus.h:71-72` gives the
  reply of `GET_LAST_ERROR_STR` a size of `strLen(text_string)+1`; the code writes as
  many bytes and sends one less. That is all that any report leaves out
  (`LengthCoversReport`, proved).
- `domapp_eof` (`genericMsgSendRecv.c:171`): the socket receive returns the
  length of the data, so a request without data, which
  `commonMessageAPIstatus.h` prescribes for every query, looks like an end of
  file to `recvMsg`, and `main` returns. Over a device it works, since that
  receive counts the header: only over a socket, and only where requests without
  data are sent, is an end of file reported (`EofOnlyOfEmptyRequest`, proved).
- `reply_overrun` (`genericMsgSendRecv.c:92`, `:243`): a device read of 1 to 7 bytes is
  a success, not the `GMSR_SHORTRD` there is for it. The header handed on has bytes
  of an earlier packet behind the new ones, and the length `nread - 8` is stored as
  65529 to 65535. Most of `msgHandler` sets a new length, but its reply to an unknown
  subtype keeps this one, and `gmsr_sendMessageGeneric` copies as many bytes to
  `txbuf` on its stack. In the behaviour that the run shows, a request for the
  message handler is cut off after its type, and the subtype is that of `tmpbuf`.
  Only over a device can it happen, and only after such a read (`TypeOK`, proved).
- `signal_log` (`domapp.c:264`): a signal of another kind starts a second
  `cleanup_exit` inside the first. It finds `fatal_error_in_progress` set and
  raises its signal, as the comment above says, but that signal is blocked while
  its handler runs: `raise` returns, and the inner run writes to and closes the
  log that the outer one has closed or will close. With one kind of signal this
  cannot happen (`OneKindOneCleanup`, proved), and unless the process crashes
  over it, it still dies of a signal it was sent, with everything closed
  (`ClosedBeforeDeath`, proved).

Three divergences have no run. `commonMessageAPIstatus.h:96` says of the counters
in a reply of `GET_SERVICE_STATS` that they are "in LITTLE ENDIAN format", while
`formatLong`, which writes them, puts the most significant byte first;
`StatsReported` reads them so. `commonMessageAPIstatus.h:44-45` lists the severity
before the value in a reply of `GET_LAST_ERROR_ID`, and `msgHandler.c:135-136` writes
the ID first; the places of the two writes in `Report` are those of the code. And
`domEchoClient.c:229` reports "sent and received correctly" of a message that domapp
never had, if a request is cut off within its header, so that domapp echoes the
data of the one before, and the reply is cut off where the client expects its end:
`CountsOwnEcho` excepts a driver that cuts both ways, and fails without that
exception.

## Proofs

`MessageBuffersProofs`, for every `MAX_MSG > 0`, every set of callers and of
lengths that has 0 (assumptions `MaxMsgAssumption`, `NullAssumption`,
`LengthsAssumption`). The inductive invariant `IInv` adds to `TypeOK`,
`EachBufferOnce` and `NeverCorrupt` the fact `RingInv` that exactly the slots
between the cursors are occupied: without it nothing says that the slot under
`lastMsgFree` is free. The step that matters is `ReleaseSlotEmpty`: if that slot
were occupied the whole ring would be, with `MAX_MSG` different buffers, none of
them the one the caller holds, which the pigeonhole principle excludes. From
`IInv` follow the type invariant, the safety invariants of the `buffers` run
(`FreeCntExact` through the cardinality of the interval between the cursors), the
action property `FreshBuffer`, and the refinement `ImplementsPool`: an allocation
takes the head of `FreeQueue`, a release appends to it.

`MessageQueueProofs`, for every ring of at least two slots and every set of
threads and messages (assumption `SizeAssumption`). `IInv` is `TypeOK`,
`NoLostWakeup` and `OneApart`: the put cursor is at most one slot ahead, since
`Accept` needs equal cursors. It gives `AtMostOneQueued`, the value of
`Contents`, and the refinement `ImplementsChannel`. `TurnsInv` adds that, while
senders take turns, the mutex is free, `inFlight` is what the ring holds and no send
was refused, from which `LockReleased`, `AcceptedIsQueued` and `NoneRefusedInTurns`
follow: with nothing in flight the cursors are equal, so only `Accept` is possible.

`MessageFormatProofs`, for every header, every int length and every data area
below 65536 bytes (assumption `MaxDataAssumption`): what `Message_setData` stores
and leaves alone (`LengthStored`), that `Message_setDataLen` clamps
(`DataLenClamped`), that a device read shorter than a header yields a length
larger than any data area up to 65528 bytes (`ShortReadTooLong`), and that the
big-endian conversions are inverse to each other (`LongRoundTrip`,
`ShortRoundTrip`).

`SignalExitProofs`, for any set of signals, and so for any depth to which runs
of `cleanup_exit` interrupt each other. `CleanedUp` says that a run past its
calls of `fclose` and `close` has made them, and that no default action is put
back before: a signal can kill the process only when everything is closed, which
is `ClosedBeforeDeath`. For `OneKindOneCleanup` the invariant must explain a
closed log: some run that closed it is still on the stack, or the default action
of its signal is put back (`ClosedBySomeRun`); and a run that is still to use the
log is for another signal, since each kind has at most one run and one that is
before its `fclose` still has its handler (`OneRunEach`).

`EchoSystemProofs`, for any number and length of echoes and any set of signals
(assumptions `PoolAssumption`, `EchoAssumption`). Each step of the system is a step
of `SignalExit` or leaves its variables alone (`RefinesSignalExit`), so that both
properties hold of domapp in the middle of its work. The properties of the client
rest on what is proved of `Domapp`: `Program` is `DomappProofs` with the client's
messages as the requests, which its `Arrivals` has cut off in any way, and its
invariant is a part of `IInv`. The rest of `IInv` is `StopAndWait` (at most one message
is anywhere on its way, and it is a request, an echo in hand or a reply of the
message the client works on, each with its length unless the driver has cut it),
`EndInv` (only a client that has ended breaks the connection; only that, a signal or
a request that was cut off ends domapp), `QuietInv` (without a signal,
`cleanup_exit` does nothing) and `OnlyFaultsFail` itself. The step that matters is
the handler's: of its nine actions only `Echo` is possible, and `UnknownSubtype` for
a request cut off before its subtype that finds none in `tmpbuf` (`EchoesOnly`).
`Echo` gives the message back with the status of success. So a reply that the
client does not accept was cut, or its request was, and a connection that fails it
was left by a domapp that got a signal or a request cut off. `CountsOwnEcho` is an
action property and follows from `StopAndWait`: a request that was cut off keeps a
length that the client does not expect, unless the reply is cut off too. The
assumption `EchoAssumption` has data areas of at most 65528 bytes, so that the length
of a torn request is none of them.

`MessageHandlerProofs`, for every set of requests, every wrap of the counters up
to 2^32 and every board name that fits (assumptions `RequestAssumption`,
`CounterAssumption`, `LengthAssumption`, `MaxDataAssumption`). The inductive
invariant is `TypeOK` and `Agree`: at any moment the error that `msgHand` records
is the last one the sender was told of, and its two error counters add up, modulo
the wrap, to the replies that reported one. `LastErrorReported` and
`StatsReported` speak of the replies that happen to be reports; they follow in
the step that writes one, the latter through `LongRoundTrip`.
`LengthCoversReport` says of each of the 13 reports that its writes cover the first
bytes of the data area, each byte from one write only, up to its length and for a
text one byte further. `ReportWrites` shows it from the places of the writes, of one
(`OneWrite`), of two (`TwoWrites`), of the statistics and of the summary. The theorem
has a hypothesis, `ReportsFit`: the longest summary fits a data area. It does in the
code, where 43 bytes meet 4088 (`CodeFits`); a smaller data area would have the
summary cut off.

`DomappProofs`, for every pool, hub, set of requests and way to cut them off
(assumptions `PoolAssumption`, `DataAssumption`, `CutsAssumption`,
`WindowAssumption`, `RequestsAssumption`). `RingInv` says where the cursors are:
together over a full ring between two messages, one slot apart during one, with the
empty slot between them and the buffer from it in `messageBuffer`. So an allocation
always succeeds and a release always finds its slot, which gives
`AllFreeBetweenMessages` and `BufferInUseIsOurs`. `MessageInv`, the part of `TypeOK`
about the message, bounds its length by the data area or, over a device, by what a
short read stores; `TmpbufInv` says that the subtype and the ID that `tmpbuf` may
lend the next request are of an earlier one or the zeros it starts with.
`HandlerReplies` shows that each of the nine actions of the handler keeps type,
subtype and ID of its request and such a length; with it, `ImplementsServer` maps a
receive to `Settle`, the handling to no step of `RequestServer`, a write to
`Answer`, every failure to `Return` and an `Overrun` to `Kill`.

`GenericMsgSendRecvProofs`, for every set of messages, every size of the data area
and of the connection, and any number of sends (assumptions `RoomAssumption`,
`MessagesAssumption`, `MaxDataAssumption`, and `DataAreaAssumption`: a data area and
a header fit 65536 bytes, so that a negative length, stored in 16 bits, is longer
than a data area). `IInv` has four parts. `Areas` and `Control` are the types, with
what each loop may still ask for: `targetLength` never exceeds the room left in the
header or the data area. `Link` says what is in the connection: bytes, or, over a
device, one packet for each message that is due, with its first bytes
(`PacketOf`). `InStep` is the place in the stream: what the receiver has taken, what
is in the socket, what is unsent, and, after a hang-up, some bytes that are lost,
are the frames of the messages due. The witness for the lost bytes is what makes it
inductive, where `StreamInStep` says only that the rest is a prefix. `StreamInStep`,
`FrameSpec` and the type invariant follow from `IInv`.

The argument of the refinement is in the steps that complete a message. When the
last header byte is taken, the header is that of the first message due
(`CatCancel`: two ways to cut the stream after as many bytes are the same), so its
length is the right one; when the last data byte is, the data area holds its data,
and the rest of the stream is that of the other messages. A `recv` in between
changes nothing that `FrameTransport` sees, and a failure is a `GiveUp`. Over a device the one `read`
leaves in the header and the data area the first bytes of the packet. If that is
less than a header, they are where they belong but for those of the length, which
is 65536 less what is missing of the header, and beyond every data area by
`ShortReadTooLong`: what `Torn` asks.

The stream is a `FlattenSeq`, a fold over a sequence. The library's induction
theorems cannot be used with this prover, but for one fact at a time induction can
be done with sets: `Induct` in `MessageFormatProofs` says that a set of naturals
with 0 and the successor of each of its elements is all of `Nat`, from the least
element of the others (`Least`). It gives that the recursive function in the fold
exists, that it is unique, and what an `Append` and a `Tail` do to the stream
(`StreamAppend`, `StreamHead`).

Only model-checked is liveness: `Delivered`, `Answered`, `EndsAfterHangUp`,
`Received`, `ClientFinishes` and `SignalEnds`. It needs the fairness of each
specification, which is stated with `ENABLED`, and that is beyond the proof system.
Every invariant, action property and refinement that a passing run checks is proved.

## Not modelled

- `domSControl`, `expControl`, `hal`: not in the repository. The two services may reply
  with any status, and with a length that is the request's or one of a set that is a
  parameter (`ServiceLens`); the proofs are for every such set, the runs for 0 and 5
  bytes. They are taken to keep type, subtype and ID and to write within the data
  area.
- The error returns of `Message_createQueue` (`MEM_CREATE_ERROR`): a queue that was
  not created has no behaviour, and no property is about it.
- `DOMdata.h`, `DOMstateInfo.h`, `packetFormatInfo.h`: constants and types that
  no code here uses.
- Log output, command line, board name and ID, Cygwin conditionals, and opening
  the socket or device.

Abstractions:

- Sockets, device drivers and signal delivery are external: they are modelled by
  what the code relies on and by the failures it tests for.
- Signals are modelled from the moment `main` has installed its handlers, and the
  inside of the log's stdio calls is one step: a second `cleanup_exit` in the
  middle of a `fprintf` of the first finds the log as it was before it or after.
- In `Domapp` a device takes a reply whole, and the driver cuts requests only;
  `sendMsg` does not look at the count that the write returns. Replies that are cut
  off are in `EchoSystem` and, byte by byte, in `GenericMsgSendRecv`.
- `Domapp` keeps of `tmpbuf` what a later request can be lent: subtype, ID, status
  and data, each as one value. The type is the first byte of each read, and the
  length is always set.
- What an `Overrun` overwrites behind `txbuf` is not modelled: the process is taken to
  die of some 60000 bytes over the frames of its callers.
- The driver and overflow statistics of the services: nothing counts or reads
  them.

## Plan

Every component that the repository has code for is modelled, and its safety is
proved. What is left to strengthen, in this order:

1. The two levels of the connection: what `Domapp` and `EchoSystem` say of a receive
   (`Acceptable`, `Stored`, `Failures`) was written to agree with what
   `FrameTransport` allows, short packets included, but a theorem that says so would
   need one representation of messages for both.
2. Facts that the liveness properties rest on and that are safety: that the step
   a fairness condition is about is possible whenever the property waits for it.
