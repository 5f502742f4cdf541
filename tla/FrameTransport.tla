--------------------------- MODULE FrameTransport ---------------------------
(***************************************************************************)
(* What the send and receive functions promise the two programs that talk  *)
(* through them: messages arrive whole and in order until the link is      *)
(* over.  A lossy link may cut a message off.  Cut off in its data, it     *)
(* arrives shorter than it was sent, with the first bytes of its own data. *)
(* Cut off in its header, nothing is promised but that its length tells:   *)
(* bytes of other messages take the place of those that are missing.       *)
(***************************************************************************)
EXTENDS MessageFormat

CONSTANTS
  Messages,   (* the messages, each a header and the sequence of its data *)
  None        (* no message, before the first is received                 *)

VARIABLES
  inFlight,   (* the messages sent and not yet received, oldest first     *)
  got,        (* the message received last                                *)
  lossy,      (* whether messages may be cut off                          *)
  link        (* "open", "broken", or "over": the receiver has given up   *)

frameVars == <<inFlight, got, lossy, link>>

Init ==
  /\ inFlight = <<>>
  /\ got = None
  /\ lossy \in BOOLEAN
  /\ link \in {"open", "broken"}

Send(m) ==
  /\ link = "open" \/ link = "over"
  /\ inFlight' = Append(inFlight, m)
  /\ UNCHANGED <<got, lossy, link>>

(* m with the first k bytes of its data. *)
CutOff(m, k) == [head |-> SetLength(m.head, k), data |-> SubSeq(m.data, 1, k)]

Arrivals(m) ==
  {m} \cup (IF lossy THEN {CutOff(m, k) : k \in 0 .. Len(m.data) - 1} ELSE {})

(* Of m's header the first n bytes arrived, n less than a header: they are *)
(* where they belong, and the length, n - MSG_HDR_LEN in 16 bits, is none  *)
(* that a message has.  Any bytes may stand in the other places.           *)
Torn(g, m, n) ==
  /\ Message_dataLen(g.head) = 65536 - MSG_HDR_LEN + n
  /\ Message_dataLen(g.head) > MAXDATA_VALUE
  /\ \A i \in (1 .. n) \ {dlenHI, dlenLO} : g.head[i] = m.head[i]

Arrives(m) ==
  \/ got' \in Arrivals(m)
  \/ lossy /\ \E n \in 1 .. MSG_HDR_LEN - 1 : Torn(got', m, n)

Receive ==
  /\ link # "over"
  /\ inFlight # <<>>
  /\ Len(Head(inFlight).data) <= MAXDATA_VALUE
  /\ inFlight' = Tail(inFlight)
  /\ Arrives(Head(inFlight))
  /\ UNCHANGED <<lossy, link>>

Break ==
  /\ link = "open"
  /\ link' = "broken"
  /\ UNCHANGED <<inFlight, got, lossy>>

GiveUp ==
  /\ \/ link = "broken"
     \/ inFlight # <<>> /\ Len(Head(inFlight).data) > MAXDATA_VALUE
  /\ link' = "over"
  /\ UNCHANGED <<inFlight, got, lossy>>

Next == (\E m \in Messages : Send(m)) \/ Receive \/ Break \/ GiveUp

Spec == Init /\ [][Next]_frameVars

=============================================================================
