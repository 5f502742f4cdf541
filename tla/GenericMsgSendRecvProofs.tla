---------------------- MODULE GenericMsgSendRecvProofs ----------------------
(***************************************************************************)
(* Proofs about the send and receive functions: for every set of messages, *)
(* every size of the data area and of the connection, and however often    *)
(* and wherever the stream is cut, the receives stay in step with the      *)
(* messages, and they hand on what FrameTransport promises.                *)
(***************************************************************************)
EXTENDS GenericMsgSendRecv, MessageFormatProofs, SequenceTheorems, TLAPS

-----------------------------------------------------------------------------
(* Concatenation by a name, so that the provers see where it is used.      *)
Cat(a, b) == a \o b

LEMMA CatAssociative ==
  \A S : \A a, b, c \in Seq(S) : Cat(Cat(a, b), c) = Cat(a, Cat(b, c))
  BY ConcatAssociative DEF Cat

LEMMA CatType ==
  \A S : \A a, b \in Seq(S) : Cat(a, b) \in Seq(S) /\ Len(Cat(a, b)) = Len(a) + Len(b)
  BY ConcatProperties DEF Cat

LEMMA CatEmpty == \A S : \A a \in Seq(S) : Cat(a, <<>>) = a /\ Cat(<<>>, a) = a
  BY ConcatEmptySeq DEF Cat

(* x is a with b behind it, element by element.                            *)
Parts(x, a, b) ==
  /\ Len(x) = Len(a) + Len(b)
  /\ \A i \in 1 .. Len(a) : x[i] = a[i]
  /\ \A i \in 1 .. Len(b) : x[Len(a) + i] = b[i]

LEMMA CatParts == \A S : \A a, b \in Seq(S) : Parts(Cat(a, b), a, b)
<1> SUFFICES ASSUME NEW S, NEW a \in Seq(S), NEW b \in Seq(S)
             PROVE  Parts(Cat(a, b), a, b)
  OBVIOUS
<1> DEFINE c == Cat(a, b)
<1>1. \A i \in 1 .. Len(a) + Len(b) : c[i] = IF i <= Len(a) THEN a[i] ELSE b[i - Len(a)]
  BY ConcatProperties DEF Cat
<1>2. Len(a) \in Nat /\ Len(b) \in Nat /\ Len(c) = Len(a) + Len(b)
  BY LenProperties, CatType
<1> HIDE DEF c
<1>3. \A i \in 1 .. Len(a) : c[i] = a[i]
  BY <1>1, <1>2
<1>4. ASSUME NEW i \in 1 .. Len(b)
      PROVE  c[Len(a) + i] = b[i]
  <2>1. /\ Len(a) + i \in 1 .. Len(a) + Len(b) /\ ~ (Len(a) + i <= Len(a))
        /\ (Len(a) + i) - Len(a) = i
    BY <1>2
  <2> QED
    BY <1>1, <2>1
<1> QED
  BY <1>2, <1>3, <1>4 DEF Parts, c

LEMMA PartsUnique ==
  ASSUME NEW S, NEW a \in Seq(S), NEW b \in Seq(S), NEW c \in Seq(S), NEW d \in Seq(S),
         NEW x, Parts(x, a, b), Parts(x, c, d), Len(a) = Len(c)
  PROVE  a = c /\ b = d
<1>1. Len(a) \in Nat /\ Len(b) \in Nat /\ Len(d) \in Nat
  BY LenProperties
<1>2. Len(b) = Len(d)
  BY <1>1 DEF Parts
<1>3. \A i \in 1 .. Len(a) : a[i] = c[i]
  BY DEF Parts
<1>4. \A i \in 1 .. Len(b) : b[i] = d[i]
  BY <1>2 DEF Parts
<1> QED
  BY <1>2, <1>3, <1>4, SeqEqual

(* Two ways to cut the same sequence after as many elements.               *)
LEMMA CatCancel ==
  \A S : \A a, b, c, d \in Seq(S) :
    Cat(a, b) = Cat(c, d) /\ Len(a) = Len(c) => a = c /\ b = d
<1> SUFFICES ASSUME NEW S, NEW a \in Seq(S), NEW b \in Seq(S), NEW c \in Seq(S),
                    NEW d \in Seq(S), Cat(a, b) = Cat(c, d), Len(a) = Len(c)
             PROVE  a = c /\ b = d
  OBVIOUS
<1>1. Parts(Cat(a, b), a, b) /\ Parts(Cat(a, b), c, d)
  BY CatParts
<1> QED
  BY <1>1, PartsUnique

(* FlattenSeq puts its pieces one behind the other, which f computes step  *)
(* by step.                                                                *)
Flattens(f, s, n) == \A i \in 1 .. n : f[i] = IF i = 1 THEN s[i] ELSE f[i - 1] \o s[i]

LEMMA FlattensExists ==
  ASSUME NEW s, NEW n \in Nat
  PROVE  \E f : f = [i \in 1 .. n |-> IF i = 1 THEN s[i] ELSE f[i - 1] \o s[i]]
<1> DEFINE Ok(k) == \E f : f = [i \in 1 .. k |-> IF i = 1 THEN s[i] ELSE f[i - 1] \o s[i]]
           P == {k \in Nat : Ok(k)}
<1>1. 0 \in P
  <2> DEFINE e == [i \in 1 .. 0 |-> s[i]]
  <2>1. e = [i \in 1 .. 0 |-> IF i = 1 THEN s[i] ELSE e[i - 1] \o s[i]]
    OBVIOUS
  <2> QED
    BY <2>1
<1>2. ASSUME NEW k \in P
      PROVE  k + 1 \in P
  <2>1. PICK f : f = [i \in 1 .. k |-> IF i = 1 THEN s[i] ELSE f[i - 1] \o s[i]]
    OBVIOUS
  <2> DEFINE g == [i \in 1 .. k + 1 |-> IF i = k + 1
                                        THEN IF i = 1 THEN s[i] ELSE f[i - 1] \o s[i]
                                        ELSE f[i]]
  <2>2. k \in Nat
    OBVIOUS
  <2>3. \A i \in 1 .. k + 1 : g[i] = IF i = 1 THEN s[i] ELSE g[i - 1] \o s[i]
    <3> SUFFICES ASSUME NEW i \in 1 .. k + 1
                 PROVE  g[i] = IF i = 1 THEN s[i] ELSE g[i - 1] \o s[i]
      OBVIOUS
    <3>1. i # 1 => i - 1 \in 1 .. k + 1 /\ g[i - 1] = f[i - 1]
      BY <2>2
    <3>2. i # k + 1 => i \in 1 .. k
      BY <2>2
    <3>3. CASE i = k + 1
      BY <3>1, <3>3
    <3>4. CASE i # k + 1
      <4>1. f[i] = IF i = 1 THEN s[i] ELSE f[i - 1] \o s[i]
        BY <2>1, <3>2, <3>4
      <4>2. g[i] = f[i]
        BY <3>4
      <4> QED
        BY <3>1, <4>1, <4>2
    <3> QED
      BY <3>3, <3>4
  <2>4. g = [i \in 1 .. k + 1 |-> g[i]]
    OBVIOUS
  <2> HIDE DEF g
  <2>5. g = [i \in 1 .. k + 1 |-> IF i = 1 THEN s[i] ELSE g[i - 1] \o s[i]]
    BY <2>3, <2>4
  <2>6. Ok(k + 1)
    BY <2>5
  <2> HIDE DEF Ok
  <2> QED
    BY <2>2, <2>6
<1> HIDE DEF P
<1>3. P = Nat
  <2>1. P \in SUBSET Nat
    BY DEF P
  <2> QED
    BY <1>1, <1>2, <2>1, Induct
<1> QED
  BY <1>3 DEF P

LEMMA FlattensUnique ==
  ASSUME NEW f, NEW g, NEW s, NEW t, NEW n \in Nat,
         Flattens(f, s, n), Flattens(g, t, n), \A i \in 1 .. n : s[i] = t[i]
  PROVE  \A i \in 1 .. n : f[i] = g[i]
<1> DEFINE P == {k \in Nat : k + 1 \in 1 .. n => f[k + 1] = g[k + 1]}
<1>1. 0 \in P
  BY DEF Flattens
<1>2. ASSUME NEW k \in P
      PROVE  k + 1 \in P
  BY DEF Flattens
<1> HIDE DEF P
<1>3. P = Nat
  <2>1. P \in SUBSET Nat
    BY DEF P
  <2> QED
    BY <1>1, <1>2, <2>1, Induct
<1>4. ASSUME NEW i \in 1 .. n
      PROVE  f[i] = g[i]
  <2>1. i - 1 \in P /\ (i - 1) + 1 = i
    BY <1>3
  <2> QED
    BY <2>1 DEF P
<1> QED
  BY <1>4

LEMMA FlattenSteps ==
  ASSUME NEW s, Len(s) \in Nat \ {0}
  PROVE  \E f : Flattens(f, s, Len(s)) /\ FlattenSeq(s) = f[Len(s)]
<1> DEFINE n == Len(s)
           g == CHOOSE h : h = [i \in 1 .. Len(s) |-> IF i = 1 THEN s[i] ELSE h[i - 1] \o s[i]]
<1>1. g = [i \in 1 .. Len(s) |-> IF i = 1 THEN s[i] ELSE g[i - 1] \o s[i]]
  <2>1. \E f : f = [i \in 1 .. Len(s) |-> IF i = 1 THEN s[i] ELSE f[i - 1] \o s[i]]
    BY FlattensExists
  <2> QED
    BY Zenon, <2>1
<1>2. FlattenSeq(s) = g[Len(s)]
  <2>1. Len(s) # 0
    OBVIOUS
  <2> QED
    BY Zenon, <2>1 DEF FlattenSeq
<1> HIDE DEF g
<1>3. Flattens(g, s, Len(s))
  BY <1>1 DEF Flattens
<1> QED
  BY <1>2, <1>3

LongerBy(f, s, k) == f[k + 1] = f[k] \o s[k + 1]

LEMMA FlattensStep ==
  ASSUME NEW f, NEW s, NEW n \in Nat, Flattens(f, s, n), NEW k \in Nat, k # 0, k + 1 <= n
  PROVE  LongerBy(f, s, k)
<1>1. k + 1 \in 1 .. n /\ k + 1 # 1 /\ (k + 1) - 1 = k
  OBVIOUS
<1>2. \A i \in 1 .. n : i # 1 => f[i] = f[i - 1] \o s[i]
  BY DEF Flattens
<1>3. f[k + 1] = f[(k + 1) - 1] \o s[k + 1]
  BY <1>1, <1>2
<1> QED
  BY <1>1, <1>3 DEF LongerBy

LEMMA FlattensType ==
  ASSUME NEW B, NEW f, NEW s, NEW n \in Nat, Flattens(f, s, n),
         \A i \in 1 .. n : s[i] \in Seq(B)
  PROVE  \A i \in 1 .. n : f[i] \in Seq(B)
<1> DEFINE P == {k \in Nat : k + 1 \in 1 .. n => f[k + 1] \in Seq(B)}
<1>1. 0 \in P
  BY DEF Flattens
<1>2. ASSUME NEW k \in P
      PROVE  k + 1 \in P
  <2> SUFFICES ASSUME (k + 1) + 1 \in 1 .. n
               PROVE  f[(k + 1) + 1] \in Seq(B)
    OBVIOUS
  <2>1. k + 1 \in Nat /\ k + 1 # 0 /\ (k + 1) + 1 <= n /\ k + 1 \in 1 .. n
    OBVIOUS
  <2>2. f[(k + 1) + 1] = f[k + 1] \o s[(k + 1) + 1]
    <3>1. LongerBy(f, s, k + 1)
      BY <2>1, FlattensStep
    <3> QED
      BY Zenon, <3>1 DEF LongerBy
  <2>3. f[k + 1] \in Seq(B) /\ s[(k + 1) + 1] \in Seq(B)
    BY <2>1
  <2> QED
    BY <2>2, <2>3, ConcatProperties
<1> HIDE DEF P
<1>3. P = Nat
  <2>1. P \in SUBSET Nat
    BY DEF P
  <2> QED
    BY <1>1, <1>2, <2>1, Induct
<1>4. ASSUME NEW i \in 1 .. n
      PROVE  f[i] \in Seq(B)
  <2>1. i - 1 \in P /\ (i - 1) + 1 = i
    BY <1>3
  <2> QED
    BY <2>1 DEF P
<1> QED
  BY <1>4

LEMMA FlattenEmpty == FlattenSeq(<<>>) = <<>>
  BY DEF FlattenSeq

LEMMA FlattenType ==
  ASSUME NEW B, NEW s \in Seq(Seq(B))
  PROVE  FlattenSeq(s) \in Seq(B)
<1>1. CASE s = <<>>
  BY <1>1, FlattenEmpty, EmptySeq
<1>2. CASE s # <<>>
  <2>1. Len(s) \in Nat \ {0} /\ \A i \in 1 .. Len(s) : s[i] \in Seq(B)
    BY <1>2, EmptySeq, ElementOfSeq
  <2>2. PICK f : Flattens(f, s, Len(s)) /\ FlattenSeq(s) = f[Len(s)]
    BY <2>1, FlattenSteps
  <2>3. \A i \in 1 .. Len(s) : f[i] \in Seq(B)
    BY <2>1, <2>2, FlattensType
  <2> QED
    BY <2>1, <2>2, <2>3
<1> QED
  BY <1>1, <1>2

LEMMA FlattenAppend ==
  ASSUME NEW B, NEW s \in Seq(Seq(B)), NEW t \in Seq(B)
  PROVE  FlattenSeq(Append(s, t)) = FlattenSeq(s) \o t
<1> DEFINE a == Append(s, t)
           n == Len(s)
<1>1. /\ n \in Nat /\ Len(a) = n + 1 /\ a[n + 1] = t
      /\ \A i \in 1 .. n : a[i] = s[i]
  BY AppendProperties, LenProperties
<1> HIDE DEF a, n
<1>2. PICK f : Flattens(f, a, n + 1) /\ FlattenSeq(a) = f[n + 1]
  BY <1>1, FlattenSteps
<1>3. CASE n = 0
  <2>1. s = <<>>
    BY <1>3, EmptySeq DEF n
  <2>2. f[n + 1] = t
    BY <1>1, <1>2, <1>3 DEF Flattens
  <2>3. <<>> \o t = t
    BY ConcatEmptySeq
  <2> QED
    BY <1>2, <2>1, <2>2, <2>3, FlattenEmpty DEF a
<1>4. CASE n # 0
  <2>1. PICK g : Flattens(g, s, n) /\ FlattenSeq(s) = g[n]
    BY <1>1, <1>4, FlattenSteps DEF n
  <2>2. Flattens(f, a, n)
    BY <1>1, <1>2 DEF Flattens
  <2>3. \A i \in 1 .. n : f[i] = g[i]
    BY <1>1, <2>1, <2>2, FlattensUnique
  <2>4. f[n + 1] = f[n] \o a[n + 1]
    <3>1. n \in Nat /\ n + 1 \in Nat /\ n # 0 /\ n + 1 <= n + 1
      BY <1>1, <1>4
    <3>2. LongerBy(f, a, n)
      BY Zenon, <1>2, <3>1, FlattensStep
    <3> QED
      BY Zenon, <3>2 DEF LongerBy
  <2>5. f[n] = g[n]
    BY <1>1, <1>4, <2>3
  <2> QED
    BY <1>1, <1>2, <2>1, <2>4, <2>5 DEF a
<1> QED
  BY <1>3, <1>4

LEMMA FlattenHeadTail ==
  ASSUME NEW B, NEW s \in Seq(Seq(B)), s # <<>>
  PROVE  FlattenSeq(s) = Head(s) \o FlattenSeq(Tail(s))
<1> DEFINE n == Len(s)
           r == Tail(s)
           h == Head(s)
<1>1. /\ n \in Nat \ {0} /\ r \in Seq(Seq(B)) /\ Len(r) = n - 1
      /\ \A i \in 1 .. n - 1 : r[i] = s[i + 1]
      /\ h = s[1] /\ h \in Seq(B)
  BY EmptySeq, HeadTailProperties
<1>2. /\ \A i \in 1 .. n : s[i] \in Seq(B)
      /\ \A i \in 1 .. n - 1 : r[i] \in Seq(B)
  BY <1>1, ElementOfSeq
<1> HIDE DEF n, r, h
<1>3. PICK f : Flattens(f, s, n) /\ FlattenSeq(s) = f[n]
  BY <1>1, FlattenSteps DEF n
<1>4. f[1] = h
  BY <1>1, <1>3 DEF Flattens
<1>5. CASE n = 1
  <2>1. r = <<>>
    BY <1>1, <1>5, EmptySeq
  <2>2. h \o <<>> = h
    BY <1>1, ConcatEmptySeq
  <2> QED
    BY <1>3, <1>4, <1>5, <2>1, <2>2, FlattenEmpty DEF r, h
<1>6. CASE n # 1
  <2>1. n - 1 \in Nat \ {0}
    BY <1>1, <1>6
  <2>2. PICK g : Flattens(g, r, n - 1) /\ FlattenSeq(r) = g[n - 1]
    BY <1>1, <2>1, FlattenSteps
  <2>3. \A i \in 1 .. n - 1 : g[i] \in Seq(B)
    BY <1>2, <2>1, <2>2, FlattensType
  <2> DEFINE P == {k \in Nat : k + 1 \in 1 .. n - 1 => f[(k + 1) + 1] = h \o g[k + 1]}
  <2>4. 0 \in P
    <3>1. f[1 + 1] = f[1] \o s[1 + 1]
      <4>1. n \in Nat /\ 1 \in Nat /\ 1 # 0 /\ 1 + 1 <= n
        BY <1>1, <2>1
      <4>2. LongerBy(f, s, 1)
        BY Zenon, <1>3, <4>1, FlattensStep
      <4> QED
        BY Zenon, <4>2 DEF LongerBy
    <3>2. g[1] = r[1] /\ r[1] = s[1 + 1]
      BY <1>1, <2>1, <2>2 DEF Flattens
    <3>3. 0 + 1 = 1 /\ f[1 + 1] = h \o g[1]
      BY <1>4, <3>1, <3>2
    <3>4. f[(0 + 1) + 1] = h \o g[0 + 1]
      BY Zenon, <3>3
    <3> QED
      BY <3>4
  <2>5. ASSUME NEW k \in P
        PROVE  k + 1 \in P
    <3> DEFINE j == k + 1
    <3> SUFFICES ASSUME j + 1 \in 1 .. n - 1
                 PROVE  f[(j + 1) + 1] = h \o g[j + 1]
      OBVIOUS
    <3>1. /\ j \in Nat /\ j # 0 /\ j \in 1 .. n - 1 /\ j + 1 <= n - 1 /\ n - 1 \in Nat
          /\ j + 1 \in Nat /\ j + 1 # 0 /\ (j + 1) + 1 <= n /\ n \in Nat
      BY <1>1
    <3>2. f[j + 1] = h \o g[j]
      BY <3>1
    <3> HIDE DEF j
    <3>3. f[(j + 1) + 1] = f[j + 1] \o s[(j + 1) + 1]
      <4>1. j + 1 \in Nat /\ j + 1 # 0 /\ (j + 1) + 1 <= n /\ n \in Nat
        BY <3>1
      <4>2. LongerBy(f, s, j + 1)
        BY Zenon, <1>3, <4>1, FlattensStep
      <4> QED
        BY Zenon, <4>2 DEF LongerBy
    <3>4. g[j + 1] = g[j] \o r[j + 1]
      <4>1. j \in Nat /\ j # 0 /\ j + 1 <= n - 1 /\ n - 1 \in Nat
        BY <3>1
      <4>2. LongerBy(g, r, j)
        BY Zenon, <2>2, <4>1, FlattensStep
      <4> QED
        BY Zenon, <4>2 DEF LongerBy
    <3>5. j + 1 \in 1 .. n - 1
      BY <3>1
    <3>6. r[j + 1] = s[(j + 1) + 1]
      BY <1>1, <3>5
    <3>7. g[j] \in Seq(B) /\ r[j + 1] \in Seq(B) /\ h \in Seq(B)
      BY <1>1, <1>2, <2>3, <3>1, <3>5
    <3>8. (h \o g[j]) \o r[j + 1] = h \o (g[j] \o r[j + 1])
      <4>1. Cat(Cat(h, g[j]), r[j + 1]) = Cat(h, Cat(g[j], r[j + 1]))
        BY <3>7, CatAssociative
      <4> QED
        BY <4>1 DEF Cat
    <3> QED
      BY <3>2, <3>3, <3>4, <3>6, <3>8
  <2> HIDE DEF P
  <2>6. P = Nat
    <3>1. P \in SUBSET Nat
      BY DEF P
    <3> QED
      BY <2>4, <2>5, <3>1, Induct
  <2>7. n - 2 \in P /\ (n - 2) + 1 = n - 1 /\ ((n - 2) + 1) + 1 = n
    BY <1>1, <2>1, <2>6
  <2>8. f[n] = h \o g[n - 1]
    <3>1. (n - 2) + 1 \in 1 .. n - 1
      BY <2>1, <2>7
    <3>2. f[((n - 2) + 1) + 1] = h \o g[(n - 2) + 1]
      BY <2>7, <3>1 DEF P
    <3> QED
      BY Zenon, <2>7, <3>2
  <2> QED
    BY <1>3, <2>2, <2>8 DEF r, h
<1> QED
  BY <1>5, <1>6
-----------------------------------------------------------------------------
(* The messages as bytes.                                                  *)
LEMMA HeaderBytes ==
  ASSUME NEW h \in Headers
  PROVE  h \in Seq(Byte) /\ Len(h) = MSG_HDR_LEN /\ DOMAIN h = 1 .. MSG_HDR_LEN
<1>1. MSG_HDR_LEN \in Nat /\ h \in [1 .. MSG_HDR_LEN -> Byte]
  BY DEF Headers, MSG_HDR_LEN
<1>2. h \in Seq(Byte)
  BY <1>1, SeqDef
<1>3. Len(h) \in Nat /\ DOMAIN h = 1 .. Len(h)
  BY <1>2, LenProperties
<1> QED
  BY <1>1, <1>2, <1>3 DEF MSG_HDR_LEN

LEMMA MessageBytes ==
  ASSUME NEW m \in Messages
  PROVE  /\ m.head \in Headers /\ m.head \in Seq(Byte) /\ Len(m.head) = MSG_HDR_LEN
         /\ m.data \in Seq(Byte) /\ Len(m.data) \in Nat
         /\ m = [head |-> m.head, data |-> m.data]
         /\ Message_dataLen(m.head) = Len(m.data)
         /\ Frame(m) = Cat(m.head, m.data) /\ Frame(m) \in Seq(Byte)
         /\ Len(Frame(m)) = MSG_HDR_LEN + Len(m.data)
<1>1. /\ m \in [head : Headers, data : Seq(Byte)]
      /\ Message_dataLen(m.head) = Len(m.data)
  BY MessagesAssumption
<1>2. m.head \in Headers /\ m.data \in Seq(Byte) /\ m = [head |-> m.head, data |-> m.data]
  BY <1>1
<1>3. m.head \in Seq(Byte) /\ Len(m.head) = MSG_HDR_LEN /\ Len(m.data) \in Nat
  BY <1>2, HeaderBytes, LenProperties
<1>4. Frame(m) = Cat(m.head, m.data)
  BY DEF Frame, Cat
<1>5. Cat(m.head, m.data) \in Seq(Byte)
      /\ Len(Cat(m.head, m.data)) = Len(m.head) + Len(m.data)
  BY <1>2, <1>3, CatType
<1> QED
  BY <1>1, <1>2, <1>3, <1>4, <1>5

Frames(s) == [k \in DOMAIN s |-> Frame(s[k])]

LEMMA FramesOfSeq ==
  ASSUME NEW s \in Seq(Messages)
  PROVE  /\ Frames(s) \in Seq(Seq(Byte)) /\ Len(Frames(s)) = Len(s) /\ Len(s) \in Nat
         /\ \A k \in 1 .. Len(s) : Frames(s)[k] = Frame(s[k])
<1>1. Len(s) \in Nat /\ DOMAIN s = 1 .. Len(s) /\ \A k \in 1 .. Len(s) : s[k] \in Messages
  BY LenProperties, ElementOfSeq
<1> DEFINE T == Seq(Byte)
<1>2. \A k \in 1 .. Len(s) : Frame(s[k]) \in T
  BY <1>1, MessageBytes
<1> HIDE DEF T
<1>3. Frames(s) \in [1 .. Len(s) -> T]
  BY <1>1, <1>2 DEF Frames
<1>4. Frames(s) \in Seq(T)
  BY <1>1, <1>3, SeqDef
<1>5. Len(Frames(s)) = Len(s)
  BY <1>1, <1>3, <1>4, LenProperties
<1> QED
  BY <1>1, <1>4, <1>5 DEF Frames, T

LEMMA FramesOfTail ==
  ASSUME NEW s \in Seq(Messages), s # <<>>
  PROVE  /\ Frames(s) # <<>> /\ Head(Frames(s)) = Frame(Head(s))
         /\ Tail(Frames(s)) = Frames(Tail(s))
<1> DEFINE T == Seq(Byte)
<1>1. /\ Tail(s) \in Seq(Messages) /\ Len(Tail(s)) = Len(s) - 1
      /\ \A i \in 1 .. Len(Tail(s)) : Tail(s)[i] = s[i + 1]
      /\ Len(s) \in Nat \ {0} /\ Head(s) = s[1]
  BY HeadTailProperties, EmptySeq
<1>2. /\ Frames(s) \in Seq(T) /\ Len(Frames(s)) = Len(s)
      /\ \A k \in 1 .. Len(s) : Frames(s)[k] = Frame(s[k])
      /\ Frames(Tail(s)) \in Seq(T) /\ Len(Frames(Tail(s))) = Len(s) - 1
      /\ \A k \in 1 .. Len(s) - 1 : Frames(Tail(s))[k] = Frame(Tail(s)[k])
  BY <1>1, FramesOfSeq
<1> HIDE DEF T
<1>3. Frames(s) # <<>> /\ Head(Frames(s)) = Frames(s)[1]
  BY <1>1, <1>2
<1>4. /\ Tail(Frames(s)) \in Seq(T) /\ Len(Tail(Frames(s))) = Len(s) - 1
      /\ \A k \in 1 .. Len(s) - 1 : Tail(Frames(s))[k] = Frames(s)[k + 1]
  BY <1>2, <1>3, HeadTailProperties
<1>5. \A k \in 1 .. Len(s) - 1 : Tail(Frames(s))[k] = Frames(Tail(s))[k]
  BY <1>1, <1>2, <1>4
<1>6. Tail(Frames(s)) = Frames(Tail(s))
  BY <1>2, <1>4, <1>5, SeqEqual
<1>7. Head(Frames(s)) = Frame(Head(s))
  BY <1>1, <1>2, <1>3
<1> QED
  BY <1>3, <1>6, <1>7

LEMMA FramesOfAppend ==
  ASSUME NEW s \in Seq(Messages), NEW m \in Messages
  PROVE  Frames(Append(s, m)) = Append(Frames(s), Frame(m))
<1> DEFINE T == Seq(Byte)
           t == Append(s, m)
           u == Append(Frames(s), Frame(m))
<1>1. /\ t \in Seq(Messages) /\ Len(t) = Len(s) + 1 /\ Len(s) \in Nat
      /\ \A i \in 1 .. Len(s) : t[i] = s[i]
      /\ t[Len(s) + 1] = m
  BY AppendProperties, LenProperties
<1>2. Frame(m) \in T
  BY MessageBytes
<1>3. /\ Frames(s) \in Seq(T) /\ Len(Frames(s)) = Len(s)
      /\ \A k \in 1 .. Len(s) : Frames(s)[k] = Frame(s[k])
      /\ Frames(t) \in Seq(T) /\ Len(Frames(t)) = Len(t)
      /\ \A k \in 1 .. Len(t) : Frames(t)[k] = Frame(t[k])
  BY <1>1, FramesOfSeq
<1> HIDE DEF T, t
<1>4. /\ u \in Seq(T) /\ Len(u) = Len(t)
      /\ \A i \in 1 .. Len(s) : u[i] = Frames(s)[i]
      /\ u[Len(t)] = Frame(m)
  BY <1>1, <1>2, <1>3, AppendProperties
<1>5. \A i \in 1 .. Len(t) : u[i] = Frames(t)[i]
  BY <1>1, <1>3, <1>4
<1> QED
  BY <1>3, <1>4, <1>5, SeqEqual DEF t

(* All bytes of some messages.                                             *)
Stream(s) == FlattenSeq(Frames(s))

LEMMA StreamEmpty == Stream(<<>>) = <<>>
<1>1. Frames(<<>>) \in Seq(Seq(Byte)) /\ Len(Frames(<<>>)) = 0
  BY FramesOfSeq, EmptySeq
<1>2. Frames(<<>>) = <<>>
  BY <1>1, EmptySeq
<1> QED
  BY <1>2, FlattenEmpty DEF Stream

LEMMA StreamType == \A s \in Seq(Messages) : Stream(s) \in Seq(Byte)
  BY FramesOfSeq, FlattenType DEF Stream

LEMMA StreamAppend ==
  \A s \in Seq(Messages), m \in Messages :
    Stream(Append(s, m)) = Cat(Stream(s), Frame(m))
<1> SUFFICES ASSUME NEW s \in Seq(Messages), NEW m \in Messages
             PROVE  Stream(Append(s, m)) = Cat(Stream(s), Frame(m))
  OBVIOUS
<1>1. FlattenSeq(Append(Frames(s), Frame(m))) = FlattenSeq(Frames(s)) \o Frame(m)
  BY FramesOfSeq, MessageBytes, FlattenAppend
<1>2. Frames(Append(s, m)) = Append(Frames(s), Frame(m))
  BY FramesOfAppend
<1> QED
  BY <1>1, <1>2 DEF Stream, Cat

LEMMA StreamHead ==
  \A s \in Seq(Messages) :
    s # <<>> => /\ Head(s) \in Messages /\ Tail(s) \in Seq(Messages)
                /\ Stream(s) = Cat(Frame(Head(s)), Stream(Tail(s)))
<1> SUFFICES ASSUME NEW s \in Seq(Messages), s # <<>>
             PROVE  /\ Head(s) \in Messages /\ Tail(s) \in Seq(Messages)
                    /\ Stream(s) = Cat(Frame(Head(s)), Stream(Tail(s)))
  OBVIOUS
<1>1. FlattenSeq(Frames(s)) = Head(Frames(s)) \o FlattenSeq(Tail(Frames(s)))
  BY FramesOfSeq, FramesOfTail, FlattenHeadTail
<1>2. Head(Frames(s)) = Frame(Head(s)) /\ Tail(Frames(s)) = Frames(Tail(s))
  BY FramesOfTail
<1> QED
  BY <1>1, <1>2, HeadTailProperties DEF Stream, Cat

(* What begins with a header begins with the first message's.              *)
LEMMA FirstHeader ==
  ASSUME NEW s \in Seq(Messages), NEW h \in Seq(Byte), Len(h) = MSG_HDR_LEN,
         NEW r \in Seq(Byte), Cat(h, r) = Stream(s)
  PROVE  /\ s # <<>> /\ h = Head(s).head
         /\ r = Cat(Head(s).data, Stream(Tail(s)))
<1>1. s # <<>>
  <2>1. Len(Cat(h, r)) = Len(h) + Len(r) /\ Len(r) \in Nat
    BY CatType, LenProperties
  <2>2. Len(Cat(h, r)) # 0
    BY <2>1 DEF MSG_HDR_LEN
  <2> QED
    BY <2>2, StreamEmpty, EmptySeq
<1> DEFINE m == Head(s)
           t == Stream(Tail(s))
<1>2. m \in Messages /\ t \in Seq(Byte) /\ Stream(s) = Cat(Frame(m), t)
  BY <1>1, StreamHead, StreamType
<1> HIDE DEF m, t
<1>3. /\ m.head \in Seq(Byte) /\ Len(m.head) = MSG_HDR_LEN /\ m.data \in Seq(Byte)
      /\ Frame(m) = Cat(m.head, m.data)
  BY <1>2, MessageBytes
<1>4. Stream(s) = Cat(m.head, Cat(m.data, t)) /\ Cat(m.data, t) \in Seq(Byte)
  <2>1. Cat(m.data, t) \in Seq(Byte)
    BY <1>2, <1>3, CatType
  <2>2. Cat(Cat(m.head, m.data), t) = Cat(m.head, Cat(m.data, t))
    <3> DEFINE a == m.head
               b == m.data
    <3>1. a \in Seq(Byte) /\ b \in Seq(Byte) /\ t \in Seq(Byte)
      BY <1>2, <1>3
    <3> HIDE DEF a, b
    <3>2. Cat(Cat(a, b), t) = Cat(a, Cat(b, t))
      BY <3>1, CatAssociative
    <3> QED
      BY <3>2 DEF a, b
  <2> QED
    BY <1>2, <1>3, <2>1, <2>2
<1>5. h = m.head /\ r = Cat(m.data, t)
  BY <1>3, <1>4, CatCancel
<1> QED
  BY <1>1, <1>5 DEF m, t

(* And what goes on with as many bytes as its data goes on with its data.  *)
LEMMA FirstData ==
  ASSUME NEW s \in Seq(Messages), s # <<>>, NEW d \in Seq(Byte), NEW r \in Seq(Byte),
         Len(d) = Len(Head(s).data), Cat(d, r) = Cat(Head(s).data, Stream(Tail(s)))
  PROVE  d = Head(s).data /\ r = Stream(Tail(s))
<1>1. Head(s).data \in Seq(Byte) /\ Stream(Tail(s)) \in Seq(Byte)
  BY StreamHead, StreamType, MessageBytes
<1> QED
  BY <1>1, CatCancel
-----------------------------------------------------------------------------
(* The areas the receives copy into.                                       *)
LEMMA Prefix ==
  ASSUME NEW n \in Nat, NEW area \in [1 .. n -> Byte], NEW k \in 0 .. n
  PROVE  /\ SubSeq(area, 1, k) \in Seq(Byte) /\ Len(SubSeq(area, 1, k)) = k
         /\ \A i \in 1 .. k : SubSeq(area, 1, k)[i] = area[i]
<1> DEFINE p == SubSeq(area, 1, k)
<1>1. k \in Int /\ 1 \in Int /\ \A i \in 1 .. k : area[i] \in Byte
  OBVIOUS
<1>2. /\ p \in Seq(Byte) /\ Len(p) = IF 1 <= k THEN k - 1 + 1 ELSE 0
      /\ \A i \in 1 .. k - 1 + 1 : p[i] = area[1 + i - 1]
  BY <1>1, SubSeqProperties
<1> HIDE DEF p
<1>3. Len(p) = k /\ \A i \in 1 .. k : p[i] = area[i]
  BY <1>2
<1> QED
  BY <1>2, <1>3 DEF p

LEMMA WholePrefix ==
  ASSUME NEW n \in Nat, NEW area \in [1 .. n -> Byte]
  PROVE  area \in Seq(Byte) /\ Len(area) = n /\ SubSeq(area, 1, n) = area
<1>1. area \in Seq(Byte)
  BY SeqDef
<1>2. Len(area) = n
  BY <1>1, LenProperties
<1> QED
  BY <1>1, <1>2, SubSeqFull

LEMMA Copied ==
  ASSUME NEW n \in Nat, NEW area \in [1 .. n -> Byte], NEW o \in Nat, NEW b \in Seq(Byte)
  PROVE  /\ CopyInto(area, o, b) \in [1 .. n -> Byte]
         /\ \A i \in 1 .. n : CopyInto(area, o, b)[i]
                                = IF i - o \in 1 .. Len(b) THEN b[i - o] ELSE area[i]
<1>1. DOMAIN b = 1 .. Len(b) /\ \A i \in 1 .. Len(b) : b[i] \in Byte
  BY LenProperties, ElementOfSeq
<1> QED
  BY <1>1 DEF CopyInto

(* What is copied in behind a prefix prolongs it.                          *)
LEMMA CopyProlongs ==
  ASSUME NEW n \in Nat, NEW area \in [1 .. n -> Byte], NEW o \in Nat, NEW b \in Seq(Byte),
         o + Len(b) <= n
  PROVE  SubSeq(CopyInto(area, o, b), 1, o + Len(b)) = Cat(SubSeq(area, 1, o), b)
<1> DEFINE c == CopyInto(area, o, b)
           k == o + Len(b)
           p == SubSeq(area, 1, o)
           q == SubSeq(c, 1, k)
<1>1. Len(b) \in Nat /\ o \in 0 .. n /\ k \in 0 .. n
  BY LenProperties
<1>2. /\ c \in [1 .. n -> Byte]
      /\ \A i \in 1 .. n : c[i] = IF i - o \in 1 .. Len(b) THEN b[i - o] ELSE area[i]
  BY Copied
<1> HIDE DEF c
<1>3. p \in Seq(Byte) /\ Len(p) = o /\ \A i \in 1 .. o : p[i] = area[i]
  BY <1>1, Prefix
<1>4. q \in Seq(Byte) /\ Len(q) = k /\ \A i \in 1 .. k : q[i] = c[i]
  BY <1>1, <1>2, Prefix
<1> HIDE DEF p, q
<1> DEFINE r == Cat(p, b)
<1>5. r \in Seq(Byte) /\ Parts(r, p, b)
  BY <1>3, CatType, CatParts
<1> HIDE DEF r
<1>6. Len(r) = k
  BY <1>3, <1>5 DEF Parts
<1>7. ASSUME NEW i \in 1 .. k
      PROVE  q[i] = r[i]
  <2>1. CASE i <= o
    <3>1. i \in 1 .. o /\ i \in 1 .. n /\ ~ (i - o \in 1 .. Len(b))
      BY <1>1, <2>1
    <3>2. r[i] = p[i]
      BY <1>3, <1>5, <3>1 DEF Parts
    <3> QED
      BY <1>2, <1>3, <1>4, <3>1, <3>2
  <2>2. CASE ~ (i <= o)
    <3>1. PICK j \in 1 .. Len(b) : j = i - o
      BY <1>1, <2>2
    <3>2. i = o + j /\ i \in 1 .. n
      BY <1>1, <3>1
    <3>3. r[i] = b[j]
      BY <1>3, <1>5, <3>2 DEF Parts
    <3>4. c[i] = b[j]
      BY <1>2, <3>1, <3>2
    <3> QED
      BY <1>4, <3>3, <3>4
  <2> QED
    BY <2>1, <2>2
<1>8. q = r
  BY <1>4, <1>5, <1>6, <1>7, SeqEqual
<1> QED
  BY <1>8 DEF q, r, p, c

(* A piece taken off the front of the connection.                          *)
LEMMA TakeOff ==
  ASSUME NEW S, NEW c \in Seq(S), NEW k \in 0 .. Len(c)
  PROVE  /\ SubSeq(c, 1, k) \in Seq(S) /\ Len(SubSeq(c, 1, k)) = k
         /\ SubSeq(c, k + 1, Len(c)) \in Seq(S)
         /\ Len(SubSeq(c, k + 1, Len(c))) = Len(c) - k
         /\ c = Cat(SubSeq(c, 1, k), SubSeq(c, k + 1, Len(c)))
<1>1. Len(c) \in Nat /\ k \in Int /\ k + 1 \in Int /\ Len(c) \in Int /\ 1 \in Int
  BY LenProperties
<1>2. \A i \in 1 .. Len(c) : c[i] \in S
  BY ElementOfSeq
<1>3. SubSeq(c, 1, k) \in Seq(S) /\ Len(SubSeq(c, 1, k)) = IF 1 <= k THEN k - 1 + 1 ELSE 0
  BY <1>1, <1>2, SubSeqProperties
<1>4. /\ SubSeq(c, k + 1, Len(c)) \in Seq(S)
      /\ Len(SubSeq(c, k + 1, Len(c)))
           = IF k + 1 <= Len(c) THEN Len(c) - (k + 1) + 1 ELSE 0
  BY <1>1, <1>2, SubSeqProperties
<1>5. SubSeq(c, 1, k) \o SubSeq(c, k + 1, Len(c)) = SubSeq(c, 1, Len(c))
  <2>1. 1 \in 1 .. Len(c) + 1 /\ k \in 1 - 1 .. Len(c) /\ Len(c) \in k .. Len(c)
    BY <1>1
  <2> QED
    BY Zenon, <2>1, ConcatAdjacentSubSeq
<1>6. SubSeq(c, 1, Len(c)) = c
  BY SubSeqFull
<1>7. c = Cat(SubSeq(c, 1, k), SubSeq(c, k + 1, Len(c)))
  BY Zenon, <1>5, <1>6 DEF Cat
<1>8. Len(SubSeq(c, 1, k)) = k /\ Len(SubSeq(c, k + 1, Len(c))) = Len(c) - k
  BY <1>1, <1>3, <1>4
<1> QED
  BY <1>3, <1>4, <1>7, <1>8
LEMMA MinOfTwo ==
  \A a, b \in Nat : Min({a, b}) \in Nat /\ Min({a, b}) <= a /\ Min({a, b}) <= b
<1> SUFFICES ASSUME NEW a \in Nat, NEW b \in Nat
             PROVE  Min({a, b}) \in Nat /\ Min({a, b}) <= a /\ Min({a, b}) <= b
  OBVIOUS
<1> DEFINE Least2(x) == x \in {a, b} /\ \A y \in {a, b} : x <= y
<1>1. \E x : Least2(x)
  <2>1. CASE a <= b
    BY <2>1
  <2>2. CASE ~ (a <= b)
    BY <2>2
  <2> QED
    BY <2>1, <2>2
<1>2. Min({a, b}) = CHOOSE x : Least2(x)
  BY DEF Min
<1>3. Least2(CHOOSE x : Least2(x))
  <2> HIDE DEF Least2
  <2> QED
    BY <1>1
<1> QED
  BY <1>2, <1>3

LEMMA MaxOfTwo == \A a, b \in Nat : a <= Max({a, b}) /\ b <= Max({a, b}) /\ Max({a, b}) \in Nat
<1> SUFFICES ASSUME NEW a \in Nat, NEW b \in Nat
             PROVE  a <= Max({a, b}) /\ b <= Max({a, b}) /\ Max({a, b}) \in Nat
  OBVIOUS
<1> DEFINE Most2(x) == x \in {a, b} /\ \A y \in {a, b} : x >= y
<1>1. \E x : Most2(x)
  <2>1. CASE a <= b
    BY <2>1
  <2>2. CASE ~ (a <= b)
    BY <2>2
  <2> QED
    BY <2>1, <2>2
<1>2. Max({a, b}) = CHOOSE x : Most2(x)
  BY DEF Max
<1>3. Most2(CHOOSE x : Most2(x))
  <2> HIDE DEF Most2
  <2> QED
    BY <1>1
<1> QED
  BY <1>2, <1>3

(* A recv prolongs what lies in an area by what it takes off the           *)
(* connection; area and connection together stay what they were.           *)
Prolonged(n, area, o, c, k, r) ==
  /\ CopyInto(area, o, SubSeq(c, 1, k)) \in [1 .. n -> Byte]
  /\ SubSeq(c, k + 1, Len(c)) \in Seq(Byte)
  /\ Len(SubSeq(c, k + 1, Len(c))) = Len(c) - k
  /\ SubSeq(CopyInto(area, o, SubSeq(c, 1, k)), 1, o + k) \in Seq(Byte)
  /\ Len(SubSeq(CopyInto(area, o, SubSeq(c, 1, k)), 1, o + k)) = o + k
  /\ Cat(SubSeq(CopyInto(area, o, SubSeq(c, 1, k)), 1, o + k),
         Cat(SubSeq(c, k + 1, Len(c)), r))
       = Cat(SubSeq(area, 1, o), Cat(c, r))

LEMMA AreaProlonged ==
  ASSUME NEW n \in Nat, NEW area \in [1 .. n -> Byte], NEW o \in Nat,
         NEW c \in Seq(Byte), NEW k \in 0 .. Len(c), o + k <= n, NEW r \in Seq(Byte)
  PROVE  Prolonged(n, area, o, c, k, r)
<1> DEFINE b == SubSeq(c, 1, k)
           rest == SubSeq(c, k + 1, Len(c))
           copied == CopyInto(area, o, b)
           p == SubSeq(area, 1, o)
           q == SubSeq(copied, 1, o + k)
<1>1. /\ b \in Seq(Byte) /\ Len(b) = k /\ rest \in Seq(Byte) /\ Len(rest) = Len(c) - k
      /\ c = Cat(b, rest)
  BY TakeOff
<1> HIDE DEF b, rest
<1>2. k \in Nat /\ o \in 0 .. n /\ o + k \in 0 .. n
  OBVIOUS
<1>3. copied \in [1 .. n -> Byte]
  BY <1>1, Copied
<1>4. p \in Seq(Byte)
  BY <1>2, Prefix
<1>5. q = Cat(p, b)
  <2>1. SubSeq(CopyInto(area, o, b), 1, o + Len(b)) = Cat(SubSeq(area, 1, o), b)
    <3>1. o + Len(b) <= n
      BY <1>1
    <3> QED
      BY <1>1, <3>1, CopyProlongs
  <2> QED
    BY <1>1, <2>1
<1>6. q \in Seq(Byte) /\ Len(q) = o + k
  <2> HIDE DEF copied
  <2> QED
    BY <1>2, <1>3, Prefix
<1> HIDE DEF p, q
<1>7. Cat(rest, r) \in Seq(Byte)
  BY <1>1, CatType
<1>8. Cat(Cat(p, b), Cat(rest, r)) = Cat(p, Cat(b, Cat(rest, r)))
  BY <1>1, <1>4, <1>7, CatAssociative
<1>9. Cat(Cat(b, rest), r) = Cat(b, Cat(rest, r))
  BY <1>1, CatAssociative
<1>10. Cat(q, Cat(rest, r)) = Cat(p, Cat(c, r))
  BY Zenon, <1>1, <1>5, <1>8, <1>9
<1> QED
  BY Zenon, <1>1, <1>3, <1>6, <1>10 DEF Prolonged, p, q, copied, rest, b
-----------------------------------------------------------------------------
(* The inductive invariant.                                                *)
Areas ==
  /\ mode \in Modes /\ closed \in BOOLEAN /\ sent \in 0 .. Sends
  /\ head \in Headers
  /\ recvData \in [1 .. MAXDATA_VALUE -> Byte]
  /\ tmpbuf \in [1 .. MSG_HDR_LEN + MAXDATA_VALUE -> Byte]
  /\ inFlight \in Seq(Messages)

(* Each loop runs in its mode, asks for bytes of its own area only, and    *)
(* runs only after receives that were good.                                *)
Control ==
  /\ rpc \in {"caller", "recvHeader", "recvData", "read"}
  /\ ret \in GMSR_BADDATA .. MSG_HDR_LEN + MAXDATA_VALUE
  /\ rpc = "caller" => targetLength = 0
  /\ rpc = "read" => mode = "GMSR_FILE" /\ targetLength = 0 /\ ret > 0
  /\ rpc = "recvHeader" =>
       mode = "GMSR_SOCKET" /\ targetLength \in 1 .. MSG_HDR_LEN /\ ret > 0
  /\ rpc = "recvData" =>
       /\ mode = "GMSR_SOCKET" /\ ret > 0
       /\ Message_dataLen(head) <= MAXDATA_VALUE
       /\ targetLength \in 1 .. Message_dataLen(head)

(* A packet in a device driver has the first bytes of its message.         *)
PacketOf(p, m) ==
  /\ Len(m.data) <= MAXDATA_VALUE
  /\ \E wrote \in 1 .. Len(Frame(m)) : p = SubSeq(Frame(m), 1, wrote)

Packets ==
  /\ conn \in Seq(Seq(Byte))
  /\ Len(conn) = Len(inFlight)
  /\ \A k \in 1 .. Len(conn) : PacketOf(conn[k], inFlight[k])

Link ==
  /\ Len(conn) <= Room
  /\ mode = "GMSR_SOCKET" => conn \in Seq(Byte) /\ unsent \in Seq(Byte)
  /\ mode = "GMSR_FILE" => unsent = <<>> /\ Packets
  /\ mode = "GMSR_FDERR" => conn = <<>> /\ unsent = <<>> /\ inFlight = <<>> /\ closed

(* The bytes taken, those in the connection, those unsent and those lost   *)
(* when the peer hung up are the messages.                                 *)
Lost(lost) ==
  /\ lost \in Seq(Byte)
  /\ Cat(Consumed, Cat(conn, Cat(unsent, lost))) = Stream(inFlight)
  /\ ~ closed => lost = <<>>

InStep == mode = "GMSR_SOCKET" /\ ret >= 0 => \E lost : Lost(lost)

IInv == Areas /\ Control /\ Link /\ InStep
LEMMA LengthIsNat == \A h \in Headers : Message_dataLen(h) \in Nat
<1> SUFFICES ASSUME NEW h \in Headers
             PROVE  Message_dataLen(h) \in Nat
  OBVIOUS
<1>1. h[4] \in Byte /\ h[3] \in Byte
  BY DEF Headers, MSG_HDR_LEN
<1> QED
  BY <1>1, ByteRange DEF Message_dataLen, dlenHI, dlenLO

LEMMA ConsumedType ==
  ASSUME Areas, Control
  PROVE  Consumed \in Seq(Byte)
<1>1. head \in Seq(Byte) /\ Message_dataLen(head) \in Nat /\ MSG_HDR_LEN = 8
  BY HeaderBytes, LengthIsNat DEF Areas, MSG_HDR_LEN
<1>2. CASE rpc = "recvHeader"
  <2>1. MSG_HDR_LEN - targetLength \in 0 .. MSG_HDR_LEN /\ MSG_HDR_LEN \in Nat
    <3>1. targetLength \in 1 .. MSG_HDR_LEN
      BY Zenon, <1>2 DEF Control
    <3> QED
      BY <1>1, <3>1
  <2>2. head \in [1 .. MSG_HDR_LEN -> Byte]
    BY DEF Areas, Headers
  <2>3. SubSeq(head, 1, MSG_HDR_LEN - targetLength) \in Seq(Byte)
    BY <2>1, <2>2, Prefix
  <2> QED
    BY <1>2, <2>3 DEF Consumed
<1>3. CASE rpc = "recvData"
  <2>1. Message_dataLen(head) - targetLength \in 0 .. MAXDATA_VALUE
    <3>1. /\ targetLength \in 1 .. Message_dataLen(head)
          /\ Message_dataLen(head) <= MAXDATA_VALUE
      BY Zenon, <1>3 DEF Control
    <3> QED
      BY <1>1, <3>1, MaxDataAssumption
  <2>2. recvData \in [1 .. MAXDATA_VALUE -> Byte] /\ MAXDATA_VALUE \in Nat
    BY MaxDataAssumption DEF Areas
  <2>3. SubSeq(recvData, 1, Message_dataLen(head) - targetLength) \in Seq(Byte)
    BY <2>1, <2>2, Prefix
  <2>4. Cat(head, SubSeq(recvData, 1, Message_dataLen(head) - targetLength)) \in Seq(Byte)
    BY <1>1, <2>3, CatType
  <2> QED
    BY <1>3, <2>4 DEF Consumed, Cat
<1>4. CASE rpc \notin {"recvHeader", "recvData"}
  BY <1>4, EmptySeq DEF Consumed
<1> QED
  BY <1>2, <1>3, <1>4

LEMMA InitStep == Init => IInv
<1> SUFFICES ASSUME Init
             PROVE  IInv
  OBVIOUS
<1> USE DEF Init
<1>1. Areas
  <2>1. 0 \in Byte /\ <<>> \in Seq(Messages)
    BY EmptySeq DEF Byte
  <2> QED
    BY <2>1, RoomAssumption DEF Areas, Headers, Modes
<1>2. Control
  BY MaxDataAssumption DEF Control, GMSR_BADDATA, MSG_HDR_LEN
<1>3. Len(<<>>) = 0 /\ <<>> \in Seq(Byte) /\ <<>> \in Seq(Seq(Byte))
  BY EmptySeq
<1>4. Link
  <2>1. conn = <<>> /\ unsent = <<>> /\ inFlight = <<>>
    OBVIOUS
  <2>2. Len(conn) <= Room
    BY <1>3, <2>1, RoomAssumption
  <2>3. Packets
    <3>1. \A k \in 1 .. Len(conn) : FALSE
      BY <1>3, <2>1
    <3> QED
      BY <1>3, <2>1, <3>1 DEF Packets
  <2>4. mode = "GMSR_FDERR" => closed
    OBVIOUS
  <2> HIDE DEF Init
  <2> QED
    BY <1>3, <2>1, <2>2, <2>3, <2>4 DEF Link
<1>5. Lost(<<>>)
  <2>1. Consumed = <<>>
    BY DEF Consumed
  <2>2. Cat(<<>>, <<>>) = <<>>
    BY <1>3, CatEmpty
  <2> QED
    BY <1>3, <2>1, <2>2, StreamEmpty DEF Lost
<1> QED
  BY <1>1, <1>2, <1>4, <1>5 DEF IInv, InStep

(* What a message sent adds at the end.                                    *)
LEMMA SentBehind ==
  ASSUME NEW c \in Seq(Byte), NEW b \in Seq(Byte), NEW f \in Seq(Byte)
  PROVE  Cat(c, Cat(b, Cat(f, <<>>))) = Cat(Cat(c, Cat(b, Cat(<<>>, <<>>))), f)
<1>1. <<>> \in Seq(Byte)
  BY EmptySeq
<1>2. Cat(f, <<>>) = f /\ Cat(<<>>, <<>>) = <<>> /\ Cat(b, <<>>) = b
  BY <1>1, CatEmpty
<1>3. Cat(Cat(c, b), f) = Cat(c, Cat(b, f))
  BY CatAssociative
<1> QED
  BY <1>2, <1>3

LEMMA SendToSocketStep ==
  ASSUME IInv, NEW m \in Messages, SendToSocket(m)
  PROVE  IInv'
<1> USE DEF SendToSocket, recvVars
<1>1. mode = "GMSR_SOCKET" /\ mode' = mode /\ ~ closed /\ closed' = closed
  OBVIOUS
<1>2. Areas'
  BY AppendProperties, RoomAssumption DEF IInv, Areas
<1>3. Control'
  BY DEF IInv, Control
<1>4. Link'
  BY MessageBytes DEF IInv, Link
<1>5. ASSUME NEW lost, Lost(lost)
      PROVE  Lost(lost)'
  <2>1. lost = <<>> /\ unsent = <<>> /\ unsent' = Frame(m) /\ Frame(m) \in Seq(Byte)
        /\ conn \in Seq(Byte)
    BY <1>1, <1>5, MessageBytes DEF Lost, IInv, Link
  <2>2. Consumed' = Consumed /\ Consumed \in Seq(Byte)
    BY ConsumedType DEF IInv, Consumed
  <2>3. Stream(inFlight)' = Cat(Stream(inFlight), Frame(m))
    BY StreamAppend DEF IInv, Areas
  <2>4. Cat(Consumed, Cat(conn, Cat(<<>>, <<>>))) = Stream(inFlight)
    BY <1>5, <2>1 DEF Lost
  <2>5. Cat(Consumed, Cat(conn, Cat(Frame(m), <<>>))) = Cat(Stream(inFlight), Frame(m))
    BY <2>1, <2>2, <2>4, SentBehind
  <2> QED
    BY <1>5, <2>1, <2>2, <2>3, <2>5 DEF Lost
<1>6. InStep'
  BY <1>1, <1>5 DEF IInv, InStep
<1> QED
  BY <1>2, <1>3, <1>4, <1>6 DEF IInv
(* Bytes move from one sequence to the next without a change of the whole. *)
LEMMA MovedOn ==
  \A a, b, c, d, e \in Seq(Byte) :
    Cat(a, Cat(Cat(b, c), Cat(d, e))) = Cat(a, Cat(b, Cat(Cat(c, d), e)))
<1> SUFFICES ASSUME NEW a \in Seq(Byte), NEW b \in Seq(Byte), NEW c \in Seq(Byte),
                    NEW d \in Seq(Byte), NEW e \in Seq(Byte)
             PROVE  Cat(a, Cat(Cat(b, c), Cat(d, e))) = Cat(a, Cat(b, Cat(Cat(c, d), e)))
  OBVIOUS
<1>1. Cat(Cat(c, d), e) = Cat(c, Cat(d, e))
  BY CatAssociative
<1> DEFINE f == Cat(d, e)
<1>2. f \in Seq(Byte)
  BY CatType
<1> HIDE DEF f
<1>3. Cat(Cat(b, c), f) = Cat(b, Cat(c, f))
  BY <1>2, CatAssociative
<1> QED
  BY <1>1, <1>3 DEF f

LEMMA LinkLengths ==
  ASSUME Areas, Link
  PROVE  /\ Len(conn) \in Nat /\ Len(unsent) \in Nat /\ Room - Len(conn) \in Nat
         /\ mode # "GMSR_SOCKET" => Len(unsent) = 0
<1>1. mode \in {"GMSR_SOCKET", "GMSR_FILE", "GMSR_FDERR"} /\ Len(conn) <= Room
  BY DEF Areas, Modes, Link
<1>2. CASE mode = "GMSR_SOCKET"
  BY <1>1, <1>2, RoomAssumption, LenProperties DEF Link
<1>3. CASE mode = "GMSR_FILE"
  BY <1>1, <1>3, RoomAssumption, LenProperties, EmptySeq DEF Link, Packets
<1>4. CASE mode = "GMSR_FDERR"
  BY <1>1, <1>4, RoomAssumption, EmptySeq DEF Link
<1> QED
  BY <1>1, <1>2, <1>3, <1>4

LEMMA SocketTakesStep ==
  ASSUME IInv, SocketTakes
  PROVE  IInv'
<1>1. PICK n \in 1 .. Min({Len(unsent), Room - Len(conn)}) :
           /\ conn' = conn \o SubSeq(unsent, 1, n)
           /\ unsent' = SubSeq(unsent, n + 1, Len(unsent))
           /\ UNCHANGED <<mode, closed, sent, recvVars, inFlight, got>>
  BY DEF SocketTakes
<1>2. /\ n \in Nat /\ 1 <= n /\ n <= Len(unsent) /\ Len(conn) + n <= Room
      /\ mode = "GMSR_SOCKET" /\ Len(conn) \in Nat
  <2>1. Areas /\ Link
    BY DEF IInv
  <2>2. /\ Len(conn) \in Nat /\ Len(unsent) \in Nat /\ Room - Len(conn) \in Nat
        /\ mode # "GMSR_SOCKET" => Len(unsent) = 0
    BY <2>1, LinkLengths
  <2> DEFINE k == Min({Len(unsent), Room - Len(conn)})
  <2>3. k \in Nat /\ k <= Len(unsent) /\ k <= Room - Len(conn)
    BY <2>2, MinOfTwo
  <2>4. n \in 1 .. k
    OBVIOUS
  <2> HIDE DEF k
  <2> QED
    BY <2>2, <2>3, <2>4, RoomAssumption
<1> DEFINE b == SubSeq(unsent, 1, n)
           rest == SubSeq(unsent, n + 1, Len(unsent))
<1>3. conn \in Seq(Byte) /\ unsent \in Seq(Byte)
  BY <1>2 DEF IInv, Link
<1>4. /\ b \in Seq(Byte) /\ Len(b) = n /\ rest \in Seq(Byte) /\ unsent = Cat(b, rest)
  <2>1. n \in 0 .. Len(unsent)
    BY <1>2, <1>3, LenProperties
  <2> QED
    BY <1>3, <2>1, TakeOff
<1>5. conn' = Cat(conn, b) /\ unsent' = rest
  BY <1>1 DEF Cat
<1> HIDE DEF b, rest
<1>6. Areas'
  BY <1>1 DEF IInv, Areas, recvVars
<1>7. Control'
  BY <1>1 DEF IInv, Control, recvVars
<1>8. Link'
  <2>1. conn' \in Seq(Byte) /\ Len(conn') = Len(conn) + n
    BY <1>3, <1>4, <1>5, CatType
  <2> QED
    BY <1>1, <1>2, <1>4, <1>5, <2>1 DEF Link
<1>9. ASSUME NEW lost, Lost(lost)
      PROVE  Lost(lost)'
  <2>1. Consumed' = Consumed /\ Consumed \in Seq(Byte)
    BY <1>1, ConsumedType DEF IInv, Consumed, recvVars
  <2>2. Cat(Consumed, Cat(Cat(conn, b), Cat(rest, lost)))
          = Cat(Consumed, Cat(conn, Cat(Cat(b, rest), lost)))
    BY <1>3, <1>4, <1>9, <2>1, MovedOn DEF Lost
  <2>3. Cat(Consumed, Cat(conn, Cat(unsent, lost))) = Stream(inFlight)
    BY <1>9 DEF Lost
  <2>4. Cat(Consumed, Cat(conn', Cat(unsent', lost))) = Stream(inFlight)
    BY Zenon, <1>4, <1>5, <2>2, <2>3
  <2> QED
    BY <1>1, <1>9, <2>1, <2>4 DEF Lost
<1>10. InStep'
  BY <1>1, <1>2, <1>9 DEF IInv, InStep, recvVars
<1> QED
  BY <1>6, <1>7, <1>8, <1>10 DEF IInv

LEMMA HangUpStep ==
  ASSUME IInv, HangUp
  PROVE  IInv'
<1> USE DEF HangUp, recvVars
<1>1. Areas'
  BY DEF IInv, Areas
<1>2. Control'
  BY DEF IInv, Control
<1>3. Link'
  <2>1. unsent' = <<>> /\ <<>> \in Seq(Byte) /\ mode' = mode /\ conn' = conn
        /\ inFlight' = inFlight /\ closed'
    BY EmptySeq
  <2>2. Packets' <=> Packets
    BY <2>1 DEF Packets
  <2> QED
    BY <2>1, <2>2 DEF IInv, Link
<1>4. ASSUME NEW lost, Lost(lost), mode = "GMSR_SOCKET"
      PROVE  \E gone : Lost(gone)'
  <2>1. unsent \in Seq(Byte) /\ lost \in Seq(Byte)
    BY <1>4 DEF IInv, Link, Lost
  <2>2. Cat(unsent, lost) \in Seq(Byte)
    BY <2>1, CatType
  <2>3. Cat(<<>>, Cat(unsent, lost)) = Cat(unsent, lost)
    BY <2>2, CatEmpty
  <2>4. PICK gone : gone = Cat(unsent, lost)
    OBVIOUS
  <2>5. Cat(Consumed, Cat(conn, Cat(<<>>, gone))) = Stream(inFlight)
    BY <1>4, <2>3, <2>4 DEF Lost
  <2>6. Consumed' = Consumed /\ conn' = conn /\ unsent' = <<>> /\ inFlight' = inFlight
        /\ closed'
    BY DEF Consumed
  <2>7. Lost(gone)'
    BY <2>2, <2>4, <2>5, <2>6 DEF Lost
  <2> QED
    BY <2>7
<1>5. InStep'
  BY <1>4 DEF IInv, InStep
<1> QED
  BY <1>1, <1>2, <1>3, <1>5 DEF IInv
LEMMA HeaderLength == MSG_HDR_LEN = 8 /\ MSG_HDR_LEN \in Nat
  BY DEF MSG_HDR_LEN

LEMMA CallStep ==
  ASSUME IInv, gmsr_recvMessageGeneric
  PROVE  IInv'
<1>1. mode \in {"GMSR_SOCKET", "GMSR_FILE", "GMSR_FDERR"}
  BY DEF IInv, Areas, Modes
<1>2. /\ mode' = mode /\ conn' = conn /\ unsent' = unsent /\ closed' = closed
      /\ sent' = sent /\ head' = head /\ recvData' = recvData /\ tmpbuf' = tmpbuf
      /\ inFlight' = inFlight
  BY <1>1 DEF gmsr_recvMessageGeneric, connVars, Fail
<1>3. Areas'
  BY <1>2 DEF IInv, Areas
<1>4. Link'
  <2>1. Packets' <=> Packets
    BY <1>2 DEF Packets
  <2> QED
    BY <1>2, <2>1 DEF IInv, Link
<1>5. rpc = "caller" /\ ret > 0
  BY DEF gmsr_recvMessageGeneric
<1>6. ret \in GMSR_BADDATA .. MSG_HDR_LEN + MAXDATA_VALUE /\ targetLength = 0
  BY <1>5 DEF IInv, Control
<1>7. CASE mode = "GMSR_SOCKET"
  <2>1. rpc' = "recvHeader" /\ targetLength' = MSG_HDR_LEN /\ ret' = ret
    BY <1>7 DEF gmsr_recvMessageGeneric
  <2>2. MSG_HDR_LEN \in 1 .. MSG_HDR_LEN
    BY HeaderLength
  <2>3. Control'
    BY <1>2, <1>5, <1>6, <1>7, <2>1, <2>2 DEF Control
  <2>4. Consumed = <<>>
    BY <1>5 DEF Consumed
  <2>5. SubSeq(head', 1, 0) = <<>>
    BY SubSeqEmpty
  <2>6. MSG_HDR_LEN - MSG_HDR_LEN = 0
    BY HeaderLength
  <2>7. Consumed' = <<>>
    BY <2>1, <2>5, <2>6 DEF Consumed
  <2>8. ret >= 0
    BY <1>5, <1>6, HeaderLength, MaxDataAssumption DEF GMSR_BADDATA
  <2>9. PICK lost : Lost(lost)
    BY <1>7, <2>8 DEF IInv, InStep
  <2>10. Lost(lost)'
    BY <1>2, <2>4, <2>7, <2>9 DEF Lost
  <2> QED
    BY <1>3, <1>4, <2>3, <2>10 DEF IInv, InStep
<1>8. CASE mode = "GMSR_FILE"
  <2>1. rpc' = "read" /\ targetLength' = targetLength /\ ret' = ret
    BY <1>8 DEF gmsr_recvMessageGeneric
  <2>2. Control' /\ InStep'
    BY <1>2, <1>5, <1>6, <1>8, <2>1 DEF Control, InStep
  <2> QED
    BY <1>3, <1>4, <2>2 DEF IInv
<1>9. CASE mode = "GMSR_FDERR"
  <2>1. rpc' = "caller" /\ targetLength' = 0 /\ ret' = GMSR_FDERR
    BY <1>9 DEF gmsr_recvMessageGeneric, Fail
  <2>2. GMSR_FDERR \in GMSR_BADDATA .. MSG_HDR_LEN + MAXDATA_VALUE
    BY HeaderLength, MaxDataAssumption DEF GMSR_FDERR, GMSR_BADDATA
  <2>3. Control' /\ InStep'
    BY <1>2, <1>9, <2>1, <2>2 DEF Control, InStep
  <2> QED
    BY <1>3, <1>4, <2>3 DEF IInv
<1> QED
  BY <1>1, <1>7, <1>8, <1>9

(* The receive returns an error, and everything but its state stays.       *)
LEMMA FailStep ==
  ASSUME IInv, NEW sts \in GMSR_BADDATA .. -1, Fail(sts),
         UNCHANGED <<mode, connVars, head, recvData, tmpbuf>>
  PROVE  IInv'
<1> USE DEF Fail, connVars
<1>1. Areas'
  BY DEF IInv, Areas
<1>2. Packets' <=> Packets
  BY DEF Packets
<1>3. Link'
  BY <1>2 DEF IInv, Link
<1>4. sts < 0 /\ sts \in GMSR_BADDATA .. MSG_HDR_LEN + MAXDATA_VALUE
  BY MaxDataAssumption DEF MSG_HDR_LEN, GMSR_BADDATA
<1>5. Control'
  BY <1>4 DEF Control
<1>6. InStep'
  BY <1>4 DEF InStep, GMSR_BADDATA
<1> QED
  BY <1>1, <1>3, <1>5, <1>6 DEF IInv

LEMMA RecvFailsStep ==
  ASSUME IInv, RecvFails
  PROVE  IInv'
<1>1. GMSR_EOF \in GMSR_BADDATA .. -1
  BY DEF GMSR_EOF, GMSR_BADDATA
<1> QED
  BY <1>1, FailStep DEF RecvFails

LEMMA ReadFailsStep ==
  ASSUME IInv, ReadFails
  PROVE  IInv'
<1>1. GMSR_SHORTRD \in GMSR_BADDATA .. -1
  BY DEF GMSR_SHORTRD, GMSR_BADDATA
<1> QED
  BY <1>1, FailStep DEF ReadFails

(* A recv takes no more than is there, and no more than it is asked for.   *)
LEMMA Counts ==
  ASSUME NEW sts \in Available, Len(conn) \in Nat, targetLength \in Nat
  PROVE  sts \in 1 .. targetLength /\ sts \in 0 .. Len(conn)
<1> DEFINE k == Min({Len(conn), targetLength})
<1>1. k \in Nat /\ k <= Len(conn) /\ k <= targetLength
  BY MinOfTwo
<1>2. sts \in 1 .. k
  BY DEF Available
<1> HIDE DEF k
<1> QED
  BY <1>1, <1>2

LEMMA HeaderCounts ==
  ASSUME IInv, rpc = "recvHeader", NEW sts \in Available
  PROVE  /\ conn \in Seq(Byte) /\ Len(conn) \in Nat /\ Len(conn) <= Room
         /\ targetLength \in Nat /\ sts \in 1 .. targetLength /\ sts \in 0 .. Len(conn)
         /\ MSG_HDR_LEN - targetLength \in Nat
         /\ (MSG_HDR_LEN - targetLength) + sts \in 0 .. MSG_HDR_LEN
         /\ (MSG_HDR_LEN - targetLength) + sts = MSG_HDR_LEN - (targetLength - sts)
<1>1. conn \in Seq(Byte) /\ Len(conn) <= Room
  <2>1. mode = "GMSR_SOCKET"
    BY DEF IInv, Control
  <2> QED
    BY <2>1 DEF IInv, Link
<1>2. targetLength \in 1 .. MSG_HDR_LEN
  BY Zenon DEF IInv, Control
<1>3. Len(conn) \in Nat
  BY <1>1, LenProperties
<1>4. targetLength \in Nat /\ 1 <= targetLength /\ targetLength <= MSG_HDR_LEN
  BY <1>2 DEF MSG_HDR_LEN
<1>5. sts \in 1 .. targetLength /\ sts \in 0 .. Len(conn)
  BY <1>3, <1>4, Counts
<1> QED
  BY <1>1, <1>3, <1>4, <1>5 DEF MSG_HDR_LEN

(* What one recv of the header loop finds in its buffer.                   *)
LEMMA HeaderTaken ==
  ASSUME IInv, rpc = "recvHeader", NEW sts \in Available
  PROVE  LET h == CopyInto(head, MSG_HDR_LEN - targetLength, SubSeq(conn, 1, sts))
             rest == SubSeq(conn, sts + 1, Len(conn))
             taken == SubSeq(h, 1, MSG_HDR_LEN - (targetLength - sts))
         IN  /\ h \in Headers /\ rest \in Seq(Byte) /\ Len(rest) <= Room
             /\ taken \in Seq(Byte)
             /\ \A x \in Seq(Byte) :
                  Cat(taken, Cat(rest, x)) = Cat(Consumed, Cat(conn, x))
             /\ ~ (targetLength > sts) => taken = h
<1> DEFINE o == MSG_HDR_LEN - targetLength
           h == CopyInto(head, o, SubSeq(conn, 1, sts))
           rest == SubSeq(conn, sts + 1, Len(conn))
           taken == SubSeq(h, 1, MSG_HDR_LEN - (targetLength - sts))
<1>1. /\ conn \in Seq(Byte) /\ Len(conn) \in Nat /\ Len(conn) <= Room
      /\ targetLength \in Nat /\ sts \in 1 .. targetLength /\ sts \in 0 .. Len(conn)
      /\ o \in Nat /\ o + sts \in 0 .. MSG_HDR_LEN
      /\ o + sts = MSG_HDR_LEN - (targetLength - sts)
  BY HeaderCounts
<1>2. head \in [1 .. MSG_HDR_LEN -> Byte]
  BY DEF IInv, Areas, Headers
<1>3. ~ (targetLength > sts) => o + sts = MSG_HDR_LEN
  BY <1>1 DEF MSG_HDR_LEN
<1>4. o + sts <= MSG_HDR_LEN
  BY <1>1 DEF MSG_HDR_LEN
<1>5. Consumed = SubSeq(head, 1, o)
  BY DEF Consumed
<1> HIDE DEF o
<1>6. ASSUME NEW x \in Seq(Byte)
      PROVE  /\ h \in [1 .. MSG_HDR_LEN -> Byte]
             /\ rest \in Seq(Byte) /\ Len(rest) = Len(conn) - sts
             /\ SubSeq(h, 1, o + sts) \in Seq(Byte)
             /\ Cat(SubSeq(h, 1, o + sts), Cat(rest, x))
                  = Cat(SubSeq(head, 1, o), Cat(conn, x))
  <2>1. /\ MSG_HDR_LEN \in Nat /\ head \in [1 .. MSG_HDR_LEN -> Byte] /\ o \in Nat
        /\ conn \in Seq(Byte) /\ sts \in 0 .. Len(conn) /\ o + sts <= MSG_HDR_LEN
    BY <1>1, <1>2, <1>4, HeaderLength
  <2> DEFINE n == MSG_HDR_LEN
  <2> HIDE DEF n
  <2>2. /\ n \in Nat /\ head \in [1 .. n -> Byte] /\ o \in Nat
        /\ conn \in Seq(Byte) /\ sts \in 0 .. Len(conn) /\ o + sts <= n
    BY <2>1 DEF n
  <2>3. /\ h \in [1 .. n -> Byte]
        /\ rest \in Seq(Byte) /\ Len(rest) = Len(conn) - sts
        /\ SubSeq(h, 1, o + sts) \in Seq(Byte)
        /\ Cat(SubSeq(h, 1, o + sts), Cat(rest, x)) = Cat(SubSeq(head, 1, o), Cat(conn, x))
    <3>1. Prolonged(n, head, o, conn, sts, x)
      BY <2>2, AreaProlonged
    <3> QED
      BY Zenon, <3>1 DEF Prolonged
  <2> QED
    BY <2>3 DEF n
<1>7. <<>> \in Seq(Byte)
  BY EmptySeq
<1> HIDE DEF h, rest
<1>8. /\ h \in [1 .. MSG_HDR_LEN -> Byte] /\ rest \in Seq(Byte)
      /\ Len(rest) = Len(conn) - sts
  BY <1>6, <1>7
<1>9. taken = SubSeq(h, 1, o + sts)
  BY <1>1
<1>10. taken \in Seq(Byte)
  BY <1>6, <1>7, <1>9
<1>11. ~ (targetLength > sts) => taken = h
  <2>1. SubSeq(h, 1, MSG_HDR_LEN) = h
    BY <1>8, HeaderLength, WholePrefix
  <2> QED
    BY <1>3, <1>9, <2>1
<1>12. Len(rest) <= Room
  BY <1>1, <1>8, RoomAssumption
<1>13. \A x \in Seq(Byte) : Cat(taken, Cat(rest, x)) = Cat(Consumed, Cat(conn, x))
  BY <1>5, <1>6, <1>9
<1>14. h \in Headers
  BY <1>8 DEF Headers
<1> HIDE DEF taken
<1> QED
  BY <1>8, <1>10, <1>11, <1>12, <1>13, <1>14 DEF taken, h, rest, o
-----------------------------------------------------------------------------
(* How the steps look in FrameTransport.                                   *)
FrameStep == Transport!Next \/ UNCHANGED Transport!frameVars

LEMMA StutterMaps ==
  ASSUME mode' = mode, closed' = closed, inFlight' = inFlight, got' = got,
         ret' < 0 <=> ret < 0
  PROVE  FrameStep
<1>1. UNCHANGED Transport!frameVars
  BY Zenon DEF Transport!frameVars
<1> QED
  BY <1>1 DEF FrameStep

LEMMA SendMaps ==
  ASSUME mode' = mode, closed' = closed, ret' = ret, got' = got, ~ closed,
         NEW m \in Messages, inFlight' = Append(inFlight, m)
  PROVE  FrameStep
<1>1. Transport!Send(m)
  BY DEF Transport!Send
<1> QED
  BY <1>1 DEF FrameStep, Transport!Next

LEMMA HangUpMaps ==
  ASSUME mode' = mode, closed' = TRUE, ret' = ret, got' = got, closed = FALSE,
         inFlight' = inFlight
  PROVE  FrameStep
<1>1. CASE ret < 0
  <2>1. UNCHANGED Transport!frameVars
    BY <1>1 DEF Transport!frameVars
  <2> QED
    BY <2>1 DEF FrameStep
<1>2. CASE ~ (ret < 0)
  <2>1. Transport!Break
    BY <1>2 DEF Transport!Break
  <2> QED
    BY <2>1 DEF FrameStep, Transport!Next
<1> QED
  BY <1>1, <1>2

LEMMA ReceiveMaps ==
  ASSUME mode' = mode, closed' = closed, ~ (ret < 0), ~ (ret' < 0),
         inFlight # <<>>, Len(Head(inFlight).data) <= MAXDATA_VALUE,
         Transport!Arrives(Head(inFlight)), inFlight' = Tail(inFlight)
  PROVE  FrameStep
<1>1. Transport!Receive
  <2> HIDE DEF Transport!Arrives
  <2> QED
    BY DEF Transport!Receive
<1> QED
  BY <1>1 DEF FrameStep, Transport!Next

LEMMA WholeArrives ==
  ASSUME mode' = mode, closed' = closed, ~ (ret < 0), ~ (ret' < 0),
         inFlight # <<>>, Len(Head(inFlight).data) <= MAXDATA_VALUE,
         got' = Head(inFlight), inFlight' = Tail(inFlight)
  PROVE  FrameStep
<1>1. Transport!Arrives(Head(inFlight))
  BY DEF Transport!Arrives, Transport!Arrivals
<1> QED
  BY <1>1, ReceiveMaps

LEMMA GiveUpMaps ==
  ASSUME mode' = mode, ret' < 0, inFlight' = inFlight, got' = got,
         \/ closed /\ ~ (ret < 0)
         \/ inFlight # <<>> /\ Len(Head(inFlight).data) > MAXDATA_VALUE
  PROVE  FrameStep
<1>1. Transport!GiveUp
  BY DEF Transport!GiveUp
<1> QED
  BY <1>1 DEF FrameStep, Transport!Next
-----------------------------------------------------------------------------
LEMMA HeaderComplete ==
  ASSUME NEW h \in Headers, NEW r \in Seq(Byte), NEW s \in Seq(Messages),
         Cat(h, r) = Stream(s)
  PROVE  /\ s # <<>> /\ Head(s) \in Messages /\ Tail(s) \in Seq(Messages)
         /\ h = Head(s).head /\ Message_dataLen(h) = Len(Head(s).data)
         /\ r = Cat(Head(s).data, Stream(Tail(s)))
<1>1. h \in Seq(Byte) /\ Len(h) = MSG_HDR_LEN
  BY HeaderBytes
<1>2. s # <<>> /\ h = Head(s).head /\ r = Cat(Head(s).data, Stream(Tail(s)))
  BY <1>1, FirstHeader
<1>3. Head(s) \in Messages /\ Tail(s) \in Seq(Messages)
  BY <1>2, StreamHead
<1>4. Message_dataLen(Head(s).head) = Len(Head(s).data)
  BY <1>3, MessageBytes
<1> QED
  BY <1>2, <1>3, <1>4

LEMMA RecvHeaderStep ==
  ASSUME IInv, RecvHeader
  PROVE  IInv' /\ FrameStep
<1>1. rpc = "recvHeader" /\ mode = "GMSR_SOCKET" /\ ret > 0
      /\ ret \in GMSR_BADDATA .. MSG_HDR_LEN + MAXDATA_VALUE
  BY DEF RecvHeader, IInv, Control
<1>2. PICK sts \in Available :
       /\ TakeBytes(sts)
       /\ head' = CopyInto(head, MSG_HDR_LEN - targetLength, SubSeq(conn, 1, sts))
       /\ IF targetLength > sts
          THEN /\ targetLength' = targetLength - sts
               /\ UNCHANGED <<rpc, ret, inFlight, got>>
          ELSE CASE Message_dataLen(head') > MAXDATA_VALUE -> Fail(GMSR_BADDATA)
                 [] Message_dataLen(head') = 0 -> Deliver(0, head', recvData)
                 [] OTHER -> /\ rpc' = "recvData"
                             /\ targetLength' = Message_dataLen(head')
                             /\ UNCHANGED <<ret, inFlight, got>>
  BY DEF RecvHeader
<1>3. UNCHANGED <<mode, unsent, closed, sent, recvData, tmpbuf>>
  BY DEF RecvHeader
<1> DEFINE taken == SubSeq(head', 1, MSG_HDR_LEN - (targetLength - sts))
<1>4. /\ head' \in Headers /\ conn' \in Seq(Byte) /\ Len(conn') <= Room
      /\ taken \in Seq(Byte)
      /\ \A x \in Seq(Byte) : Cat(taken, Cat(conn', x)) = Cat(Consumed, Cat(conn, x))
      /\ ~ (targetLength > sts) => taken = head'
  BY <1>1, <1>2, HeaderTaken DEF TakeBytes
<1>5. targetLength \in 1 .. MSG_HDR_LEN /\ sts \in 1 .. targetLength
      /\ unsent \in Seq(Byte) /\ inFlight \in Seq(Messages)
  BY <1>1, HeaderCounts DEF IInv, Control, Link, Areas
<1>6. PICK lost : Lost(lost)
  BY <1>1, MaxDataAssumption DEF IInv, InStep, GMSR_BADDATA, MSG_HDR_LEN
<1> DEFINE x == Cat(unsent, lost)
<1>7. lost \in Seq(Byte) /\ x \in Seq(Byte) /\ Cat(Consumed, Cat(conn, x)) = Stream(inFlight)
      /\ (~ closed => lost = <<>>)
  BY <1>5, <1>6, CatType DEF Lost
<1> HIDE DEF x
<1>8. Cat(taken, Cat(conn', x)) = Stream(inFlight)
  BY <1>4, <1>7
<1> HIDE DEF taken
<1>9. inFlight' \in Seq(Messages) => Areas' /\ Link'
  BY <1>1, <1>3, <1>4, <1>5 DEF IInv, Areas, Link
<1>10. CASE targetLength > sts
  <2>1. targetLength' = targetLength - sts /\ rpc' = rpc /\ ret' = ret
        /\ inFlight' = inFlight /\ got' = got
    BY <1>2, <1>10
  <2>2. Areas' /\ Link'
    BY <1>5, <1>9, <2>1
  <2>3. targetLength' \in 1 .. MSG_HDR_LEN
    BY <1>5, <1>10, <2>1 DEF MSG_HDR_LEN
  <2>4. Control'
    BY <1>1, <1>3, <2>1, <2>3 DEF Control
  <2>5. Consumed' = taken
    BY <1>1, <2>1 DEF Consumed, taken
  <2>6. Lost(lost)'
    BY <1>3, <1>7, <1>8, <2>1, <2>5 DEF Lost, x
  <2>7. FrameStep
    BY <1>3, <2>1, StutterMaps
  <2> QED
    BY <2>2, <2>4, <2>6, <2>7 DEF IInv, InStep
<1>11. CASE ~ (targetLength > sts)
  <2> DEFINE m == Head(inFlight)
             L == Message_dataLen(head')
  <2>1. Cat(head', Cat(conn', x)) = Stream(inFlight)
    BY <1>4, <1>8, <1>11
  <2>2. Cat(conn', x) \in Seq(Byte)
    BY <1>4, <1>7, CatType
  <2>3. /\ inFlight # <<>> /\ m \in Messages /\ Tail(inFlight) \in Seq(Messages)
        /\ head' = m.head /\ L = Len(m.data)
        /\ Cat(conn', x) = Cat(m.data, Stream(Tail(inFlight)))
    BY <1>4, <1>5, <2>1, <2>2, HeaderComplete
  <2>4. m = [head |-> m.head, data |-> m.data] /\ m.data \in Seq(Byte) /\ L \in Nat
    BY <2>3, MessageBytes
  <2> HIDE DEF m, L
  <2>5. CASE L > MAXDATA_VALUE
    <3>1. Fail(GMSR_BADDATA)
      <4>1. Message_dataLen(head') > MAXDATA_VALUE
        BY <2>5 DEF L
      <4>2. Message_dataLen(head') # 0
        BY <2>4, <4>1, MaxDataAssumption DEF L
      <4> QED
        BY <1>2, <1>11, <4>1, <4>2
    <3>2. rpc' = "caller" /\ targetLength' = 0 /\ ret' = GMSR_BADDATA /\ inFlight' = inFlight
          /\ got' = got
      BY <3>1 DEF Fail
    <3>3. ret' < 0 /\ ~ (ret' >= 0) /\ ret' \in GMSR_BADDATA .. MSG_HDR_LEN + MAXDATA_VALUE
      BY <3>2, MaxDataAssumption DEF GMSR_BADDATA, MSG_HDR_LEN
    <3>4. Control' /\ InStep'
      BY <3>2, <3>3 DEF Control, InStep
    <3>5. Areas' /\ Link'
      BY <1>5, <1>9, <3>2
    <3>6. FrameStep
      BY <1>3, <2>3, <2>5, <3>2, <3>3, GiveUpMaps DEF m
    <3> QED
      BY <3>4, <3>5, <3>6 DEF IInv
  <2>6. CASE L = 0
    <3>1. Deliver(0, head', recvData)
      BY <1>2, <1>11, <2>6, MaxDataAssumption DEF L
    <3>2. rpc' = "caller" /\ targetLength' = 0 /\ ret' = 0 /\ inFlight' = Tail(inFlight)
          /\ got' = Seen(head', recvData)
      BY <3>1 DEF Deliver
    <3>3. ret' \in GMSR_BADDATA .. MSG_HDR_LEN + MAXDATA_VALUE
      BY <3>2, MaxDataAssumption DEF GMSR_BADDATA, MSG_HDR_LEN
    <3>4. Control'
      BY <3>2, <3>3 DEF Control
    <3>5. Areas' /\ Link'
      BY <1>9, <2>3, <3>2
    <3>6. m.data = <<>>
      BY <2>3, <2>4, <2>6, EmptySeq
    <3>7. Stream(Tail(inFlight)) \in Seq(Byte)
      BY <2>3, StreamType
    <3>8. Cat(<<>>, Stream(Tail(inFlight))) = Stream(Tail(inFlight))
      BY <3>7, CatEmpty
    <3>9. Cat(<<>>, Cat(conn', x)) = Cat(conn', x)
      BY <2>2, CatEmpty
    <3>10. Cat(<<>>, Cat(conn', x)) = Stream(inFlight)'
      BY <2>3, <3>2, <3>6, <3>8, <3>9
    <3>11. Consumed' = <<>>
      BY <3>2 DEF Consumed
    <3>12. Lost(lost)'
      BY <1>3, <1>7, <3>10, <3>11 DEF Lost, x
    <3>13. got' = m
      <4>1. SubSeq(recvData, 1, 0) = <<>>
        BY SubSeqEmpty
      <4>2. SetDataLen(L) = 0
        BY <2>6, MaxDataAssumption DEF SetDataLen
      <4> QED
        BY <2>3, <2>4, <2>6, <3>2, <3>6, <4>1, <4>2 DEF Seen, L
    <3>14. ~ (ret < 0) /\ ~ (ret' < 0) /\ Len(m.data) <= MAXDATA_VALUE
      BY <1>1, <2>3, <2>6, <3>2, MaxDataAssumption DEF GMSR_BADDATA, MSG_HDR_LEN
    <3>15. FrameStep
      BY <1>3, <2>3, <3>2, <3>13, <3>14, WholeArrives DEF m
    <3> QED
      BY <3>4, <3>5, <3>12, <3>15 DEF IInv, InStep
  <2>7. CASE ~ (L > MAXDATA_VALUE) /\ L # 0
    <3>1. rpc' = "recvData" /\ targetLength' = L /\ ret' = ret /\ inFlight' = inFlight
          /\ got' = got
      BY <1>2, <1>11, <2>7 DEF L
    <3>2. L \in 1 .. L /\ L <= MAXDATA_VALUE /\ L - L = 0
      BY <2>4, <2>7, MaxDataAssumption
    <3>3. Control'
      BY <1>1, <1>3, <3>1, <3>2 DEF Control, L
    <3>4. Areas' /\ Link'
      BY <1>5, <1>9, <3>1
    <3>5. Consumed' = Cat(head', SubSeq(recvData', 1, 0))
      BY <3>1, <3>2 DEF Consumed, Cat, L
    <3>6. Consumed' = head'
      <4>1. SubSeq(recvData', 1, 0) = <<>>
        BY SubSeqEmpty
      <4>2. head' \in Seq(Byte)
        BY <1>4, HeaderBytes
      <4> QED
        BY <3>5, <4>1, <4>2, CatEmpty
    <3>7. Lost(lost)'
      BY <1>3, <1>7, <2>1, <3>1, <3>6 DEF Lost, x
    <3>8. FrameStep
      BY <1>3, <3>1, StutterMaps
    <3> QED
      BY <3>3, <3>4, <3>7, <3>8 DEF IInv, InStep
  <2> QED
    BY <2>5, <2>6, <2>7
<1> QED
  BY <1>10, <1>11
LEMMA DataCounts ==
  ASSUME IInv, rpc = "recvData", NEW sts \in Available
  PROVE  /\ conn \in Seq(Byte) /\ Len(conn) \in Nat /\ Len(conn) <= Room
         /\ Message_dataLen(head) \in Nat /\ Message_dataLen(head) <= MAXDATA_VALUE
         /\ targetLength \in 1 .. Message_dataLen(head)
         /\ sts \in 1 .. targetLength /\ sts \in 0 .. Len(conn)
         /\ Message_dataLen(head) - targetLength \in Nat
         /\ (Message_dataLen(head) - targetLength) + sts \in 0 .. Message_dataLen(head)
         /\ (Message_dataLen(head) - targetLength) + sts
              = Message_dataLen(head) - (targetLength - sts)
<1> DEFINE L == Message_dataLen(head)
<1>1. conn \in Seq(Byte) /\ Len(conn) <= Room
  <2>1. mode = "GMSR_SOCKET"
    BY DEF IInv, Control
  <2> QED
    BY <2>1 DEF IInv, Link
<1>2. targetLength \in 1 .. L /\ L <= MAXDATA_VALUE
  BY Zenon DEF IInv, Control
<1>3. Len(conn) \in Nat
  BY <1>1, LenProperties
<1>4. L \in Nat
  BY LengthIsNat DEF IInv, Areas
<1> HIDE DEF L
<1>5. targetLength \in Nat /\ 1 <= targetLength /\ targetLength <= L
  BY <1>2, <1>4
<1>6. sts \in 1 .. targetLength /\ sts \in 0 .. Len(conn)
  BY <1>3, <1>5, Counts
<1>7. L - targetLength \in Nat /\ (L - targetLength) + sts \in 0 .. L
      /\ (L - targetLength) + sts = L - (targetLength - sts)
  BY <1>4, <1>5, <1>6
<1> QED
  BY <1>1, <1>2, <1>3, <1>4, <1>6, <1>7 DEF L

(* What one recv of the data loop finds in the data area.                  *)
LEMMA DataTaken ==
  ASSUME IInv, rpc = "recvData", NEW sts \in Available
  PROVE  LET L == Message_dataLen(head)
             d == CopyInto(recvData, L - targetLength, SubSeq(conn, 1, sts))
             rest == SubSeq(conn, sts + 1, Len(conn))
             taken == SubSeq(d, 1, L - (targetLength - sts))
         IN  /\ d \in [1 .. MAXDATA_VALUE -> Byte]
             /\ rest \in Seq(Byte) /\ Len(rest) <= Room
             /\ taken \in Seq(Byte) /\ Len(taken) = L - (targetLength - sts)
             /\ \A x \in Seq(Byte) :
                  Cat(Cat(head, taken), Cat(rest, x)) = Cat(Consumed, Cat(conn, x))
<1> DEFINE L == Message_dataLen(head)
           o == L - targetLength
           d == CopyInto(recvData, o, SubSeq(conn, 1, sts))
           rest == SubSeq(conn, sts + 1, Len(conn))
           taken == SubSeq(d, 1, L - (targetLength - sts))
           old == SubSeq(recvData, 1, o)
           n == MAXDATA_VALUE
<1>1. /\ conn \in Seq(Byte) /\ Len(conn) \in Nat /\ Len(conn) <= Room
      /\ L \in Nat /\ L <= n
      /\ targetLength \in 1 .. L
      /\ sts \in 1 .. targetLength /\ sts \in 0 .. Len(conn)
      /\ o \in Nat /\ o + sts \in 0 .. L
      /\ o + sts = L - (targetLength - sts)
  BY DataCounts
<1>2. head \in Seq(Byte) /\ recvData \in [1 .. n -> Byte] /\ n \in Nat
  BY HeaderBytes, MaxDataAssumption DEF IInv, Areas
<1>3. Consumed = Cat(head, old)
  BY DEF Consumed, Cat
<1> HIDE DEF n, L, o
<1>4. o + sts <= n /\ o \in 0 .. n
  BY <1>1, <1>2
<1>5. old \in Seq(Byte)
  BY <1>2, <1>4, Prefix
<1>6. ASSUME NEW x \in Seq(Byte)
      PROVE  /\ d \in [1 .. n -> Byte]
             /\ rest \in Seq(Byte) /\ Len(rest) = Len(conn) - sts
             /\ SubSeq(d, 1, o + sts) \in Seq(Byte)
             /\ Len(SubSeq(d, 1, o + sts)) = o + sts
             /\ Cat(SubSeq(d, 1, o + sts), Cat(rest, x)) = Cat(old, Cat(conn, x))
  <2>1. /\ n \in Nat /\ recvData \in [1 .. n -> Byte] /\ o \in Nat
        /\ conn \in Seq(Byte) /\ sts \in 0 .. Len(conn) /\ o + sts <= n
    BY <1>1, <1>2, <1>4
  <2>2. Prolonged(n, recvData, o, conn, sts, x)
    BY <2>1, AreaProlonged
  <2> QED
    BY Zenon, <2>2 DEF Prolonged
<1>7. <<>> \in Seq(Byte)
  BY EmptySeq
<1> HIDE DEF d, rest, old
<1>8. d \in [1 .. n -> Byte] /\ rest \in Seq(Byte) /\ Len(rest) = Len(conn) - sts
  BY <1>6, <1>7
<1>9. taken = SubSeq(d, 1, o + sts)
  BY <1>1
<1>10. taken \in Seq(Byte) /\ Len(taken) = o + sts
  BY <1>6, <1>7, <1>9
<1>11. Len(rest) <= Room
  BY <1>1, <1>8, RoomAssumption
<1>12. ASSUME NEW x \in Seq(Byte)
       PROVE  Cat(Cat(head, taken), Cat(rest, x)) = Cat(Consumed, Cat(conn, x))
  <2> HIDE DEF taken
  <2>1. Cat(taken, Cat(rest, x)) = Cat(old, Cat(conn, x))
    BY <1>6, <1>9
  <2>2. Cat(rest, x) \in Seq(Byte) /\ Cat(conn, x) \in Seq(Byte)
    BY <1>1, <1>8, CatType
  <2>3. Cat(Cat(head, taken), Cat(rest, x)) = Cat(head, Cat(taken, Cat(rest, x)))
    <3> DEFINE y == Cat(rest, x)
    <3>1. y \in Seq(Byte)
      BY <2>2
    <3> HIDE DEF y
    <3>2. Cat(Cat(head, taken), y) = Cat(head, Cat(taken, y))
      BY <1>2, <1>10, <3>1, CatAssociative
    <3> QED
      BY <3>2 DEF y
  <2>4. Cat(Cat(head, old), Cat(conn, x)) = Cat(head, Cat(old, Cat(conn, x)))
    <3> DEFINE y == Cat(conn, x)
    <3>1. y \in Seq(Byte)
      BY <2>2
    <3> HIDE DEF y
    <3>2. Cat(Cat(head, old), y) = Cat(head, Cat(old, y))
      BY <1>2, <1>5, <3>1, CatAssociative
    <3> QED
      BY <3>2 DEF y
  <2> QED
    BY <1>3, <2>1, <2>3, <2>4
<1> HIDE DEF taken
<1>13. Len(taken) = L - (targetLength - sts)
  BY <1>1, <1>10
<1> QED
  BY <1>8, <1>10, <1>11, <1>12, <1>13 DEF taken, d, rest, o, L, n

LEMMA RecvDataStep ==
  ASSUME IInv, RecvData
  PROVE  IInv' /\ FrameStep
<1>1. rpc = "recvData" /\ mode = "GMSR_SOCKET" /\ ret > 0
      /\ ret \in GMSR_BADDATA .. MSG_HDR_LEN + MAXDATA_VALUE
  BY DEF RecvData, IInv, Control
<1> DEFINE L == Message_dataLen(head)
<1>2. PICK sts \in Available :
       /\ TakeBytes(sts)
       /\ recvData' = CopyInto(recvData, Message_dataLen(head) - targetLength,
                               SubSeq(conn, 1, sts))
       /\ IF targetLength > sts
          THEN /\ targetLength' = targetLength - sts
               /\ UNCHANGED <<rpc, ret, inFlight, got>>
          ELSE Deliver(Message_dataLen(head), head, recvData')
  BY DEF RecvData
<1>3. UNCHANGED <<mode, unsent, closed, sent, head, tmpbuf>>
  BY DEF RecvData
<1> DEFINE taken == SubSeq(recvData', 1, L - (targetLength - sts))
<1>4. /\ recvData' \in [1 .. MAXDATA_VALUE -> Byte]
      /\ conn' \in Seq(Byte) /\ Len(conn') <= Room
      /\ taken \in Seq(Byte) /\ Len(taken) = L - (targetLength - sts)
      /\ \A x \in Seq(Byte) :
           Cat(Cat(head, taken), Cat(conn', x)) = Cat(Consumed, Cat(conn, x))
  BY <1>1, <1>2, DataTaken DEF TakeBytes
<1>5. /\ L \in Nat /\ L <= MAXDATA_VALUE /\ targetLength \in 1 .. L
      /\ sts \in 1 .. targetLength
      /\ unsent \in Seq(Byte) /\ inFlight \in Seq(Messages) /\ head \in Headers
      /\ head \in Seq(Byte)
  BY <1>1, DataCounts, HeaderBytes DEF IInv, Link, Areas
<1>6. PICK lost : Lost(lost)
  BY <1>1, MaxDataAssumption DEF IInv, InStep, GMSR_BADDATA, MSG_HDR_LEN
<1> DEFINE x == Cat(unsent, lost)
<1>7. lost \in Seq(Byte) /\ x \in Seq(Byte) /\ Cat(Consumed, Cat(conn, x)) = Stream(inFlight)
      /\ (~ closed => lost = <<>>)
  BY <1>5, <1>6, CatType DEF Lost
<1> HIDE DEF x
<1>8. Cat(Cat(head, taken), Cat(conn', x)) = Stream(inFlight)
  BY <1>4, <1>7
<1> HIDE DEF taken
<1>9. inFlight' \in Seq(Messages) => Areas' /\ Link'
  BY <1>1, <1>3, <1>4, <1>5 DEF IInv, Areas, Link
<1>10. CASE targetLength > sts
  <2>1. targetLength' = targetLength - sts /\ rpc' = rpc /\ ret' = ret
        /\ inFlight' = inFlight /\ got' = got
    BY <1>2, <1>10
  <2>2. Areas' /\ Link'
    BY <1>5, <1>9, <2>1
  <2>3. targetLength' \in 1 .. L
    <3> HIDE DEF L
    <3> QED
      BY <1>5, <1>10, <2>1
  <2>4. Control'
    BY <1>1, <1>3, <1>5, <2>1, <2>3 DEF Control
  <2>5. Consumed' = Cat(head, taken)
    BY <1>1, <1>3, <2>1 DEF Consumed, taken, Cat
  <2>6. Lost(lost)'
    BY <1>3, <1>7, <1>8, <2>1, <2>5 DEF Lost, x
  <2>7. FrameStep
    BY <1>3, <2>1, StutterMaps
  <2> QED
    BY <2>2, <2>4, <2>6, <2>7 DEF IInv, InStep
<1>11. CASE ~ (targetLength > sts)
  <2> DEFINE m == Head(inFlight)
             y == Cat(taken, Cat(conn', x))
  <2>1. Len(taken) = L /\ taken = SubSeq(recvData', 1, L)
    <3>1. L - (targetLength - sts) = L
      <4> HIDE DEF L
      <4> QED
        BY <1>5, <1>11
    <3> QED
      BY <1>4, <3>1 DEF taken
  <2>2. Cat(conn', x) \in Seq(Byte)
    BY <1>4, <1>7, CatType
  <2>3. y \in Seq(Byte)
    BY <1>4, <2>2, CatType
  <2>4. Cat(head, y) = Stream(inFlight)
    <3> DEFINE z == Cat(conn', x)
    <3>1. z \in Seq(Byte)
      BY <2>2
    <3>2. Cat(Cat(head, taken), z) = Stream(inFlight)
      BY <1>8
    <3> HIDE DEF z
    <3>3. Cat(Cat(head, taken), z) = Cat(head, Cat(taken, z))
      BY <1>4, <1>5, <3>1, CatAssociative
    <3> QED
      BY <3>2, <3>3 DEF z
  <2>5. /\ inFlight # <<>> /\ m \in Messages /\ Tail(inFlight) \in Seq(Messages)
        /\ head = m.head /\ L = Len(m.data)
        /\ y = Cat(m.data, Stream(Tail(inFlight)))
    <3> HIDE DEF y
    <3> QED
      BY <1>5, <2>3, <2>4, HeaderComplete
  <2>6. taken = m.data /\ Cat(conn', x) = Stream(Tail(inFlight))
    <3> DEFINE r == Cat(conn', x)
    <3>1. r \in Seq(Byte) /\ Cat(taken, r) = Cat(m.data, Stream(Tail(inFlight)))
      BY <2>2, <2>5
    <3>2. Len(taken) = Len(m.data)
      BY <2>1, <2>5
    <3> HIDE DEF r
    <3>3. taken = m.data /\ r = Stream(Tail(inFlight))
      BY <1>4, <1>5, <2>5, <3>1, <3>2, FirstData
    <3> QED
      BY <3>3 DEF r
  <2>7. m = [head |-> m.head, data |-> m.data]
    BY <2>5, MessageBytes
  <2> HIDE DEF y, m
  <2>8. Deliver(L, head, recvData')
    BY <1>2, <1>11
  <2>9. rpc' = "caller" /\ targetLength' = 0 /\ ret' = L /\ inFlight' = Tail(inFlight)
        /\ got' = Seen(head, recvData')
    BY <2>8 DEF Deliver
  <2>10. ret' \in GMSR_BADDATA .. MSG_HDR_LEN + MAXDATA_VALUE /\ ~ (ret' < 0)
    <3> HIDE DEF L
    <3> QED
      BY <1>5, <2>9, MaxDataAssumption DEF GMSR_BADDATA, MSG_HDR_LEN
  <2>11. Control'
    BY <2>9, <2>10 DEF Control
  <2>12. Areas' /\ Link'
    BY <1>9, <2>5, <2>9
  <2>13. Consumed' = <<>>
    BY <2>9 DEF Consumed
  <2>14. Cat(<<>>, Cat(conn', x)) = Stream(inFlight)'
    BY <2>2, <2>6, <2>9, CatEmpty
  <2>15. Lost(lost)'
    BY <1>3, <1>7, <2>13, <2>14 DEF Lost, x
  <2>16. got' = m
    <3>1. SetDataLen(L) = L
      <4> HIDE DEF L
      <4> QED
        BY <1>5, MaxDataAssumption DEF SetDataLen
    <3> QED
      BY <2>1, <2>5, <2>6, <2>7, <2>9, <3>1 DEF Seen
  <2>17. ~ (ret < 0) /\ Len(m.data) <= MAXDATA_VALUE
    BY <1>1, <1>5, <2>5, MaxDataAssumption DEF GMSR_BADDATA, MSG_HDR_LEN
  <2>18. FrameStep
    BY <1>3, <2>5, <2>9, <2>10, <2>16, <2>17, WholeArrives DEF m
  <2> QED
    BY <2>11, <2>12, <2>15, <2>18 DEF IInv, InStep
<1> QED
  BY <1>10, <1>11
-----------------------------------------------------------------------------
(* A device keeps packets apart.                                           *)
LEMMA FrameBytes ==
  ASSUME NEW m \in Messages
  PROVE  /\ \A i \in 1 .. MSG_HDR_LEN : Frame(m)[i] = m.head[i]
         /\ \A i \in 1 .. Len(m.data) : Frame(m)[MSG_HDR_LEN + i] = m.data[i]
<1>1. /\ m.head \in Seq(Byte) /\ Len(m.head) = MSG_HDR_LEN /\ m.data \in Seq(Byte)
      /\ Frame(m) = Cat(m.head, m.data)
  BY MessageBytes
<1>2. Parts(Cat(m.head, m.data), m.head, m.data)
  BY <1>1, CatParts
<1> QED
  BY <1>1, <1>2 DEF Parts

LEMMA PacketBytes ==
  ASSUME NEW m \in Messages, NEW p, PacketOf(p, m)
  PROVE  /\ p \in Seq(Byte) /\ Len(m.data) \in Nat /\ Len(m.data) <= MAXDATA_VALUE
         /\ Len(p) \in 1 .. MSG_HDR_LEN + Len(m.data)
         /\ \A i \in 1 .. Len(p) : p[i] = Frame(m)[i]
<1>1. Frame(m) \in Seq(Byte) /\ Len(Frame(m)) = MSG_HDR_LEN + Len(m.data)
      /\ Len(m.data) \in Nat
  BY MessageBytes
<1>2. PICK w \in 1 .. MSG_HDR_LEN + Len(m.data) : p = SubSeq(Frame(m), 1, w)
  BY <1>1 DEF PacketOf
<1> DEFINE f == Frame(m)
           n == Len(f)
<1>3. n \in Nat /\ w \in 1 .. n /\ w \in 0 .. n /\ n = MSG_HDR_LEN + Len(m.data)
  BY <1>1, HeaderLength
<1>4. f \in [1 .. n -> Byte]
  <2>1. \A S : \A s \in Seq(S) : s \in [1 .. Len(s) -> S]
    BY SeqDef
  <2> QED
    BY <1>1, <2>1
<1> HIDE DEF f, n
<1>5. /\ SubSeq(f, 1, w) \in Seq(Byte) /\ Len(SubSeq(f, 1, w)) = w
      /\ \A i \in 1 .. w : SubSeq(f, 1, w)[i] = f[i]
  BY <1>3, <1>4, Prefix
<1>6. p = SubSeq(f, 1, w)
  BY <1>2 DEF f
<1>7. p \in Seq(Byte) /\ Len(p) = w /\ \A i \in 1 .. w : p[i] = f[i]
  BY <1>5, <1>6
<1> QED
  BY <1>1, <1>3, <1>7 DEF PacketOf, f

LEMMA SendToDeviceStep ==
  ASSUME IInv, NEW m \in Messages, SendToDevice(m)
  PROVE  IInv' /\ FrameStep
<1>1. PICK w \in 1 .. Len(Frame(m)) : conn' = Append(conn, SubSeq(Frame(m), 1, w))
  BY DEF SendToDevice
<1>2. /\ mode = "GMSR_FILE" /\ ~ closed /\ Len(m.data) <= MAXDATA_VALUE
      /\ sent < Sends /\ Len(conn) < Room /\ sent' = sent + 1
      /\ inFlight' = Append(inFlight, m)
      /\ mode' = mode /\ unsent' = unsent /\ closed' = closed /\ got' = got
      /\ rpc' = rpc /\ targetLength' = targetLength /\ head' = head /\ ret' = ret
      /\ recvData' = recvData /\ tmpbuf' = tmpbuf
  BY DEF SendToDevice, recvVars
<1> DEFINE p == SubSeq(Frame(m), 1, w)
<1>3. PacketOf(p, m)
  BY <1>2 DEF PacketOf
<1>4. p \in Seq(Byte)
  BY <1>3, PacketBytes
<1> HIDE DEF p
<1>5. Areas'
  BY <1>2, AppendProperties, RoomAssumption DEF IInv, Areas
<1>6. Control'
  BY <1>2 DEF IInv, Control
<1>7. Packets /\ unsent = <<>> /\ inFlight \in Seq(Messages)
  BY <1>2 DEF IInv, Link, Areas
<1> DEFINE T == Seq(Byte)
<1>8. conn \in Seq(T) /\ Len(conn) \in Nat /\ Len(conn) = Len(inFlight) /\ p \in T
      /\ \A k \in 1 .. Len(conn) : PacketOf(conn[k], inFlight[k])
  BY <1>4, <1>7, LenProperties DEF Packets
<1> HIDE DEF T
<1>9. /\ conn' \in Seq(T) /\ Len(conn') = Len(conn) + 1
      /\ \A k \in 1 .. Len(conn) : conn'[k] = conn[k]
      /\ conn'[Len(conn) + 1] = p
  BY <1>1, <1>8, AppendProperties DEF p
<1>10. /\ Len(inFlight') = Len(conn) + 1
       /\ \A k \in 1 .. Len(conn) : inFlight'[k] = inFlight[k]
       /\ inFlight'[Len(conn) + 1] = m
  BY <1>2, <1>7, <1>8, AppendProperties
<1>11. ASSUME NEW k \in 1 .. Len(conn) + 1
       PROVE  PacketOf(conn'[k], inFlight'[k])
  <2>1. CASE k \in 1 .. Len(conn)
    BY <1>8, <1>9, <1>10, <2>1
  <2>2. CASE k = Len(conn) + 1
    BY <1>3, <1>9, <1>10, <2>2
  <2> QED
    BY <1>8, <2>1, <2>2
<1>12. Packets'
  <2>1. \A k \in 1 .. Len(conn') : PacketOf(conn'[k], inFlight'[k])
    BY <1>9, <1>11
  <2> QED
    BY <1>9, <1>10, <2>1 DEF Packets, PacketOf, T
<1>13. Link'
  <2>1. Len(conn') <= Room
    BY <1>2, <1>8, <1>9, RoomAssumption
  <2> QED
    BY <1>2, <1>7, <1>12, <2>1 DEF Link
<1>14. InStep'
  BY <1>2 DEF InStep
<1>15. FrameStep
  BY <1>2, SendMaps
<1> QED
  BY <1>5, <1>6, <1>13, <1>14, <1>15 DEF IInv
(* A piece from the middle of a buffer.                                    *)
LEMMA Middle ==
  ASSUME NEW n \in Nat, NEW area \in [1 .. n -> Byte], NEW o \in Nat, NEW k \in Nat,
         o + k <= n
  PROVE  /\ SubSeq(area, o + 1, o + k) \in Seq(Byte)
         /\ Len(SubSeq(area, o + 1, o + k)) = k
         /\ \A i \in 1 .. k : SubSeq(area, o + 1, o + k)[i] = area[o + i]
<1> DEFINE a == o + 1
           b == o + k
           p == SubSeq(area, a, b)
<1>1. a \in Int /\ b \in Int /\ a - 1 = o /\ b - a + 1 = k /\ b <= n /\ 1 <= a
  OBVIOUS
<1> HIDE DEF a, b
<1>2. \A i \in a .. b : area[i] \in Byte
  <2>1. \A i \in a .. b : i \in 1 .. n
    BY <1>1
  <2> QED
    BY <2>1
<1>3. /\ p \in Seq(Byte) /\ Len(p) = IF a <= b THEN b - a + 1 ELSE 0
      /\ \A i \in 1 .. b - a + 1 : p[i] = area[a + i - 1]
  BY <1>1, <1>2, SubSeqProperties
<1> HIDE DEF p
<1>4. Len(p) = k
  BY <1>1, <1>3
<1>5. ASSUME NEW i \in 1 .. k
      PROVE  p[i] = area[o + i]
  <2>1. a + i - 1 = o + i
    BY <1>1
  <2> QED
    BY <1>1, <1>3, <2>1
<1> QED
  BY <1>3, <1>4, <1>5 DEF p, a, b

(* The data of a packet, through tmpbuf into the data area.                *)
LEMMA PacketData ==
  ASSUME NEW m \in Messages, NEW p, PacketOf(p, m),
         NEW t \in [1 .. MSG_HDR_LEN + MAXDATA_VALUE -> Byte],
         \A i \in 1 .. Len(p) : t[i] = p[i],
         recvData \in [1 .. MAXDATA_VALUE -> Byte],
         NEW k \in 0 .. Len(m.data), Len(p) = MSG_HDR_LEN + k
  PROVE  SubSeq(CopyInto(recvData, 0, SubSeq(t, MSG_HDR_LEN + 1,
                                                MSG_HDR_LEN + Len(m.data))), 1, k)
           = SubSeq(m.data, 1, k)
<1> DEFINE n == MAXDATA_VALUE
           L == Len(m.data)
           piece == SubSeq(t, MSG_HDR_LEN + 1, MSG_HDR_LEN + L)
           d == CopyInto(recvData, 0, piece)
           f == Frame(m)
<1>1. /\ m.data \in Seq(Byte) /\ L \in Nat /\ L <= n /\ n \in Nat
      /\ k \in Nat /\ k <= L
  BY PacketBytes, MessageBytes, MaxDataAssumption
<1>2. /\ \A i \in 1 .. Len(p) : p[i] = f[i]
      /\ \A i \in 1 .. L : f[MSG_HDR_LEN + i] = m.data[i]
  BY PacketBytes, FrameBytes
<1>3. piece \in Seq(Byte) /\ Len(piece) = L
      /\ \A i \in 1 .. L : piece[i] = t[MSG_HDR_LEN + i]
  <2> DEFINE N == MSG_HDR_LEN + n
  <2>1. /\ N \in Nat /\ t \in [1 .. N -> Byte] /\ MSG_HDR_LEN \in Nat /\ L \in Nat
        /\ MSG_HDR_LEN + L <= N
    BY <1>1, HeaderLength
  <2> HIDE DEF N, L
  <2> QED
    BY <2>1, Middle
<1> HIDE DEF f, piece
<1>4. d \in [1 .. n -> Byte]
      /\ \A i \in 1 .. L : d[i] = piece[i]
  <2>1. recvData \in [1 .. n -> Byte] /\ n \in Nat /\ 0 \in Nat
    BY <1>1
  <2>2. d \in [1 .. n -> Byte]
    <3> HIDE DEF n
    <3> QED
      BY <1>3, <2>1, Copied
  <2> HIDE DEF n, L
  <2>3. ASSUME NEW i \in 1 .. L
        PROVE  d[i] = piece[i]
    <3>1. DOMAIN recvData = 1 .. n /\ DOMAIN piece = 1 .. L
      BY <1>3, <2>1, LenProperties
    <3>2. i \in 1 .. n /\ i - 0 = i
      BY <1>1, <2>1
    <3> QED
      BY <3>1, <3>2 DEF CopyInto
  <2> QED
    BY <2>2, <2>3
<1> HIDE DEF d, n, L
<1>5. \A i \in 1 .. k : d[i] = m.data[i]
  <2> SUFFICES ASSUME NEW i \in 1 .. k
               PROVE  d[i] = m.data[i]
    OBVIOUS
  <2>1. i \in 1 .. n /\ i - 0 = i /\ i \in 1 .. L /\ MSG_HDR_LEN + i \in 1 .. Len(p)
    BY <1>1, HeaderLength
  <2>2. d[i] = piece[i]
    BY <1>4, <2>1
  <2> QED
    BY <1>2, <1>3, <2>1, <2>2
<1>6. /\ SubSeq(d, 1, k) \in Seq(Byte) /\ Len(SubSeq(d, 1, k)) = k
      /\ \A i \in 1 .. k : SubSeq(d, 1, k)[i] = d[i]
  BY <1>1, <1>4, Prefix
<1>7. /\ SubSeq(m.data, 1, k) \in Seq(Byte) /\ Len(SubSeq(m.data, 1, k)) = k
      /\ \A i \in 1 .. k : SubSeq(m.data, 1, k)[i] = m.data[i]
  <2>1. \A S : \A s \in Seq(S) : s \in [1 .. Len(s) -> S]
    BY SeqDef
  <2>2. m.data \in [1 .. L -> Byte]
    BY <1>1, <2>1 DEF L
  <2> DEFINE e == m.data
  <2> HIDE DEF e
  <2>3. e \in [1 .. L -> Byte]
    BY <2>2 DEF e
  <2>4. /\ SubSeq(e, 1, k) \in Seq(Byte) /\ Len(SubSeq(e, 1, k)) = k
        /\ \A i \in 1 .. k : SubSeq(e, 1, k)[i] = e[i]
    BY <1>1, <2>3, Prefix
  <2> QED
    BY <2>4 DEF e
<1>8. SubSeq(d, 1, k) = SubSeq(m.data, 1, k)
  BY <1>5, <1>6, <1>7, SeqEqual
<1> QED
  BY <1>8 DEF d, piece, L

LEMMA ReadPacketStep ==
  ASSUME IInv, ReadPacket
  PROVE  IInv' /\ FrameStep
<1> DEFINE p == Head(conn)
           m == Head(inFlight)
           t == tmpbuf'
           copied == SubSeq(t, 1, MSG_HDR_LEN)
           toCopy == SetDataLen(Message_dataLen(copied))
           piece == SubSeq(t, MSG_HDR_LEN + 1, MSG_HDR_LEN + toCopy)
           L == Len(m.data)
           w == Len(p)
<1>1. /\ rpc = "read" /\ conn # <<>> /\ conn' = Tail(conn)
      /\ t = CopyInto(tmpbuf, 0, p)
      /\ recvData' = CopyInto(recvData, 0, piece)
      /\ head' = SetLength(copied, w - MSG_HDR_LEN)
      /\ rpc' = "caller" /\ targetLength' = 0 /\ ret' = w
      /\ got' = Seen(head', recvData') /\ inFlight' = Tail(inFlight)
      /\ mode' = mode /\ unsent' = unsent /\ closed' = closed /\ sent' = sent
  BY DEF ReadPacket, Deliver
<1>2. /\ mode = "GMSR_FILE" /\ ret > 0 /\ ret \in GMSR_BADDATA .. MSG_HDR_LEN + MAXDATA_VALUE
      /\ Packets /\ unsent = <<>> /\ Len(conn) <= Room
      /\ inFlight \in Seq(Messages) /\ mode \in Modes /\ closed \in BOOLEAN
      /\ sent \in 0 .. Sends
      /\ tmpbuf \in [1 .. MSG_HDR_LEN + MAXDATA_VALUE -> Byte]
      /\ recvData \in [1 .. MAXDATA_VALUE -> Byte]
  BY <1>1 DEF IInv, Areas, Control, Link
<1> DEFINE T == Seq(Byte)
<1>3. /\ conn \in Seq(T) /\ Len(conn) = Len(inFlight)
      /\ \A k \in 1 .. Len(conn) : PacketOf(conn[k], inFlight[k])
  BY <1>2 DEF Packets
<1> HIDE DEF T
<1>4. /\ p = conn[1] /\ conn' \in Seq(T) /\ Len(conn') = Len(conn) - 1
      /\ \A k \in 1 .. Len(conn') : conn'[k] = conn[k + 1]
      /\ Len(conn) \in Nat \ {0}
  BY <1>1, <1>3, HeadTailProperties, EmptySeq
<1>5. inFlight # <<>>
  BY <1>3, <1>4, EmptySeq
<1>6. /\ m = inFlight[1] /\ m \in Messages /\ inFlight' \in Seq(Messages)
      /\ Len(inFlight') = Len(conn) - 1
      /\ \A k \in 1 .. Len(inFlight') : inFlight'[k] = inFlight[k + 1]
  BY <1>1, <1>2, <1>3, <1>5, HeadTailProperties
<1>7. Packets'
  <2>1. ASSUME NEW k \in 1 .. Len(conn')
        PROVE  PacketOf(conn'[k], inFlight'[k])
    <3>1. k + 1 \in 1 .. Len(conn) /\ k \in 1 .. Len(inFlight')
      BY <1>4, <1>6
    <3> QED
      BY <1>3, <1>4, <1>6, <3>1
  <2> QED
    BY <1>4, <1>6, <2>1 DEF Packets, PacketOf, T
<1>8. Link'
  <2>1. Len(conn') <= Room
    BY <1>2, <1>4, RoomAssumption
  <2> QED
    BY <1>1, <1>2, <1>7, <2>1 DEF Link
<1>9. PacketOf(p, m)
  BY <1>3, <1>4, <1>6
<1> HIDE DEF p, m
<1>10. /\ p \in Seq(Byte) /\ L \in Nat /\ L <= MAXDATA_VALUE
       /\ w \in 1 .. MSG_HDR_LEN + L
  BY <1>6, <1>9, PacketBytes
<1>11. t \in [1 .. MSG_HDR_LEN + MAXDATA_VALUE -> Byte] /\ \A i \in 1 .. w : t[i] = p[i]
  <2> DEFINE n == MSG_HDR_LEN + MAXDATA_VALUE
  <2>1. n \in Nat /\ \A i \in 1 .. w : i \in 1 .. n /\ i - 0 = i
    BY <1>10, MaxDataAssumption DEF MSG_HDR_LEN
  <2>2. tmpbuf \in [1 .. n -> Byte]
    BY <1>2
  <2> HIDE DEF n, w
  <2>3. /\ CopyInto(tmpbuf, 0, p) \in [1 .. n -> Byte]
        /\ \A i \in 1 .. n : CopyInto(tmpbuf, 0, p)[i]
                               = IF i - 0 \in 1 .. Len(p) THEN p[i - 0] ELSE tmpbuf[i]
    BY <1>10, <2>1, <2>2, Copied
  <2> QED
    BY <1>1, <2>1, <2>3 DEF n, w
<1> HIDE DEF w
<1>12. copied \in Headers /\ Message_dataLen(copied) \in Nat
  <2>1. copied \in Seq(Byte) /\ Len(copied) = MSG_HDR_LEN
    BY <1>11, Prefix, MaxDataAssumption DEF MSG_HDR_LEN
  <2>2. \A S : \A s \in Seq(S) : s \in [1 .. Len(s) -> S]
    BY SeqDef
  <2>3. copied \in Headers
    BY <2>1, <2>2 DEF Headers
  <2> QED
    BY <2>3, LengthIsNat
<1>13. toCopy \in 0 .. MAXDATA_VALUE
  BY <1>12, DataLenClamped
<1> HIDE DEF copied
<1>14. recvData' \in [1 .. MAXDATA_VALUE -> Byte]
  <2>1. piece \in Seq(Byte)
    BY <1>11, <1>13, Middle, MaxDataAssumption DEF MSG_HDR_LEN
  <2> DEFINE n == MAXDATA_VALUE
  <2>2. n \in Nat /\ 0 \in Nat /\ recvData \in [1 .. n -> Byte]
    BY <1>2, MaxDataAssumption
  <2> HIDE DEF n, piece
  <2>3. CopyInto(recvData, 0, piece) \in [1 .. n -> Byte]
    BY <2>1, <2>2, Copied
  <2> QED
    BY <1>1, <2>3 DEF n
<1>15. w - MSG_HDR_LEN \in Int /\ w \in Nat
  BY <1>10 DEF MSG_HDR_LEN
<1>16. head' \in Headers
  BY <1>1, <1>12, <1>15, LengthStored
<1>17. Areas'
  BY <1>1, <1>2, <1>6, <1>11, <1>14, <1>16 DEF Areas
<1>18. ret' \in GMSR_BADDATA .. MSG_HDR_LEN + MAXDATA_VALUE /\ ~ (ret' < 0) /\ ~ (ret < 0)
  BY <1>1, <1>2, <1>10, MaxDataAssumption DEF GMSR_BADDATA, MSG_HDR_LEN
<1>19. Control' /\ InStep'
  BY <1>1, <1>2, <1>18 DEF Control, InStep
<1>20. Transport!Arrives(m)
  <2>1. m.head \in Headers /\ Message_dataLen(m.head) = L
        /\ m = [head |-> m.head, data |-> m.data] /\ m.data \in Seq(Byte)
    BY <1>6, MessageBytes
  <2>2. CASE w < MSG_HDR_LEN
    <3>1. w \in 1 .. MSG_HDR_LEN - 1 /\ (w - MSG_HDR_LEN) % 65536 = 65536 - MSG_HDR_LEN + w
      BY <1>10, <2>2, HeaderLength
    <3>2. got'.head = head'
      BY <1>1 DEF Seen
    <3>3. Message_dataLen(got'.head) = 65536 - MSG_HDR_LEN + w
      BY <1>1, <1>12, <1>15, <3>1, <3>2, LengthStored
    <3>4. ASSUME NEW i \in (1 .. w) \ {dlenHI, dlenLO}
          PROVE  got'.head[i] = m.head[i]
      <4>1. i \in 1 .. w /\ i \in (1 .. MSG_HDR_LEN) \ {dlenHI, dlenLO}
        BY <1>10, <2>2, HeaderLength
      <4>2. head'[i] = copied[i]
        <5> DEFINE l == w - MSG_HDR_LEN
        <5>1. l \in Int /\ copied \in Headers /\ head' = SetLength(copied, l)
          BY <1>1, <1>12, <1>15
        <5> HIDE DEF l
        <5> QED
          BY <4>1, <5>1, LengthStored
      <4>3. copied[i] = t[i]
        BY <1>11, <4>1, Prefix, MaxDataAssumption DEF MSG_HDR_LEN, copied
      <4>4. t[i] = p[i] /\ p[i] = Frame(m)[i]
        BY <1>6, <1>9, <1>11, <4>1, PacketBytes DEF w
      <4>5. Frame(m)[i] = m.head[i]
        BY <1>6, <4>1, FrameBytes
      <4> QED
        BY <3>2, <4>2, <4>3, <4>4, <4>5
    <3>5. Message_dataLen(got'.head) > MAXDATA_VALUE
      BY <3>1, <3>3, MaxDataAssumption, DataAreaAssumption, HeaderLength
    <3>6. Transport!Torn(got', m, w)
      BY <3>3, <3>4, <3>5 DEF Transport!Torn, Transport!Message_dataLen, Message_dataLen,
                        Transport!MSG_HDR_LEN, MSG_HDR_LEN, Transport!dlenHI,
                        Transport!dlenLO, dlenHI, dlenLO
    <3>7. Transport!MSG_HDR_LEN = MSG_HDR_LEN
      BY DEF Transport!MSG_HDR_LEN, MSG_HDR_LEN
    <3> QED
      BY <1>2, <3>1, <3>6, <3>7 DEF Transport!Arrives
  <2>3. CASE ~ (w < MSG_HDR_LEN)
    <3> DEFINE k == w - MSG_HDR_LEN
    <3>1. k \in 0 .. L /\ w = MSG_HDR_LEN + k /\ k \in Int /\ k % 65536 = k
          /\ ~ (k > MAXDATA_VALUE)
      BY <1>10, <2>3, MaxDataAssumption DEF MSG_HDR_LEN
    <3> HIDE DEF k
    <3>2. copied = m.head
      <4>1. /\ copied \in Seq(Byte) /\ Len(copied) = MSG_HDR_LEN
            /\ \A i \in 1 .. MSG_HDR_LEN : copied[i] = t[i]
        BY <1>11, Prefix, MaxDataAssumption DEF MSG_HDR_LEN, copied
      <4>2. \A i \in 1 .. MSG_HDR_LEN : i \in 1 .. w
        BY <1>10, <2>3, <3>1 DEF MSG_HDR_LEN
      <4>3. \A i \in 1 .. w : p[i] = Frame(m)[i]
        BY <1>6, <1>9, PacketBytes DEF w
      <4>4. \A i \in 1 .. MSG_HDR_LEN : Frame(m)[i] = m.head[i]
        BY <1>6, FrameBytes
      <4>5. m.head \in Seq(Byte) /\ Len(m.head) = MSG_HDR_LEN
        BY <1>6, MessageBytes
      <4>6. \A i \in 1 .. MSG_HDR_LEN : copied[i] = m.head[i]
        BY <1>11, <4>1, <4>2, <4>3, <4>4
      <4> QED
        BY <4>1, <4>5, <4>6, SeqEqual
    <3>3. toCopy = L
      BY <1>10, <2>1, <3>2, DataLenClamped
    <3>4. SubSeq(recvData', 1, k) = SubSeq(m.data, 1, k)
      <4>1. SubSeq(CopyInto(recvData, 0, SubSeq(t, MSG_HDR_LEN + 1, MSG_HDR_LEN + Len(m.data))),
                   1, k)
              = SubSeq(m.data, 1, k)
        <5>1. /\ PacketOf(p, m) /\ m \in Messages /\ k \in 0 .. Len(m.data)
              /\ t \in [1 .. MSG_HDR_LEN + MAXDATA_VALUE -> Byte]
              /\ \A i \in 1 .. Len(p) : t[i] = p[i]
              /\ recvData \in [1 .. MAXDATA_VALUE -> Byte]
              /\ Len(p) = MSG_HDR_LEN + k
          BY <1>2, <1>6, <1>9, <1>11, <3>1 DEF w
        <5> HIDE DEF t
        <5> QED
          BY <5>1, PacketData
      <4> QED
        BY <1>1, <3>3, <4>1
    <3>5. head' = SetLength(m.head, k) /\ Message_dataLen(head') = k
      <4>1. head' = SetLength(m.head, k)
        BY <1>1, <3>2 DEF k
      <4> QED
        BY <2>1, <3>1, <4>1, LengthStored
    <3>6. got' = [head |-> SetLength(m.head, k), data |-> SubSeq(m.data, 1, k)]
      <4>1. got' = [head |-> head', data |-> SubSeq(recvData', 1, k)]
        <5>1. SetDataLen(Message_dataLen(head')) = k
          BY <3>1, <3>5 DEF SetDataLen
        <5>2. got' = Seen(head', recvData')
          BY <1>1
        <5> QED
          BY Zenon, <5>1, <5>2 DEF Seen
      <4> QED
        BY <3>4, <3>5, <4>1
    <3>7. CASE k = L
      <4>1. SubSeq(m.data, 1, k) = m.data
        BY <2>1, <3>7, SubSeqFull
      <4>2. SetLength(m.head, k) = m.head
        BY <2>1, <3>7, SameLength
      <4> QED
        BY <2>1, <3>6, <4>1, <4>2 DEF Transport!Arrives, Transport!Arrivals
    <3>8. CASE k # L
      <4>1. k \in 0 .. Len(m.data) - 1
        BY <1>10, <3>1, <3>8
      <4>2. got' = Transport!CutOff(m, k)
        BY <3>6 DEF Transport!CutOff, Transport!SetLength, SetLength, Transport!dlenHI,
                  Transport!dlenLO, dlenHI, dlenLO
      <4>3. mode = "GMSR_FILE"
        BY <1>2
      <4> HIDE DEF L
      <4> QED
        BY <4>1, <4>2, <4>3 DEF Transport!Arrives, Transport!Arrivals
    <3> QED
      BY <3>7, <3>8
  <2> QED
    BY <2>2, <2>3
<1>21. FrameStep
  BY <1>1, <1>5, <1>10, <1>18, <1>20, ReceiveMaps DEF m
<1> QED
  BY <1>8, <1>17, <1>19, <1>21 DEF IInv
-----------------------------------------------------------------------------
LEMMA NextStep ==
  ASSUME IInv, Next
  PROVE  IInv' /\ FrameStep
<1>1. ASSUME NEW m \in Messages, SendToSocket(m)
      PROVE  IInv' /\ FrameStep
  <2>1. IInv'
    BY <1>1, SendToSocketStep
  <2>2. FrameStep
    BY <1>1, SendMaps DEF SendToSocket, recvVars
  <2> QED
    BY <2>1, <2>2
<1>2. ASSUME NEW m \in Messages, SendToDevice(m)
      PROVE  IInv' /\ FrameStep
  BY <1>2, SendToDeviceStep
<1>3. CASE SocketTakes
  <2>1. IInv'
    BY <1>3, SocketTakesStep
  <2>2. FrameStep
    BY <1>3, StutterMaps DEF SocketTakes, recvVars
  <2> QED
    BY <2>1, <2>2
<1>4. CASE HangUp
  <2>1. IInv'
    BY <1>4, HangUpStep
  <2>2. FrameStep
    BY <1>4, HangUpMaps DEF HangUp, recvVars, IInv, Areas
  <2> QED
    BY <2>1, <2>2
<1>5. CASE gmsr_recvMessageGeneric
  <2>1. IInv'
    BY <1>5, CallStep
  <2>2. mode \in {"GMSR_SOCKET", "GMSR_FILE", "GMSR_FDERR"}
    BY DEF IInv, Areas, Modes
  <2>3. ret > 0 /\ ret \in GMSR_BADDATA .. MSG_HDR_LEN + MAXDATA_VALUE
    BY <1>5 DEF gmsr_recvMessageGeneric, IInv, Control
  <2>4. CASE mode # "GMSR_FDERR"
    <3>1. mode' = mode /\ closed' = closed /\ ret' = ret /\ inFlight' = inFlight
          /\ got' = got
      BY <1>5, <2>2, <2>4 DEF gmsr_recvMessageGeneric, connVars
    <3>2. ret' < 0 <=> ret < 0
      BY <3>1
    <3>3. FrameStep
      BY Zenon, <3>1, <3>2, StutterMaps
    <3> QED
      BY <2>1, <3>3
  <2>5. CASE mode = "GMSR_FDERR"
    <3>1. mode' = mode /\ ret' = GMSR_FDERR /\ inFlight' = inFlight /\ got' = got
      BY <1>5, <2>5 DEF gmsr_recvMessageGeneric, Fail
    <3>2. closed /\ ret' < 0 /\ ~ (ret < 0)
      BY <2>3, <2>5, <3>1, MaxDataAssumption
         DEF IInv, Link, GMSR_FDERR, GMSR_BADDATA, MSG_HDR_LEN
    <3>3. FrameStep
      BY <3>1, <3>2, GiveUpMaps
    <3> QED
      BY <2>1, <3>3
  <2> QED
    BY <2>1, <2>4, <2>5
<1>6. CASE RecvHeader
  BY <1>6, RecvHeaderStep
<1>7. CASE RecvData
  BY <1>7, RecvDataStep
<1>8. CASE RecvFails
  <2>1. IInv'
    BY <1>8, RecvFailsStep
  <2>2. mode' = mode /\ ret' = GMSR_EOF /\ inFlight' = inFlight /\ got' = got /\ closed
        /\ rpc \in {"recvHeader", "recvData"}
    BY <1>8 DEF RecvFails, Fail
  <2>3. ret > 0 /\ ret \in GMSR_BADDATA .. MSG_HDR_LEN + MAXDATA_VALUE
    BY <2>2 DEF IInv, Control
  <2>4. ret' < 0 /\ ~ (ret < 0)
    BY <2>2, <2>3, MaxDataAssumption DEF GMSR_EOF, GMSR_BADDATA, MSG_HDR_LEN
  <2> QED
    BY <2>1, <2>2, <2>4, GiveUpMaps
<1>9. CASE ReadPacket
  BY <1>9, ReadPacketStep
<1>10. CASE ReadFails
  <2>1. IInv'
    BY <1>10, ReadFailsStep
  <2>2. mode' = mode /\ ret' = GMSR_SHORTRD /\ inFlight' = inFlight /\ got' = got /\ closed
        /\ rpc = "read"
    BY <1>10 DEF ReadFails, Fail
  <2>3. ret > 0 /\ ret \in GMSR_BADDATA .. MSG_HDR_LEN + MAXDATA_VALUE
    BY <2>2 DEF IInv, Control
  <2>4. ret' < 0 /\ ~ (ret < 0)
    BY <2>2, <2>3, MaxDataAssumption DEF GMSR_SHORTRD, GMSR_BADDATA, MSG_HDR_LEN
  <2> QED
    BY <2>1, <2>2, <2>4, GiveUpMaps
<1> QED
  BY <1>1, <1>2, <1>3, <1>4, <1>5, <1>6, <1>7, <1>8, <1>9, <1>10 DEF Next, Receiver

LEMMA StutterStep ==
  ASSUME IInv, UNCHANGED vars
  PROVE  IInv' /\ FrameStep
<1> USE DEF vars, connVars, recvVars
<1>1. Areas' /\ Control'
  BY DEF IInv, Areas, Control
<1>2. Packets' <=> Packets
  BY DEF Packets
<1>3. Link'
  BY <1>2 DEF IInv, Link
<1>4. \A lost : Lost(lost)' <=> Lost(lost)
  BY DEF Lost, Consumed
<1>5. InStep'
  BY <1>4 DEF IInv, InStep
<1>6. FrameStep
  BY StutterMaps
<1> QED
  BY <1>1, <1>3, <1>5, <1>6 DEF IInv

LEMMA Invariance == Spec => []IInv
<1>1. Init => IInv
  BY InitStep
<1>2. IInv /\ [Next]_vars => IInv'
  BY NextStep, StutterStep
<1> QED
  BY <1>1, <1>2, PTL DEF Spec

LEMMA InvImpliesTypeOK ==
  ASSUME IInv
  PROVE  TypeOK
<1> DEFINE top == Max({MSG_HDR_LEN, MAXDATA_VALUE})
<1>1. top \in Nat /\ MSG_HDR_LEN <= top /\ MAXDATA_VALUE <= top
  BY MaxOfTwo, HeaderLength, MaxDataAssumption
<1> HIDE DEF top
<1>2. targetLength \in 0 .. top
  <2>1. rpc \in {"caller", "recvHeader", "recvData", "read"}
    BY DEF IInv, Control
  <2>2. CASE rpc \in {"caller", "read"}
    BY <1>1, <2>2 DEF IInv, Control
  <2>3. CASE rpc = "recvHeader"
    <3>1. targetLength \in 1 .. MSG_HDR_LEN
      BY <2>3 DEF IInv, Control
    <3> QED
      BY <1>1, <3>1, HeaderLength
  <2>4. CASE rpc = "recvData"
    <3>1. targetLength \in 1 .. Message_dataLen(head) /\ Message_dataLen(head) <= MAXDATA_VALUE
      BY <2>4 DEF IInv, Control
    <3>2. Message_dataLen(head) \in Nat
      BY LengthIsNat DEF IInv, Areas
    <3> QED
      BY <1>1, <3>1, <3>2, MaxDataAssumption
  <2> QED
    BY <2>1, <2>2, <2>3, <2>4
<1> QED
  BY <1>2 DEF IInv, Areas, Control, Link, TypeOK, top

(* Header, data area and tmpbuf keep their sizes and hold bytes, and no    *)
(* receive asks for or returns more than there is room for.                *)
THEOREM TypeCorrect == Spec => []TypeOK
<1>1. IInv => TypeOK
  BY InvImpliesTypeOK
<1> QED
  BY <1>1, Invariance, PTL

LEMMA PrefixOfCat ==
  ASSUME NEW S, NEW a \in Seq(S), NEW b \in Seq(S)
  PROVE  IsPrefix(a, Cat(a, b))
<1> DEFINE c == Cat(a, b)
<1>1. c \in Seq(S) /\ Len(c) = Len(a) + Len(b) /\ Len(a) \in Nat /\ Len(b) \in Nat
  BY CatType, LenProperties
<1>2. \A i \in 1 .. Len(a) : c[i] = a[i]
  BY CatParts DEF Parts
<1> HIDE DEF c
<1>3. Len(a) \in 0 .. Len(c) /\ Len(a) <= Len(c)
  BY <1>1
<1> DEFINE p == SubSeq(c, 1, Len(a))
<1>4. p \in Seq(S) /\ Len(p) = Len(a)
  BY <1>1, <1>3, TakeOff
<1>5. \A i \in 1 .. Len(a) : p[i] = c[i]
  <2>1. \A s : \A i, n \in Nat : 1 <= i /\ i <= n => SubSeq(s, 1, n)[i] = s[i]
    OBVIOUS
  <2> QED
    BY <1>1, <2>1
<1> HIDE DEF p
<1>6. p = a
  BY <1>2, <1>4, <1>5, SeqEqual
<1>7. SubSeq(a, 1, Len(a)) = a
  BY SubSeqFull
<1> QED
  BY <1>3, <1>6, <1>7 DEF IsPrefix, p, c

LEMMA InvImpliesStreamInStep ==
  ASSUME IInv
  PROVE  StreamInStep
<1> SUFFICES ASSUME mode = "GMSR_SOCKET", ret >= 0
             PROVE  LET toCome == Consumed \o conn \o unsent
                        frames == FlattenSeq([k \in DOMAIN inFlight |-> Frame(inFlight[k])])
                    IN  IF closed THEN IsPrefix(toCome, frames) ELSE toCome = frames
  BY DEF StreamInStep
<1>1. PICK lost : Lost(lost)
  BY DEF IInv, InStep
<1>2. /\ Consumed \in Seq(Byte) /\ conn \in Seq(Byte) /\ unsent \in Seq(Byte)
      /\ lost \in Seq(Byte)
  BY <1>1, ConsumedType DEF IInv, Link, Lost
<1> DEFINE c == Consumed
           toCome == Cat(Cat(c, conn), unsent)
<1>3. c \in Seq(Byte)
  BY <1>2
<1> HIDE DEF c
<1>4. toCome \in Seq(Byte)
  <2>1. Cat(c, conn) \in Seq(Byte)
    BY <1>2, <1>3, CatType
  <2> QED
    BY <1>2, <2>1, CatType
<1>5. Cat(toCome, lost) = Stream(inFlight)
  <2> DEFINE a == Cat(c, conn)
             b == Cat(unsent, lost)
  <2>1. a \in Seq(Byte) /\ b \in Seq(Byte)
    BY <1>2, <1>3, CatType
  <2>2. Cat(a, b) = Cat(c, Cat(conn, b))
    <3> HIDE DEF b
    <3> QED
      BY <1>2, <1>3, <2>1, CatAssociative
  <2>3. Cat(Cat(a, unsent), lost) = Cat(a, b)
    <3> HIDE DEF a
    <3> QED
      BY <1>2, <2>1, CatAssociative
  <2> QED
    BY <1>1, <2>2, <2>3 DEF Lost, c
<1>6. closed => IsPrefix(toCome, Stream(inFlight))
  <2> HIDE DEF toCome
  <2> QED
    BY <1>2, <1>4, <1>5, PrefixOfCat
<1>7. ~ closed => toCome = Stream(inFlight)
  <2> HIDE DEF toCome
  <2>1. Cat(toCome, <<>>) = toCome
    BY <1>4, CatEmpty
  <2> QED
    BY <1>1, <1>5, <2>1 DEF Lost
<1>8. toCome = Consumed \o conn \o unsent
  BY DEF Cat, c
<1>9. Stream(inFlight) = FlattenSeq([k \in DOMAIN inFlight |-> Frame(inFlight[k])])
  BY DEF Stream, Frames
<1> HIDE DEF toCome
<1> QED
  BY <1>6, <1>7, <1>8, <1>9

(* A socket receive that has not failed never loses its place in the       *)
(* stream: what it has taken, what lies in the socket and what is unsent   *)
(* are the messages on their way, to the byte.                             *)
THEOREM StreamInStepHolds == Spec => []StreamInStep
<1>1. IInv => StreamInStep
  BY InvImpliesStreamInStep
<1> QED
  BY <1>1, Invariance, PTL

(* Send and receive functions implement FrameTransport: over a socket the  *)
(* messages come out whole and in order until the receive fails; over a    *)
(* device a message cut off in its data brings its own bytes and no other, *)
(* and the bytes of other messages that one cut off in its header brings   *)
(* never come with a length that a message may have.                       *)
THEOREM ImplementsTransport == Spec => FrameSpec
<1>1. Init => Transport!Init
  BY DEF Init, Transport!Init, Modes
<1>2. IInv /\ [Next]_vars => [Transport!Next]_(Transport!frameVars)
  BY NextStep, StutterStep DEF FrameStep
<1> QED
  BY <1>1, <1>2, Invariance, PTL DEF Spec, FrameSpec, Transport!Spec

=============================================================================
