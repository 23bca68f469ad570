--------------------------- MODULE HostLink_proofs --------------------------
(***************************************************************************)
(* Proofs about HostLink: a host that keeps to the window never meets an   *)
(* overrun and gets whole answers in the order of its requests, for every  *)
(* window up to the number of slots (less one where writes poll), every    *)
(* pool and packet size, every set of requests of legal length and every   *)
(* reply length.                                                           *)
(***************************************************************************)
EXTENDS HostLink, PacketLayer_proofs

\* A request is a sequence of bytes of legal length.
LEMMA RequestTyped ==
  ASSUME NEW s \in Request
  PROVE  /\ s \in Seq(Octet) /\ Len(s) \in 3 .. MAX_PACKET_SIZE
         /\ Len(s) < LENGTH_SPAN
<1>1. s \in Seq(Octet) /\ Len(s) \in 3 .. MAX_PACKET_SIZE
  BY HostAssumption DEF Octet
<1>2. QED
  BY <1>1, PacketAssumption

-----------------------------------------------------------------------------
(* The bytes on the line.                                                  *)

\* The line l carries the frames of the requests of q from number c on, the first k
\* bytes of the first of them already gone: the frame of request j begins after byte
\* start[j] of the line.
Laid(l, q, start, c, k) ==
  /\ l \in Seq(Octet)
  /\ q \in Seq(Request)
  /\ start \in [Nat -> Int]
  /\ k \in Nat /\ c \in 1 .. Len(q) + 1
  /\ start[c] = -k
  /\ start[Len(q) + 1] = Len(l)
  /\ \A j \in c .. Len(q) :
       /\ start[j + 1] = start[j] + Len(Frame(q[j]))
       /\ start[j + 1] <= Len(l)
       /\ \A n \in 1 .. Len(Frame(q[j])) :
            start[j] + n >= 1 => l[start[j] + n] = Frame(q[j])[n]

\* The next byte on the line is the next one of the frame that is under way.
LEMMA LaidNext ==
  ASSUME NEW l, NEW q, NEW start, NEW c, NEW k,
         Laid(l, q, start, c, k), l # <<>>
  PROVE  /\ c \in 1 .. Len(q)
         /\ Head(l) \in Octet /\ Tail(l) \in Seq(Octet)
         /\ k < Len(Frame(q[c])) => Head(l) = Frame(q[c])[k + 1]
         /\ \E next :
              /\ k + 1 < Len(Frame(q[c])) => Laid(Tail(l), q, next, c, k + 1)
              /\ k + 1 = Len(Frame(q[c])) => Laid(Tail(l), q, next, c + 1, 0)
<1> DEFINE n    == Len(l)
           m    == Len(q)
           t    == Tail(l)
           next == [j \in Nat |-> start[j] - 1]
<1>1. /\ l \in Seq(Octet) /\ q \in Seq(Request) /\ start \in [Nat -> Int]
      /\ n \in Nat /\ m \in Nat /\ k \in Nat /\ c \in 1 .. m + 1
      /\ start[c] = -k /\ start[m + 1] = n
      /\ \A j \in c .. m :
           /\ start[j + 1] = start[j] + Len(Frame(q[j]))
           /\ start[j + 1] <= n
           /\ \A x \in 1 .. Len(Frame(q[j])) :
                start[j] + x >= 1 => l[start[j] + x] = Frame(q[j])[x]
  BY LenProperties DEF Laid
<1>2. n >= 1 /\ Head(l) = l[1] /\ Head(l) \in Octet
  <2>1. Len(l) \in Nat \ {0}
    BY <1>1, EmptySeq
  <2>2. Head(l) = l[1]
    BY <1>1
  <2>3. 1 \in 1 .. Len(l) /\ Len(l) >= 1
    BY <2>1
  <2>4. QED
    BY <1>1, <2>2, <2>3, ElementOfSeq
<1>3. /\ t \in Seq(Octet) /\ Len(t) = n - 1
      /\ \A x \in 1 .. n - 1 : t[x] = l[x + 1]
  BY <1>1, <1>2, HeadTailProperties
<1> HIDE DEF n, m, t
<1>4. c \in 1 .. m
  <2>1. c = m + 1 => -k = n
    BY <1>1
  <2>2. QED
    BY <1>1, <1>2, <2>1
<1>5. \A j \in 1 .. m : q[j] \in Request
  BY <1>1, ElementOfSeq DEF m
<1>6. \A j \in 1 .. m : Len(Frame(q[j])) \in Nat
  BY <1>5, RequestTyped, FrameStart
<1>7. k < Len(Frame(q[c])) => Head(l) = Frame(q[c])[k + 1]
  <2>1. ASSUME k < Len(Frame(q[c])) PROVE Head(l) = Frame(q[c])[k + 1]
    <3>1. k + 1 \in 1 .. Len(Frame(q[c])) /\ start[c] + (k + 1) = 1 /\ c \in c .. m
      BY <1>1, <1>4, <1>6, <2>1
    <3>2. start[c] + (k + 1) >= 1
      BY <3>1
    <3>3. l[start[c] + (k + 1)] = Frame(q[c])[k + 1]
      BY Zenon, <1>1, <3>1, <3>2
    <3>4. QED
      BY <1>2, <3>1, <3>3
  <2>2. QED
    BY <2>1
<1>8. /\ next \in [Nat -> Int] /\ \A j \in Nat : next[j] = start[j] - 1
  BY <1>1
<1> HIDE DEF next
<1>9. /\ next[m + 1] = Len(t)
      /\ \A j \in c .. m :
           /\ next[j + 1] = next[j] + Len(Frame(q[j]))
           /\ next[j + 1] <= Len(t)
           /\ \A x \in 1 .. Len(Frame(q[j])) :
                next[j] + x >= 1 => t[next[j] + x] = Frame(q[j])[x]
  <2>1. next[m + 1] = Len(t)
    BY <1>1, <1>3, <1>8
  <2>2. ASSUME NEW j \in c .. m
        PROVE  /\ next[j + 1] = next[j] + Len(Frame(q[j]))
               /\ next[j + 1] <= Len(t)
               /\ \A x \in 1 .. Len(Frame(q[j])) :
                    next[j] + x >= 1 => t[next[j] + x] = Frame(q[j])[x]
    <3>1. j \in Nat /\ j + 1 \in Nat /\ j \in 1 .. m
      BY <1>1
    <3>2. /\ start[j] \in Int /\ start[j + 1] \in Int
          /\ next[j] = start[j] - 1 /\ next[j + 1] = start[j + 1] - 1
          /\ Len(Frame(q[j])) \in Nat
      BY <1>1, <1>6, <1>8, <3>1
    <3>3. start[j + 1] = start[j] + Len(Frame(q[j])) /\ start[j + 1] <= n
      BY <1>1
    <3>f. PICK f \in Nat : f = Len(Frame(q[j]))
      BY <3>2
    <3>4. next[j + 1] = next[j] + Len(Frame(q[j])) /\ next[j + 1] <= Len(t)
      <4>1. start[j + 1] = start[j] + f
        BY <3>3, <3>f
      <4>2. /\ n \in Nat /\ start[j + 1] <= n /\ start[j] \in Int /\ start[j + 1] \in Int
            /\ next[j] = start[j] - 1 /\ next[j + 1] = start[j + 1] - 1
        BY <1>1, <3>2, <3>3
      <4>4. next[j + 1] = next[j] + f /\ next[j + 1] <= n - 1
        BY <4>1, <4>2
      <4>3. QED
        BY <1>3, <3>f, <4>4
    <3>5. ASSUME NEW x \in 1 .. Len(Frame(q[j])), next[j] + x >= 1
          PROVE  t[next[j] + x] = Frame(q[j])[x]
      <4>1. /\ next[j] + x \in 1 .. n - 1
            /\ next[j] + x + 1 = start[j] + x
            /\ start[j] + x >= 1
        <5>1. start[j + 1] = start[j] + f /\ x \in 1 .. f
          BY <3>3, <3>5, <3>f
        <5>2. next[j] = start[j] - 1 /\ next[j] + x >= 1 /\ start[j] \in Int
          BY <3>2, <3>5
        <5>3. n \in Nat /\ start[j + 1] <= n /\ start[j + 1] \in Int
          BY <1>1, <3>2, <3>3
        <5>4. QED
          BY <5>1, <5>2, <5>3, SMTT(30)
      <4>2. l[start[j] + x] = Frame(q[j])[x]
        BY <1>1, <4>1
      <4>3. t[next[j] + x] = l[next[j] + x + 1]
        BY <1>3, <4>1
      <4>4. QED
        BY <4>1, <4>2, <4>3
    <3>6. QED
      BY <3>4, <3>5
  <2>3. QED
    BY <2>1, <2>2
<1>10. ASSUME k + 1 < Len(Frame(q[c])) PROVE Laid(t, q, next, c, k + 1)
  <2>1. next[c] = -(k + 1) /\ k + 1 \in Nat /\ c \in 1 .. m + 1
    BY <1>1, <1>4, <1>8
  <2>2. QED
    BY <1>1, <1>3, <1>8, <1>9, <2>1 DEF Laid, m
<1>11. ASSUME k + 1 = Len(Frame(q[c])) PROVE Laid(t, q, next, c + 1, 0)
  <2>1. c \in Nat /\ c + 1 \in Nat /\ c \in c .. m /\ c + 1 \in 1 .. m + 1
    BY <1>1, <1>4
  <2>2. next[c] = -k - 1 /\ next[c + 1] = next[c] + (k + 1)
    BY <1>1, <1>8, <1>9, <1>11, <2>1
  <2>3. next[c + 1] = -0 /\ 0 \in Nat
    BY <1>1, <2>2
  <2>4. \A j \in c + 1 .. m : j \in c .. m
    BY <1>1
  <2>5. QED
    BY <1>1, <1>3, <1>8, <1>9, <2>1, <2>3, <2>4 DEF Laid, m
<1>12. QED
  BY <1>2, <1>3, <1>4, <1>7, <1>10, <1>11 DEF m, t

\* A new frame goes behind all the others.
LEMMA LaidSend ==
  ASSUME NEW l, NEW q, NEW start, NEW c, NEW k, NEW packet \in Request,
         Laid(l, q, start, c, k)
  PROVE  \E next : Laid(l \o Frame(packet), Append(q, packet), next, c, k)
<1>1. /\ l \in Seq(Octet) /\ q \in Seq(Request) /\ start \in [Nat -> Int]
      /\ Len(l) \in Nat /\ Len(q) \in Nat /\ k \in Nat /\ c \in 1 .. Len(q) + 1
      /\ start[c] = -k /\ start[Len(q) + 1] = Len(l)
      /\ \A j \in c .. Len(q) :
           /\ start[j + 1] = start[j] + Len(Frame(q[j]))
           /\ start[j + 1] <= Len(l)
           /\ \A x \in 1 .. Len(Frame(q[j])) :
                start[j] + x >= 1 => l[start[j] + x] = Frame(q[j])[x]
  BY LenProperties DEF Laid
<1>n. PICK n \in Nat : n = Len(l)
  BY <1>1
<1>m. PICK m \in Nat : m = Len(q)
  BY <1>1
<1>p. PICK fr \in Seq(Octet) : fr = Frame(packet) /\ Len(fr) \in Nat
  BY RequestTyped, FrameStart
<1>f. PICK f \in Nat : f = Len(fr)
  BY <1>p
<1>l. PICK s : s = l \o fr
  OBVIOUS
<1>r. PICK r : r = Append(q, packet)
  OBVIOUS
<1>2. /\ s \in Seq(Octet) /\ Len(s) = n + f
      /\ \A x \in 1 .. n : s[x] = l[x]
      /\ \A x \in 1 .. f : s[n + x] = fr[x]
  <2>1. /\ l \o fr \in Seq(Octet) /\ Len(l \o fr) = Len(l) + Len(fr)
        /\ \A i \in 1 .. Len(l) + Len(fr) :
             (l \o fr)[i] = IF i <= Len(l) THEN l[i] ELSE fr[i - Len(l)]
    BY <1>1, <1>p, ConcatProperties
  <2>2. /\ s \in Seq(Octet) /\ Len(s) = n + f
        /\ \A i \in 1 .. n + f : s[i] = IF i <= n THEN l[i] ELSE fr[i - n]
    BY <2>1, <1>n, <1>f, <1>l
  <2>3. \A x \in 1 .. n : x \in 1 .. n + f /\ x <= n
    OBVIOUS
  <2>4. \A x \in 1 .. f : n + x \in 1 .. n + f /\ ~ (n + x <= n) /\ n + x - n = x
    OBVIOUS
  <2>5. QED
    BY <2>2, <2>3, <2>4
<1>3. /\ r \in Seq(Request) /\ Len(r) = m + 1 /\ r[m + 1] = packet
      /\ \A j \in 1 .. m : r[j] = q[j]
  <2>1. /\ Append(q, packet) \in Seq(Request)
        /\ Len(Append(q, packet)) = Len(q) + 1
        /\ Append(q, packet)[Len(q) + 1] = packet
        /\ \A j \in 1 .. Len(q) : Append(q, packet)[j] = q[j]
    BY <1>1, AppendProperties
  <2>2. QED
    BY <2>1, <1>m, <1>r
<1> DEFINE next == [start EXCEPT ![m + 2] = n + f]
<1>4. /\ next \in [Nat -> Int] /\ next[m + 2] = n + f
      /\ \A j \in Nat : j # m + 2 => next[j] = start[j]
  <2>1. m + 2 \in Nat /\ n + f \in Int
    OBVIOUS
  <2>2. QED
    BY <1>1, <2>1
<1> HIDE DEF next
<1>5. /\ c \in 1 .. m + 1 /\ c \in 1 .. m + 2 /\ c # m + 2 /\ c \in Nat /\ m + 1 \in Nat
      /\ m + 1 # m + 2 /\ m + 1 + 1 = m + 2
  BY <1>1, <1>m, SMTT(30)
<1>6. next[c] = -k /\ next[m + 1] = n
  BY <1>1, <1>4, <1>5, <1>n, <1>m
<1>7. ASSUME NEW j \in c .. m + 1
      PROVE  /\ next[j + 1] = next[j] + Len(Frame(r[j]))
             /\ next[j + 1] <= n + f
             /\ \A x \in 1 .. Len(Frame(r[j])) :
                  next[j] + x >= 1 => s[next[j] + x] = Frame(r[j])[x]
  <2>1. CASE j = m + 1
    <3>1. r[j] = packet /\ next[j] = n /\ next[j + 1] = n + f
      BY <1>3, <1>4, <1>5, <1>6, <2>1
    <3>2. Frame(r[j]) = fr /\ Len(Frame(r[j])) = f
      BY <3>1, <1>p, <1>f
    <3>3. n + f <= n + f
      OBVIOUS
    <3>4. QED
      BY <1>2, <3>1, <3>2, <3>3
  <2>2. CASE j # m + 1
    <3>1. /\ j \in c .. m /\ j \in 1 .. m /\ j \in Nat /\ j + 1 \in Nat
          /\ j # m + 2 /\ j + 1 # m + 2
      BY <1>5, <2>2
    <3>2. /\ r[j] = q[j] /\ next[j] = start[j] /\ next[j + 1] = start[j + 1]
          /\ start[j] \in Int /\ start[j + 1] \in Int
      BY <1>1, <1>3, <1>4, <3>1
    <3>3. /\ start[j + 1] = start[j] + Len(Frame(q[j])) /\ start[j + 1] <= n
          /\ \A x \in 1 .. Len(Frame(q[j])) :
               start[j] + x >= 1 => l[start[j] + x] = Frame(q[j])[x]
      BY <1>1, <1>n, <1>m, <3>1
    <3>4. next[j + 1] <= n + f
      <4>1. start[j + 1] <= n
        BY <3>3
      <4>2. QED
        BY <3>2, <4>1
    <3>g. Len(Frame(q[j])) \in Nat
      <4>1. q[j] \in Request
        BY <1>1, <1>m, <3>1, ElementOfSeq
      <4>2. QED
        BY <4>1, RequestTyped, FrameStart
    <3>5. ASSUME NEW x \in 1 .. Len(Frame(q[j])), start[j] + x >= 1
          PROVE  s[start[j] + x] = Frame(q[j])[x]
      <4>1. PICK g \in Nat : g = Len(Frame(q[j]))
        BY <3>g
      <4>2. x \in 1 .. g /\ start[j + 1] = start[j] + g /\ start[j + 1] <= n
        BY <3>3, <3>5, <4>1
      <4>3. start[j] + x \in 1 .. n
        BY <3>2, <3>5, <4>2
      <4>4. l[start[j] + x] = Frame(q[j])[x]
        BY Zenon, <3>3, <3>5
      <4>5. QED
        BY <1>2, <4>3, <4>4
    <3>6. QED
      BY <3>2, <3>3, <3>4, <3>5
  <2>3. QED
    BY <2>1, <2>2
<1>8. Laid(s, r, next, c, k)
  <2>1. /\ next[Len(r) + 1] = Len(s)
        /\ c \in 1 .. Len(r) + 1
    BY <1>2, <1>3, <1>4, <1>5
  <2>2. \A j \in c .. Len(r) :
          /\ next[j + 1] = next[j] + Len(Frame(r[j]))
          /\ next[j + 1] <= Len(s)
          /\ \A x \in 1 .. Len(Frame(r[j])) :
               next[j] + x >= 1 => s[next[j] + x] = Frame(r[j])[x]
    BY <1>2, <1>3, <1>7
  <2>3. QED
    BY <1>1, <1>2, <1>3, <1>4, <1>6, <2>1, <2>2 DEF Laid
<1>9. QED
  BY <1>8, <1>l, <1>p, <1>r

\* An answered request is forgotten; its frame left the line before.
LEMMA LaidTail ==
  ASSUME NEW l, NEW q, NEW start, NEW c, NEW k,
         Laid(l, q, start, c, k), c >= 2
  PROVE  /\ q # <<>> /\ Tail(q) \in Seq(Request) /\ Len(Tail(q)) = Len(q) - 1
         /\ \A j \in 1 .. Len(q) - 1 : Tail(q)[j] = q[j + 1]
         /\ \E next : Laid(l, Tail(q), next, c - 1, k)
<1>1. /\ l \in Seq(Octet) /\ q \in Seq(Request) /\ start \in [Nat -> Int]
      /\ Len(l) \in Nat /\ Len(q) \in Nat /\ k \in Nat /\ c \in 1 .. Len(q) + 1
      /\ start[c] = -k /\ start[Len(q) + 1] = Len(l)
      /\ \A j \in c .. Len(q) :
           /\ start[j + 1] = start[j] + Len(Frame(q[j]))
           /\ start[j + 1] <= Len(l)
           /\ \A x \in 1 .. Len(Frame(q[j])) :
                start[j] + x >= 1 => l[start[j] + x] = Frame(q[j])[x]
  BY LenProperties DEF Laid
<1>m. PICK m \in Nat : m = Len(q)
  BY <1>1
<1>t. PICK t : t = Tail(q)
  OBVIOUS
<1>2. m >= 1 /\ c \in 2 .. m + 1 /\ c - 1 \in Nat /\ c - 1 \in 1 .. m /\ c - 1 + 1 = c
  BY <1>1, <1>m
<1>3. q # <<>>
  <2>1. q = <<>> => Len(q) = 0
    OBVIOUS
  <2>2. QED
    BY <1>m, <1>2, <2>1
<1>4. /\ t \in Seq(Request) /\ Len(t) = m - 1
      /\ \A j \in 1 .. m - 1 : t[j] = q[j + 1]
  <2>1. /\ Tail(q) \in Seq(Request) /\ Len(Tail(q)) = Len(q) - 1
        /\ \A j \in 1 .. Len(Tail(q)) : Tail(q)[j] = q[j + 1]
    BY <1>1, <1>3, HeadTailProperties
  <2>2. QED
    BY <2>1, <1>m, <1>t
<1> DEFINE next == [j \in Nat |-> start[j + 1]]
<1>5. next \in [Nat -> Int] /\ \A j \in Nat : next[j] = start[j + 1]
  BY <1>1
<1> HIDE DEF next
<1>6. next[c - 1] = -k /\ next[m] = Len(l)
  BY <1>1, <1>2, <1>5, <1>m
<1>7. ASSUME NEW j \in c - 1 .. m - 1
      PROVE  /\ next[j + 1] = next[j] + Len(Frame(t[j]))
             /\ next[j + 1] <= Len(l)
             /\ \A x \in 1 .. Len(Frame(t[j])) :
                  next[j] + x >= 1 => l[next[j] + x] = Frame(t[j])[x]
  <2>1. /\ j \in 1 .. m - 1 /\ j \in Nat /\ j + 1 \in Nat /\ j + 1 \in c .. m
    BY <1>2
  <2>2. t[j] = q[j + 1] /\ next[j] = start[j + 1] /\ next[j + 1] = start[j + 1 + 1]
    BY <1>4, <1>5, <2>1
  <2>3. /\ start[j + 1 + 1] = start[j + 1] + Len(Frame(q[j + 1]))
        /\ start[j + 1 + 1] <= Len(l)
        /\ \A x \in 1 .. Len(Frame(q[j + 1])) :
             start[j + 1] + x >= 1 => l[start[j + 1] + x] = Frame(q[j + 1])[x]
    BY <1>1, <1>m, <2>1
  <2>4. QED
    BY <2>2, <2>3
<1>8. Laid(l, t, next, c - 1, k)
  <2>1. Len(t) + 1 = m /\ c - 1 \in 1 .. Len(t) + 1
    BY <1>2, <1>4
  <2>2. \A j \in c - 1 .. Len(t) :
          /\ next[j + 1] = next[j] + Len(Frame(t[j]))
          /\ next[j + 1] <= Len(l)
          /\ \A x \in 1 .. Len(Frame(t[j])) :
               next[j] + x >= 1 => l[next[j] + x] = Frame(t[j])[x]
    BY <1>4, <1>7
  <2>3. QED
    BY <1>1, <1>4, <1>5, <1>6, <2>1, <2>2 DEF Laid
<1>9. QED
  BY <1>3, <1>4, <1>8, <1>m, <1>t

-----------------------------------------------------------------------------
(* Sending.                                                                *)

\* The first n bytes of a reply of this kind.
Part(kind, n) == [i \in 1 .. n |-> <<kind, i - 1>>]

\* One activation sends at a time, from a buffer that still holds the reply it was
\* entered for, and what has gone out is the reply up to where the activation stands.
TxInv ==
  /\ reply.kind # "!WOV"
  /\ calls = <<>> => sent = <<>>
  /\ calls # <<>> =>
       /\ Len(calls) = 1 /\ at = "reply"
       /\ reply.len = REPLY_LENGTH[reply.kind]
       /\ Top.at = "open" => sent = <<>>
       /\ Top.at = "body" => Top.i \in 1 .. reply.len - 1 /\ sent = Part(reply.kind, Top.i)
       /\ Top.at = "close" => sent = Whole(reply.kind)
       /\ Top.at = "closed" => sent = <<>> /\ WRITE_POLLS
       /\ Top.at # "opened"

\* Two parts of a reply that meet are a part of it.
LEMMA PartsMeet ==
  ASSUME NEW kind, NEW i \in Nat, NEW n \in Nat
  PROVE  Part(kind, i) \o [k \in 1 .. n |-> <<kind, i + k - 1>>] = Part(kind, i + n)
<1> DEFINE S == {kind} \X Int
           a == Part(kind, i)
           b == [k \in 1 .. n |-> <<kind, i + k - 1>>]
           c == Part(kind, i + n)
<1>1. a \in Seq(S) /\ Len(a) = i /\ \A k \in 1 .. i : a[k] = <<kind, k - 1>>
  BY DEF Part
<1>2. b \in Seq(S) /\ Len(b) = n /\ \A k \in 1 .. n : b[k] = <<kind, i + k - 1>>
  OBVIOUS
<1>3. c \in Seq(S) /\ Len(c) = i + n /\ \A k \in 1 .. i + n : c[k] = <<kind, k - 1>>
  <2>1. i + n \in Nat
    OBVIOUS
  <2>2. QED
    BY <2>1 DEF Part
<1> HIDE DEF a, b, c, S
<1>4. /\ a \o b \in Seq(S) /\ Len(a \o b) = i + n
      /\ \A k \in 1 .. i + n : (a \o b)[k] = IF k <= i THEN a[k] ELSE b[k - i]
  BY <1>1, <1>2, ConcatProperties
<1>5. ASSUME NEW k \in 1 .. i + n PROVE (a \o b)[k] = c[k]
  <2>1. CASE k <= i
    <3>1. k \in 1 .. i
      BY <2>1
    <3>2. QED
      BY <1>1, <1>3, <1>4, <2>1, <3>1
  <2>2. CASE ~ (k <= i)
    <3>1. k - i \in 1 .. n /\ i + (k - i) - 1 = k - 1
      BY <2>2
    <3>2. b[k - i] = <<kind, k - 1>>
      BY <1>2, <3>1
    <3>3. QED
      BY <1>3, <1>4, <2>2, <3>2
  <2>3. QED
    BY <2>1, <2>2
<1>6. a \o b = c
  BY <1>3, <1>4, <1>5, SeqEqual
<1>7. QED
  BY <1>6 DEF a, b, c

\* The only activation moves to another stage.
LEMMA SoleGoto ==
  ASSUME TypeOK, Len(calls) = 1, NEW t, calls' = Goto(t)
  PROVE  calls' # <<>> /\ Len(calls') = 1 /\ Top' = t
<1>1. calls' = [calls EXCEPT ![1] = t] /\ calls \in Seq(Activation)
  BY DEF Goto, TypeOK
<1>2. DOMAIN calls = 1 .. 1
  BY <1>1
<1>3. calls' \in [1 .. 1 -> {t}]
  BY <1>1, <1>2
<1>4. calls' \in Seq({t}) /\ Len(calls') = 1 /\ calls'[1] = t
  <2>1. calls' = [i \in 1 .. 1 |-> calls'[i]] /\ calls'[1] = t
    BY <1>3
  <2>2. [i \in 1 .. 1 |-> calls'[i]] \in Seq({t})
    BY <1>3
  <2>3. Len([i \in 1 .. 1 |-> calls'[i]]) = 1
    OBVIOUS
  <2>4. QED
    BY Zenon, <2>1, <2>2, <2>3
<1>5. QED
  BY <1>4 DEF Top

\* A run of the loop of DRL_Packet_TX, from where the reply has got to to the next poll.
LEMMA SendPart ==
  ASSUME TypeOK, calls # <<>>, Len(calls) = 1, reply.len = REPLY_LENGTH[reply.kind],
         NEW from \in Nat, NEW poll \in Nat, from < reply.len, from < poll,
         Top.at # "body" => from = 0,
         Top.at = "body" => sent = Part(reply.kind, from),
         SendFrom(from, poll), UNCHANGED <<at, reply>>, at = "reply", reply.kind # "!WOV"
  PROVE  TxInv'
<1> DEFINE end == IF poll < reply.len THEN poll ELSE reply.len
           t   == IF poll < reply.len THEN [at |-> "body", i |-> poll]
                                      ELSE [at |-> "close", i |-> 0]
           out == [k \in 1 .. end - from |-> <<reply.kind, from + k - 1>>]
<1>1. /\ reply.len \in Nat /\ end \in Nat /\ end > from /\ end <= reply.len
      /\ end - from \in Nat /\ from + (end - from) = end
  <2>1. reply.len \in Nat
    BY DEF TypeOK
  <2>2. PICK len \in Nat : len = reply.len
    BY <2>1
  <2>3. PICK e \in Nat : e = end
    BY <2>2
  <2>4. e > from /\ e <= len /\ e - from \in Nat /\ from + (e - from) = e
    <3>1. e = IF poll < len THEN poll ELSE len
      BY <2>2, <2>3
    <3>2. from < len
      BY <2>2
    <3>3. QED
      BY <3>1, <3>2
  <2>5. QED
    BY <2>2, <2>3, <2>4
<1>2. sent' = (IF Top.at = "body" THEN sent \o out ELSE out) /\ calls' = Goto(t)
  <2>1. \A k \in 1 .. end - from : ReplyByte(from + k - 1) = <<reply.kind, from + k - 1>>
    <3> HIDE DEF end
    <3> TAKE k \in 1 .. end - from
    <3>1. from + k - 1 < reply.len
      BY <1>1
    <3>2. QED
      BY <3>1 DEF ReplyByte
  <2>2. end > from
    BY <1>1
  <2>3. [k \in 1 .. end - from |-> ReplyByte(from + k - 1)] = out
    BY <2>1
  <2>4. SendFrom(from, poll)
    OBVIOUS
  <2>5. QED
    BY <2>2, <2>3, <2>4 DEF SendFrom
<1>3. sent' = Part(reply.kind, end)
  <2> HIDE DEF end
  <2>1. Part(reply.kind, from) \o out = Part(reply.kind, end)
    <3>1. PICK n \in Nat : n = end - from
      BY <1>1
    <3>2. Part(reply.kind, from) \o [k \in 1 .. n |-> <<reply.kind, from + k - 1>>]
            = Part(reply.kind, from + n)
      BY PartsMeet
    <3>3. from + n = end
      BY <1>1, <3>1
    <3>4. QED
      BY Zenon, <3>1, <3>2, <3>3
  <2>2. CASE Top.at # "body"
    <3>1. from = 0 /\ out = [k \in 1 .. end |-> <<reply.kind, k - 1>>]
      BY <1>1, <2>2
    <3>2. QED
      BY <1>2, <2>2, <3>1 DEF Part
  <2>3. CASE Top.at = "body"
    <3>1. sent = Part(reply.kind, from)
      BY <2>3
    <3>2. sent' = sent \o out
      BY <1>2, <2>3
    <3>3. QED
      BY <2>1, <3>1, <3>2
  <2>4. QED
    BY <2>2, <2>3
<1>4. calls' # <<>> /\ Len(calls') = 1 /\ Top' = t
  <2> HIDE DEF t
  <2>1. calls' = Goto(t)
    BY <1>2
  <2>2. QED
    BY <2>1, SoleGoto
<1>5. /\ t.at \in {"body", "close"}
      /\ t.at = "body" => t.i = end /\ end \in 1 .. reply.len - 1
      /\ t.at = "close" => end = reply.len
  BY <1>1
<1>6. Part(reply.kind, reply.len) = Whole(reply.kind)
  BY DEF Part, Whole
<1> HIDE DEF t, end
<1>7. /\ Top'.at = "open" => sent' = <<>>
      /\ Top'.at = "body" => Top'.i \in 1 .. reply.len - 1 /\ sent' = Part(reply.kind, Top'.i)
      /\ Top'.at = "close" => sent' = Whole(reply.kind)
      /\ Top'.at = "closed" => sent' = <<>> /\ WRITE_POLLS
      /\ Top'.at # "opened"
  BY <1>3, <1>4, <1>5, <1>6
<1>8. QED
  BY <1>4, <1>7 DEF TxInv

\* Handlers answer with a reply that is not the overrun message, a welcome opens the
\* gate and nothing else moves it.
LEMMA RespondGate ==
  ASSUME NEW packet, NEW need \in BOOLEAN, NEW a \in Respond(packet, need)
  PROVE  /\ a.kind # "!WOV"
         /\ a.kind \in Kind
         /\ a.need_hello = (need /\ a.kind # "HELLO")
<1> DEFINE Fits(x) == /\ x.kind # "!WOV" /\ x.need_hello \in BOOLEAN
                      /\ x.need_hello = (need /\ x.kind # "HELLO")
<1>1. \A kind \in Kind \ {"!WOV", "HELLO"} : Fits(Answer(kind, need))
  BY DEF Answer
<1>2. Fits(Answer("HELLO", FALSE))
  BY DEF Answer
<1> HIDE DEF Fits
<1>3. \A x \in Handshake(packet[2], need) : Fits(x)
  BY <1>1, <1>2 DEF Handshake, Kind, ErrorKind
<1>4. \A x \in Handle(packet[1], packet[2], need) : Fits(x)
  BY <1>1, <1>3 DEF Handle, DRL_Cmd_Info, DRL_Cmd_FlashSize, DRL_Packet_FlashRead,
                    DRL_Packet_SendInvalid, Kind, ErrorKind
<1>5. Fits(a)
  BY <1>1, <1>4 DEF Respond, Kind, ErrorKind
<1>6. QED
  BY <1>5, RespondTyped DEF Fits

\* Where no overrun happens, one activation goes on sending a whole reply.
LEMMA TxStep ==
  ASSUME TypeOK, TxInv, [AnyStep]_vars, ~RXOverrun
  PROVE  TxInv'
<1> DEFINE Quiet == UNCHANGED <<reply, calls, sent>>
<1>0. reply.len \in Nat
  BY DEF TypeOK
<1>i. CASE TXInterrupt
  BY <1>i DEF TXInterrupt, Interrupts, TxInv
<1>1. CASE TXOpen
  <2>1. reply.len = REPLY_LENGTH[reply.kind] /\ reply.len > 0
    BY <1>1, PacketAssumption DEF TXOpen, TxInv, TypeOK
  <2>2. TX_POLL - 1 \in Nat /\ 0 \in Nat /\ 0 < TX_POLL - 1
    BY PacketAssumption
  <2>3. /\ calls # <<>> /\ Len(calls) = 1 /\ at = "reply" /\ Top.at = "open"
        /\ SendFrom(0, TX_POLL - 1) /\ UNCHANGED <<at, reply>>
    BY <1>1 DEF TXOpen, TxInv, procVars
  <2>4. QED
    BY <2>1, <2>2, <2>3, SendPart DEF TxInv
<1>2. CASE TXBody
  <2>1. /\ calls # <<>> /\ Len(calls) = 1 /\ at = "reply" /\ Top.at = "body"
        /\ SendFrom(Top.i, Top.i + TX_POLL) /\ UNCHANGED <<at, reply>>
        /\ reply.len = REPLY_LENGTH[reply.kind]
        /\ Top.i \in 1 .. reply.len - 1 /\ sent = Part(reply.kind, Top.i)
    BY <1>2 DEF TXBody, TxInv, procVars
  <2>2. /\ Top.i \in Nat /\ Top.i + TX_POLL \in Nat /\ Top.i < reply.len
        /\ Top.i < Top.i + TX_POLL /\ reply.kind # "!WOV"
    BY <1>0, <2>1, PacketAssumption DEF TxInv
  <2>3. QED
    BY <2>1, <2>2, SendPart
<1>3. CASE TXClose \/ TXReturn
  <2>1. /\ calls # <<>> /\ Len(calls) = 1 /\ sent' = <<>> /\ UNCHANGED <<reply, at>>
        /\ at = "reply" /\ reply.kind # "!WOV" /\ reply.len = REPLY_LENGTH[reply.kind]
    BY <1>3 DEF TXClose, TXReturn, TxInv, procVars
  <2>2. CASE calls' = Pop
    <3>1. calls' = <<>>
      BY <2>1, <2>2 DEF Pop
    <3>2. QED
      BY <2>1, <3>1 DEF TxInv
  <2>3. CASE calls' = Goto([at |-> "closed", i |-> 0]) /\ WRITE_POLLS
    <3>1. calls' # <<>> /\ Len(calls') = 1 /\ Top' = [at |-> "closed", i |-> 0]
      BY <2>1, <2>3, SoleGoto
    <3>2. QED
      BY <2>1, <2>3, <3>1 DEF TxInv
  <2>4. QED
    BY <1>3, <2>2, <2>3 DEF TXClose, TXReturn
<1>4. CASE Dispatch
  <2>1. PICK a \in Respond(Content(this), need_hello) : StartTX(a.kind)
    BY <1>4 DEF Dispatch
  <2>2. a.kind # "!WOV"
    BY <2>1, RespondGate DEF TypeOK
  <2>3. /\ calls = <<>> /\ sent' = <<>> /\ at' = "reply"
        /\ calls' = Append(<<>>, [at |-> "open", i |-> 0])
        /\ reply' = [kind |-> a.kind, len |-> REPLY_LENGTH[a.kind]]
    BY <1>4, <2>1 DEF Dispatch, StartTX, TxInv
  <2>4. calls' = <<[at |-> "open", i |-> 0]>>
    BY <2>3
  <2>5. Len(calls') = 1 /\ calls' # <<>> /\ Top' = [at |-> "open", i |-> 0]
    BY <2>4 DEF Top
  <2>6. QED
    BY <2>2, <2>3, <2>5 DEF TxInv
<1>5. ASSUME Quiet, calls # <<>> => at' = at PROVE TxInv'
  BY <1>5 DEF TxInv, Top
<1>6. CASE Dequeue \/ CrcChunk \/ Release \/ EndProc
  BY <1>6, <1>5 DEF Dequeue, CrcChunk, Release, EndProc, txVars
<1>7. CASE \E ch \in 0 .. 255 : DRL_Packet_RX(ch)
  BY <1>7, <1>5 DEF DRL_Packet_RX, RXFlag, RXEscape, RXData, txVars, procVars
<1>8. CASE UNCHANGED vars
  BY <1>8, <1>5 DEF vars, txVars, procVars
<1>9. QED
  BY <1>i, <1>1, <1>2, <1>3, <1>4, <1>6, <1>7, <1>8 DEF AnyStep, Compute

-----------------------------------------------------------------------------
(* The requests without an answer.                                         *)

\* The reply is on its way; its closing flag ends that, although the write of the flag may
\* still poll.
Sending == at = "reply" /\ calls # <<>> /\ Top.at # "closed"

\* 1 while a request is being answered, and the number of the request whose frame is
\* coming in: all before it are being answered or pending.
Busy   == IF Sending THEN 1 ELSE 0
Coming == Busy + Len(Pending) + 1

\* The reply on its way answers the oldest request, under the gate as the host knows it;
\* otherwise the host knows the gate.
GateInv ==
  /\ Busy = 1 => \E a \in Respond(asked[1], closed) :
                   a.kind = reply.kind /\ a.need_hello = need_hello
  /\ Busy = 0 => need_hello = closed

\* The requests without an answer are the one being answered, the pending ones, the one
\* whose frame is coming in, of which the first k bytes have come, and those whose frames
\* are on the line.
OrderInv(start, k) ==
  /\ asked \in Seq(Request) /\ Len(asked) <= WINDOW
  /\ closed \in BOOLEAN
  /\ \A j \in 1 .. Len(Pending) : Pending[j] = asked[Busy + j]
  /\ Laid(line, asked, start, Coming, k)
  /\ k = 0 => current = NULL
  /\ k # 0 => Received(asked[Coming], k)

LinkInv ==
  /\ TypeOK /\ PoolInv /\ TxInv /\ GateInv
  /\ \E start, k : OrderInv(start, k)

\* What the invariant says of the lengths.
LEMMA OrderLengths ==
  ASSUME PoolInv, NEW start, NEW k, OrderInv(start, k)
  PROVE  /\ Len(asked) \in Nat /\ Len(Pending) \in Nat /\ Busy \in {0, 1}
         /\ Coming \in 1 .. Len(asked) + 1 /\ Coming = Busy + Len(Pending) + 1
         /\ k \in Nat /\ line \in Seq(Octet)
         /\ \A j \in 1 .. Len(asked) : asked[j] \in Request
         /\ Coming = Len(asked) + 1 => k = 0
<1>1. asked \in Seq(Request) /\ Len(asked) \in Nat
  BY LenProperties DEF OrderInv
<1>2. Len(Pending) \in Nat
  BY PendingTyped, LenProperties
<1>3. Busy \in {0, 1}
  BY DEF Busy
<1>4. /\ Coming \in 1 .. Len(asked) + 1 /\ k \in Nat /\ line \in Seq(Octet)
      /\ start[Coming] = -k /\ start[Len(asked) + 1] = Len(line)
  BY DEF OrderInv, Laid
<1>5. Len(line) \in Nat
  BY <1>4, LenProperties
<1>6. Coming = Len(asked) + 1 => k = 0
  BY <1>4, <1>5
<1>7. \A j \in 1 .. Len(asked) : asked[j] \in Request
  BY <1>1, ElementOfSeq
<1>8. QED
  BY <1>1, <1>2, <1>3, <1>4, <1>6, <1>7 DEF Coming

\* What leaves the requests, the queue and the slot being filled alone keeps the order.
LEMMA OrderKept ==
  ASSUME NEW start, NEW k, OrderInv(start, k),
         UNCHANGED <<line, asked, closed, Pending, Busy, current, buffer, escape_state>>,
         current # NULL => length'[current] = length[current]
  PROVE  OrderInv(start, k)'
<1>1. Coming' = Coming
  BY DEF Coming
<1>2. PICK c : c = Coming
  OBVIOUS
<1>3. k # 0 => Received(asked[Coming], k)'
  <2>1. ASSUME k # 0 PROVE Received(asked[Coming], k)'
    <3>1. PICK packet : packet = asked[Coming]
      OBVIOUS
    <3>2. Received(packet, k)
      BY <2>1, <3>1 DEF OrderInv
    <3>3. Received(packet, k)'
      BY <3>2, ReceiveKept
    <3>4. packet = asked[Coming]'
      BY <1>1, <3>1
    <3>5. QED
      BY <3>3, <3>4 DEF Received
  <2>2. QED
    BY <2>1
<1>4. QED
  BY <1>1, <1>3 DEF OrderInv

-----------------------------------------------------------------------------
(* Every step keeps the invariant.                                         *)

\* What is invisible to the abstract queue leaves Pending alone.
LEMMA PendingKept ==
  ASSUME UNCHANGED Abstract!vars
  PROVE  Pending' = Pending
BY DEF Abstract!vars

\* The host sends.
LEMMA SendKeepsInv ==
  ASSUME LinkInv, NEW packet \in Request, HostSend(packet)
  PROVE  LinkInv'
<1>1. PICK start, k : OrderInv(start, k)
  BY DEF LinkInv
<1>2. /\ UNCHANGED vars /\ closed' = closed /\ Len(asked) < WINDOW
      /\ line' = line \o Frame(packet) /\ asked' = Append(asked, packet)
  BY DEF HostSend
<1>3. /\ UNCHANGED <<poolVars, fillVars, procVars, txVars, need_hello>>
      /\ UNCHANGED <<current, length, buffer, escape_state, at, this, calls, reply>>
  BY <1>2 DEF vars, fillVars, procVars, txVars
<1>4. TypeOK' /\ PoolInv' /\ TxInv'
  <2>1. [AnyStep]_vars /\ TypeOK /\ PoolInv /\ TxInv
    BY <1>2 DEF LinkInv
  <2>2. ~RXOverrun
    BY <1>3 DEF RXOverrun, StartTX, LinkInv, TxInv
  <2>3. QED
    BY <2>1, <2>2, TypeStep, PoolStep, TxStep
<1>5. Pending' = Pending /\ Busy' = Busy
  <2>1. UNCHANGED Abstract!vars
    BY <1>3, QuietSimulates
  <2>2. QED
    BY <1>3, <2>1, PendingKept DEF Busy, Sending, Top
<1>6. /\ Len(asked) \in Nat /\ Len(Pending) \in Nat /\ Busy \in {0, 1}
      /\ Coming \in 1 .. Len(asked) + 1 /\ Coming = Busy + Len(Pending) + 1
      /\ Coming = Len(asked) + 1 => k = 0
  BY <1>1, OrderLengths DEF LinkInv
<1>7. /\ asked' \in Seq(Request) /\ Len(asked') = Len(asked) + 1
      /\ \A j \in 1 .. Len(asked) : asked'[j] = asked[j]
  BY <1>1, <1>2, AppendProperties DEF OrderInv
<1>c. PICK c : c = Coming /\ c = Coming'
  BY <1>5 DEF Coming
<1>8. PICK next : Laid(line', asked', next, c, k)
  <2>1. Laid(line, asked, start, c, k)
    BY <1>1, <1>c DEF OrderInv
  <2>2. \E next : Laid(line \o Frame(packet), Append(asked, packet), next, c, k)
    BY <2>1, LaidSend
  <2>3. QED
    BY <1>2, <2>2
<1>9. GateInv'
  <2>1. Busy = 1 => asked'[1] = asked[1]
    BY <1>6, <1>7
  <2>2. GateInv
    BY DEF LinkInv
  <2>3. UNCHANGED <<reply, need_hello, closed>>
    BY <1>2, <1>3
  <2>4. QED
    BY <1>5, <1>6, <2>1, <2>2, <2>3 DEF GateInv
<1>10. OrderInv(next, k)'
  <2>1. Len(asked') <= WINDOW
    BY <1>2, <1>6, <1>7, HostAssumption
  <2>2. \A j \in 1 .. Len(Pending') : Pending'[j] = asked'[Busy' + j]
    <3>1. \A j \in 1 .. Len(Pending) : Busy + j \in 1 .. Len(asked)
      BY <1>6
    <3>2. \A j \in 1 .. Len(Pending) : Pending[j] = asked[Busy + j]
      BY <1>1 DEF OrderInv
    <3>3. QED
      BY <1>5, <1>7, <3>1, <3>2
  <2>3. ASSUME k # 0 PROVE Received(asked[Coming], k)'
    <3>1. PICK p : p = asked[c]
      OBVIOUS
    <3>2. Received(p, k)
      BY <1>1, <1>c, <2>3, <3>1 DEF OrderInv
    <3>3. Received(p, k)'
      BY <1>3, <3>2, ReceiveKept
    <3>4. p = asked'[c]
      BY <1>6, <1>7, <1>c, <2>3, <3>1
    <3>5. QED
      BY <1>c, <3>3, <3>4 DEF Received
  <2>4. k = 0 => current' = NULL
    BY <1>1, <1>3 DEF OrderInv
  <2>5. closed' \in BOOLEAN
    BY <1>1, <1>2 DEF OrderInv
  <2>6. Laid(line, asked, next, Coming, k)'
    BY <1>8, <1>c DEF Laid
  <2>7. QED
    BY <1>7, <2>1, <2>2, <2>3, <2>4, <2>5, <2>6 DEF OrderInv
<1>11. QED
  BY <1>4, <1>9, <1>10 DEF LinkInv

\* A host that keeps to the window finds a slot for its byte.
LEMMA NoOverrun ==
  ASSUME LinkInv, line # <<>>, Polling
  PROVE  ~RXOverrun
<1>1. PICK start, k : OrderInv(start, k)
  BY DEF LinkInv
<1>2. /\ Len(asked) \in Nat /\ Len(Pending) \in Nat
      /\ Coming \in 1 .. Len(asked) + 1 /\ Coming = Busy + Len(Pending) + 1
  BY <1>1, OrderLengths DEF LinkInv
<1>3. Coming \in 1 .. Len(asked)
  <2>1. PICK c : c = Coming
    OBVIOUS
  <2>2. Laid(line, asked, start, c, k)
    BY <1>1, <2>1 DEF OrderInv
  <2>3. c \in 1 .. Len(asked)
    BY <2>2, LaidNext
  <2>4. QED
    BY <2>1, <2>3
<1>4. Len(asked) <= WINDOW /\ WINDOW \in Nat /\ NUMBER_OF_PACKETS \in Nat
      /\ WINDOW <= NUMBER_OF_PACKETS
  BY <1>1, HostAssumption, PacketAssumption DEF OrderInv
<1>5. \/ Busy = IF at = "reply" THEN 1 ELSE 0
      \/ Busy = 0 /\ at = "reply" /\ WINDOW < NUMBER_OF_PACKETS
  <2>1. calls # <<>> \/ at # "reply"
    BY DEF Polling
  <2>2. calls # <<>> /\ Top.at = "closed" => WINDOW < NUMBER_OF_PACKETS
    BY HostAssumption DEF LinkInv, TxInv
  <2>3. QED
    BY <2>1, <2>2 DEF Busy, Sending
<1>6. ASSUME RXOverrun PROVE FALSE
  <2>1. Abstract!ReportOverrun
    BY <1>6, OverrunSimulates DEF LinkInv
  <2>2. Len(Pending) + (IF at = "reply" THEN 1 ELSE 0) = NUMBER_OF_PACKETS
    BY <2>1 DEF Abstract!ReportOverrun, Abstract!Held
  <2>3. Busy \in {0, 1}
    BY DEF Busy
  <2>4. \/ Len(Pending) + Busy = NUMBER_OF_PACKETS
        \/ Busy = 0 /\ Len(Pending) + 1 = NUMBER_OF_PACKETS /\ WINDOW < NUMBER_OF_PACKETS
    BY <1>5, <2>2
  <2>5. QED
    BY <1>2, <1>3, <1>4, <2>3, <2>4
<1>7. QED
  BY <1>6

\* A byte reaches the loader.
LEMMA DeliverKeepsInv ==
  ASSUME LinkInv, Deliver
  PROVE  LinkInv'
<1>1. PICK start, k : OrderInv(start, k)
  BY DEF LinkInv
<1>2. /\ Len(asked) \in Nat /\ Len(Pending) \in Nat /\ Busy \in {0, 1}
      /\ Coming = Busy + Len(Pending) + 1 /\ k \in Nat
      /\ \A j \in 1 .. Len(asked) : asked[j] \in Request
  BY <1>1, OrderLengths DEF LinkInv
<1>c. PICK c : c = Coming
  OBVIOUS
<1>h. PICK ch : ch = Head(line)
  OBVIOUS
<1>3. /\ line # <<>> /\ DRL_Packet_RX(ch) /\ line' = Tail(line)
      /\ UNCHANGED <<asked, closed>>
  BY <1>h DEF Deliver
<1>4. /\ c \in 1 .. Len(asked) /\ ch \in Octet
      /\ k < Len(Frame(asked[c])) => ch = Frame(asked[c])[k + 1]
      /\ \E next :
           /\ k + 1 < Len(Frame(asked[c])) => Laid(line', asked, next, c, k + 1)
           /\ k + 1 = Len(Frame(asked[c])) => Laid(line', asked, next, c + 1, 0)
  <2>1. Laid(line, asked, start, c, k)
    BY <1>1, <1>c DEF OrderInv
  <2>2. QED
    BY <1>3, <1>h, <2>1, LaidNext
<1>p. PICK packet \in Request : packet = asked[c]
  BY <1>2, <1>4
<1>5. /\ packet \in Seq(Octet) /\ Len(packet) \in 3 .. MAX_PACKET_SIZE
      /\ Len(packet) < LENGTH_SPAN
      /\ Frame(packet)[1] = FLAG /\ Len(Frame(packet)) \in Nat /\ Len(Frame(packet)) >= 2
  BY RequestTyped, FrameStart
<1>6. ~RXOverrun /\ CanFill
  <2>1. Polling
    BY <1>3 DEF DRL_Packet_RX, RXOverrun, RXFlag, RXEscape, RXData
  <2>2. ~RXOverrun
    BY <1>3, <2>1, NoOverrun
  <2>3. QED
    BY <1>3, <2>2 DEF DRL_Packet_RX, RXFlag, RXEscape, RXData
<1>7. UNCHANGED <<at, this, pos, reply, calls, sent, need_hello>>
  BY <1>3, <1>6 DEF DRL_Packet_RX, RXFlag, RXEscape, RXData, procVars, txVars
<1>8. TypeOK' /\ PoolInv' /\ TxInv'
  <2>1. [AnyStep]_vars
    BY <1>3, <1>4 DEF AnyStep, Octet
  <2>2. QED
    BY <1>6, <2>1, TypeStep, PoolStep, TxStep DEF LinkInv
<1>9. Busy' = Busy
  BY <1>7 DEF Busy, Sending, Top
<1>10. GateInv'
  <2>1. GateInv
    BY DEF LinkInv
  <2>2. QED
    BY <1>3, <1>7, <1>9, <2>1 DEF GateInv
<1>11. /\ asked \in Seq(Request) /\ Len(asked) <= WINDOW /\ closed \in BOOLEAN
       /\ \A j \in 1 .. Len(Pending) : Pending[j] = asked[Busy + j]
  BY <1>1 DEF OrderInv
<1>12. ASSUME UNCHANGED Abstract!vars, k + 1 < Len(Frame(packet)), Received(packet, k + 1)'
       PROVE  LinkInv'
  <2>1. Pending' = Pending /\ Coming' = c
    BY <1>9, <1>12, <1>c, PendingKept DEF Coming
  <2>2. PICK next : Laid(line', asked, next, c, k + 1)
    BY <1>4, <1>12, <1>p
  <2>m. PICK m : m = k + 1 /\ m # 0
    BY <1>2
  <2>3. Received(asked[Coming], m)'
    <3>1. packet = asked'[Coming']
      BY <1>3, <1>p, <2>1
    <3>2. Received(packet, m)'
      BY <1>12, <2>m
    <3>3. QED
      BY <3>1, <3>2 DEF Received
  <2>4. OrderInv(next, m)'
    BY <1>3, <1>9, <1>11, <2>1, <2>2, <2>m, <2>3 DEF OrderInv
  <2>5. QED
    BY <1>8, <1>10, <2>4 DEF LinkInv
<1>13. CASE k = 0
  <2>1. ch = FLAG /\ current = NULL
    BY <1>1, <1>4, <1>5, <1>13, <1>p DEF OrderInv
  <2>2. RXFlag /\ BadLength
    BY <1>3, <1>6, <2>1 DEF DRL_Packet_RX, FLAG, ESCAPE, BadLength, Filled
  <2>3. UNCHANGED Abstract!vars
    BY <2>2, ByteSimulates DEF LinkInv
  <2>4. Received(packet, 1)'
    BY <1>5, <2>2, ReceiveStart DEF LinkInv
  <2>5. k + 1 = 1 /\ k + 1 < Len(Frame(packet))
    BY <1>5, <1>13
  <2>6. QED
    BY <1>12, <2>3, <2>4, <2>5
<1>14. CASE k # 0
  <2>1. Received(packet, k)
    BY <1>1, <1>14, <1>c, <1>p DEF OrderInv
  <2>2. k < Len(Frame(packet))
    <3>1. PICK i, e : OnFrame(packet, k, i, e)
      BY <2>1 DEF Received
    <3>2. QED
      BY <1>5, <3>1, FrameNext
  <2>3. ch = Frame(packet)[k + 1]
    BY <1>4, <1>p, <2>2
  <2>4. \/ /\ k + 1 = Len(Frame(packet))
           /\ RXFlag /\ Filled = Len(packet)
           /\ \A q \in 1 .. Len(packet) :
                q <= MAX_PACKET_SIZE => buffer[current][q - 1] = packet[q]
        \/ /\ k + 1 < Len(Frame(packet))
           /\ RXEscape \/ RXData(ch)
           /\ Received(packet, k + 1)'
    BY <1>3, <1>5, <1>6, <2>1, <2>3, ReceiveNext DEF LinkInv
  <2>5. CASE k + 1 < Len(Frame(packet)) /\ (RXEscape \/ RXData(ch)) /\ Received(packet, k + 1)'
    <3>1. UNCHANGED Abstract!vars
      BY <2>5, ByteSimulates DEF LinkInv
    <3>2. QED
      BY <1>12, <2>5, <3>1
  <2>6. CASE /\ k + 1 = Len(Frame(packet))
             /\ RXFlag /\ Filled = Len(packet)
             /\ \A q \in 1 .. Len(packet) :
                  q <= MAX_PACKET_SIZE => buffer[current][q - 1] = packet[q]
    <3>s. PICK slot : slot = Slot
      OBVIOUS
    <3>1. Enqueue /\ Content(slot)' = packet
      BY <1>5, <2>6, <3>s, ReceiveEnd DEF LinkInv
    <3>2. /\ Len(Pending') = Len(Pending) + 1
          /\ \A i \in 1 .. Len(Pending) : Pending'[i] = Pending[i]
          /\ Pending'[Len(Pending')] = packet
      <4>1. UNCHANGED <<buffer, at, this>> /\ Filled \in 3 .. MAX_PACKET_SIZE
        BY <1>5, <2>6 DEF RXFlag, procVars
      <4>2. PICK x \in Packets :
              /\ x = Slot
              /\ Len(Pending') = Len(Pending) + 1
              /\ \A i \in 1 .. Len(Pending) : Pending'[i] = Pending[i]
              /\ Pending'[Len(Pending')] = Content(x)'
        BY <1>6, <3>1, <4>1, EnqueueAppends DEF LinkInv
      <4>3. x = slot
        BY <3>s, <4>2
      <4>4. Content(x)' = Content(slot)'
        BY <4>3 DEF Content
      <4>5. QED
        BY <3>1, <4>2, <4>4
    <3>3. Coming' = c + 1
      BY <1>2, <1>9, <1>c, <3>2 DEF Coming
    <3>4. PICK next : Laid(line', asked, next, c + 1, 0)
      BY <1>4, <1>p, <2>6
    <3>5. \A j \in 1 .. Len(Pending') : Pending'[j] = asked'[Busy' + j]
      <4> TAKE j \in 1 .. Len(Pending')
      <4>1. CASE j = Len(Pending')
        <5>1. Busy' + j = c
          BY <1>2, <1>9, <1>c, <3>2, <4>1
        <5>2. QED
          BY <1>3, <1>p, <3>2, <4>1, <5>1
      <4>2. CASE j # Len(Pending')
        <5>1. j \in 1 .. Len(Pending)
          BY <1>2, <3>2, <4>2
        <5>2. QED
          BY <1>3, <1>9, <1>11, <3>2, <5>1
      <4>3. QED
        BY <4>1, <4>2
    <3>6. current' = NULL
      BY <3>1 DEF Enqueue
    <3>7. PICK m : m = 0
      OBVIOUS
    <3>8. OrderInv(next, m)'
      BY <1>3, <1>11, <3>3, <3>4, <3>5, <3>6, <3>7 DEF OrderInv
    <3>9. QED
      BY <1>8, <1>10, <3>8 DEF LinkInv
  <2>7. QED
    BY <2>4, <2>5, <2>6
<1>15. QED
  BY <1>13, <1>14

\* A step of the processor that answers nothing and takes no packet up leaves the
\* order alone.
LEMMA QuietKeepsInv ==
  ASSUME LinkInv, [AnyStep]_vars, ~RXOverrun,
         UNCHANGED <<line, asked, closed>>,
         UNCHANGED <<current, buffer, escape_state, length, need_hello, reply>>,
         UNCHANGED Abstract!vars, UNCHANGED Busy
  PROVE  LinkInv'
<1>1. PICK start, k : OrderInv(start, k)
  BY DEF LinkInv
<1>2. TypeOK' /\ PoolInv' /\ TxInv'
  BY TypeStep, PoolStep, TxStep DEF LinkInv
<1>3. Pending' = Pending
  BY PendingKept
<1>4. OrderInv(start, k)'
  BY <1>1, <1>3, OrderKept
<1>5. GateInv'
  BY DEF GateInv, LinkInv
<1>6. QED
  BY <1>2, <1>4, <1>5 DEF LinkInv

\* The closing flag of a reply is the answer to the oldest request.
LEMMA CloseKeepsInv ==
  ASSUME LinkInv, TXClose, LoaderStep
  PROVE  LinkInv'
<1>1. PICK start, k : OrderInv(start, k)
  BY DEF LinkInv
<1>2. /\ Len(asked) \in Nat /\ Len(Pending) \in Nat
      /\ Coming \in 1 .. Len(asked) + 1 /\ Coming = Busy + Len(Pending) + 1
      /\ Coming = Len(asked) + 1 => k = 0
  BY <1>1, OrderLengths DEF LinkInv
<1>3. /\ calls # <<>> /\ at = "reply" /\ Busy = 1 /\ Len(calls) = 1
      /\ sent = Whole(reply.kind) /\ sent # <<>>
  <2>1. /\ calls # <<>> /\ at = "reply" /\ sent = Whole(reply.kind) /\ Len(calls) = 1
        /\ Top.at = "close"
    BY DEF TXClose, LinkInv, TxInv
  <2>2. REPLY_LENGTH[reply.kind] \in Nat \ {0}
    BY PacketAssumption DEF LinkInv, TypeOK
  <2>3. Len(Whole(reply.kind)) # 0
    BY <2>2 DEF Whole
  <2>4. QED
    BY <2>1, <2>3 DEF Busy, Sending
<1>4. /\ UNCHANGED <<poolVars, fillVars, procVars, reply, need_hello, line>>
      /\ Busy' = 0
      /\ asked' = IF asked = <<>> THEN asked ELSE Tail(asked)
      /\ closed' = (closed /\ sent # Whole("HELLO"))
  <2>1. Delivered
    BY <1>3 DEF Delivered
  <2>2. CASE calls' = Pop
    <3>1. calls' = <<>>
      BY <1>3, <2>2 DEF Pop
    <3>2. Busy' = 0
      BY <3>1 DEF Busy, Sending
    <3>3. QED
      BY <2>1, <3>2 DEF LoaderStep, TXClose
  <2>3. CASE calls' = Goto([at |-> "closed", i |-> 0])
    <3>1. Top' = [at |-> "closed", i |-> 0]
      BY <1>3, <2>3, SoleGoto DEF LinkInv
    <3>2. Busy' = 0
      BY <3>1 DEF Busy, Sending
    <3>3. QED
      BY <2>1, <3>2 DEF LoaderStep, TXClose
  <2>4. QED
    BY <2>2, <2>3 DEF TXClose
<1>5. UNCHANGED <<current, length, buffer, escape_state, at, this, reply, need_hello>>
  BY <1>4 DEF fillVars, procVars
<1>6. TypeOK' /\ PoolInv' /\ TxInv'
  <2>1. [AnyStep]_vars /\ ~RXOverrun
    BY <1>4 DEF AnyStep, Compute, RXOverrun, StartTX, LinkInv, TxInv
  <2>2. QED
    BY <2>1, TypeStep, PoolStep, TxStep DEF LinkInv
<1>7. Busy' = 0
  BY <1>4
<1>8. Pending' = Pending
  BY <1>4, <1>5, QuietSimulates, PendingKept
<1>c. PICK c : c = Coming
  OBVIOUS
<1>9. c \in 2 .. Len(asked) + 1 /\ c = Len(Pending) + 2
  BY <1>2, <1>3, <1>c
<1>10. /\ asked # <<>> /\ Tail(asked) \in Seq(Request) /\ Len(Tail(asked)) = Len(asked) - 1
       /\ \A j \in 1 .. Len(asked) - 1 : Tail(asked)[j] = asked[j + 1]
       /\ \E next : Laid(line, Tail(asked), next, c - 1, k)
  <2>1. Laid(line, asked, start, c, k) /\ c >= 2
    BY <1>1, <1>9, <1>c DEF OrderInv
  <2>2. QED
    BY <2>1, LaidTail
<1>11. /\ asked' = Tail(asked) /\ line' = line /\ Coming' = c - 1
  BY <1>2, <1>4, <1>7, <1>8, <1>9, <1>10 DEF Coming
<1>12. closed' \in BOOLEAN /\ need_hello' = closed'
  <2>1. PICK a \in Respond(asked[1], closed) :
          a.kind = reply.kind /\ a.need_hello = need_hello
    BY <1>3 DEF LinkInv, GateInv
  <2>2. closed \in BOOLEAN
    BY <1>1 DEF OrderInv
  <2>3. need_hello = (closed /\ reply.kind # "HELLO") /\ reply.kind \in Kind
    BY <2>1, <2>2, RespondGate
  <2>4. Whole(reply.kind) = Whole("HELLO") <=> reply.kind = "HELLO"
    <3>1. \A kind \in Kind : Whole(kind)[1] = <<kind, 0>>
      <4>1. ASSUME NEW kind \in Kind PROVE Whole(kind)[1] = <<kind, 0>>
        <5>1. REPLY_LENGTH[kind] \in Nat \ {0}
          BY PacketAssumption
        <5>2. 1 \in 1 .. REPLY_LENGTH[kind]
          BY <5>1
        <5>3. QED
          BY <5>2 DEF Whole
      <4>2. QED
        BY <4>1
    <3>2. "HELLO" \in Kind
      BY DEF Kind
    <3>3. Whole(reply.kind)[1] = <<reply.kind, 0>> /\ Whole("HELLO")[1] = <<"HELLO", 0>>
      BY <2>3, <3>1, <3>2
    <3>4. QED
      BY <3>3
  <2>5. QED
    BY <1>3, <1>4, <1>5, <2>2, <2>3, <2>4
<1>13. PICK next : Laid(line, Tail(asked), next, c - 1, k)
  BY <1>10
<1>14. OrderInv(next, k)'
  <2>1. Len(asked') <= WINDOW
    <3>1. Len(asked) <= WINDOW /\ WINDOW \in Nat
      BY <1>1, HostAssumption DEF OrderInv
    <3>2. Len(asked') = Len(asked) - 1
      BY <1>10, <1>11
    <3>3. QED
      BY <1>2, <3>1, <3>2
  <2>2. \A j \in 1 .. Len(Pending') : Pending'[j] = asked'[Busy' + j]
    <3> TAKE j \in 1 .. Len(Pending')
    <3>1. j \in 1 .. Len(Pending) /\ j \in 1 .. Len(asked) - 1 /\ Busy' + j = j
      BY <1>2, <1>7, <1>8, <1>9
    <3>2. Pending[j] = asked[1 + j]
      BY <1>1, <1>3, <3>1 DEF OrderInv
    <3>3. Tail(asked)[j] = asked[j + 1] /\ 1 + j = j + 1
      BY <1>10, <3>1
    <3>4. QED
      BY <1>8, <1>11, <3>1, <3>2, <3>3
  <2>3. ASSUME k # 0 PROVE Received(asked[Coming], k)'
    <3>1. PICK p : p = asked[c]
      OBVIOUS
    <3>2. Received(p, k)'
      <4>1. Received(p, k)
        BY <1>1, <1>c, <2>3, <3>1 DEF OrderInv
      <4>2. QED
        BY <1>5, <4>1, ReceiveKept
    <3>3. p = asked'[Coming']
      <4>1. c - 1 \in 1 .. Len(asked) - 1 /\ c - 1 + 1 = c
        BY <1>2, <1>9, <1>c, <2>3
      <4>2. QED
        BY <1>10, <1>11, <3>1, <4>1
    <3>4. QED
      BY <3>2, <3>3 DEF Received
  <2>4. k = 0 => current' = NULL
    BY <1>1, <1>5 DEF OrderInv
  <2>5. Laid(line, asked, next, Coming, k)'
    BY <1>11, <1>13 DEF Laid
  <2>6. asked' \in Seq(Request)
    BY <1>10, <1>11
  <2>7. QED
    BY <1>12, <2>1, <2>2, <2>3, <2>4, <2>5, <2>6 DEF OrderInv
<1>15. GateInv'
  BY <1>7, <1>12 DEF GateInv
<1>16. QED
  BY <1>6, <1>14, <1>15 DEF LinkInv

\* The oldest pending packet is taken up: it is the oldest request without an answer.
LEMMA DispatchKeepsInv ==
  ASSUME LinkInv, Dispatch, UNCHANGED <<line, asked, closed>>
  PROVE  LinkInv'
<1>1. PICK start, k : OrderInv(start, k)
  BY DEF LinkInv
<1>2. /\ Len(asked) \in Nat /\ Len(Pending) \in Nat
      /\ Coming \in 1 .. Len(asked) + 1 /\ Coming = Busy + Len(Pending) + 1
  BY <1>1, OrderLengths DEF LinkInv
<1>3. /\ calls = <<>> /\ at = "crc" /\ at' = "reply" /\ Busy = 0
      /\ UNCHANGED <<current, buffer, escape_state>>
      /\ \A p \in Packets : p # this => length'[p] = length[p]
  BY DEF Dispatch, Busy, Sending, LinkInv, TypeOK
<1>4. PICK a \in Respond(Content(this), need_hello) :
        StartTX(a.kind) /\ need_hello' = a.need_hello
  BY DEF Dispatch
<1>5. reply'.kind = a.kind /\ calls' # <<>> /\ Top'.at = "open"
  <2>1. /\ reply' = [kind |-> a.kind, len |-> REPLY_LENGTH[a.kind]]
        /\ calls' = <<[at |-> "open", i |-> 0]>>
    BY <1>3, <1>4 DEF StartTX
  <2>2. QED
    BY <2>1 DEF Top
<1>6. Busy' = 1
  BY <1>3, <1>5 DEF Busy, Sending
<1>7. TypeOK' /\ PoolInv' /\ TxInv'
  <2>1. [AnyStep]_vars /\ ~RXOverrun
    BY <1>3 DEF AnyStep, Compute, RXOverrun, Polling, procVars
  <2>2. QED
    BY <2>1, TypeStep, PoolStep, TxStep DEF LinkInv
<1>8. /\ Pending # <<>> /\ Pending[1] = Content(this)
      /\ Len(Pending) >= 1 /\ Len(Pending') = Len(Pending) - 1
      /\ \A j \in 1 .. Len(Pending) - 1 : Pending'[j] = Pending[j + 1]
  <2>1. PICK contents : Pending \in Seq(contents)
    BY PendingTyped DEF LinkInv
  <2>2. Pending # <<>> /\ Head(Pending) = Content(this) /\ Tail(Pending) = Pending'
    BY DispatchTakes DEF LinkInv
  <2>3. /\ Len(Tail(Pending)) = Len(Pending) - 1
        /\ \A j \in 1 .. Len(Tail(Pending)) : Tail(Pending)[j] = Pending[j + 1]
    BY <2>1, <2>2, HeadTailProperties
  <2>4. Head(Pending) = Pending[1]
    BY <2>1, <2>2
  <2>5. Len(Pending) # 0
    BY <2>1, <2>2, EmptySeq
  <2>6. /\ Len(Pending') = Len(Pending) - 1
        /\ \A j \in 1 .. Len(Pending') : Pending'[j] = Pending[j + 1]
    BY Zenon, <2>2, <2>3
  <2>7. Len(Pending) >= 1
    BY <1>2, <2>5
  <2>8. \A j \in 1 .. Len(Pending) - 1 : Pending'[j] = Pending[j + 1]
    BY Zenon, <2>6
  <2>9. QED
    BY <2>2, <2>4, <2>6, <2>7, <2>8
<1>9. GateInv'
  <2>1. need_hello = closed
    BY <1>3 DEF LinkInv, GateInv
  <2>2. Content(this) = asked[1]
    <3>1. 1 \in 1 .. Len(Pending) /\ Busy + 1 = 1
      BY <1>2, <1>3, <1>8
    <3>2. Pending[1] = asked[Busy + 1]
      BY <1>1, <3>1 DEF OrderInv
    <3>3. QED
      BY <1>8, <3>1, <3>2
  <2>3. a \in Respond(asked[1], closed)
    BY <1>4, <2>1, <2>2
  <2>r. \A x \in Respond(asked[1], closed) : x \in Respond(asked[1], closed)'
    BY DEF Respond, Answer, Gated, Handle, Handshake, DRL_Cmd_Info, DRL_Cmd_FlashSize,
           DRL_Packet_FlashRead, DRL_Packet_SendInvalid
  <2>4. QED
    BY <1>4, <1>5, <1>6, <2>3, <2>r DEF GateInv
<1>10. Coming' = Coming
  BY <1>2, <1>3, <1>6, <1>8 DEF Coming
<1>c. PICK c : c = Coming /\ c = Coming'
  BY <1>10
<1>11. OrderInv(start, k)'
  <2>1. \A j \in 1 .. Len(Pending') : Pending'[j] = asked'[Busy' + j]
    <3> TAKE j \in 1 .. Len(Pending')
    <3>1. j \in 1 .. Len(Pending) - 1 /\ j + 1 \in 1 .. Len(Pending)
          /\ Busy + (j + 1) = Busy' + j
      BY <1>2, <1>3, <1>6, <1>8
    <3>2. Pending[j + 1] = asked[Busy + (j + 1)]
      BY <1>1, <3>1 DEF OrderInv
    <3>3. QED
      BY <1>8, <3>1, <3>2
  <2>2. ASSUME k # 0 PROVE Received(asked[Coming], k)'
    <3>1. PICK p : p = asked[c]
      OBVIOUS
    <3>2. Received(p, k)
      BY <1>1, <1>c, <2>2, <3>1 DEF OrderInv
    <3>3. current # NULL => length'[current] = length[current]
      <4>1. current # NULL => current \in Packets /\ current # this
        BY DEF LinkInv, PoolInv, PoolShape, TypeOK
      <4>2. QED
        BY <1>3, <4>1
    <3>4. Received(p, k)'
      BY <1>3, <3>2, <3>3, ReceiveKept
    <3>5. p = asked'[Coming']
      BY <1>c, <3>1
    <3>6. QED
      BY <3>4, <3>5 DEF Received
  <2>3. Laid(line, asked, start, Coming, k)'
    BY <1>1, <1>10 DEF OrderInv, Laid
  <2>4. QED
    BY <1>1, <1>3, <2>1, <2>2, <2>3 DEF OrderInv
<1>12. QED
  BY <1>7, <1>9, <1>11 DEF LinkInv

\* The remaining steps of the processor.
LEMMA ComputeKeepsInv ==
  ASSUME LinkInv, LoaderStep, ~TXClose, ~Dispatch
  PROVE  LinkInv'
<1>1. line' = line /\ ~RXOverrun /\ [AnyStep]_vars
  <2>1. line' = line /\ [AnyStep]_vars
    BY DEF LoaderStep, AnyStep
  <2>2. ASSUME RXOverrun PROVE FALSE
    <3>1. UNCHANGED <<poolVars, fillVars, procVars>> /\ reply'.kind = "!WOV"
      BY <2>2 DEF RXOverrun, StartTX
    <3>2. (reply' = reply /\ reply.kind # "!WOV") \/ Dequeue \/ Release \/ EndProc \/ CrcChunk
      BY DEF LoaderStep, Compute, TXInterrupt, TXOpen, TXBody, TXReturn, LinkInv, TxInv
    <3>3. reply' = reply
      BY <3>2 DEF Dequeue, Release, EndProc, CrcChunk, txVars
    <3>4. QED
      BY <3>1, <3>3 DEF LinkInv, TxInv
  <2>3. QED
    BY <2>1, <2>2
<1>2. UNCHANGED <<asked, closed>>
  <2>1. ~Delivered
    <3>1. TXOpen \/ TXInterrupt => sent = <<>>
      BY DEF TXOpen, TXInterrupt, Interrupts, LinkInv, TxInv
    <3>2. QED
      BY <3>1 DEF Delivered
  <2>2. QED
    BY <2>1 DEF LoaderStep
<1>3. CASE TXOpen \/ TXBody
  <2>1. UNCHANGED <<poolVars, fillVars, procVars, reply, need_hello>> /\ calls # <<>>
        /\ Len(calls) = 1 /\ Top.at # "closed"
    BY <1>3 DEF TXOpen, TXBody, LinkInv, TxInv
  <2>2. UNCHANGED <<current, length, buffer, escape_state, at, this>>
    BY <2>1 DEF fillVars, procVars
  <2>3. calls' # <<>> /\ Busy' = Busy
    <3>1. PICK t : calls' = Goto(t) /\ t.at \in {"body", "close"}
      BY <1>3 DEF TXOpen, TXBody, SendFrom
    <3>2. calls' # <<>> /\ Top' = t
      BY <2>1, <3>1, SoleGoto DEF LinkInv
    <3>3. QED
      BY <2>1, <2>2, <3>1, <3>2 DEF Busy, Sending
  <2>4. UNCHANGED Abstract!vars
    BY <2>1, <2>2, QuietSimulates
  <2>5. QED
    BY <1>1, <1>2, <2>1, <2>2, <2>3, <2>4, QuietKeepsInv
<1>4. CASE CrcChunk \/ EndProc
  <2>1. /\ UNCHANGED <<poolVars, fillVars, this, reply, need_hello>>
        /\ at' = "crc" <=> at = "crc"
        /\ at' = "reply" <=> at = "reply"
        /\ calls' = calls /\ calls = <<>>
    BY <1>4 DEF CrcChunk, EndProc, txVars
  <2>2. UNCHANGED Abstract!vars
    BY <2>1, QuietSimulates
  <2>3. UNCHANGED <<current, length, buffer, escape_state>> /\ Busy' = Busy
    BY <2>1 DEF fillVars, Busy, Sending
  <2>4. QED
    BY <1>1, <1>2, <2>1, <2>2, <2>3, QuietKeepsInv
<1>5. CASE Dequeue
  <2>1. /\ UNCHANGED <<current, length, buffer, escape_state, need_hello, reply>>
        /\ Busy' = Busy
    BY <1>5 DEF Dequeue, fillVars, txVars, Busy, Sending
  <2>2. UNCHANGED Abstract!vars
    BY <1>5, DequeueSimulates DEF LinkInv
  <2>3. QED
    BY <1>1, <1>2, <2>1, <2>2, QuietKeepsInv
<1>6. CASE Release
  <2>1. /\ UNCHANGED <<current, length, buffer, escape_state, need_hello, reply>>
        /\ Busy' = Busy
    BY <1>6 DEF Release, fillVars, txVars, Busy, Sending
  <2>2. Pending' = Pending
    BY <1>6, ReleaseSimulates DEF LinkInv, Abstract!EndAnswer
  <2>3. PICK start, k : OrderInv(start, k)
    BY DEF LinkInv
  <2>4. OrderInv(start, k)'
    BY <1>1, <1>2, <2>1, <2>2, <2>3, OrderKept
  <2>5. TypeOK' /\ PoolInv' /\ TxInv'
    BY <1>1, TypeStep, PoolStep, TxStep DEF LinkInv
  <2>6. GateInv'
    BY <1>2, <2>1 DEF GateInv, LinkInv
  <2>7. QED
    BY <2>4, <2>5, <2>6 DEF LinkInv
<1>7. CASE TXReturn
  <2>1. /\ UNCHANGED <<poolVars, fillVars, procVars, reply, need_hello>>
        /\ Len(calls) = 1 /\ Top.at = "closed" /\ calls' = Pop
    BY <1>7 DEF TXReturn, LinkInv, TxInv
  <2>2. Busy' = 0 /\ Busy = 0
    <3>1. calls' = <<>>
      BY <2>1 DEF Pop
    <3>2. QED
      BY <2>1, <3>1 DEF Busy, Sending
  <2>3. UNCHANGED <<current, length, buffer, escape_state, at, this>>
    BY <2>1 DEF fillVars, procVars
  <2>4. UNCHANGED Abstract!vars
    BY <2>1, <2>3, QuietSimulates
  <2>5. QED
    BY <1>1, <1>2, <2>1, <2>2, <2>3, <2>4, QuietKeepsInv
<1>8. ~TXInterrupt
  BY DEF TXInterrupt, Interrupts, LinkInv, TxInv
<1>9. QED
  BY <1>3, <1>4, <1>5, <1>6, <1>7, <1>8 DEF LoaderStep, Compute

\* The invariant is inductive.
LEMMA LinkStep ==
  ASSUME LinkInv, [LinkNext]_linkVars
  PROVE  LinkInv'
<1>1. ASSUME NEW packet \in Request, HostSend(packet) PROVE LinkInv'
  BY <1>1, SendKeepsInv
<1>2. CASE Deliver
  BY <1>2, DeliverKeepsInv
<1>3. CASE LoaderStep
  <2>1. CASE TXClose
    BY <1>3, <2>1, CloseKeepsInv
  <2>2. CASE Dispatch
    <3>1. ~Delivered
      BY <2>2 DEF Delivered, TXInterrupt, TXOpen, TXClose, Dispatch
    <3>2. UNCHANGED <<line, asked, closed>>
      BY <1>3, <3>1 DEF LoaderStep
    <3>3. QED
      BY <2>2, <3>2, DispatchKeepsInv
  <2>3. QED
    BY <1>3, <2>1, <2>2, ComputeKeepsInv
<1>4. CASE UNCHANGED linkVars
  <2>1. /\ UNCHANGED <<poolVars, fillVars, procVars, txVars, need_hello>>
        /\ UNCHANGED vars /\ UNCHANGED <<line, asked, closed>>
    BY <1>4 DEF linkVars, vars
  <2>2. /\ UNCHANGED <<current, buffer, escape_state, length, need_hello, reply>>
        /\ UNCHANGED <<at, this, calls>>
    BY <2>1 DEF fillVars, procVars, txVars
  <2>3. UNCHANGED Abstract!vars /\ Busy' = Busy
    BY <2>1, <2>2, QuietSimulates DEF Busy, Sending, Top
  <2>4. ~RXOverrun
    BY <2>2 DEF RXOverrun, StartTX, LinkInv, TxInv
  <2>5. QED
    BY <2>1, <2>2, <2>3, <2>4, QuietKeepsInv
<1>5. QED
  BY <1>1, <1>2, <1>3, <1>4 DEF LinkNext

\* Before the first byte nothing is asked, pending or on the line.
LEMMA LinkStart == LinkInit => LinkInv
<1> SUFFICES ASSUME LinkInit PROVE LinkInv
  OBVIOUS
<1>1. Init /\ line = <<>> /\ asked = <<>> /\ closed = TRUE
  BY DEF LinkInit
<1>2. TypeOK /\ PoolInv
  BY <1>1, TypeInit, PoolInit
<1>3. TxInv /\ GateInv /\ Busy = 0 /\ current = NULL
  BY <1>1 DEF Init, TxInv, GateInv, Busy, Sending
<1>4. Pending = <<>>
  BY <1>1, QueueInit
<1> DEFINE start == [j \in Nat |-> 0]
<1>c. PICK c : c = Coming /\ c = 1
  <2>1. Coming = 1
    BY <1>3, <1>4 DEF Coming
  <2>2. QED
    BY <2>1
<1>5. Laid(line, asked, start, c, 0)
  <2>1. /\ line \in Seq(Octet) /\ asked \in Seq(Request) /\ Len(asked) = 0 /\ Len(line) = 0
    BY <1>1, EmptySeq
  <2>2. start \in [Nat -> Int] /\ \A j \in Nat : start[j] = 0
    OBVIOUS
  <2> HIDE DEF start
  <2>3. c \in 1 .. Len(asked) + 1 /\ start[c] = -0 /\ start[Len(asked) + 1] = Len(line)
        /\ \A j \in c .. Len(asked) : FALSE
    BY <1>c, <2>1, <2>2
  <2>4. QED
    BY <2>1, <2>2, <2>3 DEF Laid
<1>6. OrderInv(start, 0)
  <2>1. Len(asked) <= WINDOW /\ asked \in Seq(Request)
    BY <1>1, HostAssumption, EmptySeq
  <2>2. \A j \in 1 .. Len(Pending) : FALSE
    BY <1>4
  <2> HIDE DEF start
  <2>3. QED
    BY <1>1, <1>3, <1>5, <1>c, <2>1, <2>2 DEF OrderInv
<1>7. QED
  BY <1>2, <1>3, <1>6 DEF LinkInv

\* In every state the host and the loader can be in.
LEMMA LinkInvariant == LinkSpec => []LinkInv
BY LinkStart, LinkStep, PTL DEF LinkSpec

-----------------------------------------------------------------------------
(* What the host can rely on.                                              *)

\* A host that has no more requests unanswered than there are slots - one fewer on a port
\* whose writes poll, where the slot of an answer is still held when the host has it -
\* never meets an overrun, so DRL_Packet_TX never runs inside itself and never sends from a
\* buffer that was overwritten, whatever the pool size and the requests.
THEOREM WindowKept == LinkSpec => []WindowSuffices
<1>1. LinkInv => WindowSuffices
  <2> SUFFICES ASSUME LinkInv PROVE WindowSuffices
    OBVIOUS
  <2>1. reply.kind # "!WOV"
    BY DEF LinkInv, TxInv
  <2>2. calls = <<>> => Len(calls) <= 1
    OBVIOUS
  <2>3. calls # <<>> => Len(calls) <= 1
    <3>1. calls # <<>> => Len(calls) = 1
      BY Zenon DEF LinkInv, TxInv
    <3>2. \A n : n = 1 => n <= 1
      OBVIOUS
    <3>3. QED
      BY Zenon, <3>1, <3>2
  <2>4. QED
    BY <2>1, <2>2, <2>3 DEF WindowSuffices
<1>2. QED
  BY <1>1, LinkInvariant, PTL

\* And every frame it receives is one whole reply, to the oldest request it has not had
\* an answer to, under the gate as it knows it: the pool, the processing loop and the
\* transmitter neither mix, lose, repeat nor reorder replies.
THEOREM OrderKeptForHost == LinkSpec => AnswersInOrder
<1>1. LinkInv => (Delivered => /\ asked # <<>>
                               /\ \E a \in Respond(Head(asked), closed) : sent = Whole(a.kind))
  <2> SUFFICES ASSUME LinkInv, Delivered
               PROVE  /\ asked # <<>>
                      /\ \E a \in Respond(Head(asked), closed) : sent = Whole(a.kind)
    OBVIOUS
  <2>1. PICK start, k : OrderInv(start, k)
    BY DEF LinkInv
  <2>2. /\ calls # <<>> /\ at = "reply" /\ sent = Whole(reply.kind) /\ Top.at = "close"
    BY DEF Delivered, TXInterrupt, Interrupts, TXOpen, TXClose, LinkInv, TxInv
  <2>3. Busy = 1
    BY <2>2 DEF Busy, Sending
  <2>4. PICK a \in Respond(asked[1], closed) : a.kind = reply.kind
    BY <2>3 DEF LinkInv, GateInv
  <2>5. asked # <<>> /\ Head(asked) = asked[1]
    <3>1. Len(asked) \in Nat /\ Len(Pending) \in Nat
          /\ Coming \in 1 .. Len(asked) + 1 /\ Coming = Busy + Len(Pending) + 1
      BY <2>1, OrderLengths DEF LinkInv
    <3>2. Len(asked) # 0
      BY <2>3, <3>1
    <3>3. asked \in Seq(Request)
      BY <2>1 DEF OrderInv
    <3>4. QED
      BY <3>2, <3>3, EmptySeq
  <2>6. QED
    BY <2>2, <2>4, <2>5
<1>2. QED
  BY <1>1, LinkInvariant, PTL DEF AnswersInOrder
=============================================================================
