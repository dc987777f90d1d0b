----------------------------- MODULE IpcProofs -----------------------------
(***************************************************************************)
(* What holds of event flags, task notifications and message buffers for   *)
(* any number of tasks, objects and bytes of a ring, in any mix of calls.  *)
(*                                                                         *)
(* The first half is about the ring alone: its bytes are cut, from the     *)
(* oldest message on, into headers and payloads, wherever the end of the   *)
(* ring falls, and each step cuts the next ring.  The second half adds the *)
(* objects to the inductive invariant of module WaitingProofs: a step may  *)
(* wake whom it likes, but begins no wait for what is there.               *)
(*                                                                         *)
(* The log is a ring of bytes too, and has its part at the end.            *)
(***************************************************************************)
EXTENDS Ipc, Log, WaitingProofs

-----------------------------------------------------------------------------
(* What a ring holds, counted from its first byte.                         *)

\* The offset of byte j of a ring that starts at f.
Offset(f, j) == (f + j) % MsgCapacity

\* Message s lies o bytes into the ring of bytes b, behind its header.
LiesAt(b, f, o, s) ==
    /\ b[Offset(f, o)] = Len(s) % 256 /\ b[Offset(f, o + 1)] = Len(s) \div 256
    /\ \A i \in 1 .. Len(s) : b[Offset(f, o + 1 + i)] = s[i]

\* cut[k] bytes of the ring, of u in all, belong to its first k items.
Cuts(cut, b, f, u, items) ==
    /\ cut \in [0 .. Len(items) -> 0 .. u]
    /\ cut[0] = 0 /\ cut[Len(items)] = u
    /\ \A k, l \in 0 .. Len(items) : k <= l => cut[k] + 3 * (l - k) <= cut[l]
    /\ \A k \in 1 .. Len(items) :
          cut[k] = cut[k - 1] + Space(Len(items[k])) /\ LiesAt(b, f, cut[k - 1], items[k])

\* The ring of m holds items.
Holds(m, items) ==
    /\ items \in Seq(Message) /\ messages[m] = Len(items)
    /\ \E cut : Cuts(cut, bytes[m], first[m], used[m], items)

\* Every ring is cut into its messages, and holds no more than it has room for.
RingInv ==
    /\ RingTypeOK
    /\ \A m \in MsgId :
          /\ last[m] = Offset(first[m], used[m]) /\ used[m] <= room[m]
          /\ \E items : Holds(m, items)

\* The lengths that messages and rings have.
LEMMA Lengths ==
    /\ MsgCapacity \in Nat /\ MsgCapacity > 2
    /\ \A n \in Length : n \in Nat /\ n > 0 /\ n < 256 * 256 /\ Space(n) = n + 2
<1>1. MsgCapacity \in Nat /\ MsgCapacity > 2
  BY MsgRingAssumption
<1>2. ASSUME NEW n \in Length
      PROVE  n \in Nat /\ n > 0 /\ n < 256 * 256 /\ Space(n) = n + 2
  <2>1. n \in 1 .. 256 * 256 - 1
    BY MsgRingAssumption
  <2> QED
    BY <2>1 DEF Space
<1> QED
  BY <1>1, <1>2

\* The offsets, without the remainder.
LEMMA Wrapping ==
    ASSUME NEW f \in 0 .. MsgCapacity - 1, NEW j \in 0 .. MsgCapacity
    PROVE  /\ Offset(f, j) = IF f + j < MsgCapacity THEN f + j ELSE f + j - MsgCapacity
           /\ Offset(f, j) \in 0 .. MsgCapacity - 1
<1>1. MsgCapacity \in Nat /\ MsgCapacity > 2
  BY Lengths
<1>2. CASE f + j < MsgCapacity
  BY <1>1, <1>2, Z3 DEF Offset
<1>3. CASE f + j >= MsgCapacity
  BY <1>1, <1>3, Z3 DEF Offset
<1> QED
  BY <1>1, <1>2, <1>3

\* How far offset j is behind offset i.
LEMMA WrappingBack ==
    ASSUME NEW i \in 0 .. MsgCapacity - 1, NEW j \in 0 .. MsgCapacity - 1
    PROVE  (j - i) % MsgCapacity = IF i <= j THEN j - i ELSE j - i + MsgCapacity
<1>1. MsgCapacity \in Nat /\ MsgCapacity > 2
  BY Lengths
<1>2. CASE i <= j
  BY <1>1, <1>2, Z3
<1>3. CASE i > j
  BY <1>1, <1>3, Z3
<1> QED
  BY <1>1, <1>2, <1>3

\* The place of a place.
LEMMA Further ==
    ASSUME NEW f \in 0 .. MsgCapacity - 1, NEW i \in 0 .. MsgCapacity, NEW j \in 0 .. MsgCapacity,
           i + j <= MsgCapacity
    PROVE  /\ Offset(Offset(f, i), j) = Offset(f, i + j)
           /\ (Offset(f, i) + j) % MsgCapacity = Offset(f, i + j)
<1>1. MsgCapacity \in Nat /\ MsgCapacity > 2 /\ i + j \in 0 .. MsgCapacity
  BY Lengths
<1>2. Offset(f, i) = (IF f + i < MsgCapacity THEN f + i ELSE f + i - MsgCapacity)
      /\ Offset(f, i) \in 0 .. MsgCapacity - 1
  BY <1>1, Wrapping
<1>3. Offset(f, i + j) = IF f + (i + j) < MsgCapacity THEN f + (i + j)
                        ELSE f + (i + j) - MsgCapacity
  BY <1>1, Wrapping
<1>4. Offset(Offset(f, i), j) = IF Offset(f, i) + j < MsgCapacity THEN Offset(f, i) + j
                              ELSE Offset(f, i) + j - MsgCapacity
  BY <1>1, <1>2, Wrapping
<1>5. Offset(Offset(f, i), j) = Offset(f, i + j)
  BY <1>1, <1>2, <1>3, <1>4
<1> QED
  BY <1>5 DEF Offset

\* A length, in the two bytes of its header.
LEMMA Halves ==
    ASSUME NEW n \in Nat, n < 256 * 256
    PROVE  /\ n % 256 \in 0 .. 255 /\ n \div 256 \in 0 .. 255
           /\ (n % 256) + 256 * (n \div 256) = n
OBVIOUS

\* A message, byte by byte.
LEMMA MessageBytes ==
    ASSUME NEW s \in Message
    PROVE  /\ s \in Seq(Byte) /\ s = [j \in 1 .. Len(s) |-> s[j]]
           /\ Len(s) \in Nat /\ Len(s) > 0 /\ Len(s) < 256 * 256 /\ Space(Len(s)) = Len(s) + 2
<1>1. PICK n \in Length, x \in Byte : s \in [1 .. n -> {x}]
  BY DEF Message
<1>2. n \in Nat /\ n > 0 /\ n < 256 * 256 /\ Space(n) = n + 2
  BY Lengths
<1>3. s \in Seq(Byte) /\ Len(s) = n
  BY <1>1, <1>2
<1> QED
  BY <1>1, <1>2, <1>3

\* Equal bytes of an allowed length are a message.
LEMMA IsMessage ==
    ASSUME NEW n \in Length, NEW x \in Byte, NEW s \in [1 .. n -> {x}]
    PROVE  s \in Message
<1> DEFINE Uniform == {[1 .. k -> {y}] : k \in Length, y \in Byte}
<1>1. [1 .. n -> {x}] \in Uniform
  OBVIOUS
<1> HIDE DEF Uniform
<1>2. s \in UNION Uniform
  BY <1>1
<1> QED
  BY <1>2 DEF Message, Uniform

\* The header says how long the message is, and the message follows it.
LEMMA Reading ==
    ASSUME NEW m \in MsgId, first[m] \in 0 .. MsgCapacity - 1,
           NEW s \in Message, NEW o \in Nat, o + Space(Len(s)) <= MsgCapacity,
           LiesAt(bytes[m], first[m], o, s)
    PROVE  /\ LengthAt(m, Offset(first[m], o)) = Len(s)
           /\ ReadAt(m, Offset(first[m], o) + 2, Len(s)) = s
<1> DEFINE f == first[m]
           i == Offset(f, o)
           n == Len(s)
<1>1. /\ n \in Nat /\ n < 256 * 256 /\ Space(n) = n + 2
      /\ MsgCapacity \in Nat /\ o \in 0 .. MsgCapacity /\ i \in 0 .. MsgCapacity - 1
  <2>1. n \in Nat /\ n < 256 * 256 /\ Space(n) = n + 2 /\ MsgCapacity \in Nat
    BY Lengths, MessageBytes
  <2>2. o \in 0 .. MsgCapacity
    BY <2>1
  <2> QED
    BY <2>1, <2>2, Wrapping
<1>2. \A j \in Nat : o + j <= MsgCapacity => (i + j) % MsgCapacity = Offset(f, o + j)
  <2>1. SUFFICES ASSUME NEW j \in Nat, o + j <= MsgCapacity
                 PROVE  (i + j) % MsgCapacity = Offset(f, o + j)
    OBVIOUS
  <2>2. j \in 0 .. MsgCapacity
    BY <1>1, <2>1
  <2> QED
    BY <1>1, <2>1, <2>2, Further
<1>3. (i + 0) % MsgCapacity = Offset(f, o)
  <2>1. o + 0 = o /\ 0 \in Nat
    OBVIOUS
  <2> QED
    BY <1>1, <1>2, <2>1
<1>4. (i + 1) % MsgCapacity = Offset(f, o + 1)
  BY <1>1, <1>2
<1>5. \A k \in 1 .. n : (i + 2 + k - 1) % MsgCapacity = Offset(f, o + 1 + k)
  <2>1. SUFFICES ASSUME NEW k \in 1 .. n
                 PROVE  (i + 2 + k - 1) % MsgCapacity = Offset(f, o + 1 + k)
    OBVIOUS
  <2>2. /\ k + 1 \in Nat /\ o + (k + 1) <= MsgCapacity
        /\ i + 2 + k - 1 = i + (k + 1) /\ o + 1 + k = o + (k + 1)
    BY <1>1, <2>1
  <2>3. (i + (k + 1)) % MsgCapacity = Offset(f, o + (k + 1))
    BY <1>2, <2>2
  <2> QED
    BY <2>2, <2>3
<1> HIDE DEF i
<1>6. /\ bytes[m][(i + 0) % MsgCapacity] = n % 256
      /\ bytes[m][(i + 1) % MsgCapacity] = n \div 256
      /\ \A k \in 1 .. n : bytes[m][(i + 2 + k - 1) % MsgCapacity] = s[k]
  BY <1>3, <1>4, <1>5 DEF LiesAt
<1>7. LengthAt(m, i) = n
  <2>1. ReadAt(m, i, 2) = [k \in 1 .. 2 |-> bytes[m][(i + k - 1) % MsgCapacity]]
    BY DEF ReadAt
  <2>2. i + 1 - 1 = i + 0 /\ i + 2 - 1 = i + 1
    BY <1>1
  <2>3. ReadAt(m, i, 2)[1] = n % 256 /\ ReadAt(m, i, 2)[2] = n \div 256
    BY <1>6, <2>1, <2>2
  <2> HIDE DEF n
  <2>4. (n % 256) + 256 * (n \div 256) = n
    BY <1>1, Halves
  <2> QED
    BY <2>3, <2>4 DEF LengthAt
<1>8. ReadAt(m, i + 2, n) = s
  <2>1. s = [k \in 1 .. n |-> s[k]]
    BY MessageBytes
  <2> HIDE DEF n
  <2> QED
    BY <1>6, <2>1 DEF ReadAt
<1> QED
  BY <1>7, <1>8 DEF i

\* A write behind the u bytes of a ring that starts at f leaves them alone.
LEMMA Writing ==
    ASSUME NEW m \in MsgId, NEW f \in 0 .. MsgCapacity - 1, NEW u \in Nat, NEW s, Len(s) \in Nat,
           u + Len(s) <= MsgCapacity, last[m] = Offset(f, u)
    PROVE  /\ \A j \in Nat : j < u => Written(m, s)[Offset(f, j)] = bytes[m][Offset(f, j)]
           /\ \A j \in Nat : j < Len(s) => Written(m, s)[Offset(f, u + j)] = s[j + 1]
<1> DEFINE len == Len(s)
           b == Written(m, s)
           l == Offset(f, u)
<1>1. MsgCapacity \in Nat /\ MsgCapacity > 2 /\ len \in Nat /\ u \in 0 .. MsgCapacity
  BY Lengths
<1>2. \A i \in 0 .. MsgCapacity - 1 :
         b[i] = IF (i - l) % MsgCapacity < len THEN s[((i - l) % MsgCapacity) + 1] ELSE bytes[m][i]
  BY DEF Written
<1>3. /\ l = IF f + u < MsgCapacity THEN f + u ELSE f + u - MsgCapacity
      /\ l \in 0 .. MsgCapacity - 1
  BY <1>1, Wrapping
<1>4. \A i \in 0 .. MsgCapacity - 1 :
         (i - l) % MsgCapacity = IF l <= i THEN i - l ELSE i - l + MsgCapacity
  BY <1>3, WrappingBack
<1> HIDE DEF len, b, l
<1>5. ASSUME NEW j \in Nat, j < u
      PROVE  b[Offset(f, j)] = bytes[m][Offset(f, j)]
  <2>1. j \in 0 .. MsgCapacity
    BY <1>1, <1>5
  <2>2. /\ Offset(f, j) = IF f + j < MsgCapacity THEN f + j ELSE f + j - MsgCapacity
        /\ Offset(f, j) \in 0 .. MsgCapacity - 1
    BY <2>1, Wrapping
  <2> DEFINE i == Offset(f, j)
  <2>3. (i - l) % MsgCapacity = IF l <= i THEN i - l ELSE i - l + MsgCapacity
    BY <1>4, <2>2
  <2> HIDE DEF i
  <2>4. i = (IF f + j < MsgCapacity THEN f + j ELSE f + j - MsgCapacity)
        /\ i \in 0 .. MsgCapacity - 1
    BY <2>2 DEF i
  <2>5. ~ ((i - l) % MsgCapacity < len)
    <3>1. u + len <= MsgCapacity
      BY DEF len
    <3> QED
      BY <1>1, <1>3, <1>5, <2>3, <2>4, <3>1
  <2>6. b[i] = bytes[m][i]
    BY <1>2, <2>4, <2>5
  <2> QED
    BY <2>6 DEF i
<1>6. ASSUME NEW j \in Nat, j < len
      PROVE  b[Offset(f, u + j)] = s[j + 1]
  <2>1. u + j \in 0 .. MsgCapacity
    BY <1>1, <1>6 DEF len
  <2>2. /\ Offset(f, u + j) = IF f + (u + j) < MsgCapacity THEN f + (u + j)
                             ELSE f + (u + j) - MsgCapacity
        /\ Offset(f, u + j) \in 0 .. MsgCapacity - 1
    BY <2>1, Wrapping
  <2> DEFINE i == Offset(f, u + j)
  <2>3. (i - l) % MsgCapacity = IF l <= i THEN i - l ELSE i - l + MsgCapacity
    BY <1>4, <2>2
  <2> HIDE DEF i
  <2>4. i = (IF f + (u + j) < MsgCapacity THEN f + (u + j) ELSE f + (u + j) - MsgCapacity)
        /\ i \in 0 .. MsgCapacity - 1
    BY <2>2 DEF i
  <2>5. (i - l) % MsgCapacity = j
    <3>1. u + len <= MsgCapacity
      BY DEF len
    <3> QED
      BY <1>1, <1>3, <1>6, <2>3, <2>4, <3>1
  <2>6. b[i] = s[j + 1]
    BY <1>2, <1>6, <2>4, <2>5
  <2> QED
    BY <2>6 DEF i
<1> QED
  BY <1>5, <1>6 DEF b, len

\* A message that is sent becomes the last one.
LEMMA PutCuts ==
    ASSUME NEW m \in MsgId, NEW f \in 0 .. MsgCapacity - 1, NEW u \in Nat,
           NEW items \in Seq(Message), NEW x \in Message,
           NEW cut, Cuts(cut, bytes[m], f, u, items),
           u + Space(Len(x)) <= MsgCapacity, last[m] = Offset(f, u)
    PROVE  \E longer : Cuts(longer, Written(m, Header(Len(x)) \o x), f, u + Space(Len(x)),
                            Append(items, x))
<1> DEFINE s == Header(Len(x)) \o x
           b == Written(m, s)
           n == Len(x)
           v == u + Space(n)
           c == Len(items)
           more == Append(items, x)
           longer == [k \in 0 .. c + 1 |-> IF k <= c THEN cut[k] ELSE v]
<1> HIDE DEF b, longer
<1>1. n \in Nat /\ n > 0 /\ Space(n) = n + 2 /\ MsgCapacity \in Nat /\ v \in Nat /\ c \in Nat
  BY Lengths, MessageBytes, LenProperties
<1>2. /\ Len(s) = n + 2 /\ s[1] = n % 256 /\ s[2] = n \div 256
      /\ \A i \in 1 .. n : s[i + 2] = x[i]
  <2>1. x \in Seq(Byte)
    BY MessageBytes
  <2> QED
    BY <1>1, <2>1 DEF Header
<1>3. /\ \A j \in Nat : j < u => b[Offset(f, j)] = bytes[m][Offset(f, j)]
      /\ \A j \in Nat : j < n + 2 => b[Offset(f, u + j)] = s[j + 1]
  <2> HIDE DEF s
  <2>1. Len(s) \in Nat /\ u + Len(s) <= MsgCapacity
    BY <1>1, <1>2
  <2>2. /\ \A j \in Nat : j < u => Written(m, s)[Offset(f, j)] = bytes[m][Offset(f, j)]
        /\ \A j \in Nat : j < Len(s) => Written(m, s)[Offset(f, u + j)] = s[j + 1]
    BY ONLY <2>1, Writing, m \in MsgId, f \in 0 .. MsgCapacity - 1, u \in Nat,
            last[m] = Offset(f, u)
  <2> QED
    BY <1>2, <2>2 DEF b
<1>4. /\ Len(more) = c + 1 /\ more[c + 1] = x
      /\ \A k \in 1 .. c : more[k] = items[k] /\ items[k] \in Message
  BY AppendProperties
<1>5. /\ cut \in [0 .. c -> 0 .. u] /\ cut[0] = 0 /\ cut[c] = u
      /\ \A k, l \in 0 .. c : k <= l => cut[k] + 3 * (l - k) <= cut[l]
      /\ \A k \in 1 .. c : /\ cut[k] = cut[k - 1] + Space(Len(items[k]))
                           /\ LiesAt(bytes[m], f, cut[k - 1], items[k])
  BY DEF Cuts
<1> HIDE DEF n, c, more, s
<1>6. /\ longer \in [0 .. c + 1 -> 0 .. v] /\ longer[0] = 0 /\ longer[c + 1] = v
      /\ \A k \in 0 .. c : longer[k] = cut[k]
  <2>1. \A k \in 0 .. c + 1 : IF k <= c THEN k \in 0 .. c ELSE k = c + 1
    BY <1>1
  <2>2. ASSUME NEW k \in 0 .. c
        PROVE  longer[k] = cut[k] /\ cut[k] \in 0 .. v
    <3>1. cut[k] \in 0 .. u
      BY <1>5
    <3>2. longer[k] = cut[k]
      BY <1>1 DEF longer
    <3> HIDE DEF longer
    <3> QED
      BY <1>1, <3>1, <3>2 DEF v
  <2>3. longer[c + 1] = v
    BY <1>1 DEF longer
  <2>4. v \in 0 .. v
    BY <1>1
  <2> HIDE DEF v
  <2>5. longer \in [0 .. c + 1 -> 0 .. v]
    <3>1. \A k \in 0 .. c + 1 : longer[k] \in 0 .. v
      BY <2>1, <2>2, <2>3, <2>4
    <3>2. longer = [k \in 0 .. c + 1 |-> longer[k]]
      BY DEF longer
    <3> QED
      BY <3>1, <3>2
  <2>6. 0 \in 0 .. c
    BY <1>1
  <2> QED
    BY <1>5, <2>2, <2>3, <2>5, <2>6
<1> HIDE DEF v
<1>7. ASSUME NEW k \in 0 .. c + 1, NEW l \in 0 .. c + 1, k <= l
      PROVE  longer[k] + 3 * (l - k) <= longer[l]
  <2>1. CASE l <= c
    <3>1. k \in 0 .. c /\ l \in 0 .. c
      BY <1>1, <1>7, <2>1
    <3> QED
      BY <1>5, <1>6, <1>7, <3>1
  <2>2. CASE l = c + 1 /\ k <= c
    <3>1. k \in 0 .. c /\ c \in 0 .. c /\ l - k = (c - k) + 1
      BY <1>1, <2>2
    <3>2. cut[k] \in 0 .. u /\ cut[k] + 3 * (c - k) <= u
      <4>1. k <= c
        BY <2>2
      <4> QED
        BY <1>5, <3>1, <4>1
    <3>3. longer[k] = cut[k] /\ longer[l] = u + n + 2
      BY <1>1, <1>6, <2>2, <3>1 DEF v
    <3>4. cut[k] + 3 * ((c - k) + 1) <= u + n + 2
      <4>1. cut[k] \in Nat /\ c - k \in Int
        BY <1>1, <2>2, <3>2
      <4>2. 3 * ((c - k) + 1) = 3 * (c - k) + 3
        BY <4>1
      <4> QED
        BY <1>1, <3>2, <4>1, <4>2
    <3> QED
      BY <3>1, <3>3, <3>4
  <2>3. CASE k = c + 1
    <3>1. k = l /\ l - k = 0 /\ longer[k] = v
      BY <1>1, <1>6, <1>7, <2>3
    <3> QED
      BY <1>1, <3>1
  <2> QED
    BY <1>1, <1>7, <2>1, <2>2, <2>3
<1>8. ASSUME NEW k \in 1 .. c + 1
      PROVE  /\ longer[k] = longer[k - 1] + Space(Len(more[k]))
             /\ LiesAt(b, f, longer[k - 1], more[k])
  <2>1. CASE k = c + 1
    <3>1. longer[k] = v /\ longer[k - 1] = u /\ more[k] = x
      BY <1>1, <1>4, <1>5, <1>6, <2>1
    <3>2. LiesAt(b, f, u, x)
      <4>1. b[Offset(f, u)] = n % 256 /\ b[Offset(f, u + 1)] = n \div 256
        <5>1. u + 0 = u /\ 0 + 1 = 1 /\ 1 + 1 = 2 /\ 0 < n + 2 /\ 1 < n + 2
          BY <1>1
        <5> QED
          BY <1>2, <1>3, <5>1
      <4>2. ASSUME NEW i \in 1 .. n
            PROVE  b[Offset(f, u + 1 + i)] = x[i]
        <5>1. i + 1 \in Nat /\ i + 1 < n + 2 /\ u + (i + 1) = u + 1 + i /\ (i + 1) + 1 = i + 2
          BY <1>1
        <5> QED
          BY <1>2, <1>3, <5>1
      <4> QED
        BY <4>1, <4>2 DEF LiesAt, n
    <3> QED
      BY <3>1, <3>2 DEF v, n
  <2>2. CASE k # c + 1
    <3>1. k \in 1 .. c /\ k \in 0 .. c /\ k - 1 \in 0 .. c
      BY <1>1, <2>2
    <3> DEFINE o == cut[k - 1]
               y == items[k]
               p == Len(y)
    <3>2. cut[k] = o + Space(p) /\ LiesAt(bytes[m], f, o, y)
      BY <1>5, <3>1
    <3>3. /\ p \in Nat /\ p > 0 /\ Space(p) = p + 2
          /\ o \in Nat /\ o + p + 2 <= u
      <4>1. p \in Nat /\ p > 0 /\ Space(p) = p + 2
        BY <1>4, <3>1, MessageBytes
      <4>2. cut[k] \in 0 .. u /\ o \in 0 .. u
        BY <1>5, <3>1
      <4> HIDE DEF o, p
      <4> QED
        BY <3>2, <4>1, <4>2
    <3> HIDE DEF o, p, y
    <3>4. LiesAt(b, f, o, y)
      <4>1. \A i \in 1 .. p : o + 1 + i \in Nat /\ o + 1 + i < u
        BY <3>3
      <4>2. o < u /\ o + 1 \in Nat /\ o + 1 < u
        BY <3>3
      <4> QED
        BY <1>3, <3>2, <3>3, <4>1, <4>2 DEF LiesAt, p
    <3> QED
      BY <1>4, <1>6, <3>1, <3>2, <3>4 DEF o, p, y
  <2> QED
    BY <2>1, <2>2
<1>9. Cuts(longer, b, f, v, more)
  BY <1>4, <1>6, <1>7, <1>8 DEF Cuts
<1> QED
  BY <1>9 DEF b, v, n, s, more

\* A message that is received was the first one.
LEMMA GetCuts ==
    ASSUME NEW b, NEW f \in 0 .. MsgCapacity - 1, NEW u \in Nat,
           NEW items \in Seq(Message), items # << >>,
           NEW cut, Cuts(cut, b, f, u, items), u <= MsgCapacity,
           NEW o, o = Space(Len(items[1]))
    PROVE  /\ o \in 0 .. u /\ LiesAt(b, f, 0, items[1])
           /\ \E fewer : Cuts(fewer, b, Offset(f, o), u - o, Tail(items))
<1> DEFINE g == Offset(f, o)
           c == Len(items)
           rest == Tail(items)
           fewer == [k \in 0 .. c - 1 |-> cut[k + 1] - o]
<1>1. c \in Nat /\ c > 0 /\ \A k \in 1 .. c : items[k] \in Message
  BY EmptySeq, LenProperties, ElementOfSeq
<1>2. /\ cut \in [0 .. c -> 0 .. u] /\ cut[0] = 0 /\ cut[c] = u
      /\ \A k, l \in 0 .. c : k <= l => cut[k] + 3 * (l - k) <= cut[l]
      /\ \A k \in 1 .. c : /\ cut[k] = cut[k - 1] + Space(Len(items[k]))
                           /\ LiesAt(b, f, cut[k - 1], items[k])
  BY DEF Cuts
<1>3. /\ Len(rest) = c - 1
      /\ \A k \in 1 .. c - 1 : rest[k] = items[k + 1]
  BY HeadTailProperties
<1> HIDE DEF c, rest, fewer, g
<1>4. o \in 0 .. u /\ o = cut[1] /\ MsgCapacity \in Nat /\ LiesAt(b, f, 0, items[1])
  <2>1. 1 \in 1 .. c /\ 1 \in 0 .. c /\ 1 - 1 = 0
    BY <1>1
  <2>2. items[1] \in Message /\ cut[1] = 0 + o /\ LiesAt(b, f, 0, items[1])
    BY <1>1, <1>2, <2>1
  <2>3. cut[1] \in 0 .. u
    BY <1>2, <2>1
  <2>4. o \in Nat
    BY <2>2, MessageBytes
  <2> QED
    BY <2>2, <2>3, <2>4, Lengths
<1>5. \A k \in 0 .. c - 1 : k + 1 \in 0 .. c /\ cut[k + 1] \in o .. u
  <2>1. SUFFICES ASSUME NEW k \in 0 .. c - 1
                 PROVE  k + 1 \in 0 .. c /\ cut[k + 1] \in o .. u
    OBVIOUS
  <2>2. k + 1 \in 0 .. c /\ 1 \in 0 .. c /\ 1 <= k + 1
    BY <1>1, <2>1
  <2>3. cut[k + 1] \in 0 .. u /\ cut[1] + 3 * ((k + 1) - 1) <= cut[k + 1]
    BY <1>2, <2>2
  <2>4. 3 * ((k + 1) - 1) \in Nat
    BY <2>1
  <2> QED
    BY <1>4, <2>2, <2>3, <2>4
<1>6. fewer \in [0 .. c - 1 -> 0 .. u - o]
  <2>1. \A k \in 0 .. c - 1 : cut[k + 1] - o \in 0 .. u - o
    BY <1>4, <1>5
  <2> QED
    BY <2>1 DEF fewer
<1>7. fewer[0] = 0 /\ fewer[c - 1] = u - o
  <2>1. 0 \in 0 .. c - 1 /\ c - 1 \in 0 .. c - 1 /\ (c - 1) + 1 = c /\ 0 + 1 = 1
    BY <1>1
  <2>2. fewer[0] = cut[1] - o /\ fewer[c - 1] = cut[c] - o
    BY <2>1 DEF fewer
  <2> QED
    BY <1>2, <1>4, <2>2
<1>8. ASSUME NEW k \in 0 .. c - 1, NEW l \in 0 .. c - 1, k <= l
      PROVE  fewer[k] + 3 * (l - k) <= fewer[l]
  <2>1. k + 1 \in 0 .. c /\ l + 1 \in 0 .. c /\ k + 1 <= l + 1 /\ (l + 1) - (k + 1) = l - k
    BY <1>1, <1>8
  <2>2. cut[k + 1] + 3 * (l - k) <= cut[l + 1]
    BY <1>2, <2>1
  <2>3. cut[k + 1] \in Nat /\ cut[l + 1] \in Nat /\ o \in Nat /\ l - k \in Nat
    <3>1. cut[k + 1] \in 0 .. u /\ cut[l + 1] \in 0 .. u
      BY <1>2, <2>1
    <3>2. l - k \in Nat
      BY <1>1, <1>8
    <3> QED
      BY <1>4, <3>1, <3>2
  <2>4. fewer[k] = cut[k + 1] - o /\ fewer[l] = cut[l + 1] - o
    BY DEF fewer
  <2> QED
    BY <2>2, <2>3, <2>4
<1>9. ASSUME NEW k \in 1 .. c - 1
      PROVE  /\ fewer[k] = fewer[k - 1] + Space(Len(rest[k]))
             /\ LiesAt(b, g, fewer[k - 1], rest[k])
  <2> DEFINE q == cut[k]
             y == rest[k]
             p == Len(y)
  <2>1. k + 1 \in 1 .. c /\ (k + 1) - 1 = k /\ k - 1 \in 0 .. c - 1 /\ (k - 1) + 1 = k
        /\ k \in 0 .. c - 1 /\ k + 1 \in 0 .. c /\ k \in 0 .. c
    BY <1>1, <1>9
  <2>2. y = items[k + 1] /\ y \in Message
    BY <1>1, <1>3, <2>1
  <2>3. cut[k + 1] = q + Space(p) /\ LiesAt(b, f, q, y)
    BY <1>2, <2>1, <2>2
  <2>4. fewer[k] = cut[k + 1] - o /\ fewer[k - 1] = q - o
    BY <2>1 DEF fewer
  <2>5. p \in Nat /\ p > 0 /\ Space(p) = p + 2
    BY <2>2, MessageBytes
  <2>6. q \in o .. u /\ cut[k + 1] \in o .. u
    BY <1>5, <2>1
  <2> HIDE DEF q, y, p
  <2>7. q \in Nat /\ o <= q /\ q + p + 2 <= u /\ o \in Nat
    BY <1>4, <2>3, <2>5, <2>6
  <2>8. \A j \in Nat : q + j <= u => Offset(g, q - o + j) = Offset(f, q + j)
    <3>1. SUFFICES ASSUME NEW j \in Nat, q + j <= u
                   PROVE  Offset(g, q - o + j) = Offset(f, q + j)
      OBVIOUS
    <3>2. o \in Nat /\ q \in Nat /\ o <= q /\ q + j <= MsgCapacity /\ MsgCapacity \in Nat
      BY <1>4, <2>7, <3>1
    <3>3. o \in 0 .. MsgCapacity
      BY <3>1, <3>2
    <3>4. q - o + j \in 0 .. MsgCapacity
      BY <3>1, <3>2
    <3>5. o + (q - o + j) = q + j /\ o + (q - o + j) <= MsgCapacity
      BY <3>1, <3>2
    <3> QED
      BY <3>3, <3>4, <3>5, Further DEF g
  <2>9. LiesAt(b, g, q - o, y)
    <3>1. /\ q - o + 0 = q - o /\ q + 0 = q /\ q + 0 <= u /\ q + 1 <= u
      BY <2>5, <2>7
    <3>2. Offset(g, q - o) = Offset(f, q) /\ Offset(g, q - o + 1) = Offset(f, q + 1)
      BY <2>8, <3>1
    <3>3. ASSUME NEW i \in 1 .. p
          PROVE  Offset(g, q - o + 1 + i) = Offset(f, q + 1 + i)
      <4>1. /\ q - o + 1 + i = q - o + (1 + i) /\ q + 1 + i = q + (1 + i)
            /\ 1 + i \in Nat /\ q + (1 + i) <= u
        BY <2>5, <2>7
      <4> QED
        BY <2>8, <4>1
    <3> QED
      BY <2>3, <3>2, <3>3 DEF LiesAt, p
  <2>10. fewer[k] = fewer[k - 1] + Space(p)
    BY <2>3, <2>4, <2>5, <2>7
  <2> QED
    BY <2>4, <2>9, <2>10 DEF p, y
<1>10. Cuts(fewer, b, g, u - o, rest)
  BY <1>3, <1>6, <1>7, <1>8, <1>9 DEF Cuts
<1> QED
  BY <1>4, <1>10 DEF g, rest

-----------------------------------------------------------------------------
(* The messages, as their headers delimit them, are the ones that were put *)
(* there.                                                                  *)

\* start[k] is where the message after the first k begins.
Delimits(start, m) ==
    start = [k \in 0 .. messages[m] |->
                IF k = 0 THEN first[m]
                ELSE Advanced(start[k - 1], Space(LengthAt(m, start[k - 1])))]

\* A ring has one cut: what the headers delimit is what the ring holds.
LEMMA Delimited ==
    ASSUME RingTypeOK, NEW m \in MsgId, NEW items, Holds(m, items)
    PROVE  Messages[m] = items
<1> DEFINE f == first[m]
           c == Len(items)
           start == CHOOSE start : Delimits(start, m)
<1>1. PICK cut : Cuts(cut, bytes[m], f, used[m], items)
  BY DEF Holds
<1> DEFINE w == [k \in 0 .. c |-> Offset(f, cut[k])]
<1>2. /\ items \in Seq(Message) /\ messages[m] = c /\ c \in Nat
      /\ \A k \in 1 .. c : items[k] \in Message
  BY LenProperties, ElementOfSeq DEF Holds
<1>3. f \in 0 .. MsgCapacity - 1 /\ used[m] \in 0 .. MsgCapacity /\ MsgCapacity \in Nat
  BY Lengths DEF RingTypeOK
<1>4. ASSUME NEW k \in 1 .. c
      PROVE  /\ cut[k - 1] \in 0 .. MsgCapacity /\ cut[k] \in 0 .. MsgCapacity
             /\ cut[k] = cut[k - 1] + Space(Len(items[k]))
             /\ LengthAt(m, Offset(f, cut[k - 1])) = Len(items[k])
             /\ ReadAt(m, Offset(f, cut[k - 1]) + 2, Len(items[k])) = items[k]
  <2> DEFINE o == cut[k - 1]
             s == items[k]
  <2>1. k \in 0 .. c /\ k - 1 \in 0 .. c
    BY <1>2
  <2>2. /\ o \in 0 .. used[m] /\ cut[k] \in 0 .. used[m]
        /\ cut[k] = o + Space(Len(s)) /\ LiesAt(bytes[m], f, o, s)
    BY <1>1, <2>1 DEF Cuts
  <2>3. s \in Message
    BY <1>2
  <2> HIDE DEF o, s
  <2>4. o \in Nat /\ o \in 0 .. MsgCapacity /\ cut[k] \in 0 .. MsgCapacity
        /\ o + Space(Len(s)) <= MsgCapacity
    BY <1>3, <2>2
  <2>5. /\ LengthAt(m, Offset(f, o)) = Len(s)
        /\ ReadAt(m, Offset(f, o) + 2, Len(s)) = s
    BY <1>3, <2>2, <2>3, <2>4, Reading
  <2> QED
    BY <2>2, <2>4, <2>5 DEF o, s
<1>5. ASSUME NEW k \in 0 .. c
      PROVE  w[k] = IF k = 0 THEN f ELSE Advanced(w[k - 1], Space(LengthAt(m, w[k - 1])))
  <2>1. CASE k = 0
    <3>1. cut[0] = 0
      BY <1>1 DEF Cuts
    <3>2. Offset(f, 0) = f
      <4> HIDE DEF f
      <4>1. 0 \in 0 .. MsgCapacity /\ f + 0 = f /\ f < MsgCapacity
        BY <1>3
      <4> QED
        BY <1>3, <4>1, Wrapping
    <3> QED
      BY <2>1, <3>1, <3>2
  <2>2. CASE k # 0
    <3>1. k \in 1 .. c /\ k - 1 \in 0 .. c
      BY <1>2, <2>2
    <3> DEFINE o == cut[k - 1]
               n == Space(Len(items[k]))
    <3>2. /\ o \in 0 .. MsgCapacity /\ cut[k] \in 0 .. MsgCapacity /\ cut[k] = o + n
          /\ LengthAt(m, Offset(f, o)) = Len(items[k])
      BY <1>4, <3>1
    <3>3. w[k] = Offset(f, cut[k]) /\ w[k - 1] = Offset(f, o)
      BY <3>1
    <3>4. n \in Nat
      BY <1>2, <3>1, MessageBytes
    <3> HIDE DEF o, w
    <3>5. n \in 0 .. MsgCapacity /\ o + n <= MsgCapacity
      BY <1>3, <3>2, <3>4
    <3>6. Advanced(Offset(f, o), n) = Offset(f, o + n)
      BY <1>3, <3>2, <3>5, Further DEF Advanced
    <3> QED
      BY <2>2, <3>2, <3>3, <3>6
  <2> QED
    BY <2>1, <2>2
<1>6. Delimits(w, m)
  <2>1. w = [k \in 0 .. c |-> w[k]]
    OBVIOUS
  <2> HIDE DEF w
  <2> QED
    BY <1>2, <1>5, <2>1 DEF Delimits
<1>7. Delimits(start, m)
  BY <1>6
<1>8. Messages[m] = [k \in 1 .. c |-> ReadAt(m, start[k - 1] + 2, LengthAt(m, start[k - 1]))]
  BY <1>2 DEF Messages, Delimits
<1> HIDE DEF start
<1> DEFINE Differ == {k \in 0 .. c : start[k] # w[k]}
<1>9. Differ = {}
  <2> HIDE DEF w
  <2>1. SUFFICES ASSUME Differ # {}
                 PROVE  FALSE
    OBVIOUS
  <2>2. PICK k \in Differ : \A j \in Differ : k <= j
    <3>1. Differ \subseteq Nat
      BY <1>2
    <3> HIDE DEF Differ
    <3> QED
      BY <2>1, <3>1, LeastNatural
  <2>3. start[k] = IF k = 0 THEN f ELSE Advanced(start[k - 1], Space(LengthAt(m, start[k - 1])))
    BY <1>2, <1>7, <2>2 DEF Delimits
  <2>4. CASE k = 0
    BY <1>5, <2>2, <2>3, <2>4
  <2>5. CASE k # 0
    <3>1. k - 1 \in 0 .. c /\ ~ (k <= k - 1)
      BY <1>2, <2>2, <2>5
    <3>2. start[k - 1] = w[k - 1]
      BY <2>2, <3>1
    <3> QED
      BY <1>5, <2>2, <2>3, <2>5, <3>2
  <2> QED
    BY <2>4, <2>5
<1>10. ASSUME NEW k \in 1 .. c
       PROVE  Messages[m][k] = items[k]
  <2>1. k - 1 \in 0 .. c
    BY <1>2
  <2>2. start[k - 1] = Offset(f, cut[k - 1])
    BY <1>9, <2>1
  <2> HIDE DEF f
  <2> QED
    BY <1>4, <1>8, <2>2
<1>11. items = [k \in 1 .. c |-> items[k]]
  BY <1>2
<1> QED
  <2> HIDE DEF f, w, c
  <2>1. Messages[m] = [k \in 1 .. c |-> Messages[m][k]]
    BY <1>8
  <2> QED
    BY <1>10, <1>11, <2>1

\* So they are after a step.
LEMMA DelimitedNext ==
    (RingTypeOK => \A m \in MsgId : \A items : Holds(m, items) => Messages[m] = items)'
<1>1. RingTypeOK => \A m \in MsgId : \A items : Holds(m, items) => Messages[m] = items
  BY Delimited
<1> QED
  BY <1>1, PTL

-----------------------------------------------------------------------------
(* The steps of the ring.                                                  *)

\* A ring that a step leaves alone holds what it held.
LEMMA HoldsStill ==
    ASSUME NEW q, NEW items, Holds(q, items), bytes'[q] = bytes[q], first'[q] = first[q],
           used'[q] = used[q], messages'[q] = messages[q]
    PROVE  Holds(q, items)'
BY DEF Holds

\* One step of ring m keeps the rings.
LEMMA OneRing ==
    ASSUME RingInv, RingTypeOK', NEW m \in MsgId,
           \A q \in MsgId \ {m} : /\ bytes'[q] = bytes[q] /\ first'[q] = first[q]
                                  /\ used'[q] = used[q] /\ messages'[q] = messages[q]
                                  /\ last'[q] = last[q] /\ room'[q] = room[q],
           last'[m] = Offset(first'[m], used'[m]), used'[m] <= room'[m],
           NEW items, Holds(m, items)'
    PROVE  RingInv'
<1>1. ASSUME NEW q \in MsgId \ {m}
      PROVE  /\ last'[q] = Offset(first'[q], used'[q]) /\ used'[q] <= room'[q]
             /\ \E held : Holds(q, held)'
  <2>1. PICK held : Holds(q, held)
    BY DEF RingInv
  <2>2. Holds(q, held)'
    BY <2>1, HoldsStill
  <2>3. last[q] = Offset(first[q], used[q]) /\ used[q] <= room[q]
    BY DEF RingInv
  <2> QED
    BY <2>2, <2>3
<1>2. \A q \in MsgId : q = m \/ q \in MsgId \ {m}
  OBVIOUS
<1> QED
  BY <1>1, <1>2 DEF RingInv, Offset

\* A put of os_msg_send: one more message, the last.
LEMMA PutHolds ==
    ASSUME RingInv, NEW m \in MsgId, NEW x \in Message, Space(Len(x)) <= Free(m), Put(m, x),
           NEW items, Holds(m, items)
    PROVE  RingInv' /\ Holds(m, Append(items, x))' /\ Len(items) < MsgCapacity \div Space(1)
<1> DEFINE f == first[m]
           u == used[m]
           n == Space(Len(x))
           s == Header(Len(x)) \o x
           b == Written(m, s)
<1>1. /\ RingTypeOK /\ last[m] = Offset(f, u) /\ u <= room[m]
  BY DEF RingInv
<1>2. /\ f \in 0 .. MsgCapacity - 1 /\ u \in 0 .. MsgCapacity /\ MsgCapacity \in Nat
      /\ room[m] \in 0 .. MsgCapacity /\ u \in Nat
      /\ Len(x) \in Nat /\ Len(x) < 256 * 256 /\ n = Len(x) + 2 /\ n > 2 /\ n \in Nat
      /\ x \in Seq(Byte)
  <2>1. /\ f \in 0 .. MsgCapacity - 1 /\ u \in 0 .. MsgCapacity /\ MsgCapacity \in Nat
        /\ room[m] \in {0, MsgCapacity}
    BY <1>1, Lengths DEF RingTypeOK
  <2>2. /\ Len(x) \in Nat /\ Len(x) > 0 /\ Len(x) < 256 * 256 /\ n = Len(x) + 2 /\ x \in Seq(Byte)
    BY MessageBytes
  <2> QED
    BY <2>1, <2>2
<1>3. u + n <= MsgCapacity /\ u + n <= room[m]
  BY <1>2 DEF Free
<1>4. PICK cut : Cuts(cut, bytes[m], f, u, items)
  BY DEF Holds
<1>5. items \in Seq(Message) /\ messages[m] = Len(items) /\ Len(items) \in Nat
  BY LenProperties DEF Holds
<1>6. /\ bytes'[m] = b /\ first'[m] = f /\ used'[m] = u + n /\ messages'[m] = Len(items) + 1
      /\ last'[m] = Advanced(Offset(f, u), n)
  BY <1>1, <1>5 DEF Put, RingTypeOK
<1>7. Holds(m, Append(items, x))'
  <2>1. \E longer : Cuts(longer, b, f, u + n, Append(items, x))
    BY <1>1, <1>2, <1>3, <1>4, <1>5, PutCuts
  <2>2. Append(items, x) \in Seq(Message) /\ Len(Append(items, x)) = Len(items) + 1
    BY <1>5, AppendProperties
  <2> HIDE DEF b, n, f, u
  <2> QED
    BY <1>6, <2>1, <2>2 DEF Holds
<1>8. RingTypeOK'
  <2>1. b \in [0 .. MsgCapacity - 1 -> Byte \cup 0 .. 255]
    <3>1. \A i \in 0 .. Len(s) - 1 : s[i + 1] \in Byte \cup 0 .. 255
      <4>1. Len(x) % 256 \in 0 .. 255 /\ Len(x) \div 256 \in 0 .. 255
        BY <1>2, Halves
      <4>2. s \in Seq(Byte \cup 0 .. 255)
        <5>1. Header(Len(x)) \in Seq(Byte \cup 0 .. 255)
          BY <4>1 DEF Header
        <5>2. x \in Seq(Byte \cup 0 .. 255)
          BY <1>2
        <5> QED
          BY <5>1, <5>2, ConcatProperties
      <4> HIDE DEF s
      <4> QED
        BY <4>2, ElementOfSeq, LenProperties
    <3>2. \A j \in 0 .. MsgCapacity - 1 : (j - last[m]) % MsgCapacity \in Nat
      <4>1. last[m] \in 0 .. MsgCapacity - 1
        BY <1>1 DEF RingTypeOK
      <4> QED
        BY <1>2, <4>1, WrappingBack
    <3>3. \A j \in 0 .. MsgCapacity - 1 : bytes[m][j] \in Byte \cup 0 .. 255
      <4>1. bytes[m] \in [0 .. MsgCapacity - 1 -> Byte \cup 0 .. 255]
        BY <1>1 DEF RingTypeOK
      <4> QED
        BY <4>1
    <3>4. Len(s) \in Nat
      BY <1>2 DEF Header
    <3> HIDE DEF s
    <3>5. ASSUME NEW j \in 0 .. MsgCapacity - 1
          PROVE  b[j] \in Byte \cup 0 .. 255
      <4> DEFINE i == (j - last[m]) % MsgCapacity
      <4>1. i \in Nat
        BY <3>2
      <4>2. b[j] = IF i < Len(s) THEN s[i + 1] ELSE bytes[m][j]
        BY DEF Written
      <4> HIDE DEF i
      <4>3. i < Len(s) => i \in 0 .. Len(s) - 1
        BY <3>4, <4>1
      <4> QED
        BY <3>1, <3>3, <4>2, <4>3
    <3>6. b = [j \in 0 .. MsgCapacity - 1 |-> b[j]]
      BY DEF Written
    <3> HIDE DEF b
    <3> QED
      BY <3>5, <3>6
  <2>2. last'[m] \in 0 .. MsgCapacity - 1
    <3> HIDE DEF f, u, n
    <3>1. n \in 0 .. MsgCapacity /\ u + n \in 0 .. MsgCapacity
      BY <1>2, <1>3
    <3>2. Advanced(Offset(f, u), n) = Offset(f, u + n)
      BY <1>2, <1>3, <3>1, Further DEF Advanced
    <3> QED
      BY <1>2, <1>6, <3>1, <3>2, Wrapping
  <2>3. u + n \in 0 .. MsgCapacity
    BY <1>2, <1>3
  <2> HIDE DEF b, n
  <2> QED
    BY <1>1, <1>5, <1>6, <2>1, <2>2, <2>3 DEF Put, RingTypeOK
<1>9. last'[m] = Offset(first'[m], used'[m]) /\ used'[m] <= room'[m]
  <2>1. Advanced(Offset(f, u), n) = Offset(f, u + n)
    <3> HIDE DEF f, u, n
    <3>1. n \in 0 .. MsgCapacity
      BY <1>2, <1>3
    <3> QED
      BY <1>2, <1>3, <3>1, Further DEF Advanced
  <2>2. room'[m] = room[m]
    BY DEF Put
  <2> QED
    BY <1>3, <1>6, <2>1, <2>2
<1>10. RingInv'
  <2>1. \A q \in MsgId \ {m} : /\ bytes'[q] = bytes[q] /\ first'[q] = first[q]
                               /\ used'[q] = used[q] /\ messages'[q] = messages[q]
                               /\ last'[q] = last[q] /\ room'[q] = room[q]
    BY <1>1 DEF Put, RingTypeOK
  <2> QED
    BY <1>7, <1>8, <1>9, <2>1, OneRing
<1>11. Len(items) < MsgCapacity \div Space(1)
  <2> DEFINE c == Len(items)
  <2>1. 0 \in 0 .. c /\ c \in 0 .. c /\ 0 <= c
    BY <1>5
  <2>2. cut[0] + 3 * (c - 0) <= cut[c] /\ cut[0] = 0 /\ cut[c] = u
    BY <1>4, <2>1 DEF Cuts
  <2> HIDE DEF c, n, u
  <2>3. 3 * (c + 1) <= MsgCapacity
    BY <1>2, <1>3, <1>5, <2>2 DEF c
  <2>4. Space(1) = 3
    BY DEF Space
  <2>5. c < MsgCapacity \div 3
    BY <1>2, <1>5, <2>3 DEF c
  <2> QED
    BY <2>4, <2>5 DEF c
<1> QED
  BY <1>7, <1>10, <1>11

\* A get of os_msg_receive: the first message is taken.
LEMMA GetHolds ==
    ASSUME RingInv, NEW m \in MsgId, Get(m), NEW items, Holds(m, items), items # << >>
    PROVE  RingInv' /\ Holds(m, Tail(items))' /\ taken' = [taken EXCEPT ![m] = Head(items)]
<1> DEFINE f == first[m]
           u == used[m]
           s == items[1]
           n == Space(Len(s))
<1>1. /\ RingTypeOK /\ last[m] = Offset(f, u) /\ u <= room[m]
  BY DEF RingInv
<1>2. /\ f \in 0 .. MsgCapacity - 1 /\ u \in 0 .. MsgCapacity /\ u \in Nat
      /\ MsgCapacity \in Nat /\ room[m] \in {0, MsgCapacity}
  BY <1>1, Lengths DEF RingTypeOK
<1>3. /\ items \in Seq(Message) /\ messages[m] = Len(items) /\ Len(items) \in Nat
      /\ Len(items) > 0 /\ s \in Message /\ Head(items) = s
      /\ Tail(items) \in Seq(Message) /\ Len(Tail(items)) = Len(items) - 1
  <2>1. items \in Seq(Message) /\ messages[m] = Len(items)
    BY DEF Holds
  <2>2. Len(items) \in Nat /\ Len(items) > 0 /\ s \in Message
    BY <2>1, EmptySeq, LenProperties, ElementOfSeq
  <2> QED
    BY <2>1, <2>2, HeadTailProperties
<1>4. PICK cut : Cuts(cut, bytes[m], f, u, items)
  BY DEF Holds
<1>5. /\ n \in 0 .. u /\ LiesAt(bytes[m], f, 0, s)
      /\ \E fewer : Cuts(fewer, bytes[m], Offset(f, n), u - n, Tail(items))
  <2> HIDE DEF f, u, n
  <2>1. u <= MsgCapacity
    BY <1>2
  <2>2. n = Space(Len(items[1]))
    BY DEF n
  <2> QED
    BY <1>2, <1>3, <1>4, <2>1, <2>2, GetCuts
<1>6. LengthAt(m, f) = Len(s) /\ ReadAt(m, f + 2, Len(s)) = s
  <2>1. Offset(f, 0) = f
    <3> HIDE DEF f
    <3>1. 0 \in 0 .. MsgCapacity /\ f + 0 = f /\ f < MsgCapacity
      BY <1>2
    <3> QED
      BY <1>2, <3>1, Wrapping
  <2>2. 0 \in Nat /\ 0 + n <= MsgCapacity
    BY <1>2, <1>5
  <2> HIDE DEF f, s
  <2>3. LengthAt(m, Offset(first[m], 0)) = Len(s) /\ ReadAt(m, Offset(first[m], 0) + 2, Len(s)) = s
    BY <1>2, <1>3, <1>5, <2>2, Reading DEF f
  <2> QED
    BY <2>1, <2>3 DEF f
<1>7. /\ bytes'[m] = bytes[m] /\ first'[m] = Offset(f, n) /\ used'[m] = u - n
      /\ messages'[m] = Len(items) - 1 /\ last'[m] = last[m] /\ room'[m] = room[m]
      /\ taken' = [taken EXCEPT ![m] = s]
  BY <1>1, <1>3, <1>6 DEF Get, RingTypeOK, Advanced, Offset
<1>8. Offset(f, n) \in 0 .. MsgCapacity - 1 /\ u - n \in 0 .. MsgCapacity
      /\ Offset(Offset(f, n), u - n) = Offset(f, u)
  <2> HIDE DEF f, u, n
  <2>1. n \in 0 .. MsgCapacity /\ u - n \in 0 .. MsgCapacity /\ n + (u - n) = u
        /\ n + (u - n) <= MsgCapacity
    BY <1>2, <1>5
  <2> QED
    BY <1>2, <2>1, Wrapping, Further
<1>9. Holds(m, Tail(items))'
  <2> HIDE DEF f, u, n
  <2> QED
    BY <1>3, <1>5, <1>7 DEF Holds
<1>10. RingTypeOK'
  <2>1. first' = [first EXCEPT ![m] = first'[m]] /\ used' = [used EXCEPT ![m] = used'[m]]
        /\ messages' = [messages EXCEPT ![m] = messages'[m]]
        /\ UNCHANGED <<bytes, last, room, bufferOwned>>
    BY <1>1 DEF Get, RingTypeOK
  <2>2. first'[m] \in 0 .. MsgCapacity - 1 /\ used'[m] \in 0 .. MsgCapacity /\ messages'[m] \in Nat
    BY <1>3, <1>7, <1>8
  <2> HIDE DEF n
  <2> QED
    BY <1>1, <1>3, <1>7, <2>1, <2>2 DEF RingTypeOK
<1>11. last'[m] = Offset(first'[m], used'[m]) /\ used'[m] <= room'[m]
  <2> HIDE DEF f, u, n
  <2>1. u - n <= room[m]
    BY <1>1, <1>2, <1>5
  <2> QED
    BY <1>1, <1>7, <1>8, <2>1
<1>12. RingInv'
  <2>1. \A q \in MsgId \ {m} : /\ bytes'[q] = bytes[q] /\ first'[q] = first[q]
                               /\ used'[q] = used[q] /\ messages'[q] = messages[q]
                               /\ last'[q] = last[q] /\ room'[q] = room[q]
    BY <1>1 DEF Get, RingTypeOK
  <2> QED
    BY <1>9, <1>10, <1>11, <2>1, OneRing
<1> QED
  BY <1>3, <1>7, <1>9, <1>12

\* An empty ring.
LEMMA EmptyCuts ==
    ASSUME NEW b
    PROVE  Cuts([k \in 0 .. 0 |-> 0], b, 0, 0, << >>)
BY DEF Cuts

\* Configuration leaves the ring empty.
LEMMA ClearHolds ==
    ASSUME RingInv, NEW m \in MsgId, Bind(m) \/ Unbind(m)
    PROVE  RingInv' /\ Holds(m, << >>)' /\ UNCHANGED taken
<1>1. RingTypeOK /\ MsgCapacity \in Nat /\ MsgCapacity > 2
  BY Lengths DEF RingInv
<1>2. Emptied(m)
  BY DEF Bind, Unbind
<1>3. /\ first'[m] = 0 /\ last'[m] = 0 /\ used'[m] = 0 /\ messages'[m] = 0
      /\ UNCHANGED <<bytes, taken>>
  BY <1>1, <1>2 DEF Emptied, RingTypeOK
<1>4. Holds(m, << >>)'
  BY <1>3, EmptyCuts DEF Holds
<1>5. RingTypeOK' /\ room'[m] \in {0, MsgCapacity}
  <2>1. room' \in [MsgId -> {0, MsgCapacity}] /\ bufferOwned' \in [MsgId -> BOOLEAN]
    BY <1>1 DEF Bind, Unbind, RingTypeOK
  <2>2. 0 \in 0 .. MsgCapacity - 1 /\ 0 \in 0 .. MsgCapacity /\ 0 \in Nat
    BY <1>1
  <2> QED
    BY <1>1, <1>2, <2>1, <2>2 DEF Emptied, RingTypeOK
<1>6. last'[m] = Offset(first'[m], used'[m]) /\ used'[m] <= room'[m]
  <2>1. Offset(0, 0) = 0
    BY <1>1, Wrapping
  <2> QED
    BY <1>1, <1>3, <1>5, <2>1
<1>7. RingInv'
  <2>1. \A q \in MsgId \ {m} : /\ bytes'[q] = bytes[q] /\ first'[q] = first[q]
                               /\ used'[q] = used[q] /\ messages'[q] = messages[q]
                               /\ last'[q] = last[q] /\ room'[q] = room[q]
    BY <1>1 DEF Bind, Unbind, Emptied, RingTypeOK
  <2> QED
    BY <1>4, <1>5, <1>6, <2>1, OneRing
<1> QED
  BY <1>3, <1>4, <1>7

-----------------------------------------------------------------------------
(* The ring is a queue.                                                    *)

\* A created ring is empty.
LEMMA RingStart ==
    ASSUME RingInit
    PROVE  RingInv /\ \A m \in MsgId : Holds(m, << >>)
<1>1. RingTypeOK
  <2>1. MsgCapacity \in Nat /\ MsgCapacity > 2
    BY Lengths
  <2>2. (CHOOSE x \in Message : Len(x) = 1) \in Message
    <3>1. PICK x \in Byte : TRUE
      BY MsgRingAssumption
    <3>2. [j \in 1 .. 1 |-> x] \in Message
      <4>1. 1 \in Length /\ [j \in 1 .. 1 |-> x] \in [1 .. 1 -> {x}]
        BY MsgRingAssumption
      <4> QED
        BY <4>1, IsMessage
    <3>3. Len([j \in 1 .. 1 |-> x]) = 1
      OBVIOUS
    <3> QED
      BY <3>2, <3>3
  <2>3. 0 \in 0 .. MsgCapacity - 1 /\ 0 \in 0 .. MsgCapacity
    BY <2>1
  <2>4. bytes \in [MsgId -> [0 .. MsgCapacity - 1 -> Byte \cup 0 .. 255]]
    BY DEF RingInit
  <2> QED
    BY <2>2, <2>3, <2>4 DEF RingInit, RingTypeOK
<1>2. ASSUME NEW m \in MsgId
      PROVE  /\ Holds(m, << >>)
             /\ last[m] = Offset(first[m], used[m]) /\ used[m] <= room[m]
  <2>1. Offset(0, 0) = 0
    BY Lengths, Wrapping
  <2>2. first[m] = 0 /\ used[m] = 0 /\ messages[m] = 0 /\ last[m] = 0
    BY DEF RingInit
  <2>3. room[m] \in {0, MsgCapacity} /\ MsgCapacity \in Nat
    BY <1>1, Lengths DEF RingTypeOK
  <2> QED
    BY <2>1, <2>2, <2>3, EmptyCuts DEF Holds
<1> QED
  BY <1>1, <1>2 DEF RingInv

\* Each step of the ring keeps the invariant, and is a step of the whole messages or none.
LEMMA RingStep ==
    ASSUME RingInv, RingNext
    PROVE  RingInv' /\ [Whole!Next]_<<Messages, taken>>
<1>1. PICK m \in MsgId :
         \/ \E x \in Message : Space(Len(x)) <= Free(m) /\ Put(m, x)
         \/ messages[m] > 0 /\ Get(m)
         \/ Bind(m)
         \/ Unbind(m)
  BY DEF RingNext
<1>2. PICK items : Holds(m, items)
  BY DEF RingInv
<1>3. /\ items \in Seq(Message) /\ messages[m] = Len(items)
      /\ Messages[m] = items /\ RingTypeOK
  BY <1>2, Delimited DEF RingInv, Holds
\* The messages of the other rings stay.
<1>4. ASSUME RingInv',
             \A q \in MsgId \ {m} : /\ bytes'[q] = bytes[q] /\ first'[q] = first[q]
                                    /\ used'[q] = used[q] /\ messages'[q] = messages[q],
             NEW new, Holds(m, new)'
      PROVE  Messages' = [Messages EXCEPT ![m] = new]
  <2>1. Messages'[m] = new
    BY <1>4, DelimitedNext DEF RingInv
  <2>2. ASSUME NEW q \in MsgId \ {m}
        PROVE  Messages'[q] = Messages[q]
    <3>1. PICK held : Holds(q, held)
      BY DEF RingInv
    <3>2. Holds(q, held)'
      BY <1>4, <3>1, HoldsStill
    <3>3. Messages[q] = held
      BY <1>3, <3>1, Delimited
    <3> QED
      BY <1>4, <3>2, <3>3, DelimitedNext DEF RingInv
  <2>3. /\ Messages = [q \in MsgId |-> Messages[q]]
        /\ Messages' = [q \in MsgId |-> Messages'[q]]
    BY DEF Messages
  <2> QED
    BY <2>1, <2>2, <2>3
<1>5. CASE \E x \in Message : Space(Len(x)) <= Free(m) /\ Put(m, x)
  <2>1. PICK x \in Message : Space(Len(x)) <= Free(m) /\ Put(m, x)
    BY <1>5
  <2>2. RingInv' /\ Holds(m, Append(items, x))' /\ Len(items) < MsgCapacity \div Space(1)
    BY <1>2, <2>1, PutHolds
  <2>3. \A q \in MsgId \ {m} : /\ bytes'[q] = bytes[q] /\ first'[q] = first[q]
                               /\ used'[q] = used[q] /\ messages'[q] = messages[q]
    BY <1>3, <2>1 DEF Put, RingTypeOK
  <2>4. Messages' = [Messages EXCEPT ![m] = Append(items, x)] /\ UNCHANGED taken
    BY <1>4, <2>1, <2>2, <2>3 DEF Put
  <2>5. Whole!Put(m, x)
    BY <1>3, <2>2, <2>4 DEF Whole!Put
  <2> QED
    BY <2>2, <2>5 DEF Whole!Next
<1>6. CASE messages[m] > 0 /\ Get(m)
  <2>1. items # << >>
    BY <1>3, <1>6
  <2>2. RingInv' /\ Holds(m, Tail(items))' /\ taken' = [taken EXCEPT ![m] = Head(items)]
    BY <1>2, <1>6, <2>1, GetHolds
  <2>3. \A q \in MsgId \ {m} : /\ bytes'[q] = bytes[q] /\ first'[q] = first[q]
                               /\ used'[q] = used[q] /\ messages'[q] = messages[q]
    BY <1>3, <1>6 DEF Get, RingTypeOK
  <2>4. Messages' = [Messages EXCEPT ![m] = Tail(items)]
    BY <1>4, <2>2, <2>3
  <2>5. Whole!Take(m)
    BY <1>3, <2>1, <2>2, <2>4 DEF Whole!Take
  <2> QED
    BY <2>2, <2>5 DEF Whole!Next
<1>7. CASE Bind(m) \/ Unbind(m)
  <2>1. RingInv' /\ Holds(m, << >>)' /\ UNCHANGED taken
    BY <1>7, ClearHolds
  <2>2. \A q \in MsgId \ {m} : /\ bytes'[q] = bytes[q] /\ first'[q] = first[q]
                               /\ used'[q] = used[q] /\ messages'[q] = messages[q]
    BY <1>3, <1>7 DEF Bind, Unbind, Emptied, RingTypeOK
  <2>3. Messages' = [Messages EXCEPT ![m] = << >>]
    BY <1>4, <2>1, <2>2
  <2>4. Whole!Clear(m)
    BY <2>1, <2>3 DEF Whole!Clear
  <2> QED
    BY <2>1, <2>4 DEF Whole!Next
<1> QED
  BY <1>1, <1>5, <1>6, <1>7

\* A ring's bytes, read by their headers, are always whole messages.
THEOREM RingAlwaysTyped == RingSpec => []RingTypeOK
<1>1. RingInv /\ UNCHANGED ringVars => RingInv'
  BY DEF RingInv, RingTypeOK, ringVars, byteVars, Holds
<1>2. RingInv => RingTypeOK
  BY DEF RingInv
<1> QED
  BY <1>1, <1>2, RingStart, RingStep, PTL DEF RingSpec

\* The ring of os_msg.c alone implements the queue: os_msg_ring_write and os_msg_ring_read wrap a
\* header or a message wherever the end of the ring falls.
THEOREM RingImplementsWhole == RingSpec => ImplementsWhole
<1>1. RingInv /\ UNCHANGED ringVars => RingInv'
  BY DEF RingInv, RingTypeOK, ringVars, byteVars, Holds
<1>2. RingInit => Whole!Init
  <2>1. SUFFICES ASSUME RingInit
                 PROVE  Whole!Init
    OBVIOUS
  <2>2. RingTypeOK /\ \A m \in MsgId : Messages[m] = << >>
    BY <2>1, RingStart, Delimited DEF RingInv
  <2>3. Messages = [q \in MsgId |-> Messages[q]]
    BY DEF Messages
  <2>4. Messages = [q \in MsgId |-> << >>]
    BY <2>2, <2>3
  <2> QED
    BY <2>2, <2>4 DEF Whole!Init, RingTypeOK
<1>3. RingInv /\ [RingNext]_ringVars
      => (ringVars' # ringVars => [Whole!Next]_<<Messages, taken>>)
  BY RingStep
<1> QED
  BY <1>1, <1>2, <1>3, RingStart, RingStep, PTL DEF RingSpec, ImplementsWhole

-----------------------------------------------------------------------------
(* Notifications and the waiting machinery.                                *)

\* os_notify_give keeps the waiting machinery, whatever the task waits for.
LEMMA GiveKeeps ==
    ASSUME WInv, NEW t \in Task, NotifyGive(t)
    PROVE  WInv'
<1> DEFINE hits == {u \in {t} : WakeSleeper(u)}
<1>1. /\ state' = [u \in Task |-> IF u \in hits THEN "READY" ELSE state[u]]
      /\ signaled' = [u \in Task |-> u \in hits \/ signaled[u]]
      /\ delayed' = delayed \ hits /\ waiters' = WaitersWithout(hits)
      /\ UNCHANGED <<prio, wokenFrom, onCore, pc, target, timeout, spent>>
  BY DEF NotifyGive, callVars
<1>2. hits \in SUBSET Task /\ \A u, v \in hits : u = v
  OBVIOUS
<1>3. \A u \in hits : state[u] = "BLOCKED"
  BY DEF WakeSleeper
<1> HIDE DEF hits
<1>4. /\ waiters' \in [WaitList -> Seq(Task)]
      /\ \A s \in WaitList :
            NoRepeat(waiters'[s]) /\ Members(waiters'[s]) = Members(waiters[s]) \ hits
  <2>1. \A s \in WaitList : \A u, v \in hits \cap Members(waiters[s]) : u = v
    BY <1>2
  <2> QED
    BY <1>1, <1>2, <2>1, Leaving
<1>5. WaitingTypeOK'
  BY <1>1, <1>4 DEF WInv, WaitingTypeOK
<1>6. WaitersExact'
  BY <1>1, <1>2, <1>4, WaitersFrame
<1>7. WaitersSorted'
  BY <1>1, SortedFrame
<1>8. WokenAlive'
  BY <1>1, <1>3 DEF WInv, WokenAlive, Woken
<1>9. RunningOnCore'
  BY <1>1 DEF WInv, RunningOnCore
<1>10. ForeverSignaled'
  BY <1>1 DEF WInv, ForeverSignaled
<1>11. ForeverWaits' /\ IdleCall'
  BY <1>1 DEF WInv, ForeverWaits, IdleCall
<1> QED
  BY <1>5, <1>6, <1>7, <1>8, <1>9, <1>10, <1>11 DEF WInv

\* A step of a task's own os_notify_wait, outside of any list, in which the
\* task may block.
LEMMA AskFrame ==
    ASSUME WInv, NEW t \in Task, Executing(t), pc[t] \in {"out", "ask", "asleep"},
           WaitingTypeOK', UNCHANGED <<prio, signaled, wokenFrom, onCore, waiters, target>>,
           \A u \in Task : u # t =>
              /\ state'[u] = state[u]
              /\ pc'[u] = pc[u] /\ timeout'[u] = timeout[u] /\ spent'[u] = spent[u],
           pc'[t] \in {"out", "ask", "asleep"},
           state'[t] = "RUNNING" \/ (state'[t] = "BLOCKED" /\ pc'[t] = "asleep"),
           \A u \in delayed' :
              u \in delayed \/ (u = t /\ state'[t] = "BLOCKED" /\ timeout'[t] = "finite"),
           timeout'[t] = "forever" \/ pc'[t] = "out" => ~spent'[t]
    PROVE  WInv'
<1>1. state[t] = "RUNNING" /\ t \in onCore
  BY DEF Executing
<1>2. \A s \in WaitList : t \notin Members(waiters[s])
  BY <1>1, Basics
<1>3. \A s \in WaitList, u \in Task :
         u \in Members(waiters'[s])
            <=> state'[u] = "BLOCKED" /\ pc'[u] = "wait" /\ target'[u] = s
  <2>1. SUFFICES ASSUME NEW s \in WaitList, NEW u \in Task
                 PROVE  u \in Members(waiters[s])
                           <=> state'[u] = "BLOCKED" /\ pc'[u] = "wait" /\ target[u] = s
    OBVIOUS
  <2>2. u \in Members(waiters[s])
           <=> state[u] = "BLOCKED" /\ pc[u] = "wait" /\ target[u] = s
    BY Basics
  <2> QED
    BY <1>2, <2>2
<1>4. \A u \in delayed' : state'[u] = "BLOCKED" /\ timeout'[u] = "finite"
  <2>1. \A u \in delayed : u \in Task /\ state[u] = "BLOCKED" /\ timeout[u] = "finite"
    BY Basics DEF WInv, WaitersExact
  <2> QED
    BY <1>1, <2>1
<1>5. WaitersExact'
  BY <1>3, <1>4, Basics DEF WaitersExact
<1>6. WaitersSorted'
  BY SortedFrame
<1>7. WokenAlive'
  <2>1. \A u \in Task : wokenFrom[u] \in WaitList => u # t
    BY WokenFacts
  <2> QED
    BY <2>1, WokenFacts DEF WokenAlive, Woken
<1>8. RunningOnCore' /\ ForeverSignaled'
  BY <1>1 DEF WInv, RunningOnCore, ForeverSignaled
<1>9. ForeverWaits' /\ IdleCall'
  BY DEF WInv, ForeverWaits, IdleCall
<1> QED
  BY <1>5, <1>6, <1>7, <1>8, <1>9 DEF WInv

\* The steps of os_notify_wait keep the waiting machinery.
LEMMA NotifyWaitKeeps ==
    ASSUME WInv, NEW t \in Task, NotifyWaitStep(t)
    PROVE  WInv'
<1> USE DEF tcbVars
<1>1. WaitingTypeOK
  BY DEF WInv
<1>2. ASSUME NEW limit \in Timeout, NotifyCall(t, limit)
      PROVE  WInv'
  <2>1. WaitingTypeOK'
    BY <1>2, <1>1 DEF NotifyCall, WaitingTypeOK
  <2>2. ~spent[t]
    BY <1>2 DEF WInv, IdleCall, NotifyCall
  <2>3. /\ Executing(t) /\ pc[t] \in {"out", "ask", "asleep"}
        /\ UNCHANGED <<prio, signaled, wokenFrom, onCore, waiters, target>>
        /\ \A u \in Task : u # t =>
              /\ state'[u] = state[u]
              /\ pc'[u] = pc[u] /\ timeout'[u] = timeout[u] /\ spent'[u] = spent[u]
    BY <1>2, Basics DEF NotifyCall
  <2>4. pc'[t] \in {"out", "ask", "asleep"}
    BY <1>2, <2>2, Basics DEF NotifyCall, Executing
  <2>5. state'[t] = "RUNNING"
    BY <1>2, <2>2, Basics DEF NotifyCall, Executing
  <2>6. \A u \in delayed' :
           u \in delayed \/ (u = t /\ state'[t] = "BLOCKED" /\ timeout'[t] = "finite")
    BY <1>2, <2>2, Basics DEF NotifyCall, Executing
  <2>7. timeout'[t] = "forever" \/ pc'[t] = "out" => ~spent'[t]
    BY <1>2, <2>2, Basics DEF NotifyCall, Executing
  <2> QED
    BY <2>1, <2>3, <2>4, <2>5, <2>6, <2>7, AskFrame
<1>3. CASE Asking(t) /\ Return(t) /\ UNCHANGED <<tcbVars, onCore, waiters>>
  <2>1. WaitingTypeOK'
    BY <1>3, <1>1 DEF Return, Timeout, WaitingTypeOK
  <2>2. /\ Executing(t) /\ pc[t] \in {"out", "ask", "asleep"}
        /\ UNCHANGED <<prio, signaled, wokenFrom, onCore, waiters, target>>
        /\ \A u \in Task : u # t =>
              /\ state'[u] = state[u]
              /\ pc'[u] = pc[u] /\ timeout'[u] = timeout[u] /\ spent'[u] = spent[u]
    BY <1>3, Basics DEF Return, Asking
  <2>3. pc'[t] \in {"out", "ask", "asleep"}
    BY <1>3, Basics DEF Return, Asking, Executing
  <2>4. state'[t] = "RUNNING"
    BY <1>3, Basics DEF Return, Asking, Executing
  <2>5. \A u \in delayed' :
           u \in delayed \/ (u = t /\ state'[t] = "BLOCKED" /\ timeout'[t] = "finite")
    BY <1>3, Basics DEF Return, Asking, Executing
  <2>6. timeout'[t] = "forever" \/ pc'[t] = "out" => ~spent'[t]
    BY <1>3, Basics DEF Return, Asking, Executing
  <2> QED
    BY <2>1, <2>2, <2>3, <2>4, <2>5, <2>6, AskFrame
<1>4. CASE NotifyBlock(t)
  <2>1. WaitingTypeOK'
    BY <1>4, <1>1 DEF NotifyBlock, WaitingTypeOK
  <2>2. ~spent[t]
    BY <1>4 DEF NotifyBlock, GivesUp
  <2>3. /\ Executing(t) /\ pc[t] \in {"out", "ask", "asleep"}
        /\ UNCHANGED <<prio, signaled, wokenFrom, onCore, waiters, target>>
        /\ \A u \in Task : u # t =>
              /\ state'[u] = state[u]
              /\ pc'[u] = pc[u] /\ timeout'[u] = timeout[u] /\ spent'[u] = spent[u]
    BY <1>4, Basics DEF NotifyBlock, Asking
  <2>4. pc'[t] = "asleep"
    BY <1>4, <2>2, Basics DEF NotifyBlock
  <2>5. state'[t] = "BLOCKED"
    BY <1>4, <2>2, Basics DEF NotifyBlock
  <2>6. \A u \in delayed' :
           u \in delayed \/ (u = t /\ state'[t] = "BLOCKED" /\ timeout'[t] = "finite")
    BY <1>4, <2>2, Basics DEF NotifyBlock
  <2>7. timeout'[t] = "forever" \/ pc'[t] = "out" => ~spent'[t]
    BY <1>4, <2>2, Basics DEF NotifyBlock
  <2> QED
    BY <2>1, <2>3, <2>4, <2>5, <2>6, <2>7, AskFrame
<1>5. CASE NotifyResume(t)
  <2>1. PICK zero \in IF timeout[t] = "finite" THEN BOOLEAN ELSE {FALSE} :
           spent' = [spent EXCEPT ![t] = zero]
    BY <1>5 DEF NotifyResume
  <2>2. zero \in BOOLEAN /\ (timeout[t] # "finite" => ~zero)
    BY <2>1
  <2>3. WaitingTypeOK'
    BY <1>5, <1>1, <2>1, <2>2 DEF NotifyResume, WaitingTypeOK
  <2>4. /\ Executing(t) /\ pc[t] \in {"out", "ask", "asleep"}
        /\ UNCHANGED <<prio, signaled, wokenFrom, onCore, waiters, target>>
        /\ \A u \in Task : u # t =>
              /\ state'[u] = state[u]
              /\ pc'[u] = pc[u] /\ timeout'[u] = timeout[u] /\ spent'[u] = spent[u]
    BY <1>5, <2>1, <2>2, Basics DEF NotifyResume
  <2>5. pc'[t] \in {"out", "ask", "asleep"}
    BY <1>5, <2>1, <2>2, Basics DEF NotifyResume, Executing
  <2>6. state'[t] = "RUNNING"
    BY <1>5, <2>1, <2>2, Basics DEF NotifyResume, Executing
  <2>7. \A u \in delayed' :
           u \in delayed \/ (u = t /\ state'[t] = "BLOCKED" /\ timeout'[t] = "finite")
    BY <1>5, <2>1, <2>2, Basics DEF NotifyResume, Executing
  <2>8. timeout'[t] = "forever" \/ pc'[t] = "out" => ~spent'[t]
    BY <1>5, <2>1, <2>2, Basics DEF NotifyResume, Executing
  <2> QED
    BY <2>3, <2>4, <2>5, <2>6, <2>7, <2>8, AskFrame
<1> QED
  BY <1>2, <1>3, <1>4, <1>5 DEF NotifyWaitStep, NotifyTake, NotifyFail

-----------------------------------------------------------------------------
(* The waiting machinery under all three kinds of objects.                 *)

\* Every list belongs to one object, on one side of it.
LEMMA OwnLists ==
    /\ \A e \in EventId : e \in WaitList
    /\ \A m \in MsgId : /\ Senders(m) \in WaitList \ EventId
                        /\ Receivers(m) \in WaitList \ EventId
    /\ \A m, n \in MsgId : /\ Senders(m) # Receivers(n)
                           /\ (Senders(m) = Senders(n) <=> m = n)
                           /\ (Receivers(m) = Receivers(n) <=> m = n)
BY IpcAssumption DEF Senders, Receivers

\* The senders and the receiver that a receive wakes are waiting.
LEMMA HitsWait ==
    ASSUME WInv, NEW m \in MsgId
    PROVE  /\ FittingSenders(m) \subseteq Task /\ NextReceiver(m) \subseteq Task
           /\ \A t \in FittingSenders(m) :
                 state[t] = "BLOCKED" /\ pc[t] = "wait" /\ target[t] = Senders(m)
           /\ \A t \in NextReceiver(m) :
                 state[t] = "BLOCKED" /\ pc[t] = "wait" /\ target[t] = Receivers(m)
<1>1. Senders(m) \in WaitList /\ Receivers(m) \in WaitList
  BY OwnLists
<1>2. FittingSenders(m) \subseteq Members(waiters[Senders(m)])
  BY DEF FittingSenders
<1>3. NextReceiver(m) \subseteq Members(waiters[Receivers(m)])
  BY <1>1, WakingMember DEF NextReceiver
<1> QED
  BY <1>1, <1>2, <1>3, Basics

\* Whom os_event_set_bits releases is blocked in a wait for that event.
LEMMA MatchingWait ==
    ASSUME WInv, NEW e \in EventId, NEW now
    PROVE  /\ Matching(e, now) \subseteq Task
           /\ \A t \in Matching(e, now) :
                 state[t] = "BLOCKED" /\ pc[t] = "wait" /\ target[t] = e
BY OwnLists, Basics DEF Matching

\* What a task's call on message buffer m can do.
MsgCallOn(t, m) ==
    \/ \E s \in {Senders(m), Receivers(m)}, limit \in Timeout, n \in Length :
          MsgCall(t, s, limit, n)
    \/ \E x \in Message : MsgSendOk(t, m, x)
    \/ MsgSendFail(t, m) \/ MsgSendBlock(t, m)
    \/ MsgReceiveOk(t, m) \/ MsgReceiveTooSmall(t, m)
    \/ MsgReceiveFail(t, m) \/ MsgReceiveBlock(t, m)
    \/ MsgResume(t, m)

\* Every step keeps what the waiter lists and wakeups rely on.
LEMMA MachineryStep ==
    ASSUME WInv, [Next]_vars
    PROVE  WInv'
<1>1. ASSUME NEW e \in EventId, EventStep(e)
      PROVE  WInv'
  <2>1. ASSUME NEW bits \in SUBSET Bit, SetBits(e, bits)
        PROVE  WInv'
    <3> DEFINE hits == Matching(e, flags[e] \cup bits)
    <3>1. WakeAll(hits, {}) /\ UNCHANGED callVars
      BY <2>1 DEF SetBits
    <3>2. hits \in SUBSET Task /\ \A t \in hits : state[t] = "BLOCKED" /\ pc[t] = "wait"
      BY MatchingWait
    <3> HIDE DEF hits
    <3> QED
      BY <3>1, <3>2, WakeAllKeeps
  <2>2. CASE UNCHANGED waitingVars
    BY <2>2, WaitingKept DEF WaitingStep
  <2> QED
    BY <1>1, <2>1, <2>2 DEF EventStep, EventInit, ClearBits, IsrWaitOk
<1>2. ASSUME NEW t \in Task, NotifyGive(t)
      PROVE  WInv'
  BY <1>2, GiveKeeps
<1>3. ASSUME NEW m \in MsgId, MsgStep(m)
      PROVE  WInv'
  <2>1. ASSUME NEW x \in Message, IsrMsgSend(m, x)
        PROVE  WInv'
    BY <2>1, OwnLists, WaitingKept DEF IsrMsgSend, WaitingStep
  <2>2. ASSUME NEW n \in Length, IsrMsgReceive(m, n)
        PROVE  WInv'
    <3>1. \E hits \in SUBSET Task : /\ \A t \in hits : state[t] = "BLOCKED" /\ pc[t] = "wait"
                                    /\ WakeAll(hits, {})
      BY <2>2, HitsWait DEF IsrMsgReceive
    <3>2. UNCHANGED callVars
      BY <2>2 DEF IsrMsgReceive
    <3> QED
      BY <3>1, <3>2, WakeAllKeeps
  <2>3. CASE UNCHANGED waitingVars
    BY <2>3, WaitingKept DEF WaitingStep
  <2> QED
    BY <1>3, <2>1, <2>2, <2>3 DEF MsgStep, MsgInitDynamic, MsgCleanup
<1>4. ASSUME NEW t \in Task, EventWaitStep(t)
      PROVE  WInv'
  <2>1. WaitingStep
    BY <1>4, OwnLists
    DEF EventWaitStep, EventCall, WaitOk, WaitFail, WaitBlock, WaitDelivered, WaitResume,
        WaitTimedOut, Trying, WaitStep, WaitingStep
  <2> QED
    BY <2>1, WaitingKept
<1>5. ASSUME NEW t \in Task, NotifyWaitStep(t)
      PROVE  WInv'
  BY <1>5, NotifyWaitKeeps
<1>6. ASSUME NEW t \in Task, MsgCallStep(t)
      PROVE  WInv'
  <2>1. PICK m \in MsgId : MsgCallOn(t, m)
    BY <1>6 DEF MsgCallStep, MsgCallOn
  <2>2. CASE MsgReceiveOk(t, m) \/ MsgReceiveTooSmall(t, m)
    <3>1. \E hits \in SUBSET Task : /\ \A u \in hits : state[u] = "BLOCKED" /\ pc[u] = "wait"
                                    /\ WakeAll(hits, {t})
      BY <2>2, HitsWait DEF MsgReceiveOk, MsgReceiveTooSmall
    <3>2. Executing(t) /\ Return(t)
      BY <2>2 DEF MsgReceiveOk, MsgReceiveTooSmall, MsgReceiving, Trying
    <3> QED
      BY <3>1, <3>2, WakeAllKeeps
  <2>3. CASE ~ (MsgReceiveOk(t, m) \/ MsgReceiveTooSmall(t, m))
    <3>1. WaitingStep
      BY <2>1, <2>3, OwnLists
      DEF MsgCallOn, MsgCall, MsgSendOk, MsgSendFail, MsgSendBlock, MsgReceiveFail, MsgReceiveBlock,
          MsgResume, MsgSending, MsgReceiving, Trying, WaitStep, WaitingStep
    <3> QED
      BY <3>1, WaitingKept
  <2> QED
    BY <2>2, <2>3
<1>7. ASSUME NEW t \in Task, ControlStep(t)
      PROVE  WInv'
  BY <1>7, WaitingKept DEF WaitStep, WaitingStep
<1>8. CASE UNCHANGED vars
  BY <1>8, WaitingKept DEF WaitingStep, vars
<1> QED
  BY <1>1, <1>2, <1>3, <1>4, <1>5, <1>6, <1>7, <1>8 DEF Next, ObjectStep, CallStep

-----------------------------------------------------------------------------
(* Who begins to wait.                                                     *)

\* u does not begin to wait: if it waits after the step, it waited before, in
\* the same call, and keeps the signal it may have.
Quiet(u) ==
    pc'[u] = "wait" =>
        /\ pc[u] = "wait" /\ target'[u] = target[u]
        /\ signaled[u] => signaled'[u]
        /\ state'[u] = "BLOCKED" => state[u] = "BLOCKED"

\* Nothing moves.
LEMMA StillQuiet ==
    ASSUME NEW u \in Task, UNCHANGED waitingVars
    PROVE  Quiet(u)
BY DEF waitingVars, callVars, tcbVars, Quiet

\* Waking tasks begins no wait,
LEMMA WakeAllQuiet ==
    ASSUME WInv, NEW u \in Task, NEW hits, NEW enders, WakeAll(hits, enders),
           \/ enders = {} /\ UNCHANGED callVars
           \/ \E t \in Task : Executing(t) /\ enders = {t} /\ Return(t)
    PROVE  Quiet(u)
BY Basics DEF WakeAll, Return, callVars, Quiet

\* A wake begins no wait.
LEMMA WakesQuiet ==
    ASSUME WInv, NEW u \in Task, NEW s \in WaitList,
           WakeOne(s) \/ \E t \in Task : FinishWaking(t, s)
    PROVE  Quiet(u)
<1>1. CASE WakeOne(s)
  <2>1. /\ state'[u] = IF u \in Waking(s) THEN "READY" ELSE state[u]
        /\ signaled'[u] = (u \in Waking(s) \/ signaled[u])
        /\ pc'[u] = pc[u] /\ target'[u] = target[u]
    BY <1>1 DEF WakeOne, Wakes, callVars
  <2> QED
    BY <2>1, Basics DEF Quiet
<1>2. ASSUME NEW t \in Task, FinishWaking(t, s)
      PROVE  Quiet(u)
  <2>1. /\ state'[u] = IF u \in Waking(s) THEN "READY" ELSE state[u]
        /\ u # t => signaled'[u] = (u \in Waking(s) \/ signaled[u]) /\ pc'[u] = pc[u]
        /\ target'[u] = target[u]
        /\ pc'[t] = "out"
    BY <1>2, Basics DEF FinishWaking, Wakes, Return
  <2> QED
    BY <2>1, Basics DEF Quiet
<1> QED
  BY <1>1, <1>2

\* neither does a call that ends or tries again,
LEMMA EndQuiet ==
    ASSUME WInv, NEW u \in Task, NEW t \in Task, Finish(t) \/ Resume(t) \/ TimedOut(t)
    PROVE  Quiet(u)
<1>1. CASE Finish(t) \/ TimedOut(t)
  <2>1. /\ UNCHANGED <<state, target>> /\ signaled' = [signaled EXCEPT ![t] = FALSE]
        /\ pc' = [pc EXCEPT ![t] = "out"]
    BY <1>1 DEF Finish, WaitEnd, TimedOut, Return
  <2> QED
    BY <2>1, Basics DEF Quiet
<1>2. CASE Resume(t)
  <2>1. /\ UNCHANGED <<state, signaled, target>>
        /\ pc' = [pc EXCEPT ![t] = "try"] \/ pc' = [pc EXCEPT ![t] = "expired"]
    BY <1>2 DEF Resume, tcbVars
  <2> QED
    BY <2>1, Basics DEF Quiet
<1> QED
  BY <1>1, <1>2

\* nor a call that has just been made,
LEMMA CallQuiet ==
    ASSUME WInv, NEW u \in Task, NEW t \in Task, NEW s, NEW limit, Call(t, s, limit)
    PROVE  Quiet(u) /\ (pc'[u] = "wait" => u # t)
BY Basics DEF Call, tcbVars, Quiet

\* nor another task that does,
LEMMA BeginQuiet ==
    ASSUME WInv, NEW u \in Task, NEW t \in Task, WaitBegin(t), u # t
    PROVE  Quiet(u)
BY Basics DEF WaitBegin, Quiet

\* nor a notification,
LEMMA NotifyQuiet ==
    ASSUME WInv, NEW u \in Task, NEW t \in Task, NotifyGive(t) \/ NotifyWaitStep(t)
    PROVE  Quiet(u)
<1> USE Basics DEF Quiet
<1>1. CASE NotifyGive(t)
  BY <1>1 DEF NotifyGive, WakeSleeper, callVars
<1>2. ASSUME NEW limit \in Timeout, NotifyCall(t, limit)
      PROVE  Quiet(u)
  BY <1>2 DEF NotifyCall, tcbVars
<1>3. CASE NotifyTake(t) \/ NotifyFail(t)
  BY <1>3 DEF NotifyTake, NotifyFail, Return, tcbVars
<1>4. CASE NotifyBlock(t)
  BY <1>4 DEF NotifyBlock
<1>5. CASE NotifyResume(t)
  BY <1>5 DEF NotifyResume, tcbVars
<1> QED
  BY <1>1, <1>2, <1>3, <1>4, <1>5 DEF NotifyWaitStep

\* nor timeouts, task control and the scheduler.
LEMMA ControlQuiet ==
    ASSUME WInv, NEW u \in Task, NEW t \in Task, ControlStep(t)
    PROVE  Quiet(u)
<1> USE Basics DEF Quiet
<1>1. CASE Expire(t) \/ Dispatch(t) \/ SwitchOut(t)
  BY <1>1 DEF Expire, Dispatch, SwitchOut, callVars
<1>2. CASE Start(t)
  BY <1>2 DEF Start, callVars
<1>3. CASE Pause(t) \/ Delete(t)
  BY <1>3 DEF Pause, Delete, Return, callVars
<1>4. ASSUME NEW p \in Prio, Create(t, p) \/ Reprioritize(t, p)
      PROVE  Quiet(u)
  BY <1>4 DEF Create, Reprioritize, callVars
<1> QED
  BY <1>1, <1>2, <1>3, <1>4 DEF ControlStep

\* The calls of interrupt handlers on a message buffer begin none.
LEMMA MsgQuiet ==
    ASSUME WInv, NEW u \in Task, NEW m \in MsgId, MsgStep(m)
    PROVE  Quiet(u)
<1>1. ASSUME NEW n \in Length, IsrMsgReceive(m, n)
      PROVE  Quiet(u)
  <2>1. (\E hits : WakeAll(hits, {})) /\ UNCHANGED callVars
    BY <1>1 DEF IsrMsgReceive
  <2> QED
    BY <2>1, WakeAllQuiet
<1>2. ASSUME NEW x \in Message, IsrMsgSend(m, x)
      PROVE  Quiet(u)
  BY <1>2, OwnLists, WakesQuiet DEF IsrMsgSend
<1> QED
  BY <1>1, <1>2, StillQuiet DEF MsgStep, MsgInitDynamic, MsgCleanup

\* A task's own call on one begins that task's wait alone, and then for it.
LEMMA MsgCallQuiet ==
    ASSUME WInv, NEW u \in Task, NEW t \in Task, MsgCallStep(t), ~Quiet(u)
    PROVE  u = t /\ \E m \in MsgId : MsgSendBlock(t, m) \/ MsgReceiveBlock(t, m)
<1>1. PICK m \in MsgId : MsgCallOn(t, m)
  BY DEF MsgCallStep, MsgCallOn
<1>2. ~ (MsgReceiveOk(t, m) \/ MsgReceiveTooSmall(t, m))
  BY WakeAllQuiet DEF MsgReceiveOk, MsgReceiveTooSmall, MsgReceiving, Trying
<1>3. ASSUME NEW x \in Message, MsgSendOk(t, m, x)
      PROVE  FALSE
  BY <1>3, WakesQuiet, OwnLists DEF MsgSendOk
<1>4. ~ (MsgSendFail(t, m) \/ MsgReceiveFail(t, m) \/ MsgResume(t, m))
  BY EndQuiet DEF MsgSendFail, MsgReceiveFail, MsgResume
<1>5. ASSUME NEW s, NEW limit, NEW n, MsgCall(t, s, limit, n)
      PROVE  FALSE
  BY <1>5, CallQuiet DEF MsgCall
<1>6. MsgSendBlock(t, m) \/ MsgReceiveBlock(t, m)
  BY <1>1, <1>2, <1>3, <1>4, <1>5 DEF MsgCallOn
<1>7. u = t
  BY <1>6, BeginQuiet DEF MsgSendBlock, MsgReceiveBlock
<1> QED
  BY <1>6, <1>7

-----------------------------------------------------------------------------
(* Event flags.                                                            *)

EventInv == EventTypeOK /\ NoSatisfiedWaiter /\ DeliveryFits

\* More bits satisfy what fewer did, and a delivery satisfies its wait.
LEMMA Matches ==
    ASSUME NEW r \in Request
    PROVE  /\ \A a, b : a \subseteq b /\ Satisfied(r, a) => Satisfied(r, b)
           /\ \A a : /\ Match(r, a) \subseteq Bit
                     /\ Match(r, Match(r, a)) = Match(r, a)
<1>1. r.bits \subseteq Bit /\ r.all \in BOOLEAN
  BY EventAssumption
<1>2. ASSUME NEW a, NEW b, a \subseteq b, Satisfied(r, a)
      PROVE  Satisfied(r, b)
  BY <1>1, <1>2 DEF Satisfied, Match
<1>3. ASSUME NEW a
      PROVE  Match(r, a) \subseteq Bit /\ Match(r, Match(r, a)) = Match(r, a)
  BY <1>1 DEF Match
<1> QED
  BY <1>2, <1>3

\* A step after which u waits at an event in the same call and with the same
\* delivery as before, or waits there anew.
LEMMA EventFrame ==
    ASSUME WInv, WInv', EventInv, EventTypeOK',
           \A e \in EventId : flags'[e] \subseteq flags[e],
           \A u \in Task : pc'[u] = "wait" /\ target'[u] \in EventId =>
              /\ request'[u] = request[u]
              /\ \/ Quiet(u) /\ (result'[u] = result[u] \/ result'[u] = {})
                 \/ result'[u] = {} /\ ~Satisfied(request[u], flags[target'[u]])
    PROVE  EventInv'
<1>1. ASSUME NEW e \in EventId, NEW u \in Task, u \in Members(waiters'[e])
      PROVE  ~Satisfied(request'[u], flags'[e])
  <2>1. state'[u] = "BLOCKED" /\ pc'[u] = "wait" /\ target'[u] = e
    BY <1>1, OwnLists DEF WInv, WaitersExact
  <2>2. request'[u] = request[u] /\ request[u] \in Request /\ flags'[e] \subseteq flags[e]
    BY <2>1 DEF EventInv, EventTypeOK
  <2>3. ~Satisfied(request[u], flags[e])
    <3>1. CASE Quiet(u)
      <4>1. u \in Members(waiters[e])
        BY <2>1, <3>1, OwnLists, Basics DEF Quiet
      <4> QED
        BY <4>1 DEF EventInv, NoSatisfiedWaiter
    <3> QED
      BY <2>1, <3>1
  <2> QED
    BY <2>2, <2>3, Matches
<1>2. NoSatisfiedWaiter'
  <2>1. \A e \in EventId : Members(waiters'[e]) \subseteq Task
    BY OwnLists, MembersOfSeq DEF WInv, WaitingTypeOK
  <2> QED
    BY <1>1, <2>1 DEF NoSatisfiedWaiter
<1>3. ASSUME NEW u \in Task, pc'[u] = "wait", target'[u] \in EventId, result'[u] # {}
      PROVE  signaled'[u] /\ result'[u] = Match(request'[u], result'[u])
  <2>1. Quiet(u) /\ result'[u] = result[u] /\ request'[u] = request[u]
    BY <1>3
  <2>2. pc[u] = "wait" /\ target[u] \in EventId /\ (signaled[u] => signaled'[u])
    BY <1>3, <2>1 DEF Quiet
  <2> QED
    BY <1>3, <2>1, <2>2 DEF EventInv, DeliveryFits
<1> QED
  BY <1>2, <1>3 DEF EventInv, DeliveryFits

\* os_event_set_bits wakes every waiter it satisfies.
LEMMA SetBitsStep ==
    ASSUME WInv, WInv', EventInv, NEW e \in EventId, NEW bits \in SUBSET Bit, SetBits(e, bits)
    PROVE  EventInv'
<1> DEFINE now == flags[e] \cup bits
           hits == Matching(e, now)
<1>1. /\ flags \in [EventId -> SUBSET Bit] /\ request \in [Task -> Request]
      /\ result \in [Task -> SUBSET Bit]
  BY DEF EventInv, EventTypeOK
<1>2. /\ hits \subseteq Task
      /\ \A t \in hits : pc[t] = "wait" /\ target[t] = e
      /\ \A t \in Members(waiters[e]) : t \notin hits => ~Satisfied(request[t], now)
  BY MatchingWait DEF Matching
<1>3. /\ WakeAll(hits, {}) /\ UNCHANGED <<pc, target, request>>
      /\ result' = [t \in Task |-> IF t \in hits THEN Match(request[t], now) ELSE result[t]]
      /\ \A f \in EventId : flags'[f] \subseteq flags[f] \/ f = e
      /\ flags'[e] \subseteq now
      /\ flags' \in [EventId -> SUBSET Bit]
  BY <1>1 DEF SetBits, callVars
<1> HIDE DEF hits, now
<1>4. EventTypeOK'
  BY <1>1, <1>3, Matches DEF EventTypeOK
<1>5. \A s \in WaitList : Members(waiters'[s]) = Members(waiters[s]) \ hits
  BY <1>3, WakeAllLeaves
<1>6. NoSatisfiedWaiter'
  <2>1. SUFFICES ASSUME NEW f \in EventId, NEW t \in Members(waiters'[f])
                 PROVE  ~Satisfied(request[t], flags'[f])
    BY <1>3 DEF NoSatisfiedWaiter
  <2>2. t \in Members(waiters[f]) /\ t \notin hits /\ t \in Task /\ request[t] \in Request
    BY <1>1, <1>5, <2>1, OwnLists, Basics
  <2>3. CASE f = e
    BY <1>2, <1>3, <2>2, <2>3, Matches
  <2>4. CASE f # e
    <3>1. ~Satisfied(request[t], flags[f])
      BY <2>2 DEF EventInv, NoSatisfiedWaiter
    <3> QED
      BY <1>3, <2>2, <2>4, <3>1, Matches
  <2> QED
    BY <2>3, <2>4
<1>7. DeliveryFits'
  <2>1. SUFFICES ASSUME NEW t \in Task, pc'[t] = "wait", target'[t] \in EventId, result'[t] # {}
                 PROVE  signaled'[t] /\ result'[t] = Match(request'[t], result'[t])
    BY DEF DeliveryFits
  <2>2. signaled'[t] = (t \in hits \/ signaled[t]) /\ request[t] \in Request
    BY <1>1, <1>3 DEF WakeAll
  <2>3. CASE t \in hits
    BY <1>3, <2>2, <2>3, Matches
  <2>4. CASE t \notin hits
    BY <1>3, <2>1, <2>2, <2>4 DEF EventInv, DeliveryFits
  <2> QED
    BY <2>3, <2>4
<1> QED
  BY <1>4, <1>6, <1>7 DEF EventInv

\* Each step keeps the flags apart from who waits for them.
LEMMA EventKept ==
    ASSUME WInv, WInv', EventInv, [Next]_vars
    PROVE  EventInv'
<1>1. /\ flags \in [EventId -> SUBSET Bit] /\ request \in [Task -> Request]
      /\ result \in [Task -> SUBSET Bit]
  BY DEF EventInv, EventTypeOK
<1>2. ASSUME UNCHANGED <<flags, request>>, EventTypeOK',
             \A u \in Task : result'[u] = result[u] \/ result'[u] = {},
             \A u \in Task : Quiet(u) \/ target'[u] \notin EventId
      PROVE  EventInv'
  <2>1. \A f \in EventId : flags'[f] \subseteq flags[f]
    BY <1>2
  <2>2. \A u \in Task : pc'[u] = "wait" /\ target'[u] \in EventId =>
           request'[u] = request[u] /\ Quiet(u) /\ (result'[u] = result[u] \/ result'[u] = {})
    BY <1>2
  <2> QED
    BY <1>2, <2>1, <2>2, EventFrame
<1>3. ASSUME NEW e \in EventId, EventStep(e)
      PROVE  EventInv'
  <2>1. ASSUME NEW bits \in SUBSET Bit, SetBits(e, bits)
        PROVE  EventInv'
    BY <2>1, SetBitsStep
  <2>2. CASE \/ EventInit(e)
             \/ \E bits \in SUBSET Bit : ClearBits(e, bits)
             \/ \E r \in Request : IsrWaitOk(e, r)
    <3>1. UNCHANGED waitingVars /\ UNCHANGED <<request, result>>
      BY <2>2 DEF EventInit, ClearBits, IsrWaitOk
    <3>2. flags' \in [EventId -> SUBSET Bit] /\ \A f \in EventId : flags'[f] \subseteq flags[f]
      BY <1>1, <2>2 DEF EventInit, ClearBits, IsrWaitOk
    <3>3. \A u \in Task : Quiet(u)
      BY <3>1, StillQuiet
    <3>4. EventTypeOK'
      BY <1>1, <3>1, <3>2 DEF EventTypeOK
    <3>5. \A u \in Task : request'[u] = request[u] /\ result'[u] = result[u]
      BY <3>1
    <3> QED
      BY <3>2, <3>3, <3>4, <3>5, EventFrame
  <2> QED
    BY <1>3, <2>1, <2>2 DEF EventStep
<1>4. ASSUME NEW t \in Task, NEW e \in EventId, NEW limit \in Timeout, NEW r \in Request,
             EventCall(t, e, limit, r)
      PROVE  EventInv'
  <2>1. /\ UNCHANGED <<flags, result>> /\ request' = [request EXCEPT ![t] = r]
        /\ pc' = [pc EXCEPT ![t] = "try"]
    BY <1>4 DEF EventCall, Call
  <2>2. EventTypeOK'
    BY <1>1, <2>1 DEF EventTypeOK
  <2>3. \A u \in Task : Quiet(u) /\ (pc'[u] = "wait" => u # t)
    BY <1>4, CallQuiet DEF EventCall
  <2>4. \A u \in Task : pc'[u] = "wait" /\ target'[u] \in EventId =>
           request'[u] = request[u] /\ Quiet(u) /\ result'[u] = result[u]
    BY <1>1, <2>1, <2>3
  <2>5. \A f \in EventId : flags'[f] \subseteq flags[f]
    BY <2>1
  <2> QED
    BY <2>2, <2>4, <2>5, EventFrame
<1>5. ASSUME NEW t \in Task, NEW e \in EventId, WaitOk(t, e)
      PROVE  EventInv'
  <2>1. /\ UNCHANGED <<request, result>> /\ flags' \in [EventId -> SUBSET Bit]
        /\ \A f \in EventId : flags'[f] \subseteq flags[f]
    BY <1>1, <1>5 DEF WaitOk
  <2>2. \A u \in Task : Quiet(u)
    BY <1>5, EndQuiet DEF WaitOk
  <2>3. EventTypeOK'
    BY <1>1, <2>1 DEF EventTypeOK
  <2>4. \A u \in Task : request'[u] = request[u] /\ result'[u] = result[u]
    BY <2>1
  <2> QED
    BY <2>1, <2>2, <2>3, <2>4, EventFrame
<1>6. ASSUME NEW t \in Task, NEW e \in EventId, WaitBlock(t, e)
      PROVE  EventInv'
  <2>1. /\ UNCHANGED <<flags, request, target>> /\ result' = [result EXCEPT ![t] = {}]
        /\ target[t] = e /\ ~Satisfied(request[t], flags[e])
    BY <1>6 DEF WaitBlock, WaitBegin, Matched
  <2>2. \A u \in Task : u # t => Quiet(u)
    BY <1>6, BeginQuiet DEF WaitBlock
  <2>3. EventTypeOK'
    BY <1>1, <2>1 DEF EventTypeOK
  <2>4. \A u \in Task : pc'[u] = "wait" /\ target'[u] \in EventId =>
              /\ request'[u] = request[u]
              /\ \/ Quiet(u) /\ (result'[u] = result[u] \/ result'[u] = {})
                 \/ result'[u] = {} /\ ~Satisfied(request[u], flags[target'[u]])
    BY <1>1, <2>1, <2>2
  <2>5. \A f \in EventId : flags'[f] \subseteq flags[f]
    BY <2>1
  <2> QED
    BY <2>3, <2>4, <2>5, EventFrame
<1>7. ASSUME NEW t \in Task, NEW e \in EventId,
             WaitFail(t, e) \/ WaitDelivered(t, e) \/ WaitResume(t, e) \/ WaitTimedOut(t, e)
      PROVE  EventInv'
  <2>1. UNCHANGED <<flags, request, result>> /\ (Finish(t) \/ Resume(t))
    BY <1>7 DEF WaitFail, WaitDelivered, WaitResume, WaitTimedOut, TimedOut, eventVars
  <2>2. EventTypeOK'
    BY <1>1, <2>1 DEF EventTypeOK
  <2>3. \A u \in Task : Quiet(u)
    BY <2>1, EndQuiet
  <2> QED
    BY <1>2, <2>1, <2>2, <2>3
<1>8. ASSUME UNCHANGED eventVars, \A u \in Task : ~Quiet(u) => target'[u] \notin EventId
      PROVE  EventInv'
  <2>1. EventTypeOK'
    BY <1>1, <1>8 DEF EventTypeOK, eventVars
  <2> QED
    BY <1>2, <1>8, <2>1 DEF eventVars
<1>9. ASSUME NEW t \in Task, ControlStep(t), Forgets(t)
      PROVE  EventInv'
  <2>1. UNCHANGED <<flags, request>> /\ (result' = result \/ result' = [result EXCEPT ![t] = {}])
    BY <1>9 DEF Forgets, EventForgets
  <2>2. EventTypeOK' /\ \A u \in Task : result'[u] = result[u] \/ result'[u] = {}
    BY <1>1, <2>1 DEF EventTypeOK
  <2>3. \A u \in Task : Quiet(u)
    BY <1>9, ControlQuiet
  <2> QED
    BY <1>2, <2>1, <2>2, <2>3
<1>10. ASSUME NEW t \in Task, MsgCallStep(t), UNCHANGED eventVars
       PROVE  EventInv'
  <2>1. ASSUME NEW u \in Task, ~Quiet(u)
        PROVE  target'[u] \notin EventId
    <3>1. PICK m \in MsgId : MsgSendBlock(t, m) \/ MsgReceiveBlock(t, m)
      BY <1>10, <2>1, MsgCallQuiet
    <3>2. u = t /\ target'[t] = target[t] /\ target[t] \in {Senders(m), Receivers(m)}
      BY <1>10, <2>1, <3>1, MsgCallQuiet
      DEF MsgSendBlock, MsgReceiveBlock, MsgSending, MsgReceiving, WaitBegin
    <3> QED
      BY <3>2, OwnLists
  <2> QED
    BY <1>8, <1>10, <2>1
<1>11. ASSUME NEW m \in MsgId, MsgStep(m), UNCHANGED eventVars
       PROVE  EventInv'
  BY <1>8, <1>11, MsgQuiet
<1>12. ASSUME NEW t \in Task, NotifyGive(t) \/ NotifyWaitStep(t), UNCHANGED eventVars
       PROVE  EventInv'
  BY <1>8, <1>12, NotifyQuiet
<1>13. CASE UNCHANGED vars
  <2>1. \A u \in Task : Quiet(u)
    BY <1>13, StillQuiet DEF vars
  <2> QED
    BY <1>8, <1>13, <2>1 DEF vars
<1> QED
  BY <1>3, <1>4, <1>5, <1>6, <1>7, <1>9, <1>10, <1>11, <1>12, <1>13
  DEF Next, ObjectStep, CallStep, EventWaitStep

-----------------------------------------------------------------------------
(* Task notifications.                                                     *)

\* Why the mailbox is exact: a task is marked as waiting only within
\* os_notify_wait, and is BLOCKED only where a call left it.
NotifyInv ==
    /\ NotifyTypeOK
    /\ \A t \in Task :
          /\ state[t] = "BLOCKED" /\ pc[t] = "asleep" => waiting[t] /\ ~pending[t]
          /\ waiting[t] => pc[t] \in {"ask", "asleep"}
          /\ state[t] = "BLOCKED" => pc[t] \in {"wait", "asleep"}

\* What the steps that are not of os_notify_wait do to a task inside of it.
Elsewhere(u) ==
    /\ pc[u] \in {"ask", "asleep"} \/ pc'[u] \in {"ask", "asleep"} => pc'[u] = pc[u]
    /\ state'[u] = "BLOCKED" => (state[u] = "BLOCKED" /\ pc'[u] = pc[u]) \/ pc'[u] = "wait"

\* A step that begins no wait for a notification keeps what is said of them.
LEMMA NotifyFrame ==
    ASSUME WInv, NotifyInv, UNCHANGED notifyVars, \A u \in Task : Elsewhere(u)
    PROVE  NotifyInv'
BY Basics DEF NotifyInv, NotifyTypeOK, notifyVars, Elsewhere

\* Nothing moves.
LEMMA StillElsewhere ==
    ASSUME NEW u \in Task, UNCHANGED waitingVars
    PROVE  Elsewhere(u)
BY DEF waitingVars, callVars, tcbVars, Elsewhere

\* A broadcast begins no wait for a notification.
LEMMA WakeAllElsewhere ==
    ASSUME WInv, NEW u \in Task, NEW hits, NEW enders, WakeAll(hits, enders),
           \/ enders = {} /\ UNCHANGED callVars
           \/ \E t \in Task : Trying(t) /\ enders = {t} /\ Return(t)
    PROVE  Elsewhere(u)
BY Basics DEF WakeAll, Return, callVars, Trying, Executing, Elsewhere

\* A wake begins no wait for a notification.
LEMMA WakesElsewhere ==
    ASSUME WInv, NEW u \in Task, NEW s \in WaitList,
           WakeOne(s) \/ \E t \in Task : Trying(t) /\ FinishWaking(t, s)
    PROVE  Elsewhere(u)
<1>1. CASE WakeOne(s)
  <2>1. /\ state'[u] = IF u \in Waking(s) THEN "READY" ELSE state[u]
        /\ pc'[u] = pc[u]
    BY <1>1 DEF WakeOne, Wakes, callVars
  <2> QED
    BY <2>1 DEF Elsewhere
<1>2. ASSUME NEW t \in Task, Trying(t), FinishWaking(t, s)
      PROVE  Elsewhere(u)
  <2>1. /\ state'[u] = IF u \in Waking(s) THEN "READY" ELSE state[u]
        /\ u # t => pc'[u] = pc[u]
        /\ pc'[t] = "out" /\ pc[t] = "try" /\ state[t] = "RUNNING"
    BY <1>2, Basics DEF FinishWaking, Wakes, Return, Trying, Executing
  <2> QED
    BY <2>1 DEF Elsewhere
<1> QED
  BY <1>1, <1>2

\* Nor does a step of a call, but for those of os_notify_wait.
LEMMA CallElsewhere ==
    ASSUME WInv, NEW u \in Task, NEW t \in Task,
           \/ Trying(t) /\ (Finish(t) \/ WaitBegin(t))
           \/ Executing(t) /\ pc[t] = "wait" /\ Finish(t)
           \/ Resume(t) \/ TimedOut(t)
           \/ \E s, limit : Call(t, s, limit)
    PROVE  Elsewhere(u)
<1> USE Basics DEF Elsewhere
<1>1. CASE Executing(t) /\ pc[t] \in {"try", "wait", "expired"} /\ Finish(t)
  BY <1>1 DEF Finish, Return, Executing
<1>2. CASE Trying(t) /\ WaitBegin(t)
  BY <1>2 DEF WaitBegin, Trying
<1>3. CASE Resume(t)
  <2>1. /\ pc[t] = "wait" /\ UNCHANGED state
        /\ pc' = [pc EXCEPT ![t] = "try"] \/ pc' = [pc EXCEPT ![t] = "expired"]
        /\ state[t] = "RUNNING"
    BY <1>3 DEF Resume, tcbVars, Executing
  <2> QED
    BY <2>1
<1>4. ASSUME NEW s, NEW limit, Call(t, s, limit)
      PROVE  Elsewhere(u)
  BY <1>4 DEF Call, Executing, tcbVars
<1> QED
  BY <1>1, <1>2, <1>3, <1>4 DEF Trying, TimedOut

\* os_notify_give and os_notify_wait.
LEMMA NotifyStepKept ==
    ASSUME WInv, NotifyInv, NEW t \in Task, NotifyGive(t) \/ NotifyWaitStep(t)
    PROVE  NotifyInv'
<1> USE Basics DEF NotifyInv, NotifyTypeOK
<1>1. CASE NotifyGive(t)
  BY <1>1 DEF NotifyGive, WakeSleeper, callVars
<1>2. ASSUME NEW limit \in Timeout, NotifyCall(t, limit)
      PROVE  NotifyInv'
  BY <1>2 DEF NotifyCall, tcbVars, notifyVars, Executing
<1>3. CASE NotifyTake(t) \/ NotifyFail(t)
  <2>1. /\ state[t] = "RUNNING" /\ pc' = [pc EXCEPT ![t] = "out"] /\ UNCHANGED state
        /\ waiting' = [waiting EXCEPT ![t] = FALSE]
        /\ pending' = pending \/ pending' = [pending EXCEPT ![t] = FALSE]
    BY <1>3 DEF NotifyTake, NotifyFail, Return, tcbVars, Asking, Executing
  <2>2. pending' \in [Task -> BOOLEAN] /\ \A u \in Task : u # t => pending'[u] = pending[u]
    BY <2>1
  <2>3. /\ waiting' \in [Task -> BOOLEAN]
        /\ \A u \in Task : u # t => waiting'[u] = waiting[u] /\ pc'[u] = pc[u]
        /\ ~waiting'[t] /\ state'[t] # "BLOCKED" /\ UNCHANGED state
    BY <2>1
  <2>4. ASSUME NEW u \in Task
        PROVE  /\ state'[u] = "BLOCKED" /\ pc'[u] = "asleep" => waiting'[u] /\ ~pending'[u]
               /\ waiting'[u] => pc'[u] \in {"ask", "asleep"}
               /\ state'[u] = "BLOCKED" => pc'[u] \in {"wait", "asleep"}
    <3>1. CASE u = t
      BY <2>3, <3>1
    <3>2. CASE u # t
      <4>1. state'[u] = state[u] /\ waiting'[u] = waiting[u] /\ pc'[u] = pc[u]
            /\ pending'[u] = pending[u]
        BY <2>2, <2>3, <3>2
      <4> QED
        BY <4>1
    <3> QED
      BY <3>1, <3>2
  <2> QED
    BY <2>2, <2>3, <2>4
<1>4. CASE NotifyBlock(t)
  BY <1>4 DEF NotifyBlock
<1>5. CASE NotifyResume(t)
  BY <1>5 DEF NotifyResume, tcbVars, notifyVars, Executing
<1> QED
  BY <1>1, <1>2, <1>3, <1>4, <1>5 DEF NotifyWaitStep

\* Timeouts, task control and the scheduler; a deleted task forgets its mailbox.
LEMMA ControlNotifyKept ==
    ASSUME WInv, NotifyInv, NEW t \in Task, ControlStep(t), NotifyForgets(t)
    PROVE  NotifyInv'
<1>1. /\ \A u \in Task : u # t => pc'[u] = pc[u]
      /\ \A u \in Task : state'[u] = "BLOCKED" => state[u] = "BLOCKED"
      /\ pc'[t] = pc[t] \/ (pc'[t] = "out" /\ state'[t] = "INACTIVE")
      /\ state'[t] = "BLOCKED" => pc'[t] = pc[t]
  <2> USE Basics
  <2>1. CASE Expire(t) \/ Dispatch(t) \/ SwitchOut(t)
    BY <2>1 DEF Expire, Dispatch, SwitchOut, callVars
  <2>2. CASE Start(t)
    BY <2>2 DEF Start, callVars
  <2>3. CASE Pause(t)
    BY <2>3 DEF Pause, callVars
  <2>4. CASE Delete(t)
    BY <2>4 DEF Delete, Return
  <2>5. ASSUME NEW p \in Prio, Create(t, p) \/ Reprioritize(t, p)
        PROVE  UNCHANGED pc /\ \A u \in Task : state'[u] = "BLOCKED" => state[u] = "BLOCKED"
    BY <2>5 DEF Create, Reprioritize, callVars
  <2> QED
    BY <2>1, <2>2, <2>3, <2>4, <2>5 DEF ControlStep
<1>2. /\ pending' \in [Task -> BOOLEAN] /\ waiting' \in [Task -> BOOLEAN]
      /\ \A u \in Task : u # t => pending'[u] = pending[u] /\ waiting'[u] = waiting[u]
      /\ (state'[t] = "INACTIVE" /\ ~waiting'[t])
         \/ (pending'[t] = pending[t] /\ waiting'[t] = waiting[t] /\ state'[t] # "INACTIVE")
  BY DEF NotifyInv, NotifyTypeOK, NotifyForgets, notifyVars
<1> QED
  BY <1>1, <1>2 DEF NotifyInv, NotifyTypeOK

\* Each step keeps the notifications.
LEMMA NotifyKept ==
    ASSUME WInv, NotifyInv, [Next]_vars
    PROVE  NotifyInv'
<1>1. ASSUME NEW e \in EventId, EventStep(e), UNCHANGED notifyVars
      PROVE  NotifyInv'
  <2>1. ASSUME NEW u \in Task
        PROVE  Elsewhere(u)
    <3>1. UNCHANGED waitingVars \/ \E hits : WakeAll(hits, {}) /\ UNCHANGED callVars
      BY <1>1 DEF EventStep, EventInit, SetBits, ClearBits, IsrWaitOk
    <3> QED
      BY <3>1, StillElsewhere, WakeAllElsewhere
  <2> QED
    BY <1>1, <2>1, NotifyFrame
<1>2. ASSUME NEW m \in MsgId, MsgStep(m), UNCHANGED notifyVars
      PROVE  NotifyInv'
  <2>1. ASSUME NEW u \in Task
        PROVE  Elsewhere(u)
    <3>1. \/ UNCHANGED waitingVars
          \/ \E hits : WakeAll(hits, {}) /\ UNCHANGED callVars
          \/ WakeOne(Receivers(m))
      BY <1>2 DEF MsgStep, IsrMsgSend, IsrMsgReceive, MsgInitDynamic, MsgCleanup
    <3> QED
      BY <3>1, StillElsewhere, WakeAllElsewhere, WakesElsewhere, OwnLists
  <2> QED
    BY <1>2, <2>1, NotifyFrame
<1>3. ASSUME NEW t \in Task, EventWaitStep(t), UNCHANGED notifyVars
      PROVE  NotifyInv'
  <2>1. ASSUME NEW u \in Task
        PROVE  Elsewhere(u)
    BY <1>3, CallElsewhere
    DEF EventWaitStep, EventCall, WaitOk, WaitFail, WaitBlock, WaitDelivered, WaitResume,
        WaitTimedOut
  <2> QED
    BY <1>3, <2>1, NotifyFrame
<1>4. ASSUME NEW t \in Task, MsgCallStep(t), UNCHANGED notifyVars
      PROVE  NotifyInv'
  <2>1. PICK m \in MsgId : MsgCallOn(t, m)
    BY <1>4 DEF MsgCallStep, MsgCallOn
  <2>2. ASSUME NEW u \in Task
        PROVE  Elsewhere(u)
    <3>1. CASE MsgReceiveOk(t, m) \/ MsgReceiveTooSmall(t, m)
      BY <3>1, WakeAllElsewhere DEF MsgReceiveOk, MsgReceiveTooSmall, MsgReceiving
    <3>2. ASSUME NEW x \in Message, MsgSendOk(t, m, x)
          PROVE  Elsewhere(u)
      BY <3>2, WakesElsewhere, OwnLists DEF MsgSendOk, MsgSending
    <3>3. CASE ~ (MsgReceiveOk(t, m) \/ MsgReceiveTooSmall(t, m)
                  \/ \E x \in Message : MsgSendOk(t, m, x))
      BY <2>1, <3>3, CallElsewhere
      DEF MsgCallOn, MsgCall, MsgSendFail, MsgSendBlock, MsgReceiveFail, MsgReceiveBlock, MsgResume,
          MsgSending, MsgReceiving
    <3> QED
      BY <3>1, <3>2, <3>3
  <2> QED
    BY <1>4, <2>2, NotifyFrame
<1>5. ASSUME NEW t \in Task, NotifyGive(t) \/ NotifyWaitStep(t)
      PROVE  NotifyInv'
  BY <1>5, NotifyStepKept
<1>6. ASSUME NEW t \in Task, ControlStep(t), Forgets(t)
      PROVE  NotifyInv'
  BY <1>6, ControlNotifyKept DEF Forgets
<1>7. CASE UNCHANGED vars
  BY <1>7, StillElsewhere, NotifyFrame DEF vars
<1> QED
  BY <1>1, <1>2, <1>3, <1>4, <1>5, <1>6, <1>7 DEF Next, ObjectStep, CallStep

-----------------------------------------------------------------------------
(* Message buffers.                                                        *)

MsgInv ==
    /\ RingInv
    /\ size \in [Task -> Length]
    /\ NoFittingSender
    /\ MessagesMatched

\* What the proofs about message buffers use of the types.
LEMMA MsgTypes ==
    ASSUME MsgInv
    PROVE  /\ RingTypeOK /\ size \in [Task -> Length]
           /\ \A m \in MsgId : /\ messages[m] \in Nat /\ used[m] \in Nat /\ room[m] \in Nat
                               /\ Covered(Receivers(m), messages[m])
           /\ \A n \in Length : Space(n) \in Nat
<1>1. RingTypeOK /\ size \in [Task -> Length]
  BY DEF MsgInv, RingInv
<1>2. ASSUME NEW m \in MsgId
      PROVE  /\ messages[m] \in Nat /\ used[m] \in Nat /\ room[m] \in Nat
             /\ Covered(Receivers(m), messages[m])
  <2>1. messages[m] \in Nat /\ used[m] \in 0 .. MsgCapacity /\ room[m] \in {0, MsgCapacity}
        /\ MsgCapacity \in Nat
    BY <1>1, Lengths DEF RingTypeOK
  <2> QED
    BY <2>1 DEF MsgInv, MessagesMatched, Covered
<1>3. \A n \in Length : Space(n) \in Nat
  BY Lengths DEF Space
<1> QED
  BY <1>1, <1>2, <1>3

\* A step that frees no room in m and lets no fitting sender wait for some.
LEMMA FittingFrame ==
    ASSUME WInv, WInv', MsgInv, RingTypeOK', NEW m \in MsgId,
           room'[m] - used'[m] <= room[m] - used[m],
           \A u \in Task : pc'[u] = "wait" /\ target'[u] = Senders(m) =>
              size'[u] = size[u] /\ (Quiet(u) \/ Space(size[u]) > Free(m))
    PROVE  \A u \in Members(waiters'[Senders(m)]) : Space(size'[u]) > room'[m] - used'[m]
<1>1. SUFFICES ASSUME NEW u \in Members(waiters'[Senders(m)])
               PROVE  Space(size'[u]) > room'[m] - used'[m]
  OBVIOUS
<1>2. u \in Task
  BY OwnLists, MembersOfSeq DEF WInv, WaitingTypeOK
<1>3. state'[u] = "BLOCKED" /\ pc'[u] = "wait" /\ target'[u] = Senders(m)
  BY <1>1, <1>2, OwnLists DEF WInv, WaitersExact
<1>4. size'[u] = size[u] /\ Space(size[u]) > Free(m)
  <2>1. CASE Quiet(u)
    <3>1. u \in Members(waiters[Senders(m)])
      BY <1>2, <1>3, <2>1, OwnLists, Basics DEF Quiet
    <3> QED
      BY <1>2, <1>3, <3>1 DEF MsgInv, NoFittingSender
  <2> QED
    BY <1>2, <1>3, <2>1
<1>5. /\ room'[m] - used'[m] \in Int /\ room[m] - used[m] \in Int
      /\ Space(size[u]) \in Int
  <2>1. /\ used[m] \in Nat /\ room[m] \in Nat /\ size[u] \in Length /\ Space(size[u]) \in Nat
    BY <1>2, MsgTypes
  <2>2. used'[m] \in 0 .. MsgCapacity /\ room'[m] \in {0, MsgCapacity} /\ MsgCapacity \in Nat
    BY Lengths DEF RingTypeOK
  <2> QED
    BY <2>1, <2>2
<1> QED
  BY <1>4, <1>5 DEF Free

\* Waking tasks of hits, and perhaps ending the wait of a task that was woken
\* for s: then a message less is owed, or the head of s has been woken too.
LEMMA CreditAll ==
    ASSUME WInv, WInv', NEW s \in WaitList, NEW c \in Int, NEW d \in Int, Covered(s, c),
           NEW hits \in SUBSET Task, NEW enders, WakeAll(hits, enders),
           \A t \in hits : state[t] = "BLOCKED" /\ pc[t] = "wait",
           \/ enders = {} /\ UNCHANGED callVars
           \/ \E t \in Task : Executing(t) /\ enders = {t} /\ Return(t),
           \/ d <= c /\ \A t \in enders : wokenFrom[t] # s
           \/ d <= c - 1
           \/ d <= c /\ Waking(s) \subseteq hits
    PROVE  waiters'[s] # << >> => d <= Cardinality(Woken(s)')
<1>1. SUFFICES ASSUME waiters'[s] # << >>
               PROVE  d <= Cardinality(Woken(s)')
  OBVIOUS
<1>2. /\ target' = target
      /\ \A t \in Task : t \notin enders => pc'[t] = pc[t]
      /\ \A t \in enders : state[t] = "RUNNING"
  <2>1. CASE enders = {} /\ UNCHANGED callVars
    BY <2>1 DEF callVars
  <2>2. ASSUME NEW t \in Task, Executing(t), enders = {t}, Return(t)
        PROVE  /\ target' = target /\ state[t] = "RUNNING"
               /\ \A u \in Task : u # t => pc'[u] = pc[u]
    BY <2>2, Basics DEF Return, Executing
  <2> QED
    BY <2>1, <2>2
<1>3. \A t \in Task : state'[t] = "BLOCKED" => state[t] = "BLOCKED" /\ t \notin hits
  BY DEF WakeAll
<1>4. waiters[s] # << >>
  <2>1. \A t \in Task : state'[t] = "BLOCKED" =>
           state[t] = "BLOCKED" /\ pc'[t] = pc[t] /\ target'[t] = target[t]
    BY <1>2, <1>3
  <2> QED
    BY <1>1, <2>1, NobodyJoins
<1>5. c <= Cardinality(Woken(s)) /\ IsFiniteSet(Woken(s)) /\ Cardinality(Woken(s)) \in Nat
      /\ Woken(s) \subseteq Task
  BY <1>4, WokenFinite DEF Covered
<1>6. IsFiniteSet(Woken(s)') /\ Cardinality(Woken(s)') \in Nat
  <2>1. Woken(s)' \subseteq Task
    BY DEF Woken
  <2> QED
    BY <2>1, WaitingAssumption, FS_Subset, FS_CardinalityType
<1>7. \A t \in Task : t \in Woken(s)' <=> (t \in hits /\ target[t] = s)
                                           \/ (t \notin hits /\ t \notin enders /\ t \in Woken(s))
  <2>1. \A t \in Task : wokenFrom'[t] = IF t \in hits THEN target[t]
                                        ELSE IF t \in enders THEN NoList ELSE wokenFrom[t]
    BY DEF WakeAll
  <2>2. NoList # s
    BY WaitingAssumption
  <2> QED
    BY <2>1, <2>2 DEF Woken
<1>8. \A t \in hits : t \notin Woken(s)
  BY WokenFacts DEF Woken
<1>9. \A t \in Task : t \in Woken(s) /\ t \notin enders => t \in Woken(s)'
  BY <1>7, <1>8
<1>10. CASE d <= c /\ \A t \in enders : wokenFrom[t] # s
  <2>1. Woken(s) \subseteq Woken(s)'
    BY <1>5, <1>9, <1>10 DEF Woken
  <2>2. Cardinality(Woken(s)) <= Cardinality(Woken(s)')
    BY <1>6, <2>1, FS_Subset
  <2> QED
    BY <1>5, <1>6, <1>10, <2>2
<1>11. CASE enders = {} /\ (d <= c - 1 \/ d <= c)
  <2>1. d <= c
    BY <1>11
  <2> QED
    BY <1>10, <1>11, <2>1
<1>12. ASSUME NEW t \in Task, enders = {t}, d <= c - 1
       PROVE  d <= Cardinality(Woken(s)')
  <2>1. Woken(s) \ {t} \subseteq Woken(s)'
    BY <1>5, <1>9, <1>12
  <2>2. /\ Cardinality(Woken(s) \ {t}) <= Cardinality(Woken(s)')
        /\ Cardinality(Woken(s) \ {t}) \in Nat
    BY <1>5, <1>6, <2>1, FS_Subset, FS_CardinalityType
  <2>3. Cardinality(Woken(s)) <= Cardinality(Woken(s) \ {t}) + 1
    BY <1>5, Counting
  <2> QED
    BY <1>5, <1>6, <1>12, <2>2, <2>3
<1>13. ASSUME NEW t \in Task, enders = {t}, d <= c, Waking(s) \subseteq hits
       PROVE  d <= Cardinality(Woken(s)')
  <2>1. PICK h \in Task : Waking(s) = {h} /\ h \in Members(waiters[s])
    BY <1>4, WakingMember
  <2>2. h \in hits /\ target[h] = s /\ h \notin Woken(s)
    BY <1>8, <1>13, <2>1, Basics
  <2>3. (Woken(s) \ {t}) \cup {h} \subseteq Woken(s)'
    BY <1>5, <1>7, <1>9, <1>13, <2>2
  <2>4. /\ IsFiniteSet(Woken(s) \ {t}) /\ Cardinality(Woken(s) \ {t}) \in Nat
        /\ h \notin Woken(s) \ {t}
    BY <1>5, <2>2, FS_Subset, FS_CardinalityType
  <2>5. Cardinality((Woken(s) \ {t}) \cup {h}) = Cardinality(Woken(s) \ {t}) + 1
    BY <2>4, Counting
  <2>6. Cardinality(Woken(s)) <= Cardinality(Woken(s) \ {t}) + 1
    BY <1>5, Counting
  <2>7. Cardinality((Woken(s) \ {t}) \cup {h}) <= Cardinality(Woken(s)')
    BY <1>6, <2>3, FS_Subset
  <2> QED
    BY <1>5, <1>6, <1>13, <2>4, <2>5, <2>6, <2>7
<1> QED
  BY <1>10, <1>11, <1>12, <1>13

\* Every step of the system is one of the ring alone, or leaves the rings.
LEMMA RingSteps ==
    ASSUME [Next]_vars
    PROVE  [RingNext]_ringVars
<1>1. ASSUME NEW m \in MsgId, MsgStep(m)
      PROVE  [RingNext]_ringVars
  <2>1. \/ \E x \in Message : Space(Len(x)) <= Free(m) /\ Put(m, x)
        \/ messages[m] > 0 /\ Get(m)
        \/ Bind(m) \/ Unbind(m)
        \/ UNCHANGED ringVars
    BY <1>1 DEF MsgStep, IsrMsgSend, IsrMsgReceive, MsgInitDynamic, MsgCleanup
  <2> QED
    BY <2>1 DEF RingNext
<1>2. ASSUME NEW t \in Task, MsgCallStep(t)
      PROVE  [RingNext]_ringVars
  <2>1. PICK m \in MsgId : MsgCallOn(t, m)
    BY <1>2 DEF MsgCallStep, MsgCallOn
  <2>2. \/ \E x \in Message : Space(Len(x)) <= Free(m) /\ Put(m, x)
        \/ messages[m] > 0 /\ Get(m)
        \/ UNCHANGED ringVars
    BY <2>1
    DEF MsgCallOn, MsgCall, MsgSendOk, MsgSendFail, MsgSendBlock, MsgReceiveOk,
        MsgReceiveTooSmall, MsgReceiveFail, MsgReceiveBlock, MsgResume, msgVars
  <2> QED
    BY <2>2 DEF RingNext
<1>3. CASE UNCHANGED msgVars
  BY <1>3 DEF msgVars
<1> QED
  BY <1>1, <1>2, <1>3 DEF Next, ObjectStep, CallStep, Forgets, vars

\* The rings stay what they are.
LEMMA RingKept ==
    ASSUME RingInv, [Next]_vars
    PROVE  RingInv'
<1>1. CASE UNCHANGED ringVars
  BY <1>1 DEF RingInv, RingTypeOK, ringVars, byteVars, Holds
<1> QED
  BY <1>1, RingSteps, RingStep

\* The lengths that tasks ask for are lengths.
LEMMA SizeKept ==
    ASSUME size \in [Task -> Length], [Next]_vars
    PROVE  size' \in [Task -> Length]
<1>1. ASSUME NEW m \in MsgId, MsgStep(m)
      PROVE  UNCHANGED size
  BY <1>1 DEF MsgStep, IsrMsgSend, IsrMsgReceive, MsgInitDynamic, MsgCleanup
<1>2. ASSUME NEW t \in Task, MsgCallStep(t)
      PROVE  UNCHANGED size \/ \E n \in Length : size' = [size EXCEPT ![t] = n]
  BY <1>2
  DEF MsgCallStep, MsgCall, MsgSendOk, MsgSendFail, MsgSendBlock, MsgReceiveOk, MsgReceiveTooSmall,
      MsgReceiveFail, MsgReceiveBlock, MsgResume, msgVars
<1>3. UNCHANGED size \/ \E t \in Task, n \in Length : size' = [size EXCEPT ![t] = n]
  BY <1>1, <1>2 DEF Next, ObjectStep, CallStep, Forgets, vars, msgVars
<1> QED
  BY <1>3

\* A receive wakes every sender that fits in the room it makes.
LEMMA GetWakes ==
    ASSUME WInv, WInv', MsgInv, RingTypeOK', NEW m \in MsgId, Get(m), UNCHANGED size,
           NEW enders, NEW more, WakeAll(FittingSenders(m) \cup more, enders)
    PROVE  NoFittingSender'
<1>1. ASSUME NEW q \in MsgId, NEW u \in Members(waiters'[Senders(q)])
      PROVE  Space(size[u]) > room'[q] - used'[q]
  <2>1. /\ Senders(q) \in WaitList
        /\ u \in Members(waiters[Senders(q)]) /\ u \notin FittingSenders(m) /\ u \in Task
    <3>1. Senders(q) \in WaitList
      BY OwnLists
    <3> QED
      BY <1>1, <3>1, WakeAllLeaves, Basics
  <2>2. UNCHANGED room /\ \A p \in MsgId : p # m => used'[p] = used[p]
    BY MsgTypes DEF Get, RingTypeOK
  <2>3. CASE q = m
    <3>1. /\ Space(size[u]) \in Int /\ room[m] - used'[m] \in Int
          /\ ~(Space(size[u]) <= room[m] - used'[m])
      <4>1. used'[m] \in 0 .. MsgCapacity /\ MsgCapacity \in Nat
        BY Lengths DEF RingTypeOK
      <4>2. room[m] \in Nat /\ size[u] \in Length /\ Space(size[u]) \in Nat
        BY <2>1, MsgTypes
      <4>3. ~(Space(size[u]) <= room[m] - used'[m])
        BY <2>1, <2>3 DEF FittingSenders
      <4> QED
        BY <4>1, <4>2, <4>3
    <3> QED
      BY <2>2, <2>3, <3>1
  <2>4. CASE q # m
    BY <2>1, <2>2, <2>4 DEF MsgInv, NoFittingSender, Free
  <2> QED
    BY <2>3, <2>4
<1> QED
  BY <1>1 DEF NoFittingSender, Free

\* A ring that is set up or torn down has no sender waiting.
LEMMA ClearFits ==
    ASSUME WInv, MsgInv, NEW m \in MsgId, MsgInitDynamic(m) \/ MsgCleanup(m)
    PROVE  NoFittingSender'
<1>1. /\ waiters[Senders(m)] = << >> /\ UNCHANGED <<waiters, size>>
      /\ \A q \in MsgId : q # m => room'[q] = room[q] /\ used'[q] = used[q]
  BY MsgTypes
  DEF MsgInitDynamic, MsgCleanup, MsgUnwaited, Bind, Unbind, Emptied, RingTypeOK, waitingVars
<1>2. Members(waiters[Senders(m)]) = {}
  BY <1>1, OwnLists, MembersOfSeq DEF WInv, WaitingTypeOK
<1> QED
  BY <1>1, <1>2 DEF MsgInv, NoFittingSender, Free

\* Each step keeps a sender whose message fits from being left waiting.
LEMMA FittingKept ==
    ASSUME WInv, WInv', MsgInv, RingTypeOK', [Next]_vars
    PROVE  NoFittingSender'
<1>1. ASSUME \A m \in MsgId : room'[m] - used'[m] <= room[m] - used[m],
             \A u \in Task, m \in MsgId : pc'[u] = "wait" /\ target'[u] = Senders(m) =>
                size'[u] = size[u] /\ (Quiet(u) \/ Space(size[u]) > Free(m))
      PROVE  NoFittingSender'
  <2>1. ASSUME NEW m \in MsgId
        PROVE  \A u \in Members(waiters'[Senders(m)]) : Space(size'[u]) > room'[m] - used'[m]
    BY <1>1, FittingFrame
  <2> QED
    BY <2>1 DEF NoFittingSender, Free
<1>2. \A m \in MsgId : used[m] \in Nat /\ room[m] \in Nat
  BY MsgTypes
<1>3. ASSUME UNCHANGED ringVars
      PROVE  \A m \in MsgId : room'[m] - used'[m] <= room[m] - used[m]
  BY <1>2, <1>3 DEF ringVars, byteVars
<1>4. ASSUME NEW m \in MsgId, NEW x \in Message, Put(m, x)
      PROVE  \A q \in MsgId : room'[q] - used'[q] <= room[q] - used[q]
  <2>1. UNCHANGED room /\ used' = [used EXCEPT ![m] = @ + Space(Len(x))]
    BY <1>4 DEF Put
  <2>2. Space(Len(x)) \in Nat
    BY MessageBytes
  <2>3. used \in [MsgId -> 0 .. MsgCapacity]
    BY MsgTypes DEF RingTypeOK
  <2> QED
    BY <1>2, <2>1, <2>2, <2>3
<1>5. ASSUME UNCHANGED size, \A u \in Task : Quiet(u),
             \A m \in MsgId : room'[m] - used'[m] <= room[m] - used[m]
      PROVE  NoFittingSender'
  BY <1>1, <1>5
<1>6. ASSUME NEW m \in MsgId, MsgStep(m)
      PROVE  NoFittingSender'
  <2>1. \A u \in Task : Quiet(u)
    BY <1>6, MsgQuiet
  <2>2. ASSUME NEW x \in Message, IsrMsgSend(m, x)
        PROVE  NoFittingSender'
    BY <1>4, <1>5, <2>1, <2>2 DEF IsrMsgSend
  <2>3. ASSUME NEW n \in Length, IsrMsgReceive(m, n)
        PROVE  NoFittingSender'
    <3>1. CASE UNCHANGED ringVars
      BY <1>3, <1>5, <2>1, <2>3, <3>1 DEF IsrMsgReceive
    <3>2. CASE Get(m) /\ WakeAll(FittingSenders(m) \cup NextReceiver(m), {})
      BY <2>3, <3>2, GetWakes DEF IsrMsgReceive
    <3> QED
      BY <2>3, <3>1, <3>2 DEF IsrMsgReceive
  <2> QED
    BY <1>6, <2>2, <2>3, ClearFits DEF MsgStep
<1>7. ASSUME NEW t \in Task, MsgCallStep(t)
      PROVE  NoFittingSender'
  <2>1. PICK m \in MsgId : MsgCallOn(t, m)
    BY <1>7 DEF MsgCallStep, MsgCallOn
  <2>2. ASSUME NEW s, NEW limit, NEW n, MsgCall(t, s, limit, n)
        PROVE  NoFittingSender'
    <3>1. \A u \in Task : Quiet(u) /\ (pc'[u] = "wait" => size'[u] = size[u])
      BY <2>2, CallQuiet, MsgTypes DEF MsgCall
    <3>2. UNCHANGED ringVars
      BY <2>2 DEF MsgCall
    <3> QED
      BY <1>1, <1>3, <3>1, <3>2
  <2>3. ASSUME NEW x \in Message, MsgSendOk(t, m, x)
        PROVE  NoFittingSender'
    <3>1. \A u \in Task : Quiet(u)
      BY <2>3, OwnLists, WakesQuiet DEF MsgSendOk
    <3> QED
      BY <1>4, <1>5, <2>3, <3>1 DEF MsgSendOk
  <2>4. CASE MsgSendFail(t, m) \/ MsgReceiveFail(t, m) \/ MsgResume(t, m)
    <3>1. \A u \in Task : Quiet(u)
      BY <2>4, EndQuiet DEF MsgSendFail, MsgReceiveFail, MsgResume
    <3>2. UNCHANGED msgVars
      BY <2>4 DEF MsgSendFail, MsgReceiveFail, MsgResume
    <3> QED
      BY <1>3, <1>5, <3>1, <3>2 DEF msgVars
  <2>5. CASE MsgSendBlock(t, m)
    <3>1. /\ UNCHANGED msgVars /\ UNCHANGED target
          /\ target[t] = Senders(m) /\ Space(size[t]) > Free(m)
      BY <2>5 DEF MsgSendBlock, MsgSending, WaitBegin
    <3>2. \A u \in Task : u # t => Quiet(u)
      BY <2>5, BeginQuiet DEF MsgSendBlock
    <3>3. \A u \in Task, q \in MsgId : pc'[u] = "wait" /\ target'[u] = Senders(q) =>
                size'[u] = size[u] /\ (Quiet(u) \/ Space(size[u]) > Free(q))
      BY <3>1, <3>2, OwnLists DEF msgVars
    <3> QED
      BY <1>1, <1>3, <3>1, <3>3 DEF msgVars
  <2>6. CASE MsgReceiveBlock(t, m)
    <3>1. /\ UNCHANGED msgVars /\ UNCHANGED target
          /\ target[t] = Receivers(m)
      BY <2>6 DEF MsgReceiveBlock, MsgReceiving, WaitBegin
    <3>2. \A u \in Task : u # t => Quiet(u)
      BY <2>6, BeginQuiet DEF MsgReceiveBlock
    <3>3. \A u \in Task, q \in MsgId : pc'[u] = "wait" /\ target'[u] = Senders(q) =>
                size'[u] = size[u] /\ (Quiet(u) \/ Space(size[u]) > Free(q))
      BY <3>1, <3>2, OwnLists DEF msgVars
    <3> QED
      BY <1>1, <1>3, <3>1, <3>3 DEF msgVars
  <2>7. CASE MsgReceiveOk(t, m)
    BY <2>7, GetWakes DEF MsgReceiveOk
  <2>8. CASE MsgReceiveTooSmall(t, m)
    <3>1. \A u \in Task : Quiet(u)
      BY <2>8, WakeAllQuiet DEF MsgReceiveTooSmall, MsgReceiving, Trying
    <3>2. UNCHANGED msgVars
      BY <2>8 DEF MsgReceiveTooSmall
    <3> QED
      BY <1>3, <1>5, <3>1, <3>2 DEF msgVars
  <2> QED
    BY <2>1, <2>2, <2>3, <2>4, <2>5, <2>6, <2>7, <2>8 DEF MsgCallOn
<1>8. ASSUME UNCHANGED msgVars,
             \A u \in Task : ~Quiet(u) => \A m \in MsgId : target'[u] # Senders(m)
      PROVE  NoFittingSender'
  <2>1. UNCHANGED ringVars /\ UNCHANGED size
    BY <1>8 DEF msgVars
  <2> QED
    BY <1>1, <1>3, <1>8, <2>1
<1>9. ASSUME NEW e \in EventId, EventStep(e), UNCHANGED msgVars
      PROVE  NoFittingSender'
  <2>1. \A u \in Task : Quiet(u)
    <3>1. UNCHANGED waitingVars \/ \E hits : WakeAll(hits, {}) /\ UNCHANGED callVars
      BY <1>9 DEF EventStep, EventInit, SetBits, ClearBits, IsrWaitOk
    <3> QED
      BY <3>1, StillQuiet, WakeAllQuiet
  <2> QED
    BY <1>8, <1>9, <2>1
<1>10. ASSUME NEW t \in Task, EventWaitStep(t), UNCHANGED msgVars
       PROVE  NoFittingSender'
  <2>1. ASSUME NEW u \in Task, ~Quiet(u)
        PROVE  \A m \in MsgId : target'[u] # Senders(m)
    <3>1. PICK e \in EventId : WaitBlock(t, e)
      BY <1>10, <2>1, CallQuiet, EndQuiet
      DEF EventWaitStep, EventCall, WaitOk, WaitFail, WaitDelivered, WaitResume, WaitTimedOut
    <3>2. u = t /\ target'[t] = e
      BY <2>1, <3>1, BeginQuiet DEF WaitBlock, WaitBegin
    <3> QED
      BY <3>2, OwnLists
  <2> QED
    BY <1>8, <1>10, <2>1
<1>11. ASSUME NEW t \in Task, NotifyGive(t) \/ NotifyWaitStep(t), UNCHANGED msgVars
       PROVE  NoFittingSender'
  BY <1>8, <1>11, NotifyQuiet
<1>12. ASSUME NEW t \in Task, ControlStep(t), UNCHANGED msgVars
       PROVE  NoFittingSender'
  BY <1>8, <1>12, ControlQuiet
<1>13. CASE UNCHANGED vars
  BY <1>8, <1>13, StillQuiet DEF vars
<1> QED
  BY <1>6, <1>7, <1>9, <1>10, <1>11, <1>12, <1>13
  DEF Next, ObjectStep, CallStep, Forgets

\* The messages that the receivers of a ring are owed.
LEMMA MatchedKept ==
    ASSUME WInv, WInv', MsgInv, RingTypeOK', [Next]_vars
    PROVE  MessagesMatched'
<1>1. SUFFICES ASSUME NEW n \in MsgId
               PROVE  waiters'[Receivers(n)] # << >> =>
                         messages'[n] <= Cardinality(Woken(Receivers(n))')
  BY DEF MessagesMatched, Receivers
<1> DEFINE s == Receivers(n)
           c == messages[n]
           d == messages'[n]
           Goal == waiters'[s] # << >> => d <= Cardinality(Woken(s)')
<1>2. /\ s \in WaitList /\ s \notin EventId /\ c \in Int /\ d \in Int /\ Covered(s, c)
      /\ \A m \in MsgId : s # Senders(m) /\ (s = Receivers(m) <=> m = n)
  BY OwnLists, MsgTypes DEF RingTypeOK
<1>3. ASSUME UNCHANGED ringVars \/ UNCHANGED msgVars
      PROVE  d = c
  BY <1>3 DEF msgVars, ringVars, byteVars
<1>4. ASSUME NEW m \in MsgId, NEW x \in Message, Put(m, x)
      PROVE  d = IF m = n THEN c + 1 ELSE c
  BY <1>4, MsgTypes DEF Put, RingTypeOK
<1>5. ASSUME NEW m \in MsgId, Get(m)
      PROVE  d = IF m = n THEN c - 1 ELSE c
  BY <1>5, MsgTypes DEF Get, RingTypeOK
<1>6. ASSUME UNCHANGED <<wokenFrom, waiters>>, waiters[s] # << >> => d <= c
      PROVE  Goal
  BY <1>2, <1>6, CreditQuiet
<1> HIDE DEF Goal, s, d, c
<1>7. ASSUME NEW m \in MsgId, MsgStep(m)
      PROVE  Goal
  <2>1. ASSUME NEW x \in Message, IsrMsgSend(m, x)
        PROVE  Goal
    <3>1. WakeOne(Receivers(m)) /\ Receivers(m) \in WaitList
      BY <2>1, OwnLists DEF IsrMsgSend
    <3>2. d = IF m = n THEN c + 1 ELSE c
      BY <1>4, <2>1 DEF IsrMsgSend
    <3>3. (s = Receivers(m) => d <= c + 1) /\ (s # Receivers(m) => d <= c)
      BY <1>2, <3>2
    <3> QED
      BY <1>2, <3>1, <3>3, CreditWoken DEF Goal
  <2>2. ASSUME NEW l \in Length, IsrMsgReceive(m, l)
        PROVE  Goal
    <3>1. PICK hits \in SUBSET Task : /\ \A t \in hits : state[t] = "BLOCKED" /\ pc[t] = "wait"
                                      /\ WakeAll(hits, {})
      BY <2>2, HitsWait DEF IsrMsgReceive
    <3>2. d <= c
      BY <1>2, <1>3, <1>5, <2>2 DEF IsrMsgReceive
    <3>3. UNCHANGED callVars
      BY <2>2 DEF IsrMsgReceive
    <3>4. \/ d <= c /\ \A t \in {} : wokenFrom[t] # s
          \/ d <= c - 1
          \/ d <= c /\ Waking(s) \subseteq hits
      BY <3>2
    <3> QED
      BY <1>2, <3>1, <3>3, <3>4, CreditAll DEF Goal
  <2>3. CASE MsgInitDynamic(m) \/ MsgCleanup(m)
    <3>1. UNCHANGED <<wokenFrom, waiters>> /\ waiters[Receivers(m)] = << >>
      BY <2>3 DEF MsgInitDynamic, MsgCleanup, MsgUnwaited, waitingVars, tcbVars
    <3>2. m # n => d = c
      BY <2>3, MsgTypes DEF MsgInitDynamic, MsgCleanup, Bind, Unbind, Emptied, RingTypeOK, c, d
    <3>3. waiters[s] # << >> => d <= c
      BY <1>2, <3>1, <3>2
    <3> QED
      BY <1>6, <3>1, <3>3
  <2> QED
    BY <1>7, <2>1, <2>2, <2>3 DEF MsgStep
<1>8. ASSUME NEW t \in Task, MsgCallStep(t)
      PROVE  Goal
  <2>1. PICK m \in MsgId : MsgCallOn(t, m)
    BY <1>8 DEF MsgCallStep, MsgCallOn
  <2>2. ASSUME NEW r \in {Senders(m), Receivers(m)}, NEW limit \in Timeout, NEW l,
               MsgCall(t, r, limit, l)
        PROVE  Goal
    <3>1. UNCHANGED <<wokenFrom, waiters>> /\ d <= c
      BY <1>2, <1>3, <2>2 DEF MsgCall, Call, tcbVars
    <3> QED
      BY <1>6, <3>1
  <2>3. ASSUME NEW x \in Message, MsgSendOk(t, m, x)
        PROVE  Goal
    <3>1. /\ Trying(t) /\ target[t] = Senders(m) /\ FinishWaking(t, Receivers(m))
          /\ Receivers(m) \in WaitList /\ target[t] # Receivers(m) /\ s # target[t]
      BY <1>2, <2>3, OwnLists DEF MsgSendOk, MsgSending
    <3>2. d = IF m = n THEN c + 1 ELSE c
      BY <1>4, <2>3 DEF MsgSendOk
    <3>3. (s = Receivers(m) => d <= c + 1) /\ (s # Receivers(m) => d <= c)
      BY <1>2, <3>2
    <3> QED
      BY <1>2, <3>1, <3>3, CreditExchanged DEF Goal
  <2>4. CASE MsgSendFail(t, m) \/ MsgSendBlock(t, m)
    <3>1. Trying(t) /\ (Finish(t) \/ WaitBegin(t)) /\ target[t] = Senders(m) /\ d <= c
      BY <1>2, <1>3, <2>4 DEF MsgSendFail, MsgSendBlock, MsgSending
    <3> QED
      BY <1>2, <3>1, CreditCall DEF Goal
  <2>5. CASE MsgReceiveFail(t, m) \/ MsgReceiveBlock(t, m)
    <3>1. /\ Trying(t) /\ (Finish(t) \/ WaitBegin(t)) /\ target[t] = Receivers(m) /\ d <= c
          /\ messages[m] = 0
      BY <1>2, <1>3, <2>5 DEF MsgReceiveFail, MsgReceiveBlock, MsgReceiving
    <3>2. (s = target[t] => d <= 0) /\ (s # target[t] => d <= c)
      BY <1>2, <3>1 DEF c
    <3> QED
      BY <1>2, <3>1, <3>2, CreditCall DEF Goal
  <2>6. CASE MsgReceiveOk(t, m)
    <3> DEFINE hits == FittingSenders(m) \cup NextReceiver(m)
    <3>1. /\ WakeAll(hits, {t}) /\ Executing(t) /\ Return(t) /\ target[t] = Receivers(m)
          /\ pc[t] = "try"
      BY <2>6 DEF MsgReceiveOk, MsgReceiving, Trying
    <3>2. hits \in SUBSET Task /\ \A u \in hits : state[u] = "BLOCKED" /\ pc[u] = "wait"
      BY HitsWait
    <3>3. d = IF m = n THEN c - 1 ELSE c
      BY <1>5, <2>6 DEF MsgReceiveOk
    <3> HIDE DEF hits
    <3>4. \/ d <= c /\ \A u \in {t} : wokenFrom[u] # s
          \/ d <= c - 1
      <4>1. CASE m = n
        BY <1>2, <3>3, <4>1
      <4>2. CASE m # n
        <5>1. s # target[t]
          BY <1>2, <3>1, <4>2
        <5> QED
          BY <1>2, <3>1, <3>3, <4>2, <5>1, WokenFacts
      <4> QED
        BY <4>1, <4>2
    <3> QED
      BY <1>2, <3>1, <3>2, <3>4, CreditAll DEF Goal
  <2>7. CASE MsgReceiveTooSmall(t, m)
    <3> DEFINE hits == NextReceiver(m)
    <3>1. /\ WakeAll(hits, {t}) /\ Executing(t) /\ Return(t) /\ target[t] = Receivers(m)
          /\ pc[t] = "try" /\ UNCHANGED msgVars /\ messages[m] > 0
      BY <2>7 DEF MsgReceiveTooSmall, MsgReceiving, Trying
    <3>2. hits \in SUBSET Task /\ \A u \in hits : state[u] = "BLOCKED" /\ pc[u] = "wait"
      BY HitsWait
    <3>3. d <= c
      BY <1>2, <1>3, <3>1
    <3>4. \/ d <= c /\ \A u \in {t} : wokenFrom[u] # s
          \/ d <= c /\ Waking(s) \subseteq hits
      <4>1. CASE m = n
        <5>1. messages'[m] = messages[m]
          BY <3>1 DEF msgVars, ringVars, byteVars
        <5> QED
          BY <3>1, <3>3, <4>1, <5>1 DEF NextReceiver, s
      <4>2. CASE m # n
        <5>1. s # target[t]
          BY <1>2, <3>1, <4>2
        <5> QED
          BY <1>2, <3>1, <3>3, <5>1, WokenFacts
      <4> QED
        BY <4>1, <4>2
    <3> HIDE DEF hits
    <3> QED
      BY <1>2, <3>1, <3>2, <3>4, CreditAll DEF Goal
  <2>8. CASE MsgResume(t, m)
    <3>1. (Resume(t) \/ TimedOut(t)) /\ d = c
      BY <1>3, <2>8 DEF MsgResume
    <3> QED
      BY <1>2, <3>1, CreditKept DEF Goal
  <2> QED
    BY <2>1, <2>2, <2>3, <2>4, <2>5, <2>6, <2>7, <2>8 DEF MsgCallOn
<1>9. ASSUME NEW e \in EventId, EventStep(e), UNCHANGED msgVars
      PROVE  Goal
  <2>1. ASSUME NEW bits \in SUBSET Bit, SetBits(e, bits)
        PROVE  Goal
    <3> DEFINE hits == Matching(e, flags[e] \cup bits)
    <3>1. WakeAll(hits, {}) /\ UNCHANGED callVars
      BY <2>1 DEF SetBits
    <3>2. hits \in SUBSET Task /\ \A t \in hits : state[t] = "BLOCKED" /\ pc[t] = "wait"
      BY MatchingWait
    <3> HIDE DEF hits
    <3>3. \/ d <= c /\ \A t \in {} : wokenFrom[t] # s
          \/ d <= c - 1
          \/ d <= c /\ Waking(s) \subseteq hits
      BY <1>2, <1>3, <1>9
    <3> QED
      BY <1>2, <3>1, <3>2, <3>3, CreditAll DEF Goal
  <2>2. CASE UNCHANGED waitingVars
    <3>1. UNCHANGED <<wokenFrom, waiters>> /\ d <= c
      BY <1>2, <1>3, <1>9, <2>2 DEF waitingVars, tcbVars
    <3> QED
      BY <1>6, <3>1
  <2> QED
    BY <1>9, <2>1, <2>2 DEF EventStep, EventInit, ClearBits, IsrWaitOk
<1>10. ASSUME NEW t \in Task, EventWaitStep(t), UNCHANGED msgVars
       PROVE  Goal
  <2>1. d = c
    BY <1>3, <1>10
  <2>2. PICK e \in EventId :
           \/ \E limit \in Timeout, r \in Request : EventCall(t, e, limit, r)
           \/ WaitOk(t, e) \/ WaitFail(t, e) \/ WaitBlock(t, e)
           \/ WaitDelivered(t, e) \/ WaitResume(t, e) \/ WaitTimedOut(t, e)
    BY <1>10 DEF EventWaitStep
  <2>3. e # s
    BY <1>2
  <2>4. ASSUME NEW limit, NEW r, EventCall(t, e, limit, r)
        PROVE  Goal
    <3>1. UNCHANGED <<wokenFrom, waiters>> /\ d <= c
      BY <1>2, <2>1, <2>4 DEF EventCall, Call, tcbVars
    <3> QED
      BY <1>6, <3>1
  <2>5. CASE WaitOk(t, e) \/ WaitFail(t, e) \/ WaitBlock(t, e)
    <3>1. Trying(t) /\ (Finish(t) \/ WaitBegin(t)) /\ target[t] = e /\ d <= c
      BY <1>2, <2>1, <2>5 DEF WaitOk, WaitFail, WaitBlock
    <3> QED
      BY <1>2, <2>3, <3>1, CreditCall DEF Goal
  <2>6. CASE WaitDelivered(t, e)
    <3>1. Finish(t) /\ target[t] = e /\ d <= c
      BY <1>2, <2>1, <2>6 DEF WaitDelivered
    <3>2. \A u \in Task : wokenFrom'[u] = s <=> u # t /\ wokenFrom[u] = s
      BY <1>2, <3>1, Basics, WaitingAssumption DEF Finish, WaitEnd
    <3>3. (waiters'[s] # << >> => waiters[s] # << >>) /\ s # target[t]
      BY <2>3, <3>1 DEF Finish
    <3> QED
      BY <1>2, <3>1, <3>2, <3>3, CreditSpent DEF Goal
  <2>7. CASE WaitResume(t, e) \/ WaitTimedOut(t, e)
    <3>1. Resume(t) \/ TimedOut(t)
      BY <2>7 DEF WaitResume, WaitTimedOut
    <3> QED
      BY <1>2, <2>1, <3>1, CreditKept DEF Goal
  <2> QED
    BY <2>2, <2>4, <2>5, <2>6, <2>7
<1>11. ASSUME NEW t \in Task, NotifyGive(t), UNCHANGED msgVars
       PROVE  Goal
  <2>1. UNCHANGED wokenFrom /\ d <= c
    BY <1>2, <1>3, <1>11 DEF NotifyGive
  <2>2. \A u \in Task : state'[u] = "BLOCKED" =>
           state[u] = "BLOCKED" /\ pc'[u] = pc[u] /\ target'[u] = target[u]
    BY <1>11 DEF NotifyGive, callVars
  <2>3. waiters'[s] # << >> => waiters[s] # << >>
    BY <1>2, <2>2, NobodyJoins
  <2>4. Woken(s)' = Woken(s)
    BY <2>1 DEF Woken
  <2> QED
    BY <1>2, <2>1, <2>3, <2>4, CreditStays DEF Goal
<1>12. ASSUME NEW t \in Task, NotifyWaitStep(t), UNCHANGED msgVars
       PROVE  Goal
  <2>1. UNCHANGED <<wokenFrom, waiters>>
    BY <1>12 DEF NotifyWaitStep, NotifyCall, NotifyTake, NotifyFail, NotifyBlock, NotifyResume,
                 tcbVars
  <2> QED
    BY <1>2, <1>3, <1>6, <1>12, <2>1
<1>13. ASSUME NEW t \in Task, ControlStep(t), UNCHANGED msgVars
       PROVE  Goal
  <2>1. d = c /\ WaitStep(t)
    BY <1>3, <1>13 DEF WaitStep
  <2> QED
    BY <1>2, <2>1, CreditKept DEF Goal
<1>14. ASSUME UNCHANGED vars
       PROVE  Goal
  <2>1. UNCHANGED <<wokenFrom, waiters>> /\ d <= c
    BY <1>2, <1>3, <1>14 DEF vars, waitingVars, tcbVars
  <2> QED
    BY <1>6, <2>1
<1>15. Goal
  BY <1>7, <1>8, <1>9, <1>10, <1>11, <1>12, <1>13, <1>14
  DEF Next, ObjectStep, CallStep, Forgets
<1> QED
  BY <1>15 DEF Goal, s, d

\* Each step keeps the message buffers.
LEMMA MsgKept ==
    ASSUME WInv, WInv', MsgInv, [Next]_vars
    PROVE  MsgInv'
<1>1. RingInv' /\ RingTypeOK'
  <2>1. RingInv'
    BY RingKept DEF MsgInv
  <2> QED
    BY <2>1 DEF RingInv
<1>2. size' \in [Task -> Length]
  BY SizeKept DEF MsgInv
<1>3. NoFittingSender'
  BY <1>1, FittingKept
<1>4. MessagesMatched'
  BY <1>1, MatchedKept
<1> QED
  BY <1>1, <1>2, <1>3, <1>4 DEF MsgInv

-----------------------------------------------------------------------------
(* The theorems.                                                           *)

IpcInv == WInv /\ EventInv /\ NotifyInv /\ MsgInv

\* The invariant holds at first.
LEMMA IpcStarts == Init => IpcInv
<1>1. SUFFICES ASSUME Init
               PROVE  IpcInv
  OBVIOUS
<1>2. WInv
  BY <1>1, WaitingStarts DEF Init
<1>3. \A s \in WaitList : waiters[s] = << >> /\ Members(waiters[s]) = {}
  <2>1. \A s \in WaitList : waiters[s] = << >>
    BY <1>1 DEF Init, WaitingInit
  <2> QED
    BY <1>2, <2>1, MembersOfSeq DEF WInv, WaitingTypeOK
<1>4. \A t \in Task : state[t] = "SUSPENDED" /\ pc[t] = "out"
  BY <1>1 DEF Init, WaitingInit
<1>5. EventInv
  BY <1>1, <1>3, <1>4, OwnLists
  DEF Init, EventsInit, EventInv, EventTypeOK, NoSatisfiedWaiter, DeliveryFits
<1>6. NotifyInv
  BY <1>1, <1>4 DEF Init, NotifyInit, NotifyInv, NotifyTypeOK
<1>7. MsgInv
  <2>1. RingInv
    BY <1>1, RingStart DEF Init, MsgsInit
  <2>2. size \in [Task -> Length]
    BY <1>1, MsgRingAssumption DEF Init, MsgsInit
  <2>3. NoFittingSender /\ MessagesMatched
    BY <1>3, OwnLists DEF NoFittingSender, MessagesMatched
  <2> QED
    BY <2>1, <2>2, <2>3 DEF MsgInv
<1> QED
  BY <1>2, <1>5, <1>6, <1>7 DEF IpcInv

\* Each step keeps it.
LEMMA IpcStep == IpcInv /\ [Next]_vars => IpcInv'
<1>1. SUFFICES ASSUME IpcInv, [Next]_vars
               PROVE  IpcInv'
  OBVIOUS
<1>2. WInv /\ EventInv /\ NotifyInv /\ MsgInv
  BY <1>1 DEF IpcInv
<1>3. WInv'
  BY <1>1, <1>2, MachineryStep
<1> QED
  BY <1>1, <1>2, <1>3, EventKept, NotifyKept, MsgKept DEF IpcInv

\* Every variable keeps its type, for any number of tasks, events and buffers: os_event.c,
\* os_notify.c and os_msg.c.
THEOREM IpcAlwaysTyped == Spec => []TypeOK
<1>1. IpcInv => TypeOK
  BY DEF IpcInv, WInv, EventInv, NotifyInv, MsgInv, RingInv, MsgTypeOK, TypeOK
<1> QED
  BY <1>1, IpcStarts, IpcStep, PTL DEF Spec

\* No wake-up is lost: a task does not stay blocked in os_event_wait_bits, os_notify_wait,
\* os_msg_send or os_msg_receive on what is there already.
THEOREM IpcNeverLosesWakeup == Spec => []NoLostWakeup
<1>1. IpcInv => NoLostWakeup
  BY DEF IpcInv, WInv, EventInv, NotifyInv, MsgInv, MailboxExact, NoLostWakeup
<1> QED
  BY <1>1, IpcStarts, IpcStep, PTL DEF Spec

\* What os_event_set_bits hands a waiter is what it asked for: bits of its mask, all of them if
\* it waits for all, so that os_event_wait_bits returns no other.
THEOREM IpcAlwaysDelivers == Spec => []DeliveryFits
<1>1. IpcInv => DeliveryFits
  BY DEF IpcInv, EventInv
<1> QED
  BY <1>1, IpcStarts, IpcStep, PTL DEF Spec

\* As for semaphores and queues, a task is in a waiter list of an event or a buffer exactly while
\* it is blocked there, and every list is in order of priority: os_task_wait_begin, _wait_end.
THEOREM IpcListsExact == Spec => [](WaitersExact /\ WaitersSorted)
<1>1. IpcInv => WaitersExact /\ WaitersSorted
  BY DEF IpcInv, WInv
<1> QED
  BY <1>1, IpcStarts, IpcStep, PTL DEF Spec

\* The byte ring of os_msg.c implements a queue of whole messages, in every mix of the calls:
\* each is received once, in order, byte for byte, wherever the ring wraps.
THEOREM IpcKeepsMessages == Spec => ImplementsWhole
<1>1. Init => RingInit
  BY DEF Init, MsgsInit
<1>2. [Next]_vars => [RingNext]_ringVars
  BY RingSteps
<1>3. Spec => RingSpec
  BY <1>1, <1>2, PTL DEF Spec, RingSpec
<1> QED
  BY <1>3, RingImplementsWhole

-----------------------------------------------------------------------------
(* The ring of the log: what is owed lies behind the tail.                 *)

\* The place a byte of the ring lies at, counted on past the end.
Wrap(i) == IF i < BufferSize THEN i ELSE i - BufferSize

\* The bytes between the tail and the head.
Filled ==
    IF logHead >= logTail THEN logHead - logTail ELSE BufferSize - (logTail - logHead)

\* How many of them the hook has seen.
Seen == IF logPc = "advance" THEN chunk.length ELSE 0

LogTypes ==
    /\ ring \in [Place -> LogByte]
    /\ logHead \in Place /\ logTail \in Place
    /\ dropped \in 0 .. DropModulus - 1 /\ droppedPending \in 0 .. DropModulus - 1
    /\ notice \in 0 .. DropModulus - 1 /\ reported \in 0 .. DropModulus - 1
    /\ logPc \in {"look", "output", "advance", "empty", "notice", "sleep", "asleep"}
    /\ chunk \in [from : Place, length : 0 .. BufferSize]
    /\ owedLines \in Seq(LogByte)

\* The bytes behind the tail are the ones owed, but for those the hook has seen.
Owing ==
    /\ Len(owedLines) + Seen = Filled
    /\ \A k \in 1 .. Len(owedLines) : owedLines[k] = ring[Wrap(logTail + Seen + k - 1)]

\* The chunk starts at the tail and ends before the head and the end of the buffer.
ChunkFits ==
    logPc \in {"output", "advance"} =>
       /\ chunk.from = logTail /\ chunk.length > 0
       /\ chunk.length <= Filled /\ logTail + chunk.length <= BufferSize

\* Once the ring was seen empty, what is in it starts with a whole line.
AtLineStart ==
    logPc \in {"empty", "notice", "sleep", "asleep"} /\ owedLines # <<>> => owedLines[1][2] = 1

\* A drop after the last notice leaves a line behind that keeps the task awake.
DropsSeen ==
    /\ logPc # "notice" => notice = 0
    /\ logPc = "sleep" /\ droppedPending # 0 => owedLines # <<>>
    /\ logPc = "asleep" => owedLines = <<>> /\ droppedPending = 0

LogInv == LogTypes /\ Owing /\ ChunkFits /\ AtLineStart /\ DropsSeen /\ DropsCounted

\* The sizes of the ring and of its lines.
LEMMA LogSizes ==
    /\ BufferSize \in Nat /\ LineMax \in Nat /\ Prefix \in Nat
    /\ Prefix + 3 < LineMax /\ LineMax < BufferSize
    /\ DropModulus \in Nat /\ DropModulus > 0 /\ \A body \in Bodies : body \in Nat
BY LogAssumption

\* The least of two numbers.
LEMMA MinOfTwo ==
    ASSUME NEW a \in Nat, NEW b \in Nat
    PROVE  Min({a, b}) = IF a <= b THEN a ELSE b
<1>1. CASE a <= b
  <2>1. \A y \in {a, b} : a <= y
    BY <1>1
  <2>2. \A x \in {a, b} : (\A y \in {a, b} : x <= y) => x = a
    BY <1>1
  <2> QED
    BY <1>1, <2>1, <2>2 DEF Min
<1>2. CASE ~ (a <= b)
  <2>1. \A y \in {a, b} : b <= y
    BY <1>2
  <2>2. \A x \in {a, b} : (\A y \in {a, b} : x <= y) => x = b
    BY <1>2
  <2> QED
    BY <1>2, <2>1, <2>2 DEF Min
<1> QED
  BY <1>1, <1>2

\* A line starts at its first byte, and fits an empty ring.
LEMMA LineFits ==
    ASSUME NEW c \in Colour, NEW body \in Bodies
    PROVE  LET data == Line(c, Total(body)) IN
           /\ data \in Seq(LogByte) /\ Len(data) \in 1 .. BufferSize - 1 /\ data[1][2] = 1
<1>1. /\ BufferSize \in Nat /\ LineMax \in Nat /\ Prefix \in Nat /\ body \in Nat
      /\ Prefix + 3 < LineMax /\ LineMax < BufferSize
  BY LogSizes
<1>2. Prefix + body \in Nat /\ LineMax - 3 \in Nat
  BY <1>1
<1>3. Min({Prefix + body, LineMax - 3}) =
         IF Prefix + body <= LineMax - 3 THEN Prefix + body ELSE LineMax - 3
  BY <1>2, MinOfTwo
<1>4. Total(body) \in 1 .. LineMax - 1
  BY <1>1, <1>3 DEF Total
<1> DEFINE n == Total(body)
<1> HIDE DEF n
<1>5. \A i \in 1 .. n : <<c, i>> \in LogByte
  BY <1>1, <1>4 DEF LogByte, n
<1>6. Line(c, n) \in Seq(LogByte) /\ Len(Line(c, n)) = n /\ Line(c, n)[1] = <<c, 1>>
  BY <1>1, <1>4, <1>5 DEF Line, n
<1> QED
  BY <1>1, <1>4, <1>6 DEF n

\* A remainder, where the wheel turns at most twice.
LEMMA Turns ==
    ASSUME NEW m \in Nat, m > 0, NEW n \in Nat, n < 3 * m
    PROVE  n % m = IF n < m THEN n ELSE IF n < 2 * m THEN n - m ELSE n - 2 * m
<1>1. CASE n < m
  BY <1>1, Z3
<1>2. CASE n >= m /\ n < 2 * m
  BY <1>2, Z3
<1>3. CASE n >= 2 * m
  BY <1>3, Z3
<1> QED
  BY <1>1, <1>2, <1>3

\* What os_log_put writes, byte by byte: the line behind the head, and nothing else.
LEMMA PutLineWrites ==
    ASSUME LogTypes, NEW data \in Seq(LogByte), Filled + Len(data) < BufferSize
    PROVE  /\ PutLine(data) \in [Place -> LogByte]
           /\ \A j \in Nat : j < Len(data) => PutLine(data)[Wrap(logHead + j)] = data[j + 1]
           /\ \A u \in Nat : u < Filled =>
                 PutLine(data)[Wrap(logTail + u)] = ring[Wrap(logTail + u)]
<1> DEFINE n == Len(data)
           b == PutLine(data)
           rest == BufferSize - logHead
<1>1. /\ BufferSize \in Nat /\ logHead \in Place /\ logTail \in Place /\ n \in Nat
      /\ logHead \in Nat /\ logTail \in Nat /\ logHead < BufferSize /\ logTail < BufferSize
      /\ rest \in Nat /\ rest > 0
  BY LogSizes DEF LogTypes, Place
<1>2. Min({rest, n}) = IF rest <= n THEN rest ELSE n
  BY <1>1, MinOfTwo
<1> DEFINE fore == IF rest <= n THEN rest ELSE n
<1>3. b = [i \in Place |-> IF i >= logHead /\ i < logHead + fore THEN data[i - logHead + 1]
                          ELSE IF i < n - fore THEN data[fore + i + 1]
                          ELSE ring[i]]
  BY <1>2 DEF PutLine
<1>4. Filled \in Nat /\ Filled + n < BufferSize
  BY <1>1 DEF Filled
<1>5. \A i \in 1 .. n : data[i] \in LogByte
  OBVIOUS
<1> HIDE DEF b
<1>6. b \in [Place -> LogByte]
  <2>1. ASSUME NEW i \in Place
        PROVE  (IF i >= logHead /\ i < logHead + fore THEN data[i - logHead + 1]
                ELSE IF i < n - fore THEN data[fore + i + 1]
                ELSE ring[i]) \in LogByte
    <3>1. i \in Nat /\ fore \in Nat /\ fore <= n
      BY <1>1 DEF Place
    <3> HIDE DEF fore, n
    <3>2. CASE i >= logHead /\ i < logHead + fore
      <4>1. i - logHead + 1 \in 1 .. n
        BY <1>1, <3>1, <3>2
      <4> QED
        BY <1>5, <3>2, <4>1
    <3>3. CASE ~ (i >= logHead /\ i < logHead + fore) /\ i < n - fore
      <4>1. fore + i + 1 \in 1 .. n
        BY <1>1, <3>1, <3>3
      <4> QED
        BY <1>5, <3>3, <4>1
    <3>4. CASE ~ (i >= logHead /\ i < logHead + fore) /\ ~ (i < n - fore)
      BY <3>4 DEF LogTypes
    <3> QED
      BY <3>2, <3>3, <3>4
  <2> QED
    BY <1>3, <2>1
<1> HIDE DEF n
<1>7. ASSUME NEW j \in Nat, j < n
      PROVE  b[Wrap(logHead + j)] = data[j + 1]
  <2>1. CASE logHead + j < BufferSize
    <3>1. Wrap(logHead + j) = logHead + j /\ logHead + j \in Place
      BY <1>1, <2>1 DEF Wrap, Place
    <3>2. j < fore /\ logHead + j - logHead + 1 = j + 1
      BY <1>1, <1>7, <2>1
    <3>3. logHead + j >= logHead /\ logHead + j < logHead + fore
      BY <1>1, <3>2
    <3> DEFINE i == logHead + j
    <3> HIDE DEF fore, i
    <3>4. b[i] = data[i - logHead + 1]
      BY <1>3, <3>1, <3>3 DEF i
    <3>5. i - logHead + 1 = j + 1
      BY <1>1, <1>7 DEF i
    <3>6. Wrap(logHead + j) = i
      BY <3>1 DEF i
    <3> QED
      BY <3>4, <3>5, <3>6
  <2>2. CASE ~ (logHead + j < BufferSize)
    <3> DEFINE i == logHead + j - BufferSize
    <3>1. Wrap(logHead + j) = i
      BY <1>1, <2>2 DEF Wrap
    <3>2. i \in Nat /\ i < logHead /\ fore = rest /\ i < n - fore /\ fore + i + 1 = j + 1
      BY <1>1, <1>4, <1>7, <2>2 
    <3>3. i \in Place
      BY <1>1, <3>2 DEF Place
    <3> HIDE DEF fore, i
    <3>4. ~ (i >= logHead /\ i < logHead + fore)
      BY <1>1, <3>2
    <3> QED
      BY <1>3, <3>1, <3>2, <3>3, <3>4
  <2> QED
    BY <2>1, <2>2
<1>8. ASSUME NEW u \in Nat, u < Filled
      PROVE  b[Wrap(logTail + u)] = ring[Wrap(logTail + u)]
  <2> DEFINE i == Wrap(logTail + u)
  <2>1. i \in Place
    BY <1>1, <1>4, <1>8 DEF Wrap, Place
  <2>2. ~ (i >= logHead /\ i < logHead + fore) /\ ~ (i < n - fore)
    BY <1>1, <1>4, <1>8 DEF Wrap, Filled
  <2> HIDE DEF i, fore
  <2>3. b[i] = ring[i]
    BY <1>3, <2>1, <2>2
  <2> QED
    BY <2>3 DEF i
<1> QED
  BY <1>6, <1>7, <1>8 DEF n, b

\* The ring starts empty, and nothing is owed.
LEMMA LogStarts == LogInit => LogInv
<1> SUFFICES ASSUME LogInit PROVE LogInv
  OBVIOUS
<1>1. 0 \in Place /\ <<0, 0>> \in LogByte /\ 0 \in 0 .. DropModulus - 1 /\ 0 \in 0 .. BufferSize
  BY LogSizes DEF Place, LogByte, Colour
<1>2. LogTypes
  BY <1>1 DEF LogInit, LogTypes, NoChunk
<1>3. Owing
  BY LogSizes DEF LogInit, Owing, Filled, Seen
<1>4. ChunkFits /\ AtLineStart /\ DropsSeen
  BY DEF LogInit, ChunkFits, AtLineStart, DropsSeen
<1>5. DropsCounted
  BY LogSizes, Turns DEF LogInit, DropsCounted
<1> QED
  BY <1>2, <1>3, <1>4, <1>5 DEF LogInv

\* os_log_queue: the line goes behind what is owed, or is counted.
LEMMA WriteKeeps ==
    ASSUME LogInv, NEW data \in Seq(LogByte), Len(data) \in 1 .. BufferSize - 1, data[1][2] = 1,
           LogWrite(data)
    PROVE  LogInv'
<1> DEFINE n == Len(data)
<1>1. /\ BufferSize \in Nat /\ logHead \in Nat /\ logTail \in Nat /\ Filled \in Nat
      /\ logHead < BufferSize /\ logTail < BufferSize /\ Filled < BufferSize
      /\ n \in Nat /\ n > 0 /\ n < BufferSize
  BY LogSizes DEF LogInv, LogTypes, Place, Filled
<1>2. FreeSpace = BufferSize - 1 - Filled
  BY DEF FreeSpace, Filled
<1>3. CASE FreeSpace < n
  <2>1. /\ dropped' = (dropped + 1) % DropModulus
        /\ droppedPending' = (droppedPending + 1) % DropModulus
        /\ UNCHANGED <<ring, logHead, logTail, logPc, chunk, notice, owedLines, reported>>
    BY <1>3 DEF LogWrite
  <2>2. Filled > 0
    BY <1>1, <1>2, <1>3
  <2>3. /\ DropModulus \in Nat /\ DropModulus > 0
        /\ dropped \in Nat /\ dropped < DropModulus
        /\ droppedPending \in Nat /\ droppedPending < DropModulus
        /\ notice \in Nat /\ notice < DropModulus /\ reported \in Nat /\ reported < DropModulus
    BY LogSizes DEF LogInv, LogTypes
  <2>4. /\ dropped' = IF dropped + 1 < DropModulus THEN dropped + 1 ELSE 0
        /\ droppedPending' = IF droppedPending + 1 < DropModulus THEN droppedPending + 1 ELSE 0
    BY <2>1, <2>3, Turns
  <2>5. LogTypes'
    BY <2>1, <2>3, <2>4 DEF LogInv, LogTypes
  <2>6. Owing' /\ ChunkFits' /\ AtLineStart'
    BY <2>1 DEF LogInv, Owing, ChunkFits, AtLineStart, Filled, Seen
  <2>7. logPc \in {"sleep", "asleep"} => owedLines # <<>>
    BY <2>2 DEF LogInv, Owing, Seen
  <2>8. DropsSeen'
    BY <2>1, <2>7 DEF LogInv, DropsSeen
  <2>9. DropsCounted'
    <3> DEFINE s == reported + notice + droppedPending
               t == reported + notice + droppedPending'
    <3>1. /\ s \in Nat /\ s < 3 * DropModulus /\ t \in Nat /\ t < 3 * DropModulus
          /\ t = IF droppedPending + 1 < DropModulus THEN s + 1 ELSE s + 1 - DropModulus
      BY <2>3, <2>4
    <3> HIDE DEF s, t
    <3>2. /\ s % DropModulus = IF s < DropModulus THEN s ELSE
                               IF s < 2 * DropModulus THEN s - DropModulus
                               ELSE s - 2 * DropModulus
          /\ t % DropModulus = IF t < DropModulus THEN t ELSE
                               IF t < 2 * DropModulus THEN t - DropModulus
                               ELSE t - 2 * DropModulus
      BY <2>3, <3>1, Turns
    <3>3. dropped = s % DropModulus
      BY DEF LogInv, DropsCounted, s
    <3>4. dropped' = t % DropModulus
      BY <2>3, <2>4, <3>1, <3>2, <3>3
    <3> QED
      BY <2>1, <3>4 DEF DropsCounted, t
  <2> QED
    BY <2>5, <2>6, <2>8, <2>9 DEF LogInv
<1>4. CASE ~ (FreeSpace < n)
  <2>1. /\ ring' = PutLine(data)
        /\ logHead' = (logHead + n) % BufferSize
        /\ owedLines' = owedLines \o data
        /\ logPc' = IF logPc = "asleep" THEN "look" ELSE logPc
        /\ UNCHANGED <<logTail, counters, chunk, notice, reported>>
    BY <1>4 DEF LogWrite
  <2>2. Filled + n < BufferSize
    BY <1>1, <1>2, <1>4
  <2>3. LogTypes
    BY DEF LogInv
  <2>4. /\ ring' \in [Place -> LogByte]
        /\ \A j \in Nat : j < n => ring'[Wrap(logHead + j)] = data[j + 1]
        /\ \A u \in Nat : u < Filled => ring'[Wrap(logTail + u)] = ring[Wrap(logTail + u)]
    BY <2>1, <2>2, <2>3, PutLineWrites
  <2>5. logHead' = Wrap(logHead + n)
    <3> DEFINE s == logHead + n
    <3>1. s \in Nat /\ s < 3 * BufferSize /\ s < 2 * BufferSize
      BY <1>1
    <3>2. logHead' = s % BufferSize
      BY <2>1
    <3> HIDE DEF s
    <3>3. s % BufferSize = Wrap(s)
      BY <1>1, <3>1, Turns DEF Wrap
    <3> QED
      BY <3>2, <3>3 DEF s
  <2> HIDE DEF n
  <2>6. logHead' \in Nat /\ logHead' < BufferSize /\ Filled' = Filled + n
    <3>1. logHead' = IF logHead + n < BufferSize THEN logHead + n ELSE logHead + n - BufferSize
      BY <1>1, <2>5 DEF Wrap
    <3>2. logHead' \in Nat /\ logHead' < BufferSize
      BY <1>1, <3>1
    <3>3. logTail' = logTail
      BY <2>1
    <3>4. Filled + n < BufferSize
      BY <2>2 DEF n
    <3>5. Filled' = Filled + n
      BY <1>1, <3>1, <3>3, <3>4 DEF Filled
    <3> QED
      BY <3>2, <3>5
  <2>7. owedLines' \in Seq(LogByte) /\ Len(owedLines') = Len(owedLines) + n
    BY <2>1, <2>3 DEF LogTypes, n
  <2>8. LogTypes'
    <3>1. logHead' \in Place
      BY <1>1, <2>6 DEF Place
    <3>2. logPc' \in {"look", "output", "advance", "empty", "notice", "sleep", "asleep"}
      BY <2>1, <2>3 DEF LogTypes
    <3> QED
      BY <2>1, <2>3, <2>4, <2>7, <3>1, <3>2 DEF LogTypes, counters
  <2>9. Seen' = Seen /\ Seen \in Nat /\ Len(owedLines) \in Nat /\ Len(owedLines) + Seen = Filled
    BY <2>1, <2>3 DEF LogInv, LogTypes, Owing, Seen
  <2>10. Owing'
    <3>1. ASSUME NEW k \in 1 .. Len(owedLines')
          PROVE  owedLines'[k] = ring'[Wrap(logTail + Seen + k - 1)]
      <4>1. k \in Nat /\ k > 0 /\ k <= Len(owedLines) + n
        BY <2>7, <2>9, <1>1, <3>1
      <4>2. CASE k <= Len(owedLines)
        <5>1. k \in 1 .. Len(owedLines)
          BY <2>9, <4>1, <4>2
        <5>2. owedLines'[k] = owedLines[k]
          BY <2>1, <2>3, <5>1 DEF LogTypes
        <5>3. owedLines[k] = ring[Wrap(logTail + Seen + k - 1)]
          BY <5>1 DEF LogInv, Owing
        <5> DEFINE u == Seen + k - 1
        <5>4. u \in Nat /\ u < Filled /\ logTail + Seen + k - 1 = logTail + u
          BY <1>1, <2>9, <4>1, <4>2
        <5> HIDE DEF u
        <5> QED
          BY <2>4, <5>2, <5>3, <5>4
      <4>3. CASE ~ (k <= Len(owedLines))
        <5> DEFINE j == k - Len(owedLines) - 1
        <5>1. /\ j \in Nat /\ j < n /\ k = Len(owedLines) + (j + 1)
              /\ logTail + Seen + k - 1 = logTail + Filled + j
          BY <1>1, <2>9, <4>1, <4>3
        <5> HIDE DEF j
        <5>2. owedLines'[k] = data[j + 1]
          BY <2>1, <2>3, <2>9, <5>1 DEF LogTypes, n
        <5>3. ring'[Wrap(logHead + j)] = data[j + 1]
          BY <2>4, <5>1
        <5>4. Wrap(logTail + Filled + j) = Wrap(logHead + j)
          BY <1>1, <2>2, <5>1 DEF Wrap, Filled
        <5> QED
          BY <5>1, <5>2, <5>3, <5>4
      <4> QED
        BY <4>2, <4>3
    <3>2. Len(owedLines') + Seen' = Filled'
      BY <1>1, <2>6, <2>7, <2>9
    <3>3. logTail' = logTail
      BY <2>1
    <3> QED
      BY <2>9, <3>1, <3>2, <3>3 DEF Owing
  <2>11. ChunkFits'
    BY <1>1, <2>1, <2>3, <2>6 DEF LogInv, LogTypes, ChunkFits
  <2>12. AtLineStart'
    <3>1. CASE owedLines = <<>>
      <4>1. owedLines'[1] = data[1]
        BY <1>1, <2>1, <3>1 DEF n
      <4> QED
        BY <4>1 DEF AtLineStart
    <3>2. CASE owedLines # <<>>
      <4>1. owedLines'[1] = owedLines[1]
        BY <2>1, <2>3, <3>2 DEF LogTypes
      <4> QED
        BY <2>1, <3>2, <4>1 DEF LogInv, AtLineStart
    <3> QED
      BY <3>1, <3>2
  <2>13. owedLines' # <<>>
    BY <1>1, <2>7, <2>9
  <2>14. DropsSeen'
    BY <2>1, <2>13 DEF LogInv, DropsSeen, counters
  <2>15. DropsCounted'
    BY <2>1 DEF LogInv, DropsCounted, counters
  <2> QED
    BY <2>8, <2>10, <2>11, <2>12, <2>14, <2>15 DEF LogInv
<1> QED
  BY <1>3, <1>4

\* LookAtRing: the longest run behind the tail.
LEMMA LookKeeps == LogInv /\ LookAtRing => LogInv'
<1> SUFFICES ASSUME LogInv, LookAtRing PROVE LogInv'
  OBVIOUS
<1>1. UNCHANGED <<ring, logHead, logTail, counters, notice, owedLines, reported>>
  BY DEF LookAtRing
<1>2. /\ BufferSize \in Nat /\ logHead \in Nat /\ logTail \in Nat /\ Filled \in Nat
      /\ logHead < BufferSize /\ logTail < BufferSize /\ 0 \in Place
  BY LogSizes DEF LogInv, LogTypes, Place, Filled
<1>3. logPc = "look" /\ Seen = 0 /\ Seen' = 0
  BY DEF LookAtRing, Seen
<1>4. Filled' = Filled
  BY <1>1 DEF Filled
<1>5. Owing'
  BY <1>1, <1>3, <1>4 DEF LogInv, Owing
<1>6. DropsCounted'
  BY <1>1 DEF LogInv, DropsCounted, counters
<1>7. CASE logHead # logTail
  <2> DEFINE run == (IF logHead > logTail THEN logHead ELSE BufferSize) - logTail
  <2>1. chunk' = [from |-> logTail, length |-> run] /\ logPc' = "output"
    BY <1>7 DEF LookAtRing
  <2>2. run \in 0 .. BufferSize /\ run > 0 /\ run <= Filled /\ logTail + run <= BufferSize
    BY <1>2, <1>7 DEF Filled
  <2> HIDE DEF run
  <2>3. LogTypes'
    BY <1>1, <2>1, <2>2 DEF LogInv, LogTypes, counters
  <2>4. ChunkFits'
    BY <1>1, <1>4, <2>1, <2>2 DEF ChunkFits
  <2>5. AtLineStart'
    BY <2>1 DEF AtLineStart
  <2>6. DropsSeen'
    BY <1>1, <1>3, <2>1 DEF LogInv, DropsSeen
  <2> QED
    BY <1>5, <1>6, <2>3, <2>4, <2>5, <2>6 DEF LogInv
<1>8. CASE logHead = logTail
  <2>1. chunk' = NoChunk /\ logPc' = "empty"
    BY <1>8 DEF LookAtRing
  <2>2. owedLines = <<>>
    BY <1>2, <1>3, <1>8 DEF LogInv, LogTypes, Owing, Filled
  <2>3. LogTypes'
    BY <1>1, <1>2, <2>1 DEF LogInv, LogTypes, NoChunk, counters
  <2>4. ChunkFits'
    BY <2>1 DEF ChunkFits
  <2>5. AtLineStart'
    BY <1>1, <2>2 DEF AtLineStart
  <2>6. DropsSeen'
    BY <1>1, <1>3, <2>1 DEF LogInv, DropsSeen
  <2> QED
    BY <1>5, <1>6, <2>3, <2>4, <2>5, <2>6 DEF LogInv
<1> QED
  BY <1>7, <1>8

\* Output: the chunk is no longer owed, though it still lies in the ring.
LEMMA OutputKeeps == LogInv /\ Output => LogInv'
<1> SUFFICES ASSUME LogInv, Output PROVE LogInv'
  OBVIOUS
<1> DEFINE n == chunk.length
<1>1. /\ owedLines' = SubSeq(owedLines, n + 1, Len(owedLines))
      /\ logPc = "output" /\ logPc' = "advance"
      /\ UNCHANGED <<ring, logHead, logTail, counters, chunk, notice, reported>>
  BY DEF Output
<1>2. n \in Nat /\ n > 0 /\ n <= Filled
  BY <1>1, LogSizes DEF LogInv, LogTypes, ChunkFits
<1>3. Seen = 0 /\ Seen' = n
  BY <1>1 DEF Seen
<1>4. owedLines \in Seq(LogByte) /\ Len(owedLines) \in Nat /\ Len(owedLines) = Filled
  BY <1>3 DEF LogInv, LogTypes, Owing
<1>5. Filled' = Filled
  BY <1>1 DEF Filled
<1> HIDE DEF n
<1>6. /\ owedLines' \in Seq(LogByte) /\ Len(owedLines') = Len(owedLines) - n
      /\ \A k \in 1 .. Len(owedLines) - n : owedLines'[k] = owedLines[n + k]
  BY <1>1, <1>2, <1>4
<1>7. Owing'
  <2>1. ASSUME NEW k \in 1 .. Len(owedLines')
        PROVE  owedLines'[k] = ring[Wrap(logTail + n + k - 1)]
    <3>1. k \in Nat /\ n + k \in 1 .. Len(owedLines) /\ k \in 1 .. Len(owedLines) - n
      BY <1>2, <1>4, <1>6
    <3>2. owedLines'[k] = owedLines[n + k]
      BY <1>6, <3>1
    <3>3. owedLines[n + k] = ring[Wrap(logTail + Seen + (n + k) - 1)]
      BY <3>1 DEF LogInv, Owing
    <3>4. logTail \in Nat
      BY LogSizes DEF LogInv, LogTypes, Place
    <3>5. logTail + Seen + (n + k) - 1 = logTail + n + k - 1
      BY <1>2, <1>3, <3>1, <3>4
    <3> QED
      BY <3>2, <3>3, <3>5
  <2>2. Len(owedLines') + Seen' = Filled'
    BY <1>2, <1>3, <1>4, <1>5, <1>6
  <2> QED
    BY <1>1, <1>3, <2>1, <2>2 DEF Owing
<1>8. LogTypes'
  BY <1>1, <1>6 DEF LogInv, LogTypes, counters
<1>9. ChunkFits' /\ AtLineStart'
  BY <1>1, <1>5 DEF LogInv, ChunkFits, AtLineStart
<1>10. DropsSeen' /\ DropsCounted'
  BY <1>1 DEF LogInv, DropsSeen, DropsCounted, counters
<1> QED
  BY <1>7, <1>8, <1>9, <1>10 DEF LogInv

\* Advance: the tail passes what the hook has seen.
LEMMA AdvanceKeeps == LogInv /\ Advance => LogInv'
<1> SUFFICES ASSUME LogInv, Advance PROVE LogInv'
  OBVIOUS
<1> DEFINE n == chunk.length
           s == logTail + n
<1>1. /\ logTail' = s % BufferSize
      /\ logPc = "advance" /\ logPc' = "look" /\ chunk' = NoChunk
      /\ UNCHANGED <<ring, logHead, counters, notice, owedLines, reported>>
  BY DEF Advance
<1>2. /\ BufferSize \in Nat /\ BufferSize > 0 /\ 0 \in Place
      /\ logHead \in Nat /\ logTail \in Nat /\ Filled \in Nat
      /\ logHead < BufferSize /\ logTail < BufferSize
  BY LogSizes DEF LogInv, LogTypes, Place, Filled
<1>3. n \in Nat /\ n > 0 /\ n <= Filled /\ s \in Nat /\ s <= BufferSize
  <2>1. n \in 0 .. BufferSize /\ n > 0 /\ n <= Filled /\ logTail + n <= BufferSize
    BY <1>1 DEF LogInv, LogTypes, ChunkFits
  <2> QED
    BY <1>2, <2>1
<1>4. Seen = n /\ Seen' = 0
  BY <1>1 DEF Seen
<1>5. logTail' = IF s < BufferSize THEN s ELSE 0
  <2> HIDE DEF s
  <2>1. s % BufferSize = IF s < BufferSize THEN s ELSE s - BufferSize
    BY <1>2, <1>3, Turns
  <2> QED
    BY <1>1, <1>2, <1>3, <2>1
<1> HIDE DEF n
<1>6. logTail' \in Nat /\ logTail' < BufferSize /\ Filled' = Filled - n
  <2>1. logHead' = logHead
    BY <1>1
  <2> QED
    BY <1>2, <1>3, <1>5, <2>1 DEF Filled
<1>7. owedLines' = owedLines /\ Len(owedLines) \in Nat /\ Len(owedLines) + n = Filled
  BY <1>1, <1>4 DEF LogInv, LogTypes, Owing
<1>8. Owing'
  <2>1. ASSUME NEW k \in 1 .. Len(owedLines)
        PROVE  owedLines[k] = ring[Wrap(logTail' + 0 + k - 1)]
    <3>1. owedLines[k] = ring[Wrap(logTail + n + k - 1)]
      BY <1>4 DEF LogInv, Owing
    <3>2. k \in Nat /\ k > 0 /\ k + n <= Filled
      BY <1>3, <1>7
    <3>3. Wrap(logTail + n + k - 1) = Wrap(logTail' + 0 + k - 1)
      BY <1>2, <1>3, <1>5, <3>2 DEF Wrap, Filled
    <3> QED
      BY <3>1, <3>3
  <2>2. Len(owedLines') + Seen' = Filled'
    BY <1>2, <1>3, <1>4, <1>6, <1>7
  <2> QED
    BY <1>1, <1>4, <2>1, <2>2 DEF Owing
<1>9. LogTypes'
  <2>1. logTail' \in Place
    BY <1>2, <1>6 DEF Place
  <2> QED
    BY <1>1, <1>2, <2>1 DEF LogInv, LogTypes, NoChunk, counters
<1>10. ChunkFits' /\ AtLineStart'
  BY <1>1 DEF ChunkFits, AtLineStart
<1>11. DropsSeen' /\ DropsCounted'
  BY <1>1 DEF LogInv, DropsSeen, DropsCounted, counters
<1> QED
  BY <1>8, <1>9, <1>10, <1>11 DEF LogInv

\* What the steps that leave the ring alone keep.
LEMMA RingLeftAlone ==
    ASSUME LogInv, UNCHANGED <<ring, logHead, logTail, chunk, owedLines>>,
           logPc \notin {"output", "advance"}, logPc' \notin {"output", "advance"}
    PROVE  Owing' /\ ChunkFits'
BY DEF LogInv, Owing, ChunkFits, Filled, Seen

\* Empty: what is pending goes into the notice.
LEMMA EmptyKeeps == LogInv /\ Empty => LogInv'
<1> SUFFICES ASSUME LogInv, Empty PROVE LogInv'
  OBVIOUS
<1>1. /\ logPc = "empty" /\ notice' = droppedPending /\ droppedPending' = 0
      /\ logPc' = IF droppedPending # 0 THEN "notice" ELSE "sleep"
      /\ UNCHANGED <<ring, logHead, logTail, dropped, chunk, owedLines, reported>>
  BY DEF Empty, TakePending
<1>2. Owing' /\ ChunkFits'
  BY <1>1, RingLeftAlone
<1>3. LogTypes'
  BY <1>1, LogSizes DEF LogInv, LogTypes
<1>4. AtLineStart' /\ DropsSeen'
  BY <1>1 DEF LogInv, AtLineStart, DropsSeen
<1>5. DropsCounted'
  <2>1. notice = 0
    BY <1>1 DEF LogInv, DropsSeen
  <2>2. reported + notice + droppedPending = reported + droppedPending + 0
    BY <2>1 DEF LogInv, LogTypes
  <2> QED
    BY <1>1, <2>2 DEF LogInv, DropsCounted
<1> QED
  BY <1>2, <1>3, <1>4, <1>5 DEF LogInv

\* EmitDropped: the notice is told, and counts as reported.
LEMMA EmitKeeps == LogInv /\ EmitDropped => LogInv'
<1> SUFFICES ASSUME LogInv, EmitDropped PROVE LogInv'
  OBVIOUS
<1>1. /\ logPc = "notice" /\ reported' = (reported + notice) % DropModulus
      /\ notice' = 0 /\ logPc' = "look"
      /\ UNCHANGED <<ring, logHead, logTail, counters, chunk, owedLines>>
  BY DEF EmitDropped
<1>2. /\ DropModulus \in Nat /\ DropModulus > 0
      /\ droppedPending \in Nat /\ droppedPending < DropModulus
      /\ notice \in Nat /\ notice < DropModulus /\ reported \in Nat /\ reported < DropModulus
  BY LogSizes DEF LogInv, LogTypes
<1> DEFINE s == reported + notice
<1>3. s \in Nat /\ s < 2 * DropModulus /\ s < 3 * DropModulus /\ reported' = s % DropModulus
  BY <1>1, <1>2
<1> HIDE DEF s
<1>4. reported' = IF s < DropModulus THEN s ELSE s - DropModulus
  BY <1>2, <1>3, Turns
<1>5. Owing' /\ ChunkFits'
  BY <1>1, RingLeftAlone
<1>6. LogTypes'
  <2>1. reported' \in 0 .. DropModulus - 1 /\ 0 \in 0 .. DropModulus - 1
    BY <1>2, <1>3, <1>4
  <2> QED
    BY <1>1, <2>1 DEF LogInv, LogTypes, counters
<1>7. AtLineStart' /\ DropsSeen'
  BY <1>1 DEF LogInv, AtLineStart, DropsSeen, counters
<1>8. DropsCounted'
  <2> DEFINE t == s + droppedPending
             v == reported' + 0 + droppedPending
  <2>1. /\ t \in Nat /\ t < 3 * DropModulus /\ v \in Nat /\ v < 3 * DropModulus
        /\ v = IF s < DropModulus THEN t ELSE t - DropModulus
        /\ t >= s /\ v < 2 * DropModulus
    BY <1>2, <1>3, <1>4
  <2>2. dropped = t % DropModulus /\ dropped' = dropped
    BY <1>1 DEF LogInv, DropsCounted, s, counters
  <2> HIDE DEF t, v
  <2>3. t % DropModulus = v % DropModulus
    BY <1>2, <1>3, <2>1, Turns
  <2>4. reported' + notice' + droppedPending' = v
    BY <1>1 DEF v, counters
  <2> QED
    BY <2>2, <2>3, <2>4 DEF DropsCounted
<1> QED
  BY <1>5, <1>6, <1>7, <1>8 DEF LogInv

\* LogSleep: the second look at the ring, with the sleep.
LEMMA SleepKeeps == LogInv /\ LogSleep => LogInv'
<1> SUFFICES ASSUME LogInv, LogSleep PROVE LogInv'
  OBVIOUS
<1>1. /\ logPc = "sleep" /\ logPc' = IF logHead = logTail THEN "asleep" ELSE "look"
      /\ UNCHANGED <<ring, logHead, logTail, counters, chunk, notice, owedLines, reported>>
  BY DEF LogSleep, SeesEmpty
<1>2. Owing' /\ ChunkFits'
  BY <1>1, RingLeftAlone
<1>3. LogTypes' /\ AtLineStart' /\ DropsCounted'
  BY <1>1 DEF LogInv, LogTypes, AtLineStart, DropsCounted, counters
<1>4. DropsSeen'
  <2>1. logHead = logTail => owedLines = <<>>
    BY <1>1, LogSizes DEF LogInv, LogTypes, Owing, Filled, Seen, Place
  <2> QED
    BY <1>1, <2>1 DEF LogInv, DropsSeen, counters
<1> QED
  BY <1>2, <1>3, <1>4 DEF LogInv

\* Each step keeps the invariant.
LEMMA LogStep == LogInv /\ [LogNext]_logVars => LogInv'
<1> SUFFICES ASSUME LogInv, [LogNext]_logVars PROVE LogInv'
  OBVIOUS
<1>1. ASSUME NEW c \in Colour, NEW body \in Bodies, LogWrite(Line(c, Total(body)))
      PROVE  LogInv'
  BY <1>1, LineFits, WriteKeeps
<1>2. CASE UNCHANGED logVars
  BY <1>2 DEF LogInv, LogTypes, Owing, ChunkFits, AtLineStart, DropsSeen, DropsCounted,
     Filled, Seen, logVars, counters
<1> QED
  BY <1>1, <1>2, LookKeeps, OutputKeeps, AdvanceKeeps, EmptyKeeps, EmitKeeps, SleepKeeps
  DEF LogNext

\* What the invariant says of the types and of the lines.
LEMMA LogPromises == LogInv => LogTypeOK /\ LogFaithful
<1> SUFFICES ASSUME LogInv PROVE LogTypeOK /\ LogFaithful
  OBVIOUS
<1>1. /\ BufferSize \in Nat /\ logHead \in Nat /\ logTail \in Nat /\ Filled \in Nat
      /\ logHead < BufferSize /\ logTail < BufferSize /\ Filled < BufferSize
  BY LogSizes DEF LogInv, LogTypes, Place, Filled
<1>2. Len(owedLines) \in Nat /\ Seen \in Nat /\ Len(owedLines) + Seen = Filled
  BY DEF LogInv, LogTypes, Owing, Seen
<1>3. LogTypeOK
  <2>1. Len(owedLines) < BufferSize
    BY <1>1, <1>2
  <2> QED
    BY <2>1 DEF LogInv, LogTypes, LogTypeOK
<1>4. HookReadsOwed
  <2> SUFFICES ASSUME logPc = "output"
               PROVE  chunk.length > 0 /\ StartsWith(ChunkBytes)
    BY DEF HookReadsOwed
  <2> DEFINE n == chunk.length
  <2>1. /\ n \in Nat /\ n > 0 /\ n <= Len(owedLines)
        /\ chunk.from = logTail /\ logTail + n <= BufferSize /\ Seen = 0
    BY <1>2 DEF LogInv, LogTypes, ChunkFits, Seen
  <2>2. ASSUME NEW k \in 1 .. n
        PROVE  owedLines[k] = ring[chunk.from + k - 1]
    <3>1. k \in 1 .. Len(owedLines)
      BY <1>2, <2>1
    <3>2. owedLines[k] = ring[Wrap(logTail + Seen + k - 1)]
      BY <3>1 DEF LogInv, Owing
    <3>3. Wrap(logTail + Seen + k - 1) = chunk.from + k - 1
      BY <1>1, <2>1 DEF Wrap
    <3> QED
      BY <3>2, <3>3
  <2>3. owedLines \in Seq(LogByte)
    BY DEF LogInv, LogTypes
  <2>4. ChunkBytes = [k \in 1 .. n |-> ring[chunk.from + k - 1]]
    BY DEF ChunkBytes
  <2> HIDE DEF n
  <2>5. SubSeq(owedLines, 1, n) = [k \in 1 .. n |-> owedLines[k]]
    BY <1>2, <2>1, <2>3
  <2>6. ChunkBytes = SubSeq(owedLines, 1, n) /\ Len(ChunkBytes) = n
    BY <2>1, <2>2, <2>4, <2>5
  <2> QED
    BY <2>1, <2>6 DEF StartsWith, n
<1>5. NoticeBetweenLines /\ NothingSleptOn
  BY DEF LogInv, AtLineStart, DropsSeen, NoticeBetweenLines, NothingSleptOn
<1> QED
  BY <1>3, <1>4, <1>5 DEF LogInv, LogFaithful

\* The log hands its hook every accepted line whole and in order, though they are written
\* while it reads, reports every dropped line, and does not sleep on either: os_log_put and
\* os_log_task_entry, for a ring and lines of any length.
THEOREM LogAlwaysFaithful == LogSpec => [](LogTypeOK /\ LogFaithful)
<1>1. LogInit => LogInv
  BY LogStarts
<1>2. LogInv /\ [LogNext]_logVars => LogInv'
  BY LogStep
<1>3. LogInv => LogTypeOK /\ LogFaithful
  BY LogPromises
<1> QED
  BY <1>1, <1>2, <1>3, PTL DEF LogSpec
=============================================================================
