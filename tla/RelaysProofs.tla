---------------------------- MODULE RelaysProofs ----------------------------
(***************************************************************************)
(* The encoded relay, the descriptors of its client side and the heap of   *)
(* redis-realloc.c.                                                        *)
(*                                                                         *)
(* Transparent speaks of what the two ends have got.  The invariant says   *)
(* where every byte is that has left an end: what was received, what is in *)
(* flight, what the relays hold and what is still to be sent are adjacent  *)
(* windows of one sequence, encoded between the relays (Flows).  A step    *)
(* moves a byte, or a few, from one window to its neighbour.               *)
(*                                                                         *)
(* OneOwner counts owners.  The invariant says who may hold a descriptor   *)
(* at the same time (Apart) and that the held ones are the open ones that  *)
(* are not lost (Held), so that a step is a matter of one descriptor       *)
(* changing hands.                                                         *)
(*                                                                         *)
(* HeapAccounts relates the blocks of all clients.  The invariant gives    *)
(* each block at most one owner (Blocked), counts those without one, and   *)
(* says which buffers a client has while it waits for an event (Waits).    *)
(*                                                                         *)
(* ReplyExplained and EchoSound speak of one reply and of one connection.  *)
(* The first needs every piece on the way to be one of an answer that was  *)
(* sent (Pieces), the second every entry that still waits for the loop to  *)
(* be one of an open socket (Batch).                                       *)
(***************************************************************************)
EXTENDS Relay, RelayPool, UuidRealloc, UdpGet, EchoCell, FiniteSetTheorems, SequenceTheorems,
        WellFoundedInduction, TLAPS

-----------------------------------------------------------------------------
(* The relay: windows of what an end sends. *)

Byte == 0 .. Width - 1

\* s is what t has from place k + 1 on.
Window(s, t, k) == k + Len(s) <= Len(t) /\ \A i \in 1 .. Len(s) : s[i] = t[k + i]

Encoded(t) == [i \in 1 .. Len(t) |-> simpleEncode(t[i])]

\* One direction of the relay, from what was received back to what is still to
\* be sent: t is the whole, b the bytes of it that nobody receives, gap those
\* the server's relay will put in between, s1 and s2 the states of the first
\* and the second relay, of which a dead one has thrown away what it held.
Flows(t, b, g, out, h2, md, h1, gap, in, l, s1, s2) ==
    LET o2 == b + Len(g) + Len(out)
        o4 == o2 + Len(h2) + Len(md)
        o5 == o4 + Len(h1) + gap
    IN  /\ Window(g, t, b) /\ Window(out, t, b + Len(g))
        /\ s2 # "dead" => /\ Window(h2, t, o2)
                          /\ Window(md, Encoded(t), o2 + Len(h2))
        /\ s1 # "dead" /\ s2 # "dead" =>
             /\ Window(h1, Encoded(t), o4)
             /\ Window(in, t, o5) /\ Window(l, t, o5 + Len(in))
             /\ o5 + Len(in) + Len(l) = Len(t)

\* Decoding undoes encoding: adding Shift wraps within Width.
LEMMA CodeInverse ==
    ASSUME NEW b \in Byte
    PROVE  simpleEncode(b) \in Byte /\ simpleDecode(simpleEncode(b)) = b
BY RelayAssumption DEF Byte, simpleEncode, simpleDecode, Shift

\* Either of them makes a byte of a byte.
LEMMA CodeTypes ==
    ASSUME NEW b \in Byte
    PROVE  simpleEncode(b) \in Byte /\ simpleDecode(b) \in Byte
BY RelayAssumption DEF Byte, simpleEncode, simpleDecode, Shift

\* The encoded whole, byte by byte.
LEMMA EncodedType ==
    ASSUME NEW t \in Seq(Byte)
    PROVE  Encoded(t) \in Seq(Byte) /\ Len(Encoded(t)) = Len(t) /\ Len(t) \in Nat
           /\ \A i \in 1 .. Len(t) : Encoded(t)[i] = simpleEncode(t[i])
<1>1. Len(t) \in Nat /\ \A i \in 1 .. Len(t) : t[i] \in Byte
  OBVIOUS
<1>2. Encoded(t) \in [1 .. Len(t) -> Byte]
  BY <1>1, CodeTypes DEF Encoded
<1> QED
  BY <1>1, <1>2 DEF Encoded

\* The head of one window goes to the end of the window before it.
LEMMA Pass ==
    ASSUME NEW S, NEW t \in Seq(S), NEW r \in Seq(S), NEW s \in Seq(S), NEW k \in Nat,
           Window(r, t, k), Window(s, t, k + Len(r)), s # << >>
    PROVE  /\ Append(r, Head(s)) \in Seq(S) /\ Tail(s) \in Seq(S)
           /\ Len(r) \in Nat /\ Len(s) \in Nat \ {0}
           /\ Len(Append(r, Head(s))) = Len(r) + 1 /\ Len(Tail(s)) = Len(s) - 1
           /\ Window(Append(r, Head(s)), t, k) /\ Window(Tail(s), t, k + Len(r) + 1)
<1>1. /\ Append(r, Head(s)) \in Seq(S) /\ Tail(s) \in Seq(S)
      /\ Len(r) \in Nat /\ Len(s) \in Nat \ {0} /\ Len(t) \in Nat
      /\ Len(Append(r, Head(s))) = Len(r) + 1 /\ Len(Tail(s)) = Len(s) - 1
      /\ \A i \in 1 .. Len(r) : Append(r, Head(s))[i] = r[i]
      /\ Append(r, Head(s))[Len(r) + 1] = s[1]
      /\ \A i \in 1 .. Len(s) - 1 : Tail(s)[i] = s[i + 1]
  OBVIOUS
<1>2. Window(Append(r, Head(s)), t, k)
  BY <1>1 DEF Window
<1>3. Window(Tail(s), t, k + Len(r) + 1)
  <2>1. k + Len(r) + Len(s) <= Len(t) /\ \A i \in 1 .. Len(s) : s[i] = t[k + Len(r) + i]
    BY DEF Window
  <2>2. ASSUME NEW i \in 1 .. Len(s) - 1 PROVE Tail(s)[i] = t[k + Len(r) + 1 + i]
    <3>1. i + 1 \in 1 .. Len(s) /\ k + Len(r) + (i + 1) = k + Len(r) + 1 + i
      BY <1>1
    <3> QED
      BY <1>1, <2>1, <3>1
  <2> QED
    BY <1>1, <2>1, <2>2 DEF Window
<1> QED
  BY <1>1, <1>2, <1>3

\* Some bytes from the front of a window.
LEMMA Split ==
    ASSUME NEW S, NEW t \in Seq(S), NEW s \in Seq(S), NEW k \in Nat, Window(s, t, k),
           NEW n \in 0 .. Len(s)
    PROVE  /\ SubSeq(s, 1, n) \in Seq(S) /\ SubSeq(s, n + 1, Len(s)) \in Seq(S)
           /\ Len(s) \in Nat /\ Len(SubSeq(s, 1, n)) = n
           /\ Len(SubSeq(s, n + 1, Len(s))) = Len(s) - n
           /\ Window(SubSeq(s, 1, n), t, k) /\ Window(SubSeq(s, n + 1, Len(s)), t, k + n)
<1>1. Len(s) \in Nat /\ Len(t) \in Nat /\ n \in Nat /\ n <= Len(s)
  OBVIOUS
<1>2. /\ SubSeq(s, 1, n) \in Seq(S) /\ Len(SubSeq(s, 1, n)) = n
      /\ \A i \in 1 .. n : SubSeq(s, 1, n)[i] = s[i]
  BY <1>1
<1>3. /\ SubSeq(s, n + 1, Len(s)) \in Seq(S) /\ Len(SubSeq(s, n + 1, Len(s))) = Len(s) - n
      /\ \A i \in 1 .. Len(s) - n : SubSeq(s, n + 1, Len(s))[i] = s[n + i]
  BY <1>1
<1>4. k + Len(s) <= Len(t) /\ \A i \in 1 .. Len(s) : s[i] = t[k + i]
  BY DEF Window
<1>5. Window(SubSeq(s, 1, n), t, k)
  BY <1>1, <1>2, <1>4 DEF Window
<1>6. Window(SubSeq(s, n + 1, Len(s)), t, k + n)
  <2>1. PICK u \in Seq(S) : u = SubSeq(s, n + 1, Len(s))
    BY <1>3
  <2>2. Len(u) = Len(s) - n /\ \A i \in 1 .. Len(s) - n : u[i] = s[n + i]
    BY <1>3, <2>1
  <2>3. ASSUME NEW i \in 1 .. Len(s) - n PROVE u[i] = t[k + n + i]
    <3>1. n + i \in 1 .. Len(s) /\ k + (n + i) = k + n + i
      BY <1>1
    <3> QED
      BY <1>4, <2>2, <3>1
  <2>4. k + n + Len(u) <= Len(t)
    BY <1>1, <1>4, <2>2
  <2>5. Window(u, t, k + n)
    BY <1>1, <2>2, <2>3, <2>4 DEF Window
  <2> QED
    BY <2>1, <2>5
<1> QED
  BY <1>1, <1>2, <1>3, <1>5, <1>6

\* Two adjacent windows are one.
LEMMA Join ==
    ASSUME NEW S, NEW t \in Seq(S), NEW r \in Seq(S), NEW s \in Seq(S), NEW k \in Nat,
           Window(r, t, k), Window(s, t, k + Len(r))
    PROVE  r \o s \in Seq(S) /\ Len(r \o s) = Len(r) + Len(s) /\ Window(r \o s, t, k)
<1>1. /\ r \o s \in Seq(S) /\ Len(r) \in Nat /\ Len(s) \in Nat /\ Len(t) \in Nat
      /\ Len(r \o s) = Len(r) + Len(s)
      /\ \A i \in 1 .. Len(r) + Len(s) : (r \o s)[i] = IF i <= Len(r) THEN r[i] ELSE s[i - Len(r)]
  BY ConcatProperties
<1>2. ASSUME NEW i \in 1 .. Len(r) + Len(s) PROVE (r \o s)[i] = t[k + i]
  <2>1. CASE i <= Len(r)
    BY <1>1, <2>1 DEF Window
  <2>2. CASE ~(i <= Len(r))
    <3>1. i - Len(r) \in 1 .. Len(s) /\ k + Len(r) + (i - Len(r)) = k + i
      BY <1>1, <2>2
    <3> QED
      BY <1>1, <2>2, <3>1 DEF Window
  <2> QED
    BY <2>1, <2>2
<1> QED
  BY <1>1, <1>2 DEF Window

\* Encoding a piece of the whole is a piece of the encoded whole, and back.
LEMMA CodedWindow ==
    ASSUME NEW t \in Seq(Byte), NEW s \in Seq(Byte), NEW k \in Nat, NEW r \in Relays, NEW d \in Dirs
    PROVE  /\ Coded(r, d, s) \in Seq(Byte) /\ Len(Coded(r, d, s)) = Len(s)
           /\ (r = "client") = (d = "up") /\ Window(s, t, k) => Window(Coded(r, d, s), Encoded(t), k)
           /\ (r = "client") # (d = "up") /\ Window(s, Encoded(t), k) => Window(Coded(r, d, s), t, k)
<1>1. Len(s) \in Nat /\ Len(t) \in Nat /\ (\A i \in 1 .. Len(s) : s[i] \in Byte)
      /\ \A i \in 1 .. Len(t) : t[i] \in Byte
  OBVIOUS
<1>2. Coded(r, d, s) \in [1 .. Len(s) -> Byte]
  BY <1>1, CodeTypes DEF Coded
<1>3. Coded(r, d, s) \in Seq(Byte) /\ Len(Coded(r, d, s)) = Len(s)
  BY <1>1, <1>2
<1>4. ASSUME (r = "client") = (d = "up"), Window(s, t, k)
      PROVE  Window(Coded(r, d, s), Encoded(t), k)
  <2>1. ASSUME NEW i \in 1 .. Len(s) PROVE Coded(r, d, s)[i] = Encoded(t)[k + i]
    <3>1. k + i \in 1 .. Len(t) /\ s[i] = t[k + i]
      BY <1>1, <1>4 DEF Window
    <3>2. Coded(r, d, s)[i] = simpleEncode(s[i])
      BY <1>1, <1>4 DEF Coded
    <3> QED
      BY <3>1, <3>2, EncodedType
  <2> QED
    BY <1>1, <1>3, <1>4, <2>1, EncodedType DEF Window
<1>5. ASSUME (r = "client") # (d = "up"), Window(s, Encoded(t), k)
      PROVE  Window(Coded(r, d, s), t, k)
  <2>1. ASSUME NEW i \in 1 .. Len(s) PROVE Coded(r, d, s)[i] = t[k + i]
    <3>1. k + i \in 1 .. Len(t)
      BY <1>1, <1>5, EncodedType DEF Window
    <3>2. s[i] = simpleEncode(t[k + i])
      BY <1>5, <3>1, EncodedType DEF Window
    <3> QED
      BY <1>1, <1>5, <3>1, <3>2, CodeInverse DEF Coded
  <2> QED
    BY <1>1, <1>3, <1>5, <2>1, EncodedType DEF Window
<1> QED
  BY <1>3, <1>4, <1>5

-----------------------------------------------------------------------------
(* The moves of one direction. *)

\* An end sends a byte.
LEMMA Sends ==
    ASSUME NEW t \in Seq(Byte), NEW b \in Nat, NEW g \in Seq(Byte), NEW out \in Seq(Byte),
           NEW h2 \in Seq(Byte), NEW md \in Seq(Byte), NEW h1 \in Seq(Byte), NEW gap \in Nat,
           NEW in \in Seq(Byte), NEW l \in Seq(Byte), NEW s1, NEW s2,
           Flows(t, b, g, out, h2, md, h1, gap, in, l, s1, s2), l # << >>
    PROVE  Flows(t, b, g, out, h2, md, h1, gap, Append(in, Head(l)), Tail(l), s1, s2)
<1>1. CASE s1 # "dead" /\ s2 # "dead"
  <2>1. PICK k \in Nat : k = b + Len(g) + Len(out) + Len(h2) + Len(md) + Len(h1) + gap
    OBVIOUS
  <2>2. Window(in, t, k) /\ Window(l, t, k + Len(in)) /\ k + Len(in) + Len(l) = Len(t)
    BY <1>1, <2>1 DEF Flows
  <2>3. /\ Len(in) \in Nat /\ Len(l) \in Nat \ {0}
        /\ Len(Append(in, Head(l))) = Len(in) + 1 /\ Len(Tail(l)) = Len(l) - 1
        /\ Window(Append(in, Head(l)), t, k) /\ Window(Tail(l), t, k + Len(in) + 1)
    BY <2>2, Pass
  <2>4. k + Len(in) + 1 = k + Len(Append(in, Head(l)))
        /\ k + Len(Append(in, Head(l))) + Len(Tail(l)) = Len(t)
    BY <2>2, <2>3
  <2> QED
    BY <1>1, <2>1, <2>3, <2>4 DEF Flows
<1>2. CASE ~(s1 # "dead" /\ s2 # "dead")
  BY <1>2 DEF Flows
<1> QED
  BY <1>1, <1>2

\* The first relay reads n bytes and holds them, coded.
LEMMA Reads1 ==
    ASSUME NEW t \in Seq(Byte), NEW b \in Nat, NEW g \in Seq(Byte), NEW out \in Seq(Byte),
           NEW h2 \in Seq(Byte), NEW md \in Seq(Byte), NEW h1 \in Seq(Byte),
           NEW in \in Seq(Byte), NEW l \in Seq(Byte), NEW s1, NEW s2,
           Flows(t, b, g, out, h2, md, h1, 0, in, l, s1, s2),
           NEW n \in 0 .. Len(in), NEW r \in Relays, NEW d \in Dirs, (r = "client") = (d = "up")
    PROVE  Flows(t, b, g, out, h2, md, h1 \o Coded(r, d, SubSeq(in, 1, n)), 0,
                 SubSeq(in, n + 1, Len(in)), l, s1, s2)
<1>1. CASE s1 # "dead" /\ s2 # "dead"
  <2>1. PICK k \in Nat : k = b + Len(g) + Len(out) + Len(h2) + Len(md)
    OBVIOUS
  <2>2. /\ Window(h1, Encoded(t), k) /\ Window(in, t, k + Len(h1))
        /\ Window(l, t, k + Len(h1) + Len(in)) /\ k + Len(h1) + Len(in) + Len(l) = Len(t)
    BY <1>1, <2>1 DEF Flows
  <2>3. SubSeq(in, 1, n) \in Seq(Byte) /\ SubSeq(in, n + 1, Len(in)) \in Seq(Byte)
    BY <2>2, Split, SMTT(30)
  <2>4. PICK p \in Seq(Byte), q \in Seq(Byte) : p = SubSeq(in, 1, n) /\ q = SubSeq(in, n + 1, Len(in))
    BY <2>3
  <2>5. /\ Len(p) = n /\ Len(q) = Len(in) - n /\ Len(h1) \in Nat /\ Len(in) \in Nat /\ Len(l) \in Nat
        /\ Window(p, t, k + Len(h1)) /\ Window(q, t, k + Len(h1) + n)
    <3>1. Len(h1) \in Nat /\ Len(in) \in Nat /\ Len(l) \in Nat /\ k + Len(h1) \in Nat
      OBVIOUS
    <3>2. /\ Len(SubSeq(in, 1, n)) = n /\ Len(SubSeq(in, n + 1, Len(in))) = Len(in) - n
          /\ Window(SubSeq(in, 1, n), t, k + Len(h1))
          /\ Window(SubSeq(in, n + 1, Len(in)), t, k + Len(h1) + n)
      BY <2>2, <3>1, Split, SMTT(30)
    <3> QED
      BY <2>4, <3>1, <3>2
  <2>6. PICK c \in Seq(Byte) : c = Coded(r, d, p) /\ Len(c) = n /\ Window(c, Encoded(t), k + Len(h1))
    BY <2>5, CodedWindow
  <2>7. PICK e \in Seq(Byte) : e = Encoded(t)
    BY EncodedType
  <2>8. Window(h1, e, k) /\ Window(c, e, k + Len(h1))
    BY <2>2, <2>6, <2>7
  <2>9. h1 \o c \in Seq(Byte) /\ Len(h1 \o c) = Len(h1) + Len(c) /\ Window(h1 \o c, e, k)
    BY <2>8, Join, Zenon
  <2>10. PICK f \in Seq(Byte) : f = h1 \o c
    BY <2>9
  <2>11. Len(f) = Len(h1) + Len(c) /\ Window(f, e, k)
    BY <2>9, <2>10
  <2>12. k + Len(f) + 0 + Len(q) = k + Len(h1) + Len(in) /\ k + Len(h1) + n = k + Len(f) + 0
    BY <2>5, <2>6, <2>11
  <2>13. /\ Window(f, Encoded(t), k) /\ Window(q, t, k + Len(f) + 0)
        /\ Window(l, t, k + Len(f) + 0 + Len(q)) /\ k + Len(f) + 0 + Len(q) + Len(l) = Len(t)
    BY <2>2, <2>5, <2>11, <2>12, <2>7
  <2>14. Flows(t, b, g, out, h2, md, f, 0, q, l, s1, s2)
    BY <1>1, <2>1, <2>13 DEF Flows
  <2> QED
    BY <2>4, <2>6, <2>10, <2>14
<1>2. CASE ~(s1 # "dead" /\ s2 # "dead")
  BY <1>2 DEF Flows
<1> QED
  BY <1>1, <1>2

\* The first relay writes a byte.
LEMMA Writes1 ==
    ASSUME NEW t \in Seq(Byte), NEW b \in Nat, NEW g \in Seq(Byte), NEW out \in Seq(Byte),
           NEW h2 \in Seq(Byte), NEW md \in Seq(Byte), NEW h1 \in Seq(Byte), NEW gap \in Nat,
           NEW in \in Seq(Byte), NEW l \in Seq(Byte), NEW s1, NEW s2,
           Flows(t, b, g, out, h2, md, h1, gap, in, l, s1, s2), h1 # << >>, s1 # "dead"
    PROVE  Flows(t, b, g, out, h2, Append(md, Head(h1)), Tail(h1), gap, in, l, s1, s2)
<1>1. CASE s2 # "dead"
  <2>1. PICK k \in Nat : k = b + Len(g) + Len(out) + Len(h2)
    OBVIOUS
  <2>2. Window(md, Encoded(t), k) /\ Window(h1, Encoded(t), k + Len(md))
    BY <1>1, <2>1 DEF Flows
  <2>3. /\ Append(md, Head(h1)) \in Seq(Byte) /\ Tail(h1) \in Seq(Byte)
        /\ Len(md) \in Nat /\ Len(h1) \in Nat \ {0}
        /\ Len(Append(md, Head(h1))) = Len(md) + 1 /\ Len(Tail(h1)) = Len(h1) - 1
        /\ Window(Append(md, Head(h1)), Encoded(t), k) /\ Window(Tail(h1), Encoded(t), k + Len(md) + 1)
    BY <2>2, EncodedType, Pass
  <2>4. k + Len(md) + 1 = k + Len(Append(md, Head(h1)))
        /\ k + Len(md) + Len(h1) + gap = k + Len(Append(md, Head(h1))) + Len(Tail(h1)) + gap
    BY <2>3
  <2> QED
    BY <1>1, <2>1, <2>3, <2>4 DEF Flows
<1>2. CASE s2 = "dead"
  BY <1>2 DEF Flows
<1> QED
  BY <1>1, <1>2

\* The second relay reads n bytes and holds them, decoded.
LEMMA Reads2 ==
    ASSUME NEW t \in Seq(Byte), NEW b \in Nat, NEW g \in Seq(Byte), NEW out \in Seq(Byte),
           NEW h2 \in Seq(Byte), NEW md \in Seq(Byte), NEW h1 \in Seq(Byte), NEW gap \in Nat,
           NEW in \in Seq(Byte), NEW l \in Seq(Byte), NEW s1, NEW s2,
           Flows(t, b, g, out, h2, md, h1, gap, in, l, s1, s2), s2 # "dead",
           NEW n \in 0 .. Len(md), NEW r \in Relays, NEW d \in Dirs, (r = "client") # (d = "up")
    PROVE  Flows(t, b, g, out, h2 \o Coded(r, d, SubSeq(md, 1, n)), SubSeq(md, n + 1, Len(md)),
                 h1, gap, in, l, s1, s2)
<1>1. PICK k \in Nat : k = b + Len(g) + Len(out)
  OBVIOUS
<1>2. Window(h2, t, k) /\ Window(md, Encoded(t), k + Len(h2))
  BY <1>1 DEF Flows
<1>3. SubSeq(md, 1, n) \in Seq(Byte) /\ SubSeq(md, n + 1, Len(md)) \in Seq(Byte)
  <2>1. PICK e \in Seq(Byte), j \in Nat : Window(md, e, j)
    BY <1>2, EncodedType
  <2> QED
    BY <2>1, Split
<1>4. PICK p \in Seq(Byte), q \in Seq(Byte) : p = SubSeq(md, 1, n) /\ q = SubSeq(md, n + 1, Len(md))
  BY <1>3
<1>5. /\ Len(p) = n /\ Len(q) = Len(md) - n /\ Len(h2) \in Nat /\ Len(md) \in Nat
      /\ Window(p, Encoded(t), k + Len(h2)) /\ Window(q, Encoded(t), k + Len(h2) + n)
  BY <1>2, <1>4, EncodedType, Split, SMTT(30)
<1>6. PICK c \in Seq(Byte) : c = Coded(r, d, p) /\ Len(c) = n /\ Window(c, t, k + Len(h2))
  BY <1>5, CodedWindow
<1>7. Window(h2, t, k) /\ Window(c, t, k + Len(h2))
  BY <1>2, <1>6
<1>8. h2 \o c \in Seq(Byte) /\ Len(h2 \o c) = Len(h2) + Len(c) /\ Window(h2 \o c, t, k)
  BY <1>7, Join, Zenon
<1>9. PICK f \in Seq(Byte) : f = h2 \o c
  BY <1>8
<1>10. Len(f) = Len(h2) + Len(c) /\ Window(f, t, k)
  BY <1>9, <1>8
<1>11. k + Len(f) + Len(q) = k + Len(h2) + Len(md) /\ k + Len(h2) + n = k + Len(f)
  BY <1>5, <1>6, <1>10
<1>12. Flows(t, b, g, out, f, q, h1, gap, in, l, s1, s2)
  BY <1>1, <1>2, <1>5, <1>10, <1>11 DEF Flows
<1> QED
  BY <1>4, <1>6, <1>12, <1>9

\* The second relay writes a byte.
LEMMA Writes2 ==
    ASSUME NEW t \in Seq(Byte), NEW b \in Nat, NEW g \in Seq(Byte), NEW out \in Seq(Byte),
           NEW h2 \in Seq(Byte), NEW md \in Seq(Byte), NEW h1 \in Seq(Byte), NEW gap \in Nat,
           NEW in \in Seq(Byte), NEW l \in Seq(Byte), NEW s1, NEW s2,
           Flows(t, b, g, out, h2, md, h1, gap, in, l, s1, s2), h2 # << >>, s2 # "dead"
    PROVE  Flows(t, b, g, Append(out, Head(h2)), Tail(h2), md, h1, gap, in, l, s1, s2)
<1>1. PICK k \in Nat : k = b + Len(g)
  OBVIOUS
<1>2. Window(out, t, k) /\ Window(h2, t, k + Len(out))
  BY <1>1 DEF Flows
<1>3. /\ Append(out, Head(h2)) \in Seq(Byte) /\ Tail(h2) \in Seq(Byte)
      /\ Len(out) \in Nat /\ Len(h2) \in Nat \ {0}
      /\ Len(Append(out, Head(h2))) = Len(out) + 1 /\ Len(Tail(h2)) = Len(h2) - 1
      /\ Window(Append(out, Head(h2)), t, k) /\ Window(Tail(h2), t, k + Len(out) + 1)
  BY <1>2, Pass
<1>4. k + Len(out) + 1 = k + Len(Append(out, Head(h2)))
      /\ k + Len(out) + Len(h2) = k + Len(Append(out, Head(h2))) + Len(Tail(h2))
  BY <1>3
<1> QED
  BY <1>1, <1>2, <1>3, <1>4 DEF Flows

\* An end receives a byte.
LEMMA Receives ==
    ASSUME NEW t \in Seq(Byte), NEW b \in Nat, NEW g \in Seq(Byte), NEW out \in Seq(Byte),
           NEW h2 \in Seq(Byte), NEW md \in Seq(Byte), NEW h1 \in Seq(Byte), NEW gap \in Nat,
           NEW in \in Seq(Byte), NEW l \in Seq(Byte), NEW s1, NEW s2,
           Flows(t, b, g, out, h2, md, h1, gap, in, l, s1, s2), out # << >>
    PROVE  Flows(t, b, Append(g, Head(out)), Tail(out), h2, md, h1, gap, in, l, s1, s2)
<1>1. Window(g, t, b) /\ Window(out, t, b + Len(g))
  BY DEF Flows
<1>2. /\ Append(g, Head(out)) \in Seq(Byte) /\ Tail(out) \in Seq(Byte)
      /\ Len(g) \in Nat /\ Len(out) \in Nat \ {0}
      /\ Len(Append(g, Head(out))) = Len(g) + 1 /\ Len(Tail(out)) = Len(out) - 1
      /\ Window(Append(g, Head(out)), t, b) /\ Window(Tail(out), t, b + Len(g) + 1)
  BY <1>1, Pass
<1>3. b + Len(g) + 1 = b + Len(Append(g, Head(out)))
      /\ b + Len(g) + Len(out) = b + Len(Append(g, Head(out))) + Len(Tail(out))
  BY <1>2
<1> QED
  BY <1>1, <1>2, <1>3 DEF Flows

-----------------------------------------------------------------------------
(* The invariant. *)

Sock == kind.server = "sock4a"

\* All that each end sends: a SOCKS request and its answer come first.
UpSent   == (IF Sock THEN Header ELSE << >>) \o kind.up
DownSent == (IF Sock THEN Reply ELSE << >>) \o kind.down

\* What the server's relay takes of the request ends there, and the answer
\* begins there.
Skipped == IF Sock /\ state["server"] # "new" THEN accepted ELSE 0
Owing   == IF Sock /\ state["server"] = "new" THEN ReplyLen ELSE 0

UpFlow ==
    Flows(UpSent, Skipped, got["up"], chan["peer"]["up"], hold["server"]["up"], chan["mid"]["up"],
          hold["client"]["up"], 0, chan["app"]["up"], left["up"], state["client"], state["server"])
DownFlow ==
    Flows(DownSent, 0, got["down"], chan["app"]["down"], hold["client"]["down"], chan["mid"]["down"],
          hold["server"]["down"], Owing, chan["peer"]["down"], left["down"], state["server"], state["client"])

RelayTypes ==
    /\ kind \in Setups
    /\ chan \in [Links -> [Dirs -> Seq(Byte)]] /\ hold \in [Relays -> [Dirs -> Seq(Byte)]]
    /\ left \in [Dirs -> Seq(Byte)] /\ got \in [Dirs -> Seq(Byte)]
    /\ state \in [Relays -> {"new", "header", "loop", "dead"}]
    /\ accepted \in Nat /\ (~cut => accepted <= kind.request)

\* Before the server's relay has connected, nothing has come through it; and
\* of a SOCKS application only bytes of its request have been sent.
Unborn ==
    state["server"] = "new" =>
      /\ "peer" \notin links
      /\ \A d \in Dirs : got[d] = << >> /\ chan["peer"][d] = << >> /\ hold["server"][d] = << >>
      /\ chan["mid"]["down"] = << >> /\ hold["client"]["down"] = << >> /\ chan["app"]["down"] = << >>
      /\ Sock => Len(chan["mid"]["up"]) <= kind.request /\ Len(left["up"]) >= Len(kind.up)

RInv == RelayTypes /\ (~cut => Unborn /\ UpFlow /\ DownFlow)

-----------------------------------------------------------------------------
(* Every step keeps the invariant. *)

\* A relay that ends has nothing in hand any more, and one that connects
\* changes nothing.
LEMMA Fewer ==
    ASSUME NEW t, NEW b, NEW g, NEW out, NEW h2, NEW md, NEW h1, NEW gap, NEW in, NEW l, NEW s1, NEW s2,
           Flows(t, b, g, out, h2, md, h1, gap, in, l, s1, s2),
           NEW h, NEW k, NEW a, NEW m, NEW p, NEW q1, NEW q2,
           q1 # "dead" => s1 # "dead" /\ k = h1 /\ a = gap /\ p = in,
           q2 # "dead" => s2 # "dead" /\ h = h2 /\ m = md
    PROVE  Flows(t, b, g, out, h, m, k, a, p, l, q1, q2)
BY DEF Flows

\* One entry of a table of tables changes.
LEMMA Updated ==
    ASSUME NEW A, NEW B, NEW S, NEW f \in [A -> [B -> S]], NEW a \in A, NEW b \in B, NEW x \in S
    PROVE  LET g == [f EXCEPT ![a][b] = x]
           IN  /\ g \in [A -> [B -> S]] /\ g[a][b] = x
               /\ \A p \in A, q \in B : p # a \/ q # b => g[p][q] = f[p][q]
OBVIOUS

\* What the invariant's terms are.
LEMMA Terms ==
    ASSUME RelayTypes
    PROVE  /\ \A l \in Links, d \in Dirs : chan[l][d] \in Seq(Byte)
           /\ \A r \in Relays, d \in Dirs : hold[r][d] \in Seq(Byte)
           /\ \A d \in Dirs : got[d] \in Seq(Byte) /\ left[d] \in Seq(Byte)
           /\ UpSent \in Seq(Byte) /\ DownSent \in Seq(Byte)
           /\ Skipped \in Nat /\ Owing \in Nat
           /\ kind.up \in Seq(Byte) /\ kind.down \in Seq(Byte)
           /\ Len(UpSent) = (IF Sock THEN kind.request ELSE 0) + Len(kind.up)
           /\ Header \in Seq(Byte) /\ Reply \in Seq(Byte) /\ Len(Header) = kind.request /\ Len(Reply) = ReplyLen
<1>1. kind.up \in Seq(Byte) /\ kind.down \in Seq(Byte)
  BY RelayAssumption DEF RelayTypes, Byte
<1>2. 0 \in Byte /\ 1 % Width \in Byte
  BY RelayAssumption DEF Byte, Shift
<1>3. Header \in [1 .. kind.request -> Byte] /\ Reply \in [1 .. ReplyLen -> Byte]
      /\ kind.request \in Nat /\ ReplyLen \in Nat
  BY <1>2, RelayAssumption DEF Header, Reply, RelayTypes
<1>4. Header \in Seq(Byte) /\ Reply \in Seq(Byte) /\ Len(Header) = kind.request /\ Len(Reply) = ReplyLen
  BY <1>3
<1>5. UpSent \in Seq(Byte) /\ DownSent \in Seq(Byte)
      /\ Len(UpSent) = (IF Sock THEN kind.request ELSE 0) + Len(kind.up)
  <2>1. CASE Sock
    BY <1>1, <1>4, <2>1, ConcatProperties DEF UpSent, DownSent
  <2>2. CASE ~Sock
    <3>1. << >> \in Seq(Byte) /\ Len(<< >>) = 0
      OBVIOUS
    <3> QED
      BY <1>1, <2>2, <3>1, ConcatProperties DEF UpSent, DownSent
  <2> QED
    BY <2>1, <2>2
<1>6. Skipped \in Nat /\ Owing \in Nat
  BY <1>3, RelayAssumption DEF Skipped, Owing, RelayTypes
<1> QED
  BY <1>1, <1>4, <1>5, <1>6 DEF RelayTypes

\* How much of the request there is, and was read.
LEMMA RequestTypes ==
    ASSUME RelayTypes
    PROVE  kind.request \in Nat /\ accepted \in Nat /\ (~cut => accepted <= kind.request)
<1>1. kind \in Setups /\ accepted \in Nat /\ (~cut => accepted <= kind.request)
  BY DEF RelayTypes
<1>2. kind.request \in Nat
  BY <1>1, RelayAssumption
<1> QED
  BY <1>1, <1>2

\* A byte changes hands.
LEMMA Moved ==
    ASSUME NEW S, NEW r \in Seq(S), NEW s \in Seq(S), s # << >>
    PROVE  /\ Append(r, Head(s)) \in Seq(S) /\ Tail(s) \in Seq(S)
           /\ Len(r) \in Nat /\ Len(s) \in Nat /\ Len(s) > 0
           /\ Len(Append(r, Head(s))) = Len(r) + 1 /\ Len(Tail(s)) = Len(s) - 1
OBVIOUS

\* The terms of the invariant that only a step of the server's relay changes.
LEMMA SameTerms ==
    ASSUME kind' = kind, accepted' = accepted, state'["server"] = state["server"]
    PROVE  /\ UpSent' = UpSent /\ DownSent' = DownSent /\ Sock' = Sock
           /\ Skipped' = Skipped /\ Owing' = Owing
BY DEF UpSent, DownSent, Header, Skipped, Owing, Sock

\* Either end sends a byte.
LEMMA SendStep ==
    ASSUME RInv, NEW d \in Dirs, EndSends(d)
    PROVE  RInv'
<1> USE DEF Links, Dirs, Relays
<1> RelayTypes
  BY DEF RInv
<1>1. CASE d = "up"
  <2>1. PICK x \in Seq(Byte), y \in Seq(Byte) :
           x = Append(chan["app"]["up"], Head(left["up"])) /\ y = Tail(left["up"])
           /\ left["up"] # << >> /\ Len(y) = Len(left["up"]) - 1 /\ Len(left["up"]) \in Nat
    <3>1. left["up"] # << >> /\ left["up"] \in Seq(Byte) /\ chan["app"]["up"] \in Seq(Byte)
      BY <1>1, Terms DEF EndSends
    <3>2. /\ Append(chan["app"]["up"], Head(left["up"])) \in Seq(Byte) /\ Tail(left["up"]) \in Seq(Byte)
          /\ Len(left["up"]) \in Nat /\ Len(Tail(left["up"])) = Len(left["up"]) - 1
      BY <3>1, Moved
    <3> QED
      BY <3>1, <3>2
  <2>2. /\ chan' = [chan EXCEPT !["app"]["up"] = x] /\ left' = [left EXCEPT !["up"] = y]
        /\ UNCHANGED <<kind, links, closed, state, todo, hold, got, cut, accepted>>
        /\ Sock /\ got["down"] = << >> => Len(left["up"]) # Len(kind.up)
    <3>1. Len(<< >>) < ReplyLen
      BY RelayAssumption
    <3> QED
      BY <1>1, <2>1, <3>1 DEF EndSends, Sock
  <2>3. /\ chan' \in [Links -> [Dirs -> Seq(Byte)]] /\ chan'["app"]["up"] = x
        /\ \A m \in Links, e \in Dirs : m # "app" \/ e # "up" => chan'[m][e] = chan[m][e]
    BY <2>2, Updated, SMTT(30) DEF RelayTypes
  <2>4. left' \in [Dirs -> Seq(Byte)] /\ left'["up"] = y /\ left'["down"] = left["down"]
    BY <2>2 DEF RelayTypes
  <2>5. RelayTypes'
    BY <2>2, <2>3, <2>4 DEF RelayTypes
  <2>6. UpSent' = UpSent /\ DownSent' = DownSent /\ Skipped' = Skipped /\ Owing' = Owing
    BY <2>2, SameTerms
  <2>7. ASSUME UpFlow PROVE UpFlow'
    BY <2>1, <2>2, <2>3, <2>4, <2>6, <2>7, Terms, Sends DEF UpFlow
  <2>8. ASSUME DownFlow PROVE DownFlow'
    BY <2>2, <2>3, <2>4, <2>6, <2>8 DEF DownFlow
  <2>9. ASSUME Unborn PROVE Unborn'
    <3> SUFFICES ASSUME state["server"] = "new" PROVE Unborn'
      BY <2>2 DEF Unborn
    <3>1. got["down"] = << >> /\ (Sock => Len(left["up"]) >= Len(kind.up))
      BY <2>9 DEF Unborn
    <3>2. Sock => Len(left'["up"]) >= Len(kind.up)
      <4>1. Len(kind.up) \in Nat
        BY Terms
      <4> QED
        BY <2>1, <2>2, <2>4, <3>1, <4>1
    <3>3. Sock' = Sock
      BY <2>2 DEF Sock
    <3> QED
      BY <2>2, <2>3, <2>9, <3>2, <3>3 DEF Unborn
  <2> QED
    BY <2>2, <2>5, <2>7, <2>8, <2>9 DEF RInv
<1>2. CASE d = "down"
  <2>1. PICK x \in Seq(Byte), y \in Seq(Byte) :
           x = Append(chan["peer"]["down"], Head(left["down"])) /\ y = Tail(left["down"])
           /\ left["down"] # << >>
    <3>1. /\ chan["peer"]["down"] \in Seq(Byte) /\ left["down"] \in Seq(Byte) /\ left["down"] # << >>
      BY <1>2, Terms DEF EndSends
    <3>2. /\ Append(chan["peer"]["down"], Head(left["down"])) \in Seq(Byte)
          /\ Tail(left["down"]) \in Seq(Byte)
      BY <3>1, Moved, Zenon
    <3> QED
      BY <3>1, <3>2, Zenon
  <2>2. /\ chan' = [chan EXCEPT !["peer"]["down"] = x] /\ left' = [left EXCEPT !["down"] = y]
        /\ UNCHANGED <<kind, links, closed, state, todo, hold, got, cut, accepted>> /\ "peer" \in links
    BY <1>2, <2>1 DEF EndSends
  <2>3. /\ chan' \in [Links -> [Dirs -> Seq(Byte)]] /\ chan'["peer"]["down"] = x
        /\ \A m \in Links, e \in Dirs : m # "peer" \/ e # "down" => chan'[m][e] = chan[m][e]
    BY <2>2, Updated, SMTT(30) DEF RelayTypes
  <2>4. left' \in [Dirs -> Seq(Byte)] /\ left'["down"] = y /\ left'["up"] = left["up"]
    BY <2>2 DEF RelayTypes
  <2>5. RelayTypes'
    BY <2>2, <2>3, <2>4 DEF RelayTypes
  <2>6. UpSent' = UpSent /\ DownSent' = DownSent /\ Skipped' = Skipped /\ Owing' = Owing
    BY <2>2, SameTerms
  <2>7. ASSUME UpFlow PROVE UpFlow'
    BY <2>2, <2>3, <2>4, <2>6, <2>7 DEF UpFlow
  <2>8. ASSUME DownFlow PROVE DownFlow'
    BY <2>1, <2>2, <2>3, <2>4, <2>6, <2>8, Terms, Sends DEF DownFlow
  <2>9. ASSUME Unborn PROVE Unborn'
    BY <2>2, <2>9 DEF Unborn
  <2> QED
    BY <2>2, <2>5, <2>7, <2>8, <2>9 DEF RInv
<1> QED
  BY <1>1, <1>2

\* Either end receives a byte.
LEMMA ReceiveStep ==
    ASSUME RInv, NEW d \in Dirs, EndReads(d)
    PROVE  RInv'
<1> USE DEF Links, Dirs, Relays
<1> RelayTypes
  BY DEF RInv
<1>1. CASE d = "up"
  <2>1. PICK x \in Seq(Byte), y \in Seq(Byte) :
           x = Append(got["up"], Head(chan["peer"]["up"])) /\ y = Tail(chan["peer"]["up"])
           /\ chan["peer"]["up"] # << >>
    BY <1>1, Terms, Moved DEF EndReads
  <2>2. /\ chan' = [chan EXCEPT !["peer"]["up"] = y] /\ got' = [got EXCEPT !["up"] = x]
        /\ UNCHANGED <<kind, links, closed, state, todo, hold, left, cut, accepted>>
    BY <1>1, <2>1 DEF EndReads
  <2>3. /\ chan' \in [Links -> [Dirs -> Seq(Byte)]] /\ chan'["peer"]["up"] = y
        /\ \A m \in Links, e \in Dirs : m # "peer" \/ e # "up" => chan'[m][e] = chan[m][e]
    BY <2>2, Updated DEF RelayTypes
  <2>4. got' \in [Dirs -> Seq(Byte)] /\ got'["up"] = x /\ got'["down"] = got["down"]
    BY <2>2 DEF RelayTypes
  <2>5. RelayTypes'
    BY <2>2, <2>3, <2>4 DEF RelayTypes
  <2>6. UpSent' = UpSent /\ DownSent' = DownSent /\ Skipped' = Skipped /\ Owing' = Owing
    BY <2>2, SameTerms
  <2>7. ASSUME UpFlow PROVE UpFlow'
    BY <2>1, <2>2, <2>3, <2>4, <2>6, <2>7, Terms, Receives DEF UpFlow
  <2>8. ASSUME DownFlow PROVE DownFlow'
    BY <2>2, <2>3, <2>4, <2>6, <2>8 DEF DownFlow
  <2>9. ASSUME Unborn PROVE Unborn'
    BY <2>1, <2>2, <2>9 DEF Unborn
  <2> QED
    BY <2>2, <2>5, <2>7, <2>8, <2>9 DEF RInv
<1>2. CASE d = "down"
  <2>1. PICK x \in Seq(Byte), y \in Seq(Byte) :
           x = Append(got["down"], Head(chan["app"]["down"])) /\ y = Tail(chan["app"]["down"])
           /\ chan["app"]["down"] # << >>
    BY <1>2, Terms, Moved DEF EndReads
  <2>2. /\ chan' = [chan EXCEPT !["app"]["down"] = y] /\ got' = [got EXCEPT !["down"] = x]
        /\ UNCHANGED <<kind, links, closed, state, todo, hold, left, cut, accepted>>
    BY <1>2, <2>1 DEF EndReads
  <2>3. /\ chan' \in [Links -> [Dirs -> Seq(Byte)]] /\ chan'["app"]["down"] = y
        /\ \A m \in Links, e \in Dirs : m # "app" \/ e # "down" => chan'[m][e] = chan[m][e]
    BY <2>2, Updated, SMTT(30) DEF RelayTypes
  <2>4. got' \in [Dirs -> Seq(Byte)] /\ got'["down"] = x /\ got'["up"] = got["up"]
    BY <2>2 DEF RelayTypes
  <2>5. RelayTypes'
    BY <2>2, <2>3, <2>4 DEF RelayTypes
  <2>6. UpSent' = UpSent /\ DownSent' = DownSent /\ Skipped' = Skipped /\ Owing' = Owing
    BY <2>2, SameTerms
  <2>7. ASSUME UpFlow PROVE UpFlow'
    BY <2>2, <2>3, <2>4, <2>6, <2>7 DEF UpFlow
  <2>8. ASSUME DownFlow PROVE DownFlow'
    BY <2>1, <2>2, <2>3, <2>4, <2>6, <2>8, Terms, Receives DEF DownFlow
  <2>9. ASSUME Unborn PROVE Unborn'
    BY <2>1, <2>2, <2>9 DEF Unborn
  <2> QED
    BY <2>2, <2>5, <2>7, <2>8, <2>9 DEF RInv
<1> QED
  BY <1>1, <1>2

\* A relay closes, whatever it had just taken from a connection it read.
LEMMA EndStep ==
    ASSUME RInv, NEW r \in Relays, closeBoth(r), UNCHANGED <<kind, links, left, got, cut, accepted>>,
           chan' \in [Links -> [Dirs -> Seq(Byte)]],
           \A m \in Links, d \in Dirs :
             m # Source[r][d] \/ chan[m][d] = << >> => chan'[m][d] = chan[m][d]
    PROVE  RInv'
<1> USE DEF Links, Dirs, Relays
<1> RelayTypes
  BY DEF RInv
<1>1. /\ hold' \in [Relays -> [Dirs -> Seq(Byte)]]
      /\ \A p \in Relays \ {r}, d \in Dirs : hold'[p][d] = hold[p][d]
      /\ state' \in [Relays -> {"new", "header", "loop", "dead"}]
      /\ state'[r] = "dead" /\ \A p \in Relays \ {r} : state'[p] = state[p]
  <2>1. << >> \in Seq(Byte)
    OBVIOUS
  <2>2. [d \in Dirs |-> << >>] \in [Dirs -> Seq(Byte)]
    BY <2>1
  <2> QED
    BY <2>2 DEF closeBoth, RelayTypes
<1>2. RelayTypes'
  BY <1>1 DEF RelayTypes
<1>3. Sock' = Sock /\ UpSent' = UpSent /\ DownSent' = DownSent
  BY DEF Sock, UpSent, DownSent, Header
<1>4. CASE r = "client"
  <2>1. /\ \A m \in Links : m # "app" => chan'[m]["up"] = chan[m]["up"]
        /\ \A m \in Links : m # "mid" => chan'[m]["down"] = chan[m]["down"]
    BY <1>4 DEF Source
  <2>2. state'["client"] = "dead" /\ state'["server"] = state["server"]
        /\ hold'["server"]["up"] = hold["server"]["up"] /\ hold'["server"]["down"] = hold["server"]["down"]
    BY <1>1, <1>4
  <2>3. Skipped' = Skipped /\ Owing' = Owing
    BY <1>3, <2>2 DEF Skipped, Owing
  <2>4. ASSUME UpFlow PROVE UpFlow'
    <3>1. Flows(UpSent, Skipped, got["up"], chan["peer"]["up"], hold["server"]["up"], chan["mid"]["up"],
                hold'["client"]["up"], 0, chan'["app"]["up"], left["up"], "dead", state["server"])
      BY <2>4, Fewer DEF UpFlow
    <3> QED
      BY <1>3, <2>1, <2>2, <2>3, <3>1 DEF UpFlow
  <2>5. ASSUME DownFlow PROVE DownFlow'
    <3>1. Flows(DownSent, 0, got["down"], chan["app"]["down"], hold'["client"]["down"], chan'["mid"]["down"],
                hold["server"]["down"], Owing, chan["peer"]["down"], left["down"], state["server"], "dead")
      BY <2>5, Fewer DEF DownFlow
    <3> QED
      BY <1>3, <2>1, <2>2, <2>3, <3>1 DEF DownFlow
  <2>6. ASSUME Unborn PROVE Unborn'
    <3> SUFFICES ASSUME state["server"] = "new" PROVE Unborn'
      BY <2>2 DEF Unborn
    <3>1. hold'["client"]["down"] = << >>
      BY <1>4 DEF closeBoth, RelayTypes
    <3>2. chan'["mid"]["down"] = << >>
      BY <2>6 DEF Unborn
    <3> QED
      BY <2>1, <2>2, <1>3, <3>1, <3>2, <2>6 DEF Unborn
  <2> QED
    BY <1>2, <2>4, <2>5, <2>6 DEF RInv
<1>5. CASE r = "server"
  <2>1. /\ \A m \in Links : m # "mid" => chan'[m]["up"] = chan[m]["up"]
        /\ \A m \in Links : m # "peer" => chan'[m]["down"] = chan[m]["down"]
    BY <1>5 DEF Source
  <2>2. state'["server"] = "dead" /\ state'["client"] = state["client"]
        /\ hold'["client"]["up"] = hold["client"]["up"] /\ hold'["client"]["down"] = hold["client"]["down"]
    BY <1>1, <1>5
  <2>3. Skipped' = (IF Sock THEN accepted ELSE 0) /\ Owing' = 0
    BY <1>3, <2>2 DEF Skipped, Owing
  <2>4. ASSUME ~cut, UpFlow, Unborn PROVE UpFlow'
    <3>1. Flows(UpSent, Skipped', got["up"], chan["peer"]["up"], hold'["server"]["up"], chan'["mid"]["up"],
                hold["client"]["up"], 0, chan["app"]["up"], left["up"], state["client"], "dead")
      <4>1. CASE state["server"] # "new"
        <5>1. Skipped' = Skipped
          BY <2>3, <4>1 DEF Skipped
        <5> QED
          BY <2>4, <5>1, Fewer DEF UpFlow
      <4>2. CASE state["server"] = "new"
        <5>1. got["up"] = << >> /\ chan["peer"]["up"] = << >>
          BY <2>4, <4>2 DEF Unborn
        <5>2. Skipped' \in Nat /\ Skipped' <= Len(UpSent)
          <6>1. kind.request \in Nat /\ Len(kind.up) \in Nat /\ accepted \in 0 .. kind.request
                /\ Len(UpSent) = (IF Sock THEN kind.request ELSE 0) + Len(kind.up)
            <7>1. kind.request \in Nat /\ accepted \in 0 .. kind.request
              BY <2>4, RequestTypes
            <7>2. kind.up \in Seq(Byte) /\ Len(UpSent) = (IF Sock THEN kind.request ELSE 0) + Len(kind.up)
              BY Terms
            <7>3. Len(kind.up) \in Nat
              BY <7>2
            <7> QED
              BY <7>1, <7>2, <7>3
          <6>2. CASE Sock
            BY <2>3, <6>1, <6>2
          <6>3. CASE ~Sock
            BY <2>3, <6>1, <6>3
          <6> QED
            BY <6>2, <6>3
        <5>3. PICK k \in Nat : k = Skipped' /\ k <= Len(UpSent)
          BY <5>2
        <5>4. Window(<< >>, UpSent, k) /\ Window(<< >>, UpSent, k + Len(<< >>))
          <6>1. Len(<< >>) = 0 /\ Len(UpSent) \in Nat
            BY Terms
          <6> QED
            BY <5>3, <6>1 DEF Window
        <5> QED
          BY <5>1, <5>3, <5>4 DEF Flows
      <4> QED
        BY <4>1, <4>2
    <3> QED
      BY <1>3, <2>1, <2>2, <3>1 DEF UpFlow
  <2>5. ASSUME DownFlow PROVE DownFlow'
    <3>1. Flows(DownSent, 0, got["down"], chan["app"]["down"], hold["client"]["down"], chan["mid"]["down"],
                hold'["server"]["down"], Owing', chan'["peer"]["down"], left["down"], "dead", state["client"])
      BY <2>5, Fewer DEF DownFlow
    <3> QED
      BY <1>3, <2>1, <2>2, <2>3, <3>1 DEF DownFlow
  <2>6. Unborn'
    BY <2>2 DEF Unborn
  <2> QED
    BY <1>2, <2>4, <2>5, <2>6 DEF RInv
<1> QED
  BY <1>4, <1>5

\* A relay reads what a connection holds, or some of it.
LEMMA ReadStep ==
    ASSUME RInv, NEW r \in Relays, NEW d \in Dirs, NEW n \in 0 .. BufSize, read(r, d, n)
    PROVE  RInv'
<1> USE DEF Links, Dirs, Relays
<1> RelayTypes
  BY DEF RInv
<1>1. Source[r][d] \in Links
  BY DEF Source
<1>2. PICK l \in Links : l = Source[r][d]
  BY <1>1
<1>3. PICK s \in Seq(Byte) : s = chan[l][d]
  BY <1>2, Terms
<1>4. state[r] = "loop" /\ n \in 0 .. Len(s) /\ chan' = [chan EXCEPT ![l][d] = SubSeq(s, n + 1, Len(s))]
  BY <1>2, <1>3 DEF read
<1>5. SubSeq(s, n + 1, Len(s)) \in Seq(Byte) /\ (s = << >> => SubSeq(s, n + 1, Len(s)) = s)
      /\ SubSeq(s, 1, n) \in Seq(Byte)
  BY <1>4
<1>6. /\ chan' \in [Links -> [Dirs -> Seq(Byte)]] /\ chan'[l][d] = SubSeq(s, n + 1, Len(s))
      /\ \A m \in Links, e \in Dirs : m # l \/ e # d => chan'[m][e] = chan[m][e]
  <2>1. PICK y \in Seq(Byte) : y = SubSeq(s, n + 1, Len(s))
    BY <1>5
  <2>2. chan' = [chan EXCEPT ![l][d] = y]
    BY <1>4, <2>1
  <2>3. /\ chan' \in [Links -> [Dirs -> Seq(Byte)]] /\ chan'[l][d] = y
        /\ \A m \in Links, e \in Dirs : m # l \/ e # d => chan'[m][e] = chan[m][e]
    BY <2>2, Updated, SMTT(30) DEF RelayTypes
  <2> QED
    BY <2>1, <2>3
<1>7. CASE closeBoth(r) /\ UNCHANGED <<kind, links, left, got, cut, accepted>>
  <2>1. \A m \in Links, e \in Dirs :
           m # Source[r][e] \/ chan[m][e] = << >> => chan'[m][e] = chan[m][e]
    BY <1>2, <1>3, <1>5, <1>6
  <2> QED
    BY <1>6, <1>7, <2>1, EndStep
<1>8. CASE /\ hold' = [hold EXCEPT ![r][d] = @ \o Coded(r, d, SubSeq(s, 1, n))]
           /\ UNCHANGED <<kind, links, closed, state, left, got, cut, accepted>>
  <2>1. PICK x \in Seq(Byte) : x = hold[r][d] \o Coded(r, d, SubSeq(s, 1, n))
    <3>1. hold[r][d] \in Seq(Byte) /\ Coded(r, d, SubSeq(s, 1, n)) \in Seq(Byte)
      BY <1>5, Terms, CodedWindow
    <3> QED
      BY <3>1, ConcatProperties
  <2>2. hold' = [hold EXCEPT ![r][d] = x]
    BY <1>8, <2>1
  <2>3. /\ hold' \in [Relays -> [Dirs -> Seq(Byte)]] /\ hold'[r][d] = x
        /\ \A p \in Relays, e \in Dirs : p # r \/ e # d => hold'[p][e] = hold[p][e]
    BY <2>2, Updated, SMTT(30) DEF RelayTypes
  <2>4. RelayTypes'
    BY <1>6, <1>8, <2>3 DEF RelayTypes
  <2>5. UpSent' = UpSent /\ DownSent' = DownSent /\ Skipped' = Skipped /\ Owing' = Owing
    BY <1>8, SameTerms
  <2>6. ASSUME UpFlow, DownFlow, Unborn PROVE UpFlow'
    <3>1. CASE r = "client" /\ d = "up"
      <4>1. l = "app" /\ s = chan["app"]["up"]
        BY <1>2, <1>3, <3>1 DEF Source
      <4>2. Flows(UpSent, Skipped, got["up"], chan["peer"]["up"], hold["server"]["up"], chan["mid"]["up"],
                  hold["client"]["up"] \o Coded(r, d, SubSeq(chan["app"]["up"], 1, n)), 0,
                  SubSeq(chan["app"]["up"], n + 1, Len(chan["app"]["up"])),
                  left["up"], state["client"], state["server"])
        BY <1>4, <2>6, <3>1, <4>1, Terms, Reads1 DEF UpFlow
      <4> QED
        BY <1>6, <1>8, <2>1, <2>3, <2>5, <3>1, <4>1, <4>2 DEF UpFlow
    <3>2. CASE r = "server" /\ d = "up"
      <4>1. l = "mid" /\ s = chan["mid"]["up"]
        BY <1>2, <1>3, <3>2 DEF Source
      <4>2. Flows(UpSent, Skipped, got["up"], chan["peer"]["up"],
                  hold["server"]["up"] \o Coded(r, d, SubSeq(chan["mid"]["up"], 1, n)),
                  SubSeq(chan["mid"]["up"], n + 1, Len(chan["mid"]["up"])),
                  hold["client"]["up"], 0, chan["app"]["up"], left["up"], state["client"], state["server"])
        BY <1>4, <2>6, <3>2, <4>1, Terms, Reads2 DEF UpFlow
      <4> QED
        BY <1>6, <1>8, <2>1, <2>3, <2>5, <3>2, <4>1, <4>2 DEF UpFlow
    <3>3. CASE d # "up"
      BY <1>6, <1>8, <2>3, <2>5, <2>6, <3>3 DEF UpFlow
    <3> QED
      BY <3>1, <3>2, <3>3
  <2>7. ASSUME UpFlow, DownFlow, Unborn PROVE DownFlow'
    <3>1. CASE r = "client" /\ d = "down"
      <4>1. l = "mid" /\ s = chan["mid"]["down"]
        BY <1>2, <1>3, <3>1 DEF Source
      <4>2. Flows(DownSent, 0, got["down"], chan["app"]["down"],
                  hold["client"]["down"] \o Coded(r, d, SubSeq(chan["mid"]["down"], 1, n)),
                  SubSeq(chan["mid"]["down"], n + 1, Len(chan["mid"]["down"])),
                  hold["server"]["down"], Owing, chan["peer"]["down"], left["down"],
                  state["server"], state["client"])
        BY <1>4, <2>7, <3>1, <4>1, Terms, Reads2 DEF DownFlow
      <4> QED
        BY <1>6, <1>8, <2>1, <2>3, <2>5, <3>1, <4>1, <4>2 DEF DownFlow
    <3>2. CASE r = "server" /\ d = "down"
      <4>1. l = "peer" /\ s = chan["peer"]["down"] /\ Owing = 0
        BY <1>2, <1>3, <1>4, <3>2 DEF Source, Owing
      <4>2. Flows(DownSent, 0, got["down"], chan["app"]["down"], hold["client"]["down"], chan["mid"]["down"],
                  hold["server"]["down"] \o Coded(r, d, SubSeq(chan["peer"]["down"], 1, n)), 0,
                  SubSeq(chan["peer"]["down"], n + 1, Len(chan["peer"]["down"])),
                  left["down"], state["server"], state["client"])
        <5>1. Flows(DownSent, 0, got["down"], chan["app"]["down"], hold["client"]["down"], chan["mid"]["down"],
                    hold["server"]["down"], 0, chan["peer"]["down"], left["down"],
                    state["server"], state["client"])
          BY <2>7, <4>1 DEF DownFlow
        <5>2. n \in 0 .. Len(chan["peer"]["down"]) /\ (r = "client") = (d = "up")
          BY <1>4, <3>2, <4>1
        <5>3. /\ DownSent \in Seq(Byte) /\ 0 \in Nat /\ got["down"] \in Seq(Byte)
              /\ chan["app"]["down"] \in Seq(Byte) /\ hold["client"]["down"] \in Seq(Byte)
              /\ chan["mid"]["down"] \in Seq(Byte) /\ hold["server"]["down"] \in Seq(Byte)
              /\ chan["peer"]["down"] \in Seq(Byte) /\ left["down"] \in Seq(Byte)
          BY Terms
        <5> HIDE DEF Links, Dirs, Relays
        <5> QED
          BY <5>1, <5>2, <5>3, Reads1
      <4> QED
        BY <1>6, <1>8, <2>1, <2>3, <2>5, <3>2, <4>1, <4>2 DEF DownFlow
    <3>3. CASE d # "down"
      BY <1>6, <1>8, <2>3, <2>5, <2>7, <3>3 DEF DownFlow
    <3> QED
      BY <3>1, <3>2, <3>3
  <2>8. ASSUME Unborn PROVE Unborn'
    <3> SUFFICES ASSUME state["server"] = "new" PROVE Unborn'
      BY <1>8 DEF Unborn
    <3>1. r = "client"
      BY <1>4
    <3>2. CASE d = "up"
      <4>1. l = "app"
        BY <1>2, <3>1, <3>2 DEF Source
      <4>2. Sock' = Sock
        BY <1>8 DEF Sock
      <4> QED
        BY <1>6, <1>8, <2>3, <2>8, <3>1, <3>2, <4>1, <4>2 DEF Unborn
    <3>3. CASE d = "down"
      <4>1. l = "mid" /\ s = << >> /\ hold["client"]["down"] = << >>
        BY <1>2, <1>3, <2>8, <3>1, <3>3 DEF Source, Unborn
      <4>2. Sock' = Sock /\ chan'["mid"]["down"] = << >>
        BY <1>5, <1>6, <1>8, <3>3, <4>1 DEF Sock
      <4>3. x = << >>
        <5>1. n = 0 /\ SubSeq(s, 1, n) \in Seq(Byte) /\ Len(SubSeq(s, 1, n)) = 0
          BY <1>4, <4>1
        <5>2. Coded(r, d, SubSeq(s, 1, n)) \in Seq(Byte) /\ Len(Coded(r, d, SubSeq(s, 1, n))) = 0
          <6>1. 0 \in Nat
            OBVIOUS
          <6> QED
            BY <5>1, <6>1, CodedWindow, ZenonT(30)
        <5>3. PICK c \in Seq(Byte) : c = Coded(r, d, SubSeq(s, 1, n)) /\ Len(c) = 0
          BY <5>2
        <5>4. c = << >>
          BY <5>3
        <5>5. x = << >> \o << >>
          BY <2>1, <3>1, <3>3, <4>1, <5>3, <5>4
        <5> QED
          BY <5>5
      <4> QED
        BY <1>6, <1>8, <2>3, <2>8, <3>1, <3>3, <4>1, <4>2, <4>3 DEF Unborn
    <3> QED
      BY <3>2, <3>3
  <2> QED
    BY <1>8, <2>4, <2>6, <2>7, <2>8 DEF RInv
<1> QED
  BY <1>2, <1>3, <1>7, <1>8 DEF read

\* A relay writes a byte, or finds that it cannot any more.
LEMMA WriteStep ==
    ASSUME RInv, NEW r \in Relays, NEW d \in Dirs, write(r, d)
    PROVE  RInv'
<1> USE DEF Links, Dirs, Relays
<1> RelayTypes
  BY DEF RInv
<1>1. CASE closeBoth(r) /\ UNCHANGED <<kind, chan, links, left, got, cut, accepted>>
  <2>1. chan' \in [Links -> [Dirs -> Seq(Byte)]]
    BY <1>1 DEF RelayTypes
  <2>2. \A m \in Links, e \in Dirs :
           m # Source[r][e] \/ chan[m][e] = << >> => chan'[m][e] = chan[m][e]
    BY <1>1
  <2>3. UNCHANGED <<kind, links, left, got, cut, accepted>>
    BY <1>1
  <2> QED
    BY <1>1, <2>1, <2>2, <2>3, EndStep
<1>2. CASE /\ chan' = [chan EXCEPT ![Sink[r][d]][d] = Append(@, Head(hold[r][d]))]
           /\ hold' = [hold EXCEPT ![r][d] = Tail(@)]
           /\ UNCHANGED <<kind, links, closed, state, todo, left, got, cut, accepted>>
  <2>1. PICK l \in Links : l = Sink[r][d]
    BY DEF Sink
  <2>2. hold[r][d] \in Seq(Byte) /\ hold[r][d] # << >> /\ chan[l][d] \in Seq(Byte)
        /\ state[r] \in {"loop", "header"}
    BY Terms DEF write
  <2>3. PICK x \in Seq(Byte), y \in Seq(Byte) : x = Append(chan[l][d], Head(hold[r][d])) /\ y = Tail(hold[r][d])
    BY <2>2, Moved
  <2>4. chan' = [chan EXCEPT ![l][d] = x] /\ hold' = [hold EXCEPT ![r][d] = y]
    BY <1>2, <2>1, <2>3
  <2>5. /\ chan' \in [Links -> [Dirs -> Seq(Byte)]] /\ chan'[l][d] = x
        /\ \A m \in Links, e \in Dirs : m # l \/ e # d => chan'[m][e] = chan[m][e]
    BY <2>4, Updated DEF RelayTypes
  <2>6. /\ hold' \in [Relays -> [Dirs -> Seq(Byte)]] /\ hold'[r][d] = y
        /\ \A p \in Relays, e \in Dirs : p # r \/ e # d => hold'[p][e] = hold[p][e]
    BY <2>4, Updated DEF RelayTypes
  <2>7. RelayTypes'
    BY <1>2, <2>5, <2>6 DEF RelayTypes
  <2>8. UpSent' = UpSent /\ DownSent' = DownSent /\ Skipped' = Skipped /\ Owing' = Owing /\ Sock' = Sock
    BY <1>2, SameTerms
  <2>9. ASSUME UpFlow PROVE UpFlow'
    <3>1. CASE r = "client" /\ d = "up"
      <4>1. l = "mid"
        BY <2>1, <3>1 DEF Sink
      <4>2. Flows(UpSent, Skipped, got["up"], chan["peer"]["up"], hold["server"]["up"],
                  Append(chan["mid"]["up"], Head(hold["client"]["up"])), Tail(hold["client"]["up"]),
                  0, chan["app"]["up"], left["up"], state["client"], state["server"])
        BY <2>2, <2>9, <3>1, Terms, Writes1 DEF UpFlow
      <4> QED
        BY <1>2, <2>3, <2>5, <2>6, <2>8, <3>1, <4>1, <4>2 DEF UpFlow
    <3>2. CASE r = "server" /\ d = "up"
      <4>1. l = "peer"
        BY <2>1, <3>2 DEF Sink
      <4>2. Flows(UpSent, Skipped, got["up"], Append(chan["peer"]["up"], Head(hold["server"]["up"])),
                  Tail(hold["server"]["up"]), chan["mid"]["up"], hold["client"]["up"],
                  0, chan["app"]["up"], left["up"], state["client"], state["server"])
        BY <2>2, <2>9, <3>2, Terms, Writes2 DEF UpFlow
      <4> QED
        BY <1>2, <2>3, <2>5, <2>6, <2>8, <3>2, <4>1, <4>2 DEF UpFlow
    <3>3. CASE d # "up"
      BY <1>2, <2>5, <2>6, <2>8, <2>9, <3>3 DEF UpFlow
    <3> QED
      BY <3>1, <3>2, <3>3
  <2>10. ASSUME DownFlow PROVE DownFlow'
    <3>1. CASE r = "client" /\ d = "down"
      <4>1. l = "app"
        BY <2>1, <3>1 DEF Sink
      <4>2. Flows(DownSent, 0, got["down"], Append(chan["app"]["down"], Head(hold["client"]["down"])),
                  Tail(hold["client"]["down"]), chan["mid"]["down"], hold["server"]["down"],
                  Owing, chan["peer"]["down"], left["down"], state["server"], state["client"])
        BY <2>2, <2>10, <3>1, Terms, Writes2 DEF DownFlow
      <4> QED
        BY <1>2, <2>3, <2>5, <2>6, <2>8, <3>1, <4>1, <4>2 DEF DownFlow
    <3>2. CASE r = "server" /\ d = "down"
      <4>1. l = "mid"
        BY <2>1, <3>2 DEF Sink
      <4>2. Flows(DownSent, 0, got["down"], chan["app"]["down"], hold["client"]["down"],
                  Append(chan["mid"]["down"], Head(hold["server"]["down"])), Tail(hold["server"]["down"]),
                  Owing, chan["peer"]["down"], left["down"], state["server"], state["client"])
        BY <2>2, <2>10, <3>2, Terms, Writes1 DEF DownFlow
      <4> QED
        BY <1>2, <2>3, <2>5, <2>6, <2>8, <3>2, <4>1, <4>2 DEF DownFlow
    <3>3. CASE d # "down"
      BY <1>2, <2>5, <2>6, <2>8, <2>10, <3>3 DEF DownFlow
    <3> QED
      BY <3>1, <3>2, <3>3
  <2>11. ASSUME UpFlow, Unborn PROVE Unborn'
    <3> SUFFICES ASSUME state["server"] = "new" PROVE Unborn'
      BY <1>2 DEF Unborn
    <3>1. r = "client" /\ d = "up" /\ l = "mid"
      BY <2>1, <2>2, <2>11 DEF Unborn, Sink
    <3>2. Sock => Len(x) <= kind.request
      <4> SUFFICES ASSUME Sock PROVE Len(x) <= kind.request
        OBVIOUS
      <4>1. Len(got["up"]) = 0 /\ Len(chan["peer"]["up"]) = 0 /\ Len(hold["server"]["up"]) = 0 /\ Skipped = 0
        BY <2>11 DEF Unborn, Skipped
      <4>2. state["client"] # "dead" /\ state["server"] # "dead"
        BY <2>2, <3>1
      <4>3. PICK a \in Nat, b \in Nat, c \in Nat, e \in Nat :
               /\ a = Len(chan["mid"]["up"]) /\ b = Len(hold["client"]["up"])
               /\ c = Len(chan["app"]["up"]) /\ e = Len(left["up"])
        <5>1. /\ chan["mid"]["up"] \in Seq(Byte) /\ hold["client"]["up"] \in Seq(Byte)
              /\ chan["app"]["up"] \in Seq(Byte) /\ left["up"] \in Seq(Byte)
          BY Terms
        <5>2. /\ Len(chan["mid"]["up"]) \in Nat /\ Len(hold["client"]["up"]) \in Nat
              /\ Len(chan["app"]["up"]) \in Nat /\ Len(left["up"]) \in Nat
          <6>1. \A z \in Seq(Byte) : Len(z) \in Nat
            OBVIOUS
          <6> QED
            BY <5>1, <6>1
        <5> QED
          BY <5>2
      <4>4. 0 + 0 + 0 + 0 + a + b + 0 + c + e = Len(UpSent)
        BY <2>11, <4>1, <4>2, <4>3 DEF UpFlow, Flows
      <4>5. Len(UpSent) = kind.request + Len(kind.up) /\ e >= Len(kind.up)
            /\ Len(kind.up) \in Nat /\ kind.request \in Nat
        BY <2>11, <4>3, Terms, RelayAssumption DEF Unborn
      <4>6. Len(x) = a + 1 /\ b > 0
        BY <2>2, <2>3, <3>1, <4>3, Moved
      <4> QED
        BY <4>4, <4>5, <4>6
    <3> QED
      BY <1>2, <2>5, <2>6, <2>8, <2>11, <3>1, <3>2 DEF Unborn
  <2> QED
    BY <1>2, <2>7, <2>9, <2>10, <2>11 DEF RInv
<1> QED
  BY <1>1, <1>2 DEF write

\* A client that connects, gives up, or is refused.
LEMMA ClientStep ==
    ASSUME RInv, clientAbandons \/ \E ok \in BOOLEAN : clientConnects(ok)
    PROVE  RInv'
<1> USE DEF Links, Dirs, Relays
<1> RelayTypes
  BY DEF RInv
<1>1. CASE closeBoth("client") /\ UNCHANGED <<kind, chan, links, left, got, cut, accepted>>
  BY <1>1, EndStep DEF RelayTypes
<1>2. CASE /\ state.client = "new" /\ links' \subseteq links \cup {"mid"}
           /\ \E v \in {"loop", "dead"} : state' = [state EXCEPT !.client = v]
           /\ UNCHANGED <<kind, chan, hold, left, got, cut, accepted>>
  <2>1. PICK v \in {"loop", "dead"} : state' = [state EXCEPT !.client = v]
    BY <1>2
  <2>2. /\ state' \in [Relays -> {"new", "header", "loop", "dead"}]
        /\ state'["client"] = v /\ state'["server"] = state["server"] /\ state["client"] = "new"
    BY <1>2, <2>1 DEF RelayTypes
  <2>3. RelayTypes'
    BY <1>2, <2>2 DEF RelayTypes
  <2>4. UpSent' = UpSent /\ DownSent' = DownSent /\ Skipped' = Skipped /\ Owing' = Owing /\ Sock' = Sock
    BY <1>2, <2>2, SameTerms
  <2>5. ASSUME UpFlow PROVE UpFlow'
    <3>1. Flows(UpSent, Skipped, got["up"], chan["peer"]["up"], hold["server"]["up"], chan["mid"]["up"],
                hold["client"]["up"], 0, chan["app"]["up"], left["up"], v, state["server"])
      BY <2>2, <2>5, Fewer DEF UpFlow
    <3> QED
      BY <1>2, <2>2, <2>4, <3>1 DEF UpFlow
  <2>6. ASSUME DownFlow PROVE DownFlow'
    <3>1. Flows(DownSent, 0, got["down"], chan["app"]["down"], hold["client"]["down"], chan["mid"]["down"],
                hold["server"]["down"], Owing, chan["peer"]["down"], left["down"], state["server"], v)
      BY <2>2, <2>6, Fewer DEF DownFlow
    <3> QED
      BY <1>2, <2>2, <2>4, <3>1 DEF DownFlow
  <2>7. ASSUME Unborn PROVE Unborn'
    BY <1>2, <2>2, <2>4, <2>7 DEF Unborn
  <2> QED
    BY <1>2, <2>3, <2>5, <2>6, <2>7 DEF RInv
<1> QED
  BY <1>1, <1>2 DEF clientAbandons, clientConnects

\* The server's relay goes on to serve; nothing else changes.
LEMMA ServeStep ==
    ASSUME RInv, UNCHANGED <<kind, chan, hold, left, got, cut, accepted>>,
           state' = [state EXCEPT !.server = "loop"],
           state["server"] \in {"new", "header"}, Sock => state["server"] # "new"
    PROVE  RInv'
<1> USE DEF Links, Dirs, Relays
<1> RelayTypes
  BY DEF RInv
<1>1. /\ state' \in [Relays -> {"new", "header", "loop", "dead"}]
      /\ state'["server"] = "loop" /\ state'["client"] = state["client"]
  BY DEF RelayTypes
<1>2. RelayTypes'
  BY <1>1 DEF RelayTypes
<1>3. UpSent' = UpSent /\ DownSent' = DownSent /\ Sock' = Sock
  BY DEF UpSent, DownSent, Header, Sock
<1>4. Skipped' = Skipped /\ Owing' = Owing
  BY <1>1, <1>3 DEF Skipped, Owing
<1>5. ASSUME UpFlow PROVE UpFlow'
  <2>1. Flows(UpSent, Skipped, got["up"], chan["peer"]["up"], hold["server"]["up"], chan["mid"]["up"],
              hold["client"]["up"], 0, chan["app"]["up"], left["up"], state["client"], "loop")
    BY <1>5, Fewer DEF UpFlow
  <2> QED
    BY <1>1, <1>3, <1>4, <2>1 DEF UpFlow
<1>6. ASSUME DownFlow PROVE DownFlow'
  <2>1. Flows(DownSent, 0, got["down"], chan["app"]["down"], hold["client"]["down"], chan["mid"]["down"],
              hold["server"]["down"], Owing, chan["peer"]["down"], left["down"], "loop", state["client"])
    BY <1>6, Fewer DEF DownFlow
  <2> QED
    BY <1>1, <1>3, <1>4, <2>1 DEF DownFlow
<1>7. Unborn'
  BY <1>1 DEF Unborn
<1> QED
  BY <1>2, <1>5, <1>6, <1>7 DEF RInv

\* tcpipe's server connects to the target, or is refused.
LEMMA ServerStep ==
    ASSUME RInv, serverReplied \/ \E ok \in BOOLEAN : serverConnects(ok)
    PROVE  RInv'
<1> RelayTypes
  BY DEF RInv
<1>1. CASE closeBoth("server") /\ UNCHANGED <<kind, chan, links, left, got, cut, accepted>>
  BY <1>1, EndStep DEF RelayTypes, Relays
<1>2. CASE /\ state' = [state EXCEPT !.server = "loop"]
           /\ state["server"] \in {"new", "header"} /\ (Sock => state["server"] # "new")
           /\ UNCHANGED <<kind, chan, hold, left, got, cut, accepted>>
  BY <1>2, ServeStep
<1> QED
  BY <1>1, <1>2 DEF serverReplied, serverConnects, Sock

\* sock4a's server has the whole request: it is all that has come, what comes
\* from the target goes out behind the answer.
LEMMA RequestStep ==
    ASSUME RInv, NEW n \in 0 .. BufSize, NEW ok \in BOOLEAN, serverReadsHeader(n, ok)
    PROVE  RInv'
<1> USE DEF Links, Dirs, Relays
<1> RelayTypes
  BY DEF RInv
<1>1. PICK s \in Seq(Byte) : s = chan["mid"]["up"]
  BY Terms
<1>2. /\ state["server"] = "new" /\ Sock /\ n \in 0 .. Len(s)
      /\ chan' = [chan EXCEPT !["mid"]["up"] = SubSeq(s, n + 1, Len(s))]
      /\ UNCHANGED <<kind, left, got, cut>>
  BY <1>1 DEF serverReadsHeader, Sock
<1>3. SubSeq(s, n + 1, Len(s)) \in Seq(Byte) /\ (s = << >> => SubSeq(s, n + 1, Len(s)) = s)
      /\ Len(SubSeq(s, n + 1, Len(s))) = Len(s) - n /\ Len(s) \in Nat
  BY <1>2
<1>4. PICK y \in Seq(Byte) : /\ y = SubSeq(s, n + 1, Len(s)) /\ (s = << >> => y = s)
                             /\ Len(y) = Len(s) - n
  BY <1>3
<1>5. chan' = [chan EXCEPT !["mid"]["up"] = y]
  BY <1>2, <1>4
<1>6. /\ chan' \in [Links -> [Dirs -> Seq(Byte)]] /\ chan'["mid"]["up"] = y
      /\ \A m \in Links, e \in Dirs : m # "mid" \/ e # "up" => chan'[m][e] = chan[m][e]
  BY <1>5, Updated, SMTT(30) DEF RelayTypes
<1>7. CASE closeBoth("server") /\ UNCHANGED <<kind, links, left, got, cut, accepted>>
  <2>1. \A m \in Links, e \in Dirs :
           m # Source["server"][e] \/ chan[m][e] = << >> => chan'[m][e] = chan[m][e]
    BY <1>1, <1>4, <1>6 DEF Source
  <2> QED
    BY <1>6, <1>7, <2>1, EndStep
<1>8. CASE /\ accepted' = n /\ state' = [state EXCEPT !.server = "header"]
           /\ hold' = [hold EXCEPT !.server.down = Coded("server", "down", Reply)]
           /\ UNCHANGED <<kind, closed, todo, left, got, cut>>
  <2>1. PICK x \in Seq(Byte) : x = Coded("server", "down", Reply)
    BY Terms, CodedWindow
  <2>2. hold' = [hold EXCEPT !["server"]["down"] = x]
    BY <1>8, <2>1
  <2>3. /\ hold' \in [Relays -> [Dirs -> Seq(Byte)]] /\ hold'["server"]["down"] = x
        /\ \A p \in Relays, e \in Dirs : p # "server" \/ e # "down" => hold'[p][e] = hold[p][e]
    BY <2>2, Updated, SMTT(30) DEF RelayTypes
  <2>4. /\ state' \in [Relays -> {"new", "header", "loop", "dead"}]
        /\ state'["server"] = "header" /\ state'["client"] = state["client"]
    BY <1>8 DEF RelayTypes
  <2>5. /\ UpSent' = UpSent /\ DownSent' = DownSent /\ Sock' = Sock
        /\ Skipped = 0 /\ Skipped' = n /\ Owing = ReplyLen /\ Owing' = 0
    BY <1>2, <1>8, <2>4 DEF UpSent, DownSent, Header, Sock, Skipped, Owing
  <2>6. RelayTypes'
    <3>1. n \in Nat
      BY <1>2, <1>3
    <3>2. ASSUME ~cut PROVE n <= kind.request
      <4>1. Len(s) <= kind.request /\ kind.request \in Nat
        BY <1>1, <1>2, <3>2, RequestTypes DEF RInv, Unborn
      <4> QED
        BY <1>2, <1>3, <4>1
    <3>3. accepted' \in Nat /\ (~cut' => accepted' <= kind'.request)
      BY <1>2, <1>8, <3>1, <3>2
    <3>4. kind' = kind /\ left' = left /\ got' = got
      BY <1>2
    <3> QED
      BY <1>6, <2>3, <2>4, <3>3, <3>4 DEF RelayTypes
  <2>7. ASSUME Unborn, UpFlow PROVE UpFlow'
    <3>1. got["up"] = << >> /\ chan["peer"]["up"] = << >> /\ hold["server"]["up"] = << >>
      BY <1>2, <2>7 DEF Unborn
    <3>2. PICK h1 \in Seq(Byte), in \in Seq(Byte), l \in Seq(Byte), t \in Seq(Byte), e \in Seq(Byte), b \in Nat :
             /\ h1 = hold["client"]["up"] /\ in = chan["app"]["up"] /\ b = n
             /\ l = left["up"] /\ t = UpSent /\ e = Encoded(t) /\ Len(e) = Len(t)
      <4>1. /\ hold["client"]["up"] \in Seq(Byte) /\ chan["app"]["up"] \in Seq(Byte)
            /\ left["up"] \in Seq(Byte) /\ UpSent \in Seq(Byte)
        BY Terms
      <4>2. Encoded(UpSent) \in Seq(Byte) /\ Len(Encoded(UpSent)) = Len(UpSent)
        BY <4>1, EncodedType
      <4>3. n \in Nat
        BY <1>2, <1>3
      <4> QED
        BY <4>1, <4>2, <4>3
    <3>3. Flows(t, 0, << >>, << >>, << >>, s, h1, 0, in, l, state["client"], state["server"])
      BY <1>1, <2>5, <2>7, <3>1, <3>2 DEF UpFlow
    <3>4. /\ Len(<< >>) = 0 /\ Len(t) \in Nat /\ Len(h1) \in Nat /\ Len(in) \in Nat /\ Len(l) \in Nat
          /\ Len(s) \in Nat /\ Len(y) \in Nat /\ b <= Len(s) /\ b + Len(y) = Len(s)
      <4>1. /\ Len(<< >>) = 0 /\ Len(t) \in Nat /\ Len(h1) \in Nat /\ Len(in) \in Nat /\ Len(l) \in Nat
            /\ Len(s) \in Nat /\ Len(y) \in Nat
        OBVIOUS
      <4>2. b \in 0 .. Len(s) /\ Len(y) = Len(s) - b
        BY <1>2, <1>4, <3>2
      <4> QED
        BY <4>1, <4>2
    <3>5. Window(s, e, 0)
      BY <1>2, <3>2, <3>3, <3>4 DEF Flows
    <3>6. Window(y, e, b) /\ Len(s) <= Len(t)
      <4>1. y = SubSeq(s, b + 1, Len(s)) /\ b \in 0 .. Len(s) /\ 0 + b = b
        BY <1>2, <1>4, <3>2
      <4>2. Window(SubSeq(s, b + 1, Len(s)), e, 0 + b)
        BY <3>5, <4>1, Split
      <4>3. 0 + Len(s) <= Len(e)
        BY <3>5 DEF Window
      <4> QED
        BY <3>2, <3>4, <4>1, <4>2, <4>3
    <3>7. Window(<< >>, t, b)
      BY <3>4, <3>6 DEF Window
    <3>8. Flows(t, b, << >>, << >>, << >>, y, h1, 0, in, l, state["client"], "header")
      <4>1. CASE state["client"] # "dead"
        <5>1. /\ Window(h1, e, Len(s)) /\ Window(in, t, Len(s) + Len(h1))
              /\ Window(l, t, Len(s) + Len(h1) + Len(in)) /\ Len(s) + Len(h1) + Len(in) + Len(l) = Len(t)
          <6>1. LET o4 == 0 + Len(<< >>) + Len(<< >>) + Len(<< >>) + Len(s) o5 == o4 + Len(h1) + 0
                IN  /\ Window(h1, Encoded(t), o4) /\ Window(in, t, o5) /\ Window(l, t, o5 + Len(in))
                    /\ o5 + Len(in) + Len(l) = Len(t)
            BY <1>2, <3>3, <4>1 DEF Flows
          <6>2. 0 + Len(<< >>) + Len(<< >>) + Len(<< >>) + Len(s) = Len(s) /\ Len(s) + Len(h1) + 0 = Len(s) + Len(h1)
            BY <3>4
          <6> QED
            BY <3>2, <6>1, <6>2
        <5>2. /\ b + Len(<< >>) + Len(<< >>) + Len(<< >>) + Len(y) = Len(s)
              /\ b + Len(<< >>) = b /\ b + Len(<< >>) + Len(<< >>) = b
              /\ b + Len(<< >>) + Len(<< >>) + Len(<< >>) = b /\ Len(s) + Len(h1) + 0 = Len(s) + Len(h1)
          BY <3>4
        <5> QED
          BY <3>2, <3>6, <3>7, <5>1, <5>2 DEF Flows
      <4>2. CASE state["client"] = "dead"
        <5>1. b + Len(<< >>) = b /\ b + Len(<< >>) + Len(<< >>) = b
              /\ b + Len(<< >>) + Len(<< >>) + Len(<< >>) = b
          BY <3>4
        <5> QED
          BY <3>2, <3>6, <3>7, <4>2, <5>1 DEF Flows
      <4> QED
        BY <4>1, <4>2
    <3> QED
      BY <1>2, <1>6, <2>3, <2>4, <2>5, <3>1, <3>2, <3>8 DEF UpFlow
  <2>8. ASSUME Unborn, DownFlow PROVE DownFlow'
    <3>1. /\ got["down"] = << >> /\ chan["app"]["down"] = << >> /\ hold["client"]["down"] = << >>
          /\ chan["mid"]["down"] = << >> /\ hold["server"]["down"] = << >>
      BY <1>2, <2>8 DEF Unborn
    <3>2. PICK in \in Seq(Byte), l \in Seq(Byte), t \in Seq(Byte), b \in Nat :
             in = chan["peer"]["down"] /\ l = left["down"] /\ t = DownSent /\ b = ReplyLen
      BY Terms, RelayAssumption
    <3>3. Flows(t, 0, << >>, << >>, << >>, << >>, << >>, b, in, l, state["server"], state["client"])
      BY <2>5, <2>8, <3>1, <3>2 DEF DownFlow
    <3>4. Len(x) = b /\ Window(x, Encoded(t), 0)
      <4>1. Reply \in Seq(Byte) /\ Len(Reply) = b /\ DownSent = Reply \o kind.down /\ kind.down \in Seq(Byte)
        BY <1>2, <3>2, Terms DEF DownSent
      <4>2. Len(t) = b + Len(kind.down) /\ \A i \in 1 .. b : t[i] = Reply[i]
        <5>1. PICK p \in Seq(Byte), q \in Seq(Byte) : p = Reply /\ q = kind.down
          BY <4>1
        <5>2. t = p \o q /\ Len(p) = b
          BY <3>2, <4>1, <5>1
        <5>3. Len(p \o q) = Len(p) + Len(q) /\ \A i \in 1 .. Len(p) : (p \o q)[i] = p[i]
          BY ConcatProperties
        <5> QED
          BY <5>1, <5>2, <5>3
      <4>3. Window(Reply, t, 0)
        BY <4>1, <4>2 DEF Window
      <4> QED
        BY <2>1, <4>1, <4>3, CodedWindow
    <3>5. Flows(t, 0, << >>, << >>, << >>, << >>, x, 0, in, l, "header", state["client"])
      <4>1. Len(<< >>) = 0 /\ Len(t) \in Nat /\ Len(Encoded(t)) = Len(t)
            /\ Len(in) \in Nat /\ Len(l) \in Nat
        BY EncodedType
      <4>2. Window(<< >>, t, 0) /\ Window(<< >>, Encoded(t), 0)
        BY <4>1 DEF Window
      <4>3. CASE state["client"] # "dead"
        <5>1. /\ Window(in, t, b) /\ Window(l, t, b + Len(in)) /\ b + Len(in) + Len(l) = Len(t)
          BY <1>2, <3>3, <4>1, <4>3 DEF Flows
        <5> QED
          BY <3>4, <4>1, <4>2, <5>1 DEF Flows
      <4>4. CASE state["client"] = "dead"
        BY <4>1, <4>2, <4>4 DEF Flows
      <4> QED
        BY <4>3, <4>4
    <3> QED
      BY <1>2, <1>6, <2>3, <2>4, <2>5, <3>1, <3>2, <3>5 DEF DownFlow
  <2>9. Unborn'
    BY <2>4 DEF Unborn
  <2> QED
    BY <1>2, <2>6, <2>7, <2>8, <2>9 DEF RInv
<1> QED
  BY <1>7, <1>8 DEF serverReadsHeader

\* At the start everything is still to be sent.
LEMMA InitRInv ==
    ASSUME relayInit
    PROVE  RInv
<1> USE DEF Links, Dirs, Relays
<1>1. << >> \in Seq(Byte)
  OBVIOUS
<1>2. kind.up \in Seq(Byte) /\ kind.down \in Seq(Byte) /\ Header \in Seq(Byte)
  <2>1. 0 \in Byte /\ kind.request \in Nat
    BY RelayAssumption DEF Byte, Shift, relayInit
  <2>2. Header \in [1 .. kind.request -> Byte]
    BY <2>1 DEF Header
  <2>3. Header \in Seq(Byte)
    BY <2>1, <2>2
  <2> QED
    BY <2>3, RelayAssumption DEF relayInit, Byte
<1>3. left["up"] \in Seq(Byte) /\ left["up"] = UpSent /\ left["down"] = kind.down
  <2>1. left["up"] = UpSent /\ left["down"] = kind.down
    BY DEF relayInit, UpSent, Sock
  <2>2. CASE Sock
    BY <1>2, <2>1, <2>2, ConcatProperties DEF UpSent
  <2>3. CASE ~Sock
    BY <1>1, <1>2, <2>1, <2>3, ConcatProperties DEF UpSent
  <2> QED
    BY <2>1, <2>2, <2>3
<1>4. RelayTypes
  <2>1. left \in [Dirs -> Seq(Byte)]
    <3>1. DOMAIN left = Dirs /\ left = [e \in Dirs |-> left[e]]
      BY DEF relayInit
    <3> QED
      BY <1>2, <1>3, <3>1
  <2>2. got \in [Dirs -> Seq(Byte)]
    <3>1. DOMAIN got = Dirs /\ got = [e \in Dirs |-> got[e]] /\ got["up"] = << >> /\ got["down"] = << >>
      BY DEF relayInit
    <3> QED
      BY <1>1, <3>1
  <2>3. accepted \in Nat /\ accepted <= kind.request
    BY RelayAssumption DEF relayInit
  <2> QED
    BY <1>1, <2>1, <2>2, <2>3 DEF relayInit, RelayTypes
<1>5. /\ \A l \in Links, d \in Dirs : chan[l][d] = << >>
      /\ \A r \in Relays, d \in Dirs : hold[r][d] = << >>
      /\ got["up"] = << >> /\ got["down"] = << >>
      /\ state["server"] = "new" /\ state["client"] = "new" /\ links = {"app"}
  BY DEF relayInit
<1>6. /\ UpSent \in Seq(Byte) /\ DownSent \in Seq(Byte)
      /\ Len(UpSent) = (IF Sock THEN kind.request ELSE 0) + Len(kind.up)
  BY <1>4, Terms
<1>7. Len(<< >>) = 0
  OBVIOUS
<1>8. UpFlow
  <2>1. PICK t \in Seq(Byte) : t = UpSent
    BY <1>6
  <2>2. Skipped = 0
    BY <1>5 DEF Skipped
  <2>3. Flows(t, 0, << >>, << >>, << >>, << >>, << >>, 0, << >>, t, "new", "new")
    <3>1. Len(Encoded(t)) = Len(t) /\ Len(t) \in Nat
      BY EncodedType
    <3>2. Window(<< >>, t, 0) /\ Window(<< >>, Encoded(t), 0) /\ Window(t, t, 0)
      BY <1>7, <3>1 DEF Window
    <3> QED
      BY <1>7, <3>1, <3>2 DEF Flows
  <2> QED
    BY <1>3, <1>5, <2>1, <2>2, <2>3 DEF UpFlow
<1>9. DownFlow
  <2>1. PICK t \in Seq(Byte), l \in Seq(Byte), b \in Nat : t = DownSent /\ l = kind.down /\ b = Owing
    BY <1>2, <1>4, <1>6, Terms
  <2>2. Len(t) = b + Len(l) /\ \A i \in 1 .. Len(l) : l[i] = t[b + i]
    <3>1. CASE Sock
      <4>1. PICK p \in Seq(Byte) : p = Reply /\ Len(p) = b
        BY <1>4, <1>5, <2>1, <3>1, Terms DEF Owing
      <4>2. t = p \o l
        BY <2>1, <3>1, <4>1 DEF DownSent
      <4>3. Len(p \o l) = Len(p) + Len(l) /\ \A i \in 1 .. Len(l) : (p \o l)[Len(p) + i] = l[i]
        BY ConcatProperties
      <4> QED
        BY <4>1, <4>2, <4>3
    <3>2. CASE ~Sock
      <4>1. t = << >> \o l /\ b = 0
        BY <1>5, <2>1, <3>2 DEF DownSent, Owing
      <4>2. t = l
        BY <4>1
      <4> QED
        BY <4>1, <4>2
    <3> QED
      BY <3>1, <3>2
  <2>3. Flows(t, 0, << >>, << >>, << >>, << >>, << >>, b, << >>, l, "new", "new")
    <3>1. Len(Encoded(t)) = Len(t) /\ Len(t) \in Nat /\ Len(l) \in Nat
      BY EncodedType
    <3>2. Window(<< >>, t, 0) /\ Window(<< >>, Encoded(t), 0) /\ Window(l, t, b) /\ Window(<< >>, t, b)
      BY <1>7, <2>2, <3>1 DEF Window
    <3> QED
      BY <1>7, <2>2, <3>1, <3>2 DEF Flows
  <2> QED
    BY <1>3, <1>5, <2>1, <2>3 DEF DownFlow
<1>10. Unborn
  <2>1. Len(left["up"]) >= Len(kind.up) /\ kind.request \in Nat
    <3>1. Len(kind.up) \in Nat /\ kind.request \in Nat
      BY <1>2, RelayAssumption DEF relayInit
    <3>2. CASE Sock
      BY <1>3, <1>6, <3>1, <3>2
    <3>3. CASE ~Sock
      BY <1>3, <1>6, <3>1, <3>3
    <3> QED
      BY <3>1, <3>2, <3>3
  <2>2. Len(chan["mid"]["up"]) <= kind.request
    BY <1>5, <1>7, <2>1
  <2> QED
    BY <1>5, <2>1, <2>2 DEF Unborn
<1> QED
  BY <1>4, <1>8, <1>9, <1>10 DEF RInv

\* The APR port throws bytes away: from then on only the types are promised.
LEMMA LessStep ==
    ASSUME RInv, aprSendsLess
    PROVE  RInv'
<1> USE DEF Links, Dirs, Relays
<1> RelayTypes
  BY DEF RInv
<1>1. PICK d \in Dirs :
         /\ Len(hold["client"][d]) > 1
         /\ chan' = [chan EXCEPT ![Sink["client"][d]][d] = Append(@, Head(hold["client"][d]))]
         /\ hold' = [hold EXCEPT !["client"][d] = << >>]
  BY DEF aprSendsLess
<1>2. PICK l \in Links : l = Sink["client"][d]
  BY DEF Sink
<1>3. PICK x \in Seq(Byte) : x = Append(chan[l][d], Head(hold["client"][d]))
  <2>1. hold["client"][d] \in Seq(Byte) /\ chan[l][d] \in Seq(Byte)
    BY Terms
  <2>2. hold["client"][d] # << >>
    <3>1. Len(<< >>) = 0
      OBVIOUS
    <3> QED
      BY <1>1, <3>1
  <2> QED
    BY <2>1, <2>2, Moved
<1>4. chan' = [chan EXCEPT ![l][d] = x] /\ << >> \in Seq(Byte)
  BY <1>1, <1>2, <1>3
<1>5. chan' \in [Links -> [Dirs -> Seq(Byte)]]
  BY <1>4, Updated DEF RelayTypes
<1>6. hold' \in [Relays -> [Dirs -> Seq(Byte)]]
  BY <1>1, <1>4, Updated DEF RelayTypes
<1>7. RelayTypes' /\ cut'
  BY <1>5, <1>6 DEF RelayTypes, aprSendsLess
<1> QED
  BY <1>7 DEF RInv

\* Every step of the relay and its two ends keeps the invariant.
LEMMA NextRInv ==
    ASSUME RInv, [relayNext]_relayVars
    PROVE  RInv'
<1> DEFINE Same == UNCHANGED <<kind, chan, links, state, hold, left, got, cut, accepted>>
<1>1. CASE Same
  BY <1>1 DEF RInv, RelayTypes, Unborn, UpFlow, DownFlow, UpSent, DownSent, Header, Skipped, Owing, Sock
<1>2. CASE relayVars' = relayVars
  BY <1>1, <1>2 DEF relayVars
<1>3. ASSUME NEW d \in Dirs, EndSends(d) \/ EndReads(d) PROVE RInv'
  BY <1>3, SendStep, ReceiveStep
<1>4. ASSUME NEW p \in {"app", "target"}, EndCloses(p) PROVE RInv'
  BY <1>1, <1>4 DEF EndCloses
<1>5. ASSUME NEW ok \in BOOLEAN, clientConnects(ok) \/ serverConnects(ok) PROVE RInv'
  BY <1>5, ClientStep, ServerStep
<1>6. ASSUME NEW ok \in BOOLEAN, NEW n \in 0 .. BufSize, serverReadsHeader(n, ok) PROVE RInv'
  BY <1>6, RequestStep
<1>7. CASE clientAbandons \/ serverReplied \/ aprSendsLess
  BY <1>7, ClientStep, ServerStep, LessStep
<1>8. ASSUME NEW r \in Relays, Relaying(r) PROVE RInv'
  <2>1. CASE poll(r)
    BY <1>1, <2>1 DEF poll
  <2>2. ASSUME NEW d \in Dirs, write(r, d) PROVE RInv'
    BY <2>2, WriteStep
  <2>3. ASSUME NEW d \in Dirs, NEW n \in 0 .. BufSize, read(r, d, n) PROVE RInv'
    BY <2>3, ReadStep
  <2> QED
    BY <1>8, <2>1, <2>2, <2>3 DEF Relaying
<1> QED
  BY <1>2, <1>3, <1>4, <1>5, <1>6, <1>7, <1>8 DEF relayNext

\* A window that begins where the whole does is a prefix of it.
LEMMA PrefixOfWhole ==
    ASSUME NEW t \in Seq(Byte), NEW s \in Seq(Byte), Window(s, t, 0)
    PROVE  IsPrefix(s, t)
<1>1. Len(s) \in Nat /\ Len(t) \in Nat /\ Len(s) <= Len(t) /\ \A i \in 1 .. Len(s) : s[i] = t[i]
  BY DEF Window
<1>2. SubSeq(t, 1, Len(s)) \in Seq(Byte) /\ Len(SubSeq(t, 1, Len(s))) = Len(s)
      /\ (\A i \in 1 .. Len(s) : SubSeq(t, 1, Len(s))[i] = t[i]) /\ SubSeq(s, 1, Len(s)) = s
  BY <1>1
<1>3. PICK u \in Seq(Byte) : u = SubSeq(t, 1, Len(s))
  BY <1>2
<1>4. s = u
  BY <1>1, <1>2, <1>3
<1> QED
  BY <1>1, <1>2, <1>3, <1>4 DEF IsPrefix

\* What the target is to receive is the whole without the first bytes of the
\* request, those that the server's one read has taken.
LEMMA DueIsRest ==
    ASSUME RelayTypes, ~cut, NEW g \in Seq(Byte), Window(g, UpSent, IF Sock THEN accepted ELSE 0)
    PROVE  UpDue \in Seq(Byte) /\ Window(g, UpDue, 0)
<1>1. /\ kind.up \in Seq(Byte) /\ Header \in Seq(Byte) /\ Len(Header) = kind.request
      /\ kind.request \in Nat /\ accepted \in 0 .. kind.request
  BY Terms, RelayAssumption DEF RelayTypes
<1>2. CASE Sock
  <2>1. PICK h \in Seq(Byte), k \in Seq(Byte), b \in Nat :
           h = Header /\ k = kind.up /\ b = accepted /\ b <= Len(h) /\ Len(h) = kind.request
    BY <1>1
  <2>2. /\ SubSeq(h, b + 1, Len(h)) \in Seq(Byte) /\ Len(SubSeq(h, b + 1, Len(h))) = Len(h) - b
        /\ \A i \in 1 .. Len(h) - b : SubSeq(h, b + 1, Len(h))[i] = h[b + i]
    BY <2>1
  <2>3. PICK x \in Seq(Byte) : x = SubSeq(h, b + 1, Len(h))
    BY <2>2
  <2>4. Len(x) = Len(h) - b /\ \A i \in 1 .. Len(h) - b : x[i] = h[b + i]
    BY <2>2, <2>3
  <2>5. UpDue = x \o k /\ UpSent = h \o k
    BY <1>2, <2>1, <2>3 DEF UpDue, UpSent, Sock
  <2>6. Window(g, h \o k, b)
    BY <1>2, <2>1, <2>5
  <2>7. x \o k \in Seq(Byte) /\ Len(x) \in Nat /\ Len(k) \in Nat /\ Len(h) \in Nat /\ Len(g) \in Nat
        /\ Len(x \o k) = Len(x) + Len(k) /\ Len(h \o k) = Len(h) + Len(k)
        /\ (\A i \in 1 .. Len(x) + Len(k) : (x \o k)[i] = IF i <= Len(x) THEN x[i] ELSE k[i - Len(x)])
        /\ (\A i \in 1 .. Len(h) + Len(k) : (h \o k)[i] = IF i <= Len(h) THEN h[i] ELSE k[i - Len(h)])
    BY ConcatProperties
  <2>8. b + Len(g) <= Len(h) + Len(k) /\ \A i \in 1 .. Len(g) : g[i] = (h \o k)[b + i]
    BY <2>6, <2>7 DEF Window
  <2>9. ASSUME NEW i \in 1 .. Len(g) PROVE g[i] = (x \o k)[0 + i]
    <3>1. i \in 1 .. Len(x) + Len(k) /\ b + i \in 1 .. Len(h) + Len(k) /\ i \in Nat
      <4>1. i \in Nat /\ 1 <= i /\ i <= Len(g) /\ Len(x) = Len(h) - b /\ b + Len(g) <= Len(h) + Len(k)
        BY <2>4, <2>7, <2>8
      <4>2. Len(g) <= Len(x) + Len(k) /\ b + i <= Len(h) + Len(k) /\ 1 <= b + i
        <5>1. PICK p \in Nat, q \in Nat, u \in Nat : p = Len(h) /\ q = Len(k) /\ u = Len(g)
          BY <2>7
        <5>2. b <= p /\ b + u <= p + q /\ i <= u /\ Len(x) = p - b
          BY <2>1, <4>1, <5>1
        <5>3. u <= (p - b) + q /\ b + i <= p + q /\ 1 <= b + i
          BY <4>1, <5>2
        <5> QED
          BY <5>1, <5>2, <5>3
      <4> QED
        BY <2>1, <2>7, <4>1, <4>2
    <3>2. g[i] = (h \o k)[b + i] /\ 0 + i = i
      BY <2>8, <3>1
    <3>3. CASE i <= Len(x)
      <4>1. i \in 1 .. Len(h) - b /\ b + i <= Len(h)
        BY <2>1, <2>4, <2>7, <3>1, <3>3
      <4> QED
        BY <2>4, <2>7, <3>1, <3>2, <3>3, <4>1
    <3>4. CASE ~(i <= Len(x))
      <4>1. ~(b + i <= Len(h)) /\ b + i - Len(h) = i - Len(x)
        BY <2>1, <2>4, <2>7, <3>1, <3>4
      <4>2. (x \o k)[i] = k[i - Len(x)] /\ (h \o k)[b + i] = k[b + i - Len(h)]
        BY <2>7, <3>1, <3>4, <4>1
      <4> QED
        BY <3>2, <4>1, <4>2
    <3> QED
      BY <3>3, <3>4
  <2>10. 0 + Len(g) <= Len(x \o k)
    BY <2>1, <2>4, <2>7, <2>8
  <2> QED
    BY <2>5, <2>7, <2>9, <2>10 DEF Window
<1>3. CASE ~Sock
  <2>1. PICK k \in Seq(Byte) : k = kind.up
    BY <1>1
  <2>2. UpDue = << >> \o k /\ UpSent = << >> \o k
    BY <1>3, <2>1 DEF UpDue, UpSent, Sock
  <2>3. << >> \o k = k
    OBVIOUS
  <2> QED
    BY <1>3, <2>2, <2>3
<1> QED
  BY <1>2, <1>3

\* The invariant is enough: what an end has got is a window of what the other
\* sends, from the byte behind the part of the request that was read on.
LEMMA PrefixesKept ==
    ASSUME RInv
    PROVE  Transparent
<1> SUFFICES ASSUME ~cut PROVE Transparent
  BY DEF Transparent
<1> RelayTypes /\ Unborn /\ UpFlow /\ DownFlow
  BY DEF RInv
<1>1. /\ got["up"] \in Seq(Byte) /\ got["down"] \in Seq(Byte)
      /\ UpSent \in Seq(Byte) /\ DownSent \in Seq(Byte)
  BY Terms DEF Dirs
<1>2. Window(got["down"], DownSent, 0)
  BY DEF DownFlow, Flows
<1>3. IsPrefix(got["down"], DownDue)
  BY <1>1, <1>2, PrefixOfWhole DEF DownDue, DownSent, Sock
<1>4. Window(got["up"], UpSent, IF Sock THEN accepted ELSE 0)
  <2>1. CASE state["server"] = "new" /\ Sock
    <3>1. got["up"] = << >> /\ Len(<< >>) = 0
      BY <2>1 DEF Unborn, Dirs
    <3>2. accepted \in 0 .. kind.request /\ Len(kind.up) \in Nat /\ kind.request \in Nat
          /\ Len(UpSent) = kind.request + Len(kind.up)
      <4>1. kind.up \in Seq(Byte) /\ Len(UpSent) = kind.request + Len(kind.up)
        BY <2>1, Terms
      <4> QED
        BY <4>1, RelayAssumption DEF RelayTypes
    <3> QED
      BY <2>1, <3>1, <3>2 DEF Window
  <2>2. CASE ~(state["server"] = "new" /\ Sock)
    BY <2>2 DEF UpFlow, Flows, Skipped
  <2> QED
    BY <2>1, <2>2
<1>5. IsPrefix(got["up"], UpDue)
  BY <1>1, <1>4, DueIsRest, PrefixOfWhole
<1> QED
  BY <1>3, <1>5 DEF Transparent

\* For any programs at either end, any sizes of buffers and connections and
\* any bytes: what an end receives is what the other has sent, decoded, in
\* order and without a gap, behind as much of the SOCKS request as the server's
\* one read took, and behind its answer - as long as the APR port has dropped
\* nothing.  (The loops, simpleEncode and simpleDecode of both sides.)
THEOREM RelayAlwaysTransparent == relayInit /\ [][relayNext]_relayVars => []Transparent
<1>1. relayInit => RInv
  BY InitRInv
<1>2. RInv /\ [relayNext]_relayVars => RInv'
  BY NextRInv
<1>3. RInv => Transparent
  BY PrefixesKept
<1> QED
  BY <1>1, <1>2, <1>3, PTL

-----------------------------------------------------------------------------
(* The descriptors of the client side. *)

WorkerPC == {"none", "deQueue", "connect", "idle", "reconnect", "relay", "close", "closePeer"}
ClientPC == {"deQueue", "connect", "idle", "reconnect", "relay", "close"}
PeerPC   == {"idle", "reconnect", "relay", "close", "closePeer"}
Fd == Descriptors \cup {ANET_ERR}

Types ==
    /\ open \subseteq Descriptors /\ leaked \subseteq open
    /\ clientQueue \in Seq(Descriptors)
    /\ fpc \in {"size", "connect", "push"} /\ ffd \in Fd
    /\ fpc = "push" => ffd \in Descriptors
    /\ wpc \in [Workers -> WorkerPC]
    /\ cfd \in [Workers -> Fd] /\ peer \in [Workers -> Fd]
    /\ \A w \in Workers : wpc[w] = "reconnect" => peer[w] \in Descriptors

InQueue(d) == \E i \in DOMAIN clientQueue : clientQueue[i] = d
Made(d)    == fpc = "push" /\ ffd = d
Client(w, d) == wpc[w] \in ClientPC /\ cfd[w] = d
Peer(w, d)   == wpc[w] \in PeerPC /\ peer[w] = d

NoTwice(q) == \A i, j \in DOMAIN q : q[i] = q[j] => i = j

\* No two owners of one descriptor.
Apart ==
    /\ NoTwice(clientQueue)
    /\ \A d \in Descriptors :
         /\ InQueue(d) => ~Made(d) /\ \A w \in Workers : ~Client(w, d) /\ ~Peer(w, d)
         /\ Made(d) => \A w \in Workers : ~Client(w, d) /\ ~Peer(w, d)
         /\ \A v, w \in Workers : ~(Client(v, d) /\ Peer(w, d))
         /\ \A v, w \in Workers : Client(v, d) /\ Client(w, d) => v = w
         /\ \A v, w \in Workers : Peer(v, d) /\ Peer(w, d) => v = w

Owned(d) == InQueue(d) \/ Made(d) \/ \E w \in Workers : Client(w, d) \/ Peer(w, d)

\* The descriptors somebody holds are open, and the others are not or lost.
Held == \A d \in Descriptors : Owned(d) <=> d \in open \ leaked

PInv == Types /\ Apart /\ Held

-----------------------------------------------------------------------------
(* The queue. *)

\* What the head of a queue leaves behind.
LEMMA QueuePop ==
    ASSUME NEW S, NEW q \in Seq(S), q # << >>
    PROVE  /\ Head(q) \in S /\ Tail(q) \in Seq(S)
           /\ \A d : (\E i \in DOMAIN q : q[i] = d)
                       <=> d = Head(q) \/ \E i \in DOMAIN Tail(q) : Tail(q)[i] = d
           /\ NoTwice(q) => /\ NoTwice(Tail(q))
                            /\ ~\E i \in DOMAIN Tail(q) : Tail(q)[i] = Head(q)
<1>1. /\ Head(q) \in S /\ Tail(q) \in Seq(S) /\ Head(q) = q[1]
      /\ Len(q) \in Nat /\ Len(q) > 0
      /\ DOMAIN q = 1 .. Len(q) /\ DOMAIN Tail(q) = 1 .. Len(q) - 1
      /\ \A i \in 1 .. Len(q) - 1 : Tail(q)[i] = q[i + 1]
  OBVIOUS
<1>2. ASSUME NEW i \in DOMAIN q, q[i] # Head(q)
      PROVE  i - 1 \in DOMAIN Tail(q) /\ Tail(q)[i - 1] = q[i]
  BY <1>1, <1>2
<1>3. ASSUME NEW i \in DOMAIN Tail(q)
      PROVE  i + 1 \in DOMAIN q /\ q[i + 1] = Tail(q)[i]
  BY <1>1
<1>4. 1 \in DOMAIN q /\ q[1] = Head(q)
  BY <1>1
<1>5. ASSUME NEW d PROVE (\E i \in DOMAIN q : q[i] = d)
                       <=> d = Head(q) \/ \E i \in DOMAIN Tail(q) : Tail(q)[i] = d
  BY <1>2, <1>3, <1>4
<1>6. ASSUME NoTwice(q)
      PROVE  NoTwice(Tail(q)) /\ ~\E i \in DOMAIN Tail(q) : Tail(q)[i] = Head(q)
  BY <1>1, <1>6 DEF NoTwice
<1> QED
  BY <1>1, <1>5, <1>6

\* What a descriptor at the tail of a queue adds.
LEMMA QueuePush ==
    ASSUME NEW S, NEW q \in Seq(S), NEW e \in S
    PROVE  /\ Append(q, e) \in Seq(S)
           /\ \A d : (\E i \in DOMAIN Append(q, e) : Append(q, e)[i] = d)
                       <=> d = e \/ \E i \in DOMAIN q : q[i] = d
           /\ NoTwice(q) /\ (~\E i \in DOMAIN q : q[i] = e) => NoTwice(Append(q, e))
<1>1. /\ Append(q, e) \in Seq(S) /\ Len(q) \in Nat
      /\ DOMAIN q = 1 .. Len(q) /\ DOMAIN Append(q, e) = 1 .. Len(q) + 1
      /\ \A i \in 1 .. Len(q) : Append(q, e)[i] = q[i]
      /\ Append(q, e)[Len(q) + 1] = e
  OBVIOUS
<1>2. \A d : (\E i \in DOMAIN Append(q, e) : Append(q, e)[i] = d)
               <=> d = e \/ \E i \in DOMAIN q : q[i] = d
  BY <1>1
<1>3. NoTwice(q) /\ (~\E i \in DOMAIN q : q[i] = e) => NoTwice(Append(q, e))
  BY <1>1 DEF NoTwice
<1> QED
  BY <1>1, <1>2, <1>3

-----------------------------------------------------------------------------
(* System calls. *)

\* The kernel gives a number that is not open, as long as there is one.
LEMMA LowestFree ==
    ASSUME Descriptors \subseteq Nat, Descriptors \ open # {}
    PROVE  Lowest \in Descriptors \ open
<1> DEFINE Less == {ss \in Nat \X Nat : ss[1] < ss[2]}
           Free == Descriptors \ open
<1>1. IsWellFoundedOn(Less, Nat)
  BY NatLessThanWellFounded, Zenon DEF OpToRel
<1>2. Free \subseteq Nat /\ Free # {}
  OBVIOUS
<1>3. \A x, y \in Nat : ~(<<y, x>> \in Less) => x <= y
  OBVIOUS
<1> HIDE DEF Less, Free
<1>4. PICK x \in Free : \A y \in Free : ~(<<y, x>> \in Less)
  BY <1>1, <1>2, WFMin, Zenon
<1>5. \A y \in Free : x <= y
  BY <1>2, <1>3, <1>4
<1> QED
  BY <1>4, <1>5 DEF Lowest, Free

\* A call returns a new descriptor or ANET_ERR; besides, it can only lose
\* one, and what the caller forgets is lost.
LEMMA OpensResult ==
    ASSUME Descriptors \subseteq Nat, open \subseteq Descriptors, leaked \subseteq open,
           NEW outcomes, outcomes \subseteq {Err, Leak, Ok}, NEW d,
           NEW forgotten, forgotten \subseteq open, Opens(outcomes, d, forgotten)
    PROVE  /\ open' \subseteq Descriptors /\ leaked' \subseteq open'
           /\ \/ d = ANET_ERR /\ open' \ leaked' = (open \ leaked) \ forgotten
              \/ /\ d \in Descriptors \ open
                 /\ open' \ leaked' = ((open \ leaked) \ forgotten) \cup {d}
<1>1. PICK r \in outcomes :
        /\ r.open => Descriptors \ open # {}
        /\ d = IF r.ok THEN Lowest ELSE ANET_ERR
        /\ open' = IF r.open THEN open \cup {Lowest} ELSE open
        /\ leaked' = leaked \cup forgotten \cup (IF r.open /\ ~r.ok THEN {Lowest} ELSE {})
  BY DEF Opens
<1>2. CASE r = Err
  BY <1>1, <1>2 DEF Err
<1>3. CASE r = Leak
  <2>1. Lowest \in Descriptors \ open
    BY <1>1, <1>3, LowestFree DEF Leak
  <2> QED
    BY <1>1, <1>3, <2>1 DEF Leak
<1>4. CASE r = Ok
  <2>1. Lowest \in Descriptors \ open
    BY <1>1, <1>4, LowestFree DEF Ok
  <2> QED
    BY <1>1, <1>4, <2>1 DEF Ok
<1> QED
  BY <1>2, <1>3, <1>4

\* What anet.cpp may do with a descriptor.
LEMMA Outcomes ==
    anetTcpConnect \subseteq {Err, Leak, Ok} /\ anetGenericAccept \subseteq {Err, Leak, Ok}
BY DEF anetTcpConnect, anetCreateSocket, anetGenericAccept

-----------------------------------------------------------------------------
(* Steps. *)

\* Nobody's hold changes: the descriptors that are open and not lost are the
\* same.
LEMMA Nothing ==
    ASSUME PInv, Types', clientQueue' = clientQueue, open' \ leaked' = open \ leaked,
           \A d \in Descriptors : Made(d)' <=> Made(d),
           \A d \in Descriptors, w \in Workers :
              (Client(w, d)' <=> Client(w, d)) /\ (Peer(w, d)' <=> Peer(w, d))
    PROVE  PInv'
<1>1. \A d : InQueue(d)' <=> InQueue(d)
  BY DEF InQueue
<1>2. NoTwice(clientQueue)'
  BY DEF PInv, Apart, NoTwice
<1>3. Apart'
  BY <1>1, <1>2 DEF PInv, Apart
<1>4. Held'
  BY <1>1 DEF PInv, Held, Owned
<1> QED
  BY <1>3, <1>4 DEF PInv

\* The factory makes a connection and puts it into the queue.
LEMMA FactoryStep ==
    ASSUME Descriptors \subseteq Nat, PInv, connection_factory
    PROVE  PInv'
<1>1. /\ UNCHANGED <<wpc, cfd, peer>> /\ clientQueue \in Seq(Descriptors)
      /\ open \subseteq Descriptors /\ leaked \subseteq open /\ ffd \in Fd
  BY DEF connection_factory, factorySize, factoryConnect, factoryPush, workerVars, PInv, Types
<1>2. \A d, w : (Client(w, d)' <=> Client(w, d)) /\ (Peer(w, d)' <=> Peer(w, d))
  BY <1>1 DEF Client, Peer
<1>3. CASE factorySize
  <2>1. Types'
    BY <1>3 DEF factorySize, workerVars, PInv, Types
  <2>2. /\ UNCHANGED <<open, leaked, clientQueue>>
        /\ \A d : Made(d)' <=> Made(d)
    BY <1>3 DEF factorySize, Made
  <2> QED
    BY <1>2, <2>1, <2>2, Nothing
<1>4. CASE factoryConnect
  <2>1. PICK d \in Fd : connectToServer(d, {}) /\ ffd' = d
                        /\ fpc' = (IF d = ANET_ERR THEN "size" ELSE "push")
    BY <1>4 DEF factoryConnect, Fd
  <2>2. /\ open' \subseteq Descriptors /\ leaked' \subseteq open'
        /\ \/ d = ANET_ERR /\ open' \ leaked' = open \ leaked
           \/ d \in Descriptors \ open /\ open' \ leaked' = (open \ leaked) \cup {d}
    <3>1. {} \subseteq open /\ (open \ leaked) \ {} = open \ leaked
      OBVIOUS
    <3>2. Opens(anetTcpConnect, d, {})
      BY <2>1 DEF connectToServer
    <3>3. anetTcpConnect \subseteq {Err, Leak, Ok}
      BY Outcomes
    <3>4. /\ open' \subseteq Descriptors /\ leaked' \subseteq open'
          /\ \/ d = ANET_ERR /\ open' \ leaked' = (open \ leaked) \ {}
             \/ /\ d \in Descriptors \ open
                /\ open' \ leaked' = ((open \ leaked) \ {}) \cup {d}
      BY <1>1, <3>1, <3>2, <3>3, OpensResult, Zenon
    <3> QED
      BY <3>1, <3>4
  <2>3. clientQueue' = clientQueue /\ fpc = "connect"
    BY <1>4 DEF factoryConnect
  <2>4. Types'
    BY <1>1, <2>1, <2>2, <2>3 DEF PInv, Types, Fd
  <2>5. CASE d = ANET_ERR /\ open' \ leaked' = open \ leaked
    BY <1>2, <2>1, <2>3, <2>4, <2>5, Nothing DEF Made
  <2>6. CASE d \in Descriptors \ open /\ open' \ leaked' = (open \ leaked) \cup {d}
    <3>1. d # ANET_ERR
      BY <2>6 DEF ANET_ERR
    <3>2. \A e : ~Made(e) /\ (Made(e)' <=> e = d) /\ (InQueue(e)' <=> InQueue(e))
      BY <2>1, <2>3, <3>1 DEF Made, InQueue
    <3>3. ~Owned(d)
      BY <2>6 DEF PInv, Held
    <3>4. NoTwice(clientQueue)'
      BY <2>3 DEF PInv, Apart, NoTwice
    <3>5. Apart'
      BY <1>2, <3>2, <3>3, <3>4 DEF PInv, Apart, Owned
    <3>6. Held'
      BY <1>2, <2>6, <3>2 DEF PInv, Held, Owned
    <3> QED
      BY <2>4, <3>5, <3>6 DEF PInv
  <2> QED
    BY <2>2, <2>5, <2>6
<1>5. CASE factoryPush
  <2>1. /\ fpc = "push" /\ fpc' = "size" /\ ffd' = ANET_ERR /\ ffd \in Descriptors
        /\ clientQueue' = Append(clientQueue, ffd) /\ UNCHANGED <<open, leaked>>
    BY <1>5 DEF factoryPush, PInv, Types
  <2>2. /\ clientQueue' \in Seq(Descriptors)
        /\ \A e : InQueue(e)' <=> e = ffd \/ InQueue(e)
        /\ NoTwice(clientQueue) /\ ~InQueue(ffd) => NoTwice(clientQueue)'
    BY <1>1, <2>1, QueuePush DEF InQueue
  <2>3. \A e : (Made(e) <=> e = ffd) /\ ~Made(e)'
    BY <2>1 DEF Made
  <2>4. Types'
    BY <1>1, <2>1, <2>2 DEF PInv, Types, Fd
  <2>5. Apart'
    BY <1>2, <2>1, <2>2, <2>3 DEF PInv, Apart
  <2>6. Held'
    BY <1>2, <2>1, <2>2, <2>3 DEF PInv, Held, Owned
  <2> QED
    BY <2>4, <2>5, <2>6 DEF PInv
<1> QED
  BY <1>3, <1>4, <1>5 DEF connection_factory

\* A worker's step leaves the other workers and what the factory made alone.
LEMMA OtherWorkers ==
    ASSUME Types, NEW w \in Workers, NEW pc \in WorkerPC, wpc' = [wpc EXCEPT ![w] = pc],
           NEW c \in Fd, cfd' = [cfd EXCEPT ![w] = c],
           NEW p \in Fd, peer' = [peer EXCEPT ![w] = p]
    PROVE  /\ wpc' \in [Workers -> WorkerPC]
           /\ cfd' \in [Workers -> Fd] /\ peer' \in [Workers -> Fd]
           /\ wpc'[w] = pc /\ peer'[w] = p
           /\ \A v \in Workers \ {w} : wpc'[v] = wpc[v] /\ peer'[v] = peer[v]
           /\ \A d : /\ Client(w, d)' <=> pc \in ClientPC /\ c = d
                     /\ Peer(w, d)' <=> pc \in PeerPC /\ p = d
                     /\ \A v \in Workers \ {w} :
                          (Client(v, d)' <=> Client(v, d)) /\ (Peer(v, d)' <=> Peer(v, d))
BY DEF Types, Client, Peer

\* An accepted browser's descriptor is new.
LEMMA AcceptStep ==
    ASSUME Descriptors \subseteq Nat, PInv, NEW w \in Workers, dealWithThread(w)
    PROVE  PInv'
<1>1. Types
  BY DEF PInv
<1>2. PICK d \in Descriptors : Opens(anetGenericAccept, d, {}) /\ cfd' = [cfd EXCEPT ![w] = d]
  BY DEF dealWithThread
<1>3. /\ wpc[w] = "none" /\ wpc' = [wpc EXCEPT ![w] = "deQueue"]
      /\ UNCHANGED <<clientQueue, fpc, ffd, peer>>
  BY DEF dealWithThread
<1>4. /\ open' \subseteq Descriptors /\ leaked' \subseteq open'
      /\ d \in Descriptors \ open /\ open' \ leaked' = (open \ leaked) \cup {d}
  <2>1. {} \subseteq open /\ (open \ leaked) \ {} = open \ leaked /\ d # ANET_ERR
    BY DEF ANET_ERR
  <2>2. /\ anetGenericAccept \subseteq {Err, Leak, Ok}
        /\ open \subseteq Descriptors /\ leaked \subseteq open
    BY <1>1, Outcomes DEF Types
  <2>3. /\ open' \subseteq Descriptors /\ leaked' \subseteq open'
        /\ \/ d = ANET_ERR /\ open' \ leaked' = (open \ leaked) \ {}
           \/ /\ d \in Descriptors \ open
              /\ open' \ leaked' = ((open \ leaked) \ {}) \cup {d}
    BY <1>2, <2>1, <2>2, OpensResult, Zenon
  <2> QED
    BY <2>1, <2>3
<1>5. peer' = [peer EXCEPT ![w] = peer[w]] /\ peer[w] \in Fd /\ d \in Fd /\ "deQueue" \in WorkerPC
  BY <1>1, <1>3 DEF Types, Fd, WorkerPC
<1>6. /\ wpc' \in [Workers -> WorkerPC]
      /\ cfd' \in [Workers -> Fd] /\ peer' \in [Workers -> Fd]
      /\ wpc'[w] = "deQueue"
      /\ \A v \in Workers \ {w} : wpc'[v] = wpc[v] /\ peer'[v] = peer[v]
      /\ \A e : /\ Client(w, e)' <=> d = e
                /\ ~Peer(w, e)'
                /\ \A v \in Workers \ {w} :
                     (Client(v, e)' <=> Client(v, e)) /\ (Peer(v, e)' <=> Peer(v, e))
  <2>1. "deQueue" \in ClientPC /\ "deQueue" \notin PeerPC
    BY DEF ClientPC, PeerPC
  <2> QED
    BY <1>1, <1>2, <1>3, <1>5, <2>1, OtherWorkers
<1>7. \A e : (InQueue(e)' <=> InQueue(e)) /\ (Made(e)' <=> Made(e)) /\ ~Client(w, e) /\ ~Peer(w, e)
  BY <1>3 DEF InQueue, Made, Client, Peer, ClientPC, PeerPC
<1>8. ~Owned(d) /\ NoTwice(clientQueue)'
  BY <1>3, <1>4 DEF PInv, Held, Apart, NoTwice
<1>9. Types'
  BY <1>1, <1>3, <1>4, <1>6 DEF Types
<1>10. Apart'
  <2>1. /\ ~InQueue(d) /\ ~Made(d) /\ \A v \in Workers : ~Client(v, d) /\ ~Peer(v, d)
    BY <1>8 DEF Owned
  <2>2. \A e \in Descriptors : \A v \in Workers :
          /\ Peer(v, e)' <=> Peer(v, e)
          /\ Client(v, e)' <=> Client(v, e) \/ (v = w /\ e = d)
    BY <1>6, <1>7
  <2> QED
    BY <1>7, <1>8, <2>1, <2>2 DEF PInv, Apart
<1>11. Held'
  BY <1>4, <1>6, <1>7 DEF PInv, Held, Owned
<1> QED
  BY <1>9, <1>10, <1>11 DEF PInv

\* A browser without a thread: its descriptor is open and lost.
LEMMA ForgetStep ==
    ASSUME Descriptors \subseteq Nat, PInv, threadFails
    PROVE  PInv'
<1>1. Types
  BY DEF PInv
<1>2. Opens({Leak}, ANET_ERR, {}) /\ UNCHANGED <<clientQueue, fpc, ffd, wpc, cfd, peer>>
  BY DEF threadFails, workerVars
<1>3. /\ open' \subseteq Descriptors /\ leaked' \subseteq open'
      /\ open' \ leaked' = open \ leaked
  <2>1. /\ {Leak} \subseteq {Err, Leak, Ok} /\ {} \subseteq open /\ (open \ leaked) \ {} = open \ leaked
        /\ open \subseteq Descriptors /\ leaked \subseteq open /\ ANET_ERR \notin Descriptors
    BY <1>1 DEF Types, ANET_ERR
  <2> QED
    <3>1. PICK f : f = {} /\ f \subseteq open /\ (open \ leaked) \ f = open \ leaked
      BY <2>1
    <3>2. Opens({Leak}, ANET_ERR, f)
      BY <1>2, <3>1
    <3> QED
      BY <2>1, <3>1, <3>2, OpensResult
<1>4. Types'
  BY <1>1, <1>2, <1>3 DEF Types
<1>5. \A d : Made(d)' <=> Made(d)
  BY <1>2 DEF Made
<1>6. \A d, w : (Client(w, d)' <=> Client(w, d)) /\ (Peer(w, d)' <=> Peer(w, d))
  BY <1>2 DEF Client, Peer
<1> QED
  BY <1>2, <1>3, <1>4, <1>5, <1>6, Nothing

\* A worker takes the front of the queue.
LEMMA DeQueueStep ==
    ASSUME Descriptors \subseteq Nat, PInv, NEW w \in Workers, deQueue(w)
    PROVE  PInv'
<1>1. Types /\ clientQueue \in Seq(Descriptors)
  BY DEF PInv, Types
<1>2. wpc[w] = "deQueue" /\ UNCHANGED <<open, leaked, fpc, ffd, cfd>>
  BY DEF deQueue
<1>3. /\ cfd' = [cfd EXCEPT ![w] = cfd[w]] /\ cfd[w] \in Fd /\ peer[w] \in Fd
      /\ "connect" \in WorkerPC /\ "idle" \in WorkerPC
  BY <1>1, <1>2 DEF Types, Fd, WorkerPC
<1>4. \A d : (Made(d)' <=> Made(d)) /\ ~Peer(w, d) /\ (Client(w, d) <=> cfd[w] = d)
  BY <1>2 DEF Made, Peer, Client, ClientPC, PeerPC
<1>5. CASE clientQueue = << >>
  <2>1. /\ wpc' = [wpc EXCEPT ![w] = "connect"] /\ clientQueue' = clientQueue
        /\ peer' = [peer EXCEPT ![w] = peer[w]]
    BY <1>1, <1>5 DEF deQueue, Types
  <2>2. /\ wpc' \in [Workers -> WorkerPC]
        /\ cfd' \in [Workers -> Fd] /\ peer' \in [Workers -> Fd]
        /\ wpc'[w] = "connect"
        /\ \A v \in Workers \ {w} : wpc'[v] = wpc[v] /\ peer'[v] = peer[v]
        /\ \A e : /\ Client(w, e)' <=> cfd[w] = e
                  /\ ~Peer(w, e)'
                  /\ \A v \in Workers \ {w} :
                       (Client(v, e)' <=> Client(v, e)) /\ (Peer(v, e)' <=> Peer(v, e))
    <3>1. "connect" \in ClientPC /\ "connect" \notin PeerPC
      BY DEF ClientPC, PeerPC
    <3> QED
      BY <1>1, <1>3, <2>1, <3>1, OtherWorkers
  <2>3. Types'
    BY <1>1, <1>2, <2>1, <2>2 DEF Types
  <2>4. \A e \in Descriptors, v \in Workers :
          (Client(v, e)' <=> Client(v, e)) /\ (Peer(v, e)' <=> Peer(v, e))
    BY <1>4, <2>2
  <2>5. open' \ leaked' = open \ leaked
    BY <1>2
  <2> QED
    BY <1>4, <2>1, <2>3, <2>4, <2>5, Nothing
<1>6. CASE clientQueue # << >>
  <2>1. PICK x \in Descriptors : x = Head(clientQueue)
    BY <1>1, <1>6, QueuePop
  <2>2. /\ wpc' = [wpc EXCEPT ![w] = "idle"] /\ clientQueue' = Tail(clientQueue)
        /\ peer' = [peer EXCEPT ![w] = x] /\ x \in Fd
    BY <1>6, <2>1 DEF deQueue, Fd
  <2>3. /\ wpc' \in [Workers -> WorkerPC]
        /\ cfd' \in [Workers -> Fd] /\ peer' \in [Workers -> Fd]
        /\ wpc'[w] = "idle"
        /\ \A v \in Workers \ {w} : wpc'[v] = wpc[v] /\ peer'[v] = peer[v]
        /\ \A e : /\ Client(w, e)' <=> cfd[w] = e
                  /\ Peer(w, e)' <=> x = e
                  /\ \A v \in Workers \ {w} :
                       (Client(v, e)' <=> Client(v, e)) /\ (Peer(v, e)' <=> Peer(v, e))
    <3>1. "idle" \in ClientPC /\ "idle" \in PeerPC
      BY DEF ClientPC, PeerPC
    <3>2. /\ wpc' \in [Workers -> WorkerPC]
          /\ cfd' \in [Workers -> Fd] /\ peer' \in [Workers -> Fd]
          /\ wpc'[w] = "idle" /\ peer'[w] = x
          /\ \A v \in Workers \ {w} : wpc'[v] = wpc[v] /\ peer'[v] = peer[v]
          /\ \A e : /\ Client(w, e)' <=> "idle" \in ClientPC /\ cfd[w] = e
                    /\ Peer(w, e)' <=> "idle" \in PeerPC /\ x = e
                    /\ \A v \in Workers \ {w} :
                         (Client(v, e)' <=> Client(v, e)) /\ (Peer(v, e)' <=> Peer(v, e))
      BY <1>1, <1>3, <2>2, OtherWorkers, Zenon
    <3> QED
      BY <3>1, <3>2
  <2>4. /\ clientQueue' \in Seq(Descriptors)
        /\ \A e : InQueue(e) <=> e = x \/ InQueue(e)'
        /\ NoTwice(clientQueue) => NoTwice(clientQueue)' /\ ~InQueue(x)'
    <3>1. /\ Tail(clientQueue) \in Seq(Descriptors)
          /\ \A e : (\E i \in DOMAIN clientQueue : clientQueue[i] = e)
               <=> \/ e = Head(clientQueue)
                   \/ \E i \in DOMAIN Tail(clientQueue) : Tail(clientQueue)[i] = e
          /\ NoTwice(clientQueue) =>
               /\ NoTwice(Tail(clientQueue))
               /\ ~\E i \in DOMAIN Tail(clientQueue) : Tail(clientQueue)[i] = Head(clientQueue)
      BY <1>1, <1>6, QueuePop, Zenon
    <3>2. x = Head(clientQueue) /\ clientQueue' = Tail(clientQueue)
      BY <2>1, <2>2
    <3> QED
      BY <3>1, <3>2, Zenon DEF InQueue, NoTwice
  <2>5. Types'
    BY <1>1, <1>2, <2>3, <2>4 DEF Types
  <2>6. \A e \in Descriptors : \A v \in Workers :
          /\ Client(v, e)' <=> Client(v, e)
          /\ Peer(v, e)' <=> Peer(v, e) \/ (v = w /\ e = x)
    BY <1>4, <2>3
  <2>7. Apart'
    BY <1>4, <2>4, <2>6 DEF PInv, Apart
  <2>8. Held'
    BY <1>2, <1>4, <2>4, <2>6 DEF PInv, Held, Owned
  <2> QED
    BY <2>5, <2>7, <2>8 DEF PInv
<1> QED
  BY <1>5, <1>6

\* A worker connects by itself, or again; the connection it had is lost.
LEMMA ConnectStep ==
    ASSUME Descriptors \subseteq Nat, PInv, NEW w \in Workers, deQueueConnect(w) \/ reconnect(w)
    PROVE  PInv'
<1>1. Types /\ open \subseteq Descriptors /\ leaked \subseteq open
  BY DEF PInv, Types
<1> DEFINE Old == {e \in Descriptors : Peer(w, e)}
<1>2. PICK d \in Fd, pc \in {"idle", "relay", "close"} :
        /\ Opens(anetTcpConnect, d, Old)
        /\ peer' = [peer EXCEPT ![w] = d]
        /\ wpc' = [wpc EXCEPT ![w] = pc]
  <2>1. CASE deQueueConnect(w)
    <3>1. Old = {}
      BY <2>1 DEF deQueueConnect, Peer, PeerPC
    <3> QED
      BY <2>1, <3>1 DEF deQueueConnect, connectToServer, Fd
  <2>2. CASE reconnect(w)
    <3>1. Old = {peer[w]}
      BY <1>1, <2>2 DEF reconnect, Peer, PeerPC, Types
    <3> QED
      BY <2>2, <3>1 DEF reconnect, connectToServer, Fd
  <2> QED
    BY <2>1, <2>2
<1>3. /\ wpc[w] \in {"connect", "reconnect"}
      /\ UNCHANGED <<clientQueue, fpc, ffd, cfd>>
  BY DEF deQueueConnect, reconnect
<1>4. Old \subseteq open \ leaked
  BY DEF PInv, Held, Owned
<1>5. \A e \in Descriptors : Peer(w, e) <=> e \in Old
  OBVIOUS
<1> HIDE DEF Old
<1>6. /\ open' \subseteq Descriptors /\ leaked' \subseteq open'
      /\ \/ d = ANET_ERR /\ open' \ leaked' = (open \ leaked) \ Old
         \/ /\ d \in Descriptors \ open
            /\ open' \ leaked' = ((open \ leaked) \ Old) \cup {d}
  <2>1. Old \subseteq open /\ anetTcpConnect \subseteq {Err, Leak, Ok}
    BY <1>4, Outcomes
  <2> QED
    BY <1>1, <1>2, <2>1, OpensResult, Zenon
<1>7. /\ cfd' = [cfd EXCEPT ![w] = cfd[w]] /\ cfd[w] \in Fd
      /\ pc \in WorkerPC /\ pc \in ClientPC /\ pc \in PeerPC
  BY <1>1, <1>3 DEF Types, WorkerPC, ClientPC, PeerPC
<1>8. /\ wpc' \in [Workers -> WorkerPC]
      /\ cfd' \in [Workers -> Fd] /\ peer' \in [Workers -> Fd]
      /\ wpc'[w] = pc
      /\ \A v \in Workers \ {w} : wpc'[v] = wpc[v] /\ peer'[v] = peer[v]
      /\ \A e : /\ Client(w, e)' <=> cfd[w] = e
                /\ Peer(w, e)' <=> d = e
                /\ \A v \in Workers \ {w} :
                     (Client(v, e)' <=> Client(v, e)) /\ (Peer(v, e)' <=> Peer(v, e))
  <2>1. /\ wpc' \in [Workers -> WorkerPC]
        /\ cfd' \in [Workers -> Fd] /\ peer' \in [Workers -> Fd]
        /\ wpc'[w] = pc /\ peer'[w] = d
        /\ \A v \in Workers \ {w} : wpc'[v] = wpc[v] /\ peer'[v] = peer[v]
        /\ \A e : /\ Client(w, e)' <=> pc \in ClientPC /\ cfd[w] = e
                  /\ Peer(w, e)' <=> pc \in PeerPC /\ d = e
                  /\ \A v \in Workers \ {w} :
                       (Client(v, e)' <=> Client(v, e)) /\ (Peer(v, e)' <=> Peer(v, e))
    BY <1>1, <1>2, <1>7, OtherWorkers, Zenon
  <2> QED
    BY <1>7, <2>1
<1>9. Types'
  BY <1>1, <1>3, <1>6, <1>8 DEF Types
<1>10. \A e : (InQueue(e)' <=> InQueue(e)) /\ (Made(e)' <=> Made(e)) /\ (Client(w, e) <=> cfd[w] = e)
  BY <1>3 DEF InQueue, Made, Client, ClientPC
<1>11. \A e \in Descriptors : \A v \in Workers :
         /\ Client(v, e)' <=> Client(v, e)
         /\ Peer(v, e)' <=> (Peer(v, e) /\ v # w) \/ (v = w /\ e = d)
  BY <1>8, <1>10
<1>12. d \in Descriptors => ~Owned(d)
  <2>1. d \in Descriptors => d \notin open
    BY <1>1, <1>6 DEF ANET_ERR
  <2> QED
    BY <2>1 DEF PInv, Held
<1>13. NoTwice(clientQueue)'
  BY <1>3 DEF PInv, Apart, NoTwice
<1>14. Apart'
  BY <1>10, <1>11, <1>12, <1>13 DEF PInv, Apart, Owned
<1>15. Held'
  <2>1. \A e \in Descriptors : e \in Old => ~InQueue(e) /\ ~Made(e)
          /\ \A v \in Workers : ~Client(v, e) /\ (Peer(v, e) => v = w)
    BY <1>5 DEF PInv, Apart
  <2>2. \A e \in Descriptors : Owned(e)' <=> (Owned(e) /\ e \notin Old) \/ e = d
    BY <1>5, <1>10, <1>11, <2>1 DEF Owned
  <2>3. \A e \in Descriptors : e \in open' \ leaked' <=> (e \in (open \ leaked) \ Old) \/ e = d
    BY <1>6 DEF ANET_ERR
  <2> QED
    BY <2>2, <2>3 DEF PInv, Held
<1> QED
  BY <1>9, <1>14, <1>15 DEF PInv

\* A worker that polls, finds the connection ready or stops relaying keeps its
\* descriptors.
LEMMA KeepStep ==
    ASSUME PInv, NEW w \in Workers, pollIdle(w) \/ relayEnds(w)
    PROVE  PInv'
<1>1. Types
  BY DEF PInv
<1>2. /\ UNCHANGED <<open, leaked, clientQueue, fpc, ffd, cfd, peer>>
      /\ wpc[w] \in {"idle", "relay"}
  BY DEF pollIdle, relayEnds
<1>3. PICK pc \in {"reconnect", "relay", "close"} :
        wpc' = [wpc EXCEPT ![w] = pc] /\ (pc = "reconnect" => peer[w] # ANET_ERR)
  BY DEF pollIdle, relayEnds
<1>4. Types'
  BY <1>1, <1>2, <1>3 DEF Types, WorkerPC, Fd
<1>5. \A e \in Descriptors, v \in Workers :
        (Client(v, e)' <=> Client(v, e)) /\ (Peer(v, e)' <=> Peer(v, e))
  BY <1>1, <1>2, <1>3 DEF Types, Client, Peer, ClientPC, PeerPC
<1>6. /\ open' \ leaked' = open \ leaked
      /\ \A d \in Descriptors : Made(d)' <=> Made(d)
  BY <1>2 DEF Made
<1> QED
  BY <1>2, <1>4, <1>5, <1>6, Nothing

\* The two closes: each gives up what only this worker holds.
LEMMA CloseStep ==
    ASSUME Descriptors \subseteq Nat, PInv, NEW w \in Workers, closeClient(w) \/ closePeer(w)
    PROVE  PInv'
<1>1. Types
  BY DEF PInv
<1>2. UNCHANGED <<leaked, clientQueue, fpc, ffd>>
  BY DEF closeClient, closePeer
<1>3. \A e : (InQueue(e)' <=> InQueue(e)) /\ (Made(e)' <=> Made(e))
  BY <1>2 DEF InQueue, Made
<1>4. NoTwice(clientQueue)'
  BY <1>2 DEF PInv, Apart, NoTwice
<1>5. CASE closeClient(w)
  <2>1. /\ wpc[w] = "close" /\ wpc' = [wpc EXCEPT ![w] = "closePeer"]
        /\ open' = open \ {cfd[w]} /\ UNCHANGED <<cfd, peer>>
    BY <1>5 DEF closeClient
  <2>2. \A e \in Descriptors, v \in Workers :
          /\ Client(v, e)' <=> Client(v, e) /\ v # w
          /\ Peer(v, e)' <=> Peer(v, e)
    BY <1>1, <2>1 DEF Types, Client, Peer, ClientPC, PeerPC
  <2>3. \A e \in Descriptors : Client(w, e) <=> e = cfd[w]
    BY <2>1 DEF Client, ClientPC
  <2>4. \A e \in Descriptors : e = cfd[w] =>
          /\ e \in open \ leaked /\ ~InQueue(e) /\ ~Made(e)
          /\ \A v \in Workers : ~Peer(v, e) /\ (Client(v, e) => v = w)
    BY <2>3 DEF PInv, Apart, Held, Owned
  <2>5. Types'
    <3>1. leaked' \subseteq open'
      BY <1>1, <1>2, <2>1, <2>4 DEF Types
    <3> QED
      BY <1>1, <1>2, <2>1, <3>1 DEF Types, WorkerPC
  <2>6. Apart'
    BY <1>3, <1>4, <2>2 DEF PInv, Apart
  <2>7. \A e \in Descriptors : Owned(e)' <=> Owned(e) /\ e # cfd[w]
    BY <1>3, <2>2, <2>3, <2>4 DEF Owned
  <2>8. Held'
    BY <1>2, <2>1, <2>7 DEF PInv, Held
  <2> QED
    BY <2>5, <2>6, <2>8 DEF PInv
<1>6. CASE closePeer(w)
  <2>1. /\ wpc[w] = "closePeer" /\ wpc' = [wpc EXCEPT ![w] = "none"]
        /\ open' = open \ {peer[w]}
        /\ cfd' = [cfd EXCEPT ![w] = ANET_ERR] /\ peer' = [peer EXCEPT ![w] = ANET_ERR]
    BY <1>6 DEF closePeer
  <2>2. \A e \in Descriptors, v \in Workers :
          /\ Client(v, e)' <=> Client(v, e)
          /\ Peer(v, e)' <=> Peer(v, e) /\ v # w
    BY <1>1, <2>1 DEF Types, Client, Peer, ClientPC, PeerPC
  <2>3. \A e \in Descriptors : Peer(w, e) <=> e = peer[w]
    BY <2>1 DEF Peer, PeerPC
  <2>4. \A e \in Descriptors : e = peer[w] =>
          /\ e \in open \ leaked /\ ~InQueue(e) /\ ~Made(e)
          /\ \A v \in Workers : ~Client(v, e) /\ (Peer(v, e) => v = w)
    BY <2>3 DEF PInv, Apart, Held, Owned
  <2>5. Types'
    <3>1. leaked' \subseteq open'
      BY <1>1, <1>2, <2>1, <2>4 DEF Types
    <3> QED
      BY <1>1, <1>2, <2>1, <3>1 DEF Types, WorkerPC, Fd
  <2>6. Apart'
    BY <1>3, <1>4, <2>2 DEF PInv, Apart
  <2>7. \A e \in Descriptors : Owned(e)' <=> Owned(e) /\ e # peer[w]
    BY <1>3, <2>2, <2>3, <2>4 DEF Owned
  <2>8. Held'
    BY <1>2, <2>1, <2>7 DEF PInv, Held
  <2> QED
    BY <2>5, <2>6, <2>8 DEF PInv
<1> QED
  BY <1>5, <1>6

\* At the start nothing is open.
LEMMA InitPInv == Init => PInv
<1> SUFFICES ASSUME Init PROVE PInv
  OBVIOUS
<1>1. Types
  BY DEF Init, Types, WorkerPC, Fd
<1>2. \A d : ~Owned(d)
  BY DEF Init, Owned, InQueue, Made, Client, Peer, ClientPC, PeerPC
<1>3. NoTwice(clientQueue)
  BY DEF Init, NoTwice
<1>4. open \ leaked = {}
  BY DEF Init
<1> QED
  BY <1>1, <1>2, <1>3, <1>4 DEF PInv, Apart, Held, Owned

\* Every step of the client keeps the invariant.
LEMMA NextPInv ==
    ASSUME Descriptors \subseteq Nat, PInv, [Next]_poolVars
    PROVE  PInv'
<1>1. CASE UNCHANGED poolVars
  <2>1. UNCHANGED <<open, leaked, clientQueue, fpc, ffd, wpc, cfd, peer>>
    BY <1>1 DEF poolVars
  <2>2. Types'
    BY <2>1 DEF PInv, Types
  <2>3. \A d : Made(d)' <=> Made(d)
    BY <2>1 DEF Made
  <2>4. \A d, w : (Client(w, d)' <=> Client(w, d)) /\ (Peer(w, d)' <=> Peer(w, d))
    BY <2>1 DEF Client, Peer
  <2> QED
    BY <2>1, <2>2, <2>3, <2>4, Nothing
<1> QED
  BY <1>1, FactoryStep, AcceptStep, ForgetStep, DeQueueStep, ConnectStep, KeepStep, CloseStep
     DEF Next, sock4aWorker

-----------------------------------------------------------------------------
\* At most one owner, counted.
LEMMA OneOrNone ==
    ASSUME NEW T, \A x, y \in T : x = y
    PROVE  Cardinality(T) = IF T = {} THEN 0 ELSE 1
<1>1. CASE T = {}
  BY <1>1, FS_EmptySet
<1>2. CASE T # {}
  <2>1. PICK x \in T : T = {x}
    BY <1>2
  <2> QED
    BY <1>2, <2>1, FS_Singleton
<1> QED
  BY <1>1, <1>2

\* The invariant counts one owner for a descriptor that is held.
LEMMA Counted ==
    ASSUME PInv
    PROVE  OneOwner
<1> SUFFICES ASSUME NEW d \in Descriptors
             PROVE  Cardinality({i \in DOMAIN clientQueue : clientQueue[i] = d})
                      + Cardinality(AsClient(d)) + Cardinality(AsPeer(d))
                      + (IF fpc = "push" /\ ffd = d THEN 1 ELSE 0)
                    = IF d \in open \ leaked THEN 1 ELSE 0
  BY DEF OneOwner
<1> DEFINE Q == {i \in DOMAIN clientQueue : clientQueue[i] = d}
<1>1. \A w \in Workers : (w \in AsClient(d) <=> Client(w, d)) /\ (w \in AsPeer(d) <=> Peer(w, d))
  BY DEF PInv, Types, WorkerPC, AsClient, AsPeer, Client, Peer, ClientPC, PeerPC
<1>2. AsClient(d) \subseteq Workers /\ AsPeer(d) \subseteq Workers
  BY DEF AsClient, AsPeer
<1>3. /\ \A x, y \in Q : x = y
      /\ \A x, y \in AsClient(d) : x = y
      /\ \A x, y \in AsPeer(d) : x = y
  BY <1>1, <1>2 DEF PInv, Apart, NoTwice
<1>4. /\ Q # {} <=> InQueue(d)
      /\ AsClient(d) # {} <=> \E w \in Workers : Client(w, d)
      /\ AsPeer(d) # {} <=> \E w \in Workers : Peer(w, d)
      /\ (fpc = "push" /\ ffd = d) <=> Made(d)
  BY <1>1, <1>2 DEF InQueue, Made
<1>5. /\ Cardinality(Q) = IF InQueue(d) THEN 1 ELSE 0
      /\ Cardinality(AsClient(d)) = IF \E w \in Workers : Client(w, d) THEN 1 ELSE 0
      /\ Cardinality(AsPeer(d)) = IF \E w \in Workers : Peer(w, d) THEN 1 ELSE 0
  BY <1>3, <1>4, OneOrNone
<1>6. /\ InQueue(d) => /\ ~Made(d)
                       /\ ~\E w \in Workers : Client(w, d)
                       /\ ~\E w \in Workers : Peer(w, d)
      /\ Made(d) => /\ ~\E w \in Workers : Client(w, d)
                    /\ ~\E w \in Workers : Peer(w, d)
      /\ (\E w \in Workers : Client(w, d)) => ~\E w \in Workers : Peer(w, d)
  BY DEF PInv, Apart
<1>7. d \in open \ leaked <=>
        \/ InQueue(d) \/ Made(d)
        \/ (\E w \in Workers : Client(w, d)) \/ (\E w \in Workers : Peer(w, d))
  BY DEF PInv, Held, Owned
<1> QED
  BY <1>4, <1>5, <1>6, <1>7

\* An open descriptor belongs to one thread or one place of the queue, and
\* nobody holds one that is closed, although threads connect, reconnect and
\* close while the kernel gives numbers out again: no two browsers share a
\* connection, and no close hits another's.
THEOREM AlwaysOneOwner ==
    ASSUME Descriptors \subseteq Nat PROVE Spec => []OneOwner
<1>1. PInv => OneOwner
  BY Counted
<1>2. PInv /\ [Next]_poolVars => PInv'
  BY NextPInv
<1> QED
  BY InitPInv, <1>1, <1>2, PTL DEF Spec

-----------------------------------------------------------------------------
(* The heap of redis-realloc.c. *)

Owns(c, b) == rbuf[c] = b \/ wbuf[c] = b

\* Blocks on the heap that no client points to.
Orphans == {b \in heap : \A c \in Clients : ~Owns(c, b)}

\* Every block a client points to is on the heap, and its alone.
Blocked ==
    /\ \A b \in Blocks : \A c, d \in Clients : Owns(c, b) /\ Owns(d, b) => c = d
    /\ \A b \in Blocks : \A c \in Clients : Owns(c, b) => b \in heap
    /\ \A c \in Clients : rbuf[c] = wbuf[c] => rbuf[c] = Null
    /\ Cardinality(Orphans) = lost

\* What the registered event says of a client's buffers.
Waits(c) ==
    /\ event[c] = "R" => wbuf[c] = Null /\ wlen[c] = 0 /\ wpos[c] = 0
    /\ event[c] = "W" => wbuf[c] # Null /\ rbuf[c] # Null /\ wpos[c] < wlen[c]
    /\ event[c] # "none" => c \in connected
    /\ c \notin connected => rbuf[c] = Null /\ wbuf[c] = Null /\ wlen[c] = 0 /\ wpos[c] = 0

HeapInv == reallocTypeOK /\ Blocked /\ \A c \in Clients : Waits(c)

\* The blocks can be counted.
LEMMA HeapFinite == reallocTypeOK => IsFiniteSet(heap) /\ IsFiniteSet(Orphans)
BY ReallocAssumption, FS_Subset DEF reallocTypeOK, Orphans

\* A handler's blocks for one client: it keeps its own or takes free ones, and
\* frees those it does not keep.
LEMMA OwnBlocks ==
    ASSUME reallocTypeOK, Blocked, NEW c \in Clients,
           NEW x \in Blocks \cup {Null}, NEW y \in Blocks \cup {Null},
           rbuf' = [rbuf EXCEPT ![c] = x], wbuf' = [wbuf EXCEPT ![c] = y],
           x = y => x = Null,
           x \in {Null, rbuf[c]} \/ x \notin heap, y \in {Null, wbuf[c]} \/ y \notin heap,
           heap' = (heap \ {rbuf[c], wbuf[c]}) \cup ({x, y} \ {Null}),
           lost' = lost
    PROVE  heap' \in SUBSET Blocks /\ Blocked'
<1>1. heap' \in SUBSET Blocks /\ \A d \in Clients \ {c} : rbuf'[d] = rbuf[d] /\ wbuf'[d] = wbuf[d]
  BY DEF reallocTypeOK
<1>2. rbuf'[c] = x /\ wbuf'[c] = y
  BY DEF reallocTypeOK
<1>3. Null \notin Blocks
  BY ReallocAssumption
<1>4. \A b \in Blocks, d \in Clients \ {c} : Owns(d, b)' <=> Owns(d, b)
  BY <1>1 DEF Owns
<1>5. \A b \in Blocks : Owns(c, b)' <=> b \in {x, y}
  BY <1>2 DEF Owns
<1>6. \A b \in {x, y} \ {Null} : \A d \in Clients \ {c} : ~Owns(d, b)
  <2> SUFFICES ASSUME NEW b \in {x, y} \ {Null}, NEW d \in Clients \ {c}, Owns(d, b)
               PROVE  FALSE
    OBVIOUS
  <2>1. b \in Blocks /\ b \in heap
    BY DEF Blocked
  <2>2. Owns(c, b)
    BY <2>1 DEF Owns
  <2> QED
    BY <2>1, <2>2 DEF Blocked
<1>7. Orphans' = Orphans
  <2>1. \A b \in heap' : b \in Orphans' <=> b \notin {x, y} /\ \A d \in Clients \ {c} : ~Owns(d, b)
    BY <1>1, <1>4, <1>5 DEF Orphans
  <2>2. \A b \in Orphans' : b \in Orphans
    <3> SUFFICES ASSUME NEW b \in Orphans' PROVE b \in Orphans
      OBVIOUS
    <3>1. b \in heap' /\ b \notin {x, y} /\ \A d \in Clients \ {c} : ~Owns(d, b)
      BY <2>1 DEF Orphans
    <3>2. b \in heap /\ ~Owns(c, b)
      BY <3>1 DEF Owns
    <3> QED
      BY <3>1, <3>2 DEF Orphans
  <2>3. \A b \in Orphans : b \in Orphans'
    <3> SUFFICES ASSUME NEW b \in Orphans PROVE b \in Orphans'
      OBVIOUS
    <3>1. b \in heap /\ b \in Blocks /\ b \notin {rbuf[c], wbuf[c]} /\ \A d \in Clients : ~Owns(d, b)
      BY DEF Orphans, Owns, reallocTypeOK
    <3>2. b \notin {x, y} /\ b \in heap'
      BY <3>1, <1>3
    <3> QED
      BY <2>1, <3>1, <3>2
  <2> QED
    BY <2>2, <2>3
<1>8. \A b \in Blocks : \A d \in Clients \ {c} : Owns(d, b) => b \in heap'
  <2> SUFFICES ASSUME NEW b \in Blocks, NEW d \in Clients \ {c}, Owns(d, b) PROVE b \in heap'
    OBVIOUS
  <2>1. b \in heap /\ ~Owns(c, b)
    BY DEF Blocked
  <2> QED
    BY <2>1 DEF Owns
<1>9. \A b \in Blocks : \A d, e \in Clients : Owns(d, b)' /\ Owns(e, b)' => d = e
  BY <1>3, <1>4, <1>5, <1>6 DEF Blocked
<1>10. \A b \in Blocks : \A d \in Clients : Owns(d, b)' => b \in heap'
  BY <1>3, <1>4, <1>5, <1>8
<1>11. \A d \in Clients : rbuf'[d] = wbuf'[d] => rbuf'[d] = Null
  BY <1>1, <1>2 DEF Blocked
<1> QED
  BY <1>1, <1>7, <1>9, <1>10, <1>11 DEF Blocked

\* freeClient of a client whose reply is under way: the reply's block is
\* nobody's from then on.
LEMMA LeavesReply ==
    ASSUME reallocTypeOK, Blocked, NEW c \in Clients, wbuf[c] # Null, rbuf[c] # Null,
           rbuf' = [rbuf EXCEPT ![c] = Null], wbuf' = [wbuf EXCEPT ![c] = Null],
           heap' = heap \ {rbuf[c]}, lost' = lost + 1
    PROVE  heap' \in SUBSET Blocks /\ Blocked'
<1>1. heap' \in SUBSET Blocks /\ \A d \in Clients \ {c} : rbuf'[d] = rbuf[d] /\ wbuf'[d] = wbuf[d]
  BY DEF reallocTypeOK
<1>2. rbuf'[c] = Null /\ wbuf'[c] = Null
  BY DEF reallocTypeOK
<1>3. Null \notin Blocks
  BY ReallocAssumption
<1>4. \A b \in Blocks, d \in Clients \ {c} : Owns(d, b)' <=> Owns(d, b)
  BY <1>1 DEF Owns
<1>5. \A b \in Blocks : ~Owns(c, b)'
  BY <1>2, <1>3 DEF Owns
<1> PICK r \in Blocks, w \in Blocks : r = rbuf[c] /\ w = wbuf[c]
  BY DEF reallocTypeOK
<1>6. r # w /\ r \in heap /\ w \in heap /\ Owns(c, r) /\ Owns(c, w)
  BY DEF Blocked, Owns
<1>7. \A d \in Clients \ {c} : ~Owns(d, r) /\ ~Owns(d, w)
  BY <1>6 DEF Blocked
<1>8. Orphans' = Orphans \cup {w} /\ w \notin Orphans
  <2>1. \A b \in heap' : b \in Orphans' <=> \A d \in Clients \ {c} : ~Owns(d, b)
    BY <1>1, <1>4, <1>5 DEF Orphans
  <2>2. \A b \in heap : Owns(c, b) <=> b \in {r, w}
    BY DEF Owns
  <2>3. \A b \in heap' : b \in Orphans' <=> b \in Orphans \/ b = w
    BY <1>7, <2>1, <2>2, <1>6 DEF Orphans
  <2>4. r \notin Orphans /\ w \notin Orphans
    BY <1>6 DEF Orphans
  <2>5. w \in heap'
    BY <1>6
  <2> QED
    BY <2>3, <2>4, <2>5 DEF Orphans
<1>9. Cardinality(Orphans') = lost'
  BY <1>8, HeapFinite, FS_AddElement DEF Blocked
<1>10. \A b \in Blocks : \A d \in Clients : Owns(d, b)' => b \in heap'
  BY <1>4, <1>5, <1>7 DEF Blocked
<1>11. \A b \in Blocks : \A d, e \in Clients : Owns(d, b)' /\ Owns(e, b)' => d = e
  BY <1>4, <1>5 DEF Blocked
<1>12. \A d \in Clients : rbuf'[d] = wbuf'[d] => rbuf'[d] = Null
  BY <1>1, <1>2 DEF Blocked
<1> QED
  BY <1>1, <1>9, <1>10, <1>11, <1>12 DEF Blocked

\* A handler that leaves the blocks alone.
LEMMA SameBlocks ==
    ASSUME Blocked, UNCHANGED <<heap, rbuf, wbuf, lost>>
    PROVE  Blocked'
<1>1. Orphans' = Orphans
  BY DEF Orphans, Owns
<1> QED
  BY <1>1 DEF Blocked, Owns

\* freeClient of a client that waits for a request, or has just been read.
LEMMA FreeInv ==
    ASSUME HeapInv, NEW c \in Clients, NEW b \in Grown(c), event[c] = "R",
           freeClient(c, b), UNCHANGED <<mid, lost>>
    PROVE  HeapInv'
<1>1. wbuf[c] = Null /\ b \in Blocks /\ Null \notin Blocks
  BY ReallocAssumption DEF HeapInv, Waits, Grown, reallocTypeOK
<1>2. heap' = (heap \ {rbuf[c], wbuf[c]}) \cup ({Null, Null} \ {Null})
  <2>1. heap' = (heap \ {rbuf[c]}) \ {b}
    BY <1>1 DEF freeClient
  <2>2. b \in heap => b = rbuf[c]
    BY DEF Grown
  <2>3. Null \notin heap
    BY <1>1 DEF HeapInv, reallocTypeOK
  <2> QED
    BY <1>1, <2>1, <2>2, <2>3
<1>3. heap' \in SUBSET Blocks /\ Blocked'
  BY <1>2, OwnBlocks DEF freeClient, HeapInv
<1>4. reallocTypeOK'
  BY <1>3, ReallocAssumption DEF freeClient, HeapInv, reallocTypeOK
<1>5. \A d \in Clients : Waits(d)'
  BY DEF freeClient, HeapInv, reallocTypeOK, Waits
<1> QED
  BY <1>3, <1>4, <1>5 DEF HeapInv

\* An answer that cannot be sent.
LEMMA LoseInv ==
    ASSUME HeapInv, NEW c \in Clients, event[c] = "W", freeClient(c, rbuf[c]),
           lost < MaxLost, lost' = lost + 1, UNCHANGED mid
    PROVE  HeapInv'
<1>1. wbuf[c] # Null /\ rbuf[c] # Null
  BY DEF HeapInv, Waits
<1>2. heap' = heap \ {rbuf[c]}
  BY <1>1 DEF freeClient
<1>3. heap' \in SUBSET Blocks /\ Blocked'
  BY <1>1, <1>2, LeavesReply DEF freeClient, HeapInv
<1>4. reallocTypeOK'
  BY <1>3, ReallocAssumption DEF freeClient, HeapInv, reallocTypeOK
<1>5. \A d \in Clients : Waits(d)'
  BY DEF freeClient, HeapInv, reallocTypeOK, Waits
<1> QED
  BY <1>3, <1>4, <1>5 DEF HeapInv

\* A read that only lets the request buffer grow.
LEMMA ReadInv ==
    ASSUME HeapInv, NEW c \in Clients, event[c] = "R", NEW b \in Grown(c),
           NEW n \in 0 .. MaxRead, keepsReading(c, b, n), UNCHANGED <<mid, lost>>
    PROVE  HeapInv'
<1>1. wbuf[c] = Null /\ b \in Blocks /\ Null \notin Blocks /\ (b = rbuf[c] \/ b \notin heap)
  BY ReallocAssumption DEF HeapInv, Waits, Grown, reallocTypeOK
<1>2. heap' = (heap \ {rbuf[c], wbuf[c]}) \cup ({b, Null} \ {Null})
  <2>1. Null \notin heap
    BY <1>1 DEF HeapInv, reallocTypeOK
  <2> QED
    BY <1>1, <2>1 DEF keepsReading
<1>3. wbuf' = [wbuf EXCEPT ![c] = Null]
  BY <1>1 DEF keepsReading, HeapInv, reallocTypeOK
<1>4. heap' \in SUBSET Blocks /\ Blocked'
  BY <1>1, <1>2, <1>3, OwnBlocks DEF keepsReading, HeapInv
<1>5. reallocTypeOK'
  BY <1>1, <1>4, ReallocAssumption DEF keepsReading, HeapInv, reallocTypeOK
<1>6. \A d \in Clients : Waits(d)'
  BY DEF keepsReading, HeapInv, reallocTypeOK, Waits
<1> QED
  BY <1>4, <1>5, <1>6 DEF HeapInv

\* A request that is answered: the answer has a block of its own.
LEMMA ReplyInv ==
    ASSUME HeapInv, NEW c \in Clients, event[c] = "R", NEW b \in Grown(c),
           NEW n \in 0 .. MaxRead, reply(c, b, n), UNCHANGED <<mid, lost>>
    PROVE  HeapInv'
<1>1. wbuf[c] = Null /\ b \in Blocks /\ Null \notin Blocks /\ (b = rbuf[c] \/ b \notin heap)
      /\ wpos[c] = 0 /\ c \in connected
  BY ReallocAssumption DEF HeapInv, Waits, Grown, reallocTypeOK
<1>2. PICK w \in Blocks \ (heap \cup {b}), k \in 1 .. MaxReply, e \in {"W", "none"} :
      /\ heap' = (heap \ {rbuf[c]}) \cup {b, w}
      /\ rbuf' = [rbuf EXCEPT ![c] = b] /\ rlen' = [rlen EXCEPT ![c] = n]
      /\ wbuf' = [wbuf EXCEPT ![c] = w] /\ wlen' = [wlen EXCEPT ![c] = k]
      /\ event' = [event EXCEPT ![c] = e]
      /\ UNCHANGED <<connected, wpos>>
  BY DEF reply
<1>3. heap' = (heap \ {rbuf[c], wbuf[c]}) \cup ({b, w} \ {Null})
  <2>1. Null \notin heap
    BY <1>1 DEF HeapInv, reallocTypeOK
  <2> QED
    BY <1>1, <1>2, <2>1
<1>4. heap' \in SUBSET Blocks /\ Blocked'
  BY <1>1, <1>2, <1>3, OwnBlocks DEF HeapInv
<1>5. reallocTypeOK'
  BY <1>1, <1>2, <1>4, ReallocAssumption DEF HeapInv, reallocTypeOK
<1>6. \A d \in Clients : Waits(d)'
  BY <1>1, <1>2 DEF HeapInv, reallocTypeOK, Waits
<1> QED
  BY <1>4, <1>5, <1>6 DEF HeapInv

\* resetClient, when the answer is sent.
LEMMA ResetInv ==
    ASSUME HeapInv, NEW c \in Clients, event[c] = "W", resetClient(c), UNCHANGED <<mid, lost>>
    PROVE  HeapInv'
<1>1. heap' = (heap \ {rbuf[c], wbuf[c]}) \cup ({Null, Null} \ {Null})
  BY DEF resetClient
<1>2. heap' \in SUBSET Blocks /\ Blocked'
  BY <1>1, OwnBlocks DEF resetClient, HeapInv
<1>3. reallocTypeOK'
  BY <1>2, ReallocAssumption DEF resetClient, HeapInv, reallocTypeOK
<1>4. \A d \in Clients : Waits(d)'
  BY DEF resetClient, HeapInv, reallocTypeOK, Waits
<1> QED
  BY <1>2, <1>3, <1>4 DEF HeapInv

\* An empty heap.
LEMMA InitHeapInv == reallocInit => HeapInv
<1> SUFFICES ASSUME reallocInit PROVE HeapInv
  OBVIOUS
<1>1. Orphans = {} /\ Cardinality({}) = 0
  BY FS_EmptySet DEF reallocInit, Orphans
<1>2. reallocTypeOK
  BY ReallocAssumption DEF reallocInit, reallocTypeOK
<1>3. Blocked
  BY <1>1, ReallocAssumption DEF reallocInit, Blocked, Owns
<1>4. \A c \in Clients : Waits(c)
  BY DEF reallocInit, Waits
<1> QED
  BY <1>2, <1>3, <1>4 DEF HeapInv

\* The end of the process is the end of its heap.
LEMMA StopInv == HeapInv /\ sigtermHandler => HeapInv'
<1> SUFFICES ASSUME HeapInv, sigtermHandler PROVE HeapInv'
  OBVIOUS
<1>1. Orphans' = {} /\ Cardinality({}) = 0
  BY FS_EmptySet DEF sigtermHandler, Orphans
<1>2. reallocTypeOK'
  BY ReallocAssumption DEF sigtermHandler, reallocTypeOK
<1>3. Blocked'
  BY <1>1, ReallocAssumption DEF sigtermHandler, Blocked, Owns
<1>4. \A c \in Clients : Waits(c)'
  BY DEF sigtermHandler, Waits
<1> QED
  BY <1>2, <1>3, <1>4 DEF HeapInv

\* Every handler keeps the invariant.
LEMMA NextHeapInv == HeapInv /\ [reallocNext]_reallocVars => HeapInv'
<1> SUFFICES ASSUME HeapInv, [reallocNext]_reallocVars PROVE HeapInv'
  OBVIOUS
<1>1. CASE main \/ UNCHANGED reallocVars
  <2>1. UNCHANGED <<heap, connected, event, rbuf, wbuf, rlen, wlen, wpos, lost>>
    BY <1>1 DEF main, reallocVars, fields
  <2>2. reallocTypeOK'
    BY <1>1, <2>1, ReallocAssumption DEF main, reallocVars, HeapInv, reallocTypeOK
  <2> QED
    BY <2>1, <2>2, SameBlocks DEF HeapInv, Waits
<1>2. ASSUME NEW c \in Clients, acceptHandler(c) PROVE HeapInv'
  <2>1. UNCHANGED <<mid, heap, rbuf, wbuf, rlen, wlen, wpos, lost>> /\ c \notin connected
        /\ connected' = connected \cup {c} /\ event' = [event EXCEPT ![c] = "R"]
    BY <1>2 DEF acceptHandler, fields
  <2>2. reallocTypeOK'
    BY <2>1 DEF HeapInv, reallocTypeOK
  <2>3. \A d \in Clients : Waits(d)'
    BY <2>1 DEF HeapInv, reallocTypeOK, Waits
  <2> QED
    BY <2>1, <2>2, <2>3, SameBlocks DEF HeapInv
<1>3. ASSUME NEW c \in Clients, readQueryFromClient(c) PROVE HeapInv'
  <2>1. PICK b \in Grown(c), n \in 0 .. ReadLen :
         \/ n = 0 /\ (freeClient(c, b) \/ keepsReading(c, b, rlen[c]))
         \/ n > 0 /\ rlen[c] + n > MaxRead /\ freeClient(c, b)
         \/ n > 0 /\ rlen[c] + n <= MaxRead /\ processInputBuffer(c, b, rlen[c] + n)
    BY <1>3 DEF readQueryFromClient
  <2>2. event[c] = "R" /\ UNCHANGED <<mid, lost>>
    BY <1>3 DEF readQueryFromClient
  <2>3. rlen[c] \in 0 .. MaxRead /\ (n > 0 /\ rlen[c] + n <= MaxRead => rlen[c] + n \in 0 .. MaxRead)
    BY ReallocAssumption DEF HeapInv, reallocTypeOK
  <2> QED
    BY <2>1, <2>2, <2>3, FreeInv, ReadInv, ReplyInv DEF processInputBuffer
<1>4. ASSUME NEW c \in Clients, sendReplyToClient(c) PROVE HeapInv'
  <2>1. event[c] = "W" /\ UNCHANGED mid
    BY <1>4 DEF sendReplyToClient
  <2>2. CASE freeClient(c, rbuf[c]) /\ lost < MaxLost /\ lost' = lost + 1
    BY <2>1, <2>2, LoseInv
  <2>3. CASE resetClient(c) /\ UNCHANGED lost
    BY <2>1, <2>3, ResetInv
  <2>4. ASSUME NEW n \in 0 .. wlen[c] - wpos[c], wpos[c] + n # wlen[c],
               wpos' = [wpos EXCEPT ![c] = @ + n],
               UNCHANGED <<heap, connected, event, rbuf, wbuf, rlen, wlen, lost>>
        PROVE  HeapInv'
    <3>1. wpos[c] \in 0 .. MaxReply /\ wlen[c] \in 0 .. MaxReply /\ wpos[c] < wlen[c]
          /\ c \in connected
      BY <2>1 DEF HeapInv, reallocTypeOK, Waits
    <3>2. wpos[c] + n < wlen[c] /\ wpos[c] + n \in 0 .. MaxReply
      BY <2>4, <3>1, ReallocAssumption
    <3>3. reallocTypeOK'
      BY <2>1, <2>4, <3>2 DEF HeapInv, reallocTypeOK
    <3>4. \A d \in Clients : Waits(d)'
      BY <2>1, <2>4, <3>1, <3>2 DEF HeapInv, reallocTypeOK, Waits
    <3> QED
      BY <2>4, <3>3, <3>4, SameBlocks DEF HeapInv
  <2> QED
    BY <1>4, <2>2, <2>3, <2>4 DEF sendReplyToClient
<1> QED
  BY <1>1, <1>2, <1>3, <1>4, StopInv DEF reallocNext

\* The invariant gives what the property says of pairs of clients.
LEMMA BlocksAccounted == HeapInv => HeapAccounts
<1> SUFFICES ASSUME HeapInv PROVE HeapAccounts
  OBVIOUS
<1> USE ReallocAssumption
<1>1. RequestBlocks \cup ReplyBlocks \subseteq heap
  BY DEF HeapInv, reallocTypeOK, Blocked, Owns, RequestBlocks, ReplyBlocks
<1>2. RequestBlocks \cap ReplyBlocks = {}
  <2> SUFFICES ASSUME NEW c \in Clients, NEW d \in Clients, rbuf[c] = wbuf[d], rbuf[c] # Null
               PROVE  FALSE
    BY DEF RequestBlocks, ReplyBlocks
  <2>1. rbuf[c] \in Blocks
    BY DEF HeapInv, reallocTypeOK
  <2>2. Owns(c, rbuf[c]) /\ Owns(d, rbuf[c])
    BY DEF Owns
  <2> QED
    BY <2>1, <2>2 DEF HeapInv, Blocked
<1>3. ASSUME NEW c \in Clients, NEW d \in Clients, c # d
      PROVE  (rbuf[c] = rbuf[d] => rbuf[c] = Null) /\ (wbuf[c] = wbuf[d] => wbuf[c] = Null)
  <2>1. rbuf[c] \in Blocks \cup {Null} /\ wbuf[c] \in Blocks \cup {Null}
    BY DEF HeapInv, reallocTypeOK
  <2> QED
    BY <1>3, <2>1 DEF HeapInv, Blocked, Owns
<1>4. heap \ (RequestBlocks \cup ReplyBlocks) = Orphans
  BY DEF HeapInv, reallocTypeOK, Orphans, Owns, RequestBlocks, ReplyBlocks
<1> QED
  BY <1>1, <1>2, <1>3, <1>4 DEF HeapInv, Blocked, Waits, HeapAccounts

\* For any number of clients and blocks: no block of the heap is in two places
\* or used after it was freed, and the blocks nobody points to are the replies
\* that freeClient has left behind, one each.  (freeClient, resetClient,
\* readQueryFromClient and sendReplyToClient of redis-realloc.c.)
THEOREM HeapAlwaysAccounts == reallocSpec => []HeapAccounts
<1>1. reallocSpec => []HeapInv
  BY InitHeapInv, NextHeapInv, PTL DEF reallocSpec
<1> QED
  BY <1>1, BlocksAccounted, PTL

-----------------------------------------------------------------------------
(* The UDP gets. *)

Answer == [size : Sizes, req : Requests, port : Ports]
Datagram ==
    [req : Requests, port : Ports, answer : Nat, seq : Nat, size : Sizes]

\* A piece is one of its answer: below its size, with its number and port.
Of(d, a) == /\ d.answer \in DOMAIN a
            /\ d.req = a[d.answer].req /\ d.port = a[d.answer].port /\ d.size = a[d.answer].size
            /\ d.seq < d.size

\* No two pieces of an array have one key.
Keyed(s) == \A i, j \in DOMAIN s : s[i].seq = s[j].seq => i = j

UdpTypes ==
    /\ call \in [on : BOOLEAN, req : Requests \cup {0}, port : Ports \cup {0}]
    /\ asked \subseteq [req : Requests, port : Ports]
    /\ wire \subseteq Datagram /\ answers \in Seq(Answer) /\ rs \in Seq(Datagram)
    /\ sending \in [answer : Nat, seq : Nat]

\* Every piece on the way, and every piece the call holds, is one of an answer
\* that was sent; the call holds pieces of its own number and port.
Pieces ==
    /\ \A d \in wire : Of(d, answers)
    /\ sending.answer # 0 => /\ sending.answer \in DOMAIN answers
                             /\ sending.seq < answers[sending.answer].size
    /\ Keyed(rs) /\ \A i \in DOMAIN rs : Of(rs[i], answers)
    /\ call.on => \A i \in DOMAIN rs : rs[i].req = call.req /\ rs[i].port = call.port

\* What was returned was the array when it had as many pieces as one of them
\* said.
Returned(s) ==
    /\ s \in Seq(Datagram) /\ Keyed(s) /\ \A i \in DOMAIN s : Of(s[i], answers)
    /\ \A i, j \in DOMAIN s : s[i].req = s[j].req /\ s[i].port = s[j].port
    /\ \E i \in DOMAIN s : s[i].size = Len(s)
    /\ result = implode(s)

UInv == UdpTypes /\ Pieces /\ (result # << >> => \E s \in Seq(Datagram) : Returned(s))

\* An answer, once sent, stays what it is.
LEMMA StillOf ==
    ASSUME NEW a \in Seq(Answer), NEW x \in Answer, NEW d, Of(d, a)
    PROVE  Of(d, Append(a, x))
<1>1. d.answer \in DOMAIN a /\ DOMAIN Append(a, x) = 1 .. Len(a) + 1 /\ DOMAIN a = 1 .. Len(a) /\ Len(a) \in Nat
      /\ \A i \in 1 .. Len(a) : Append(a, x)[i] = a[i]
  BY DEF Of
<1> QED
  BY <1>1 DEF Of

\* A datagram in the array: it is there, with the others that were, and its
\* key is there once.
LEMMA StoredPieces ==
    ASSUME NEW d \in Datagram, UdpTypes, Keyed(rs)
    PROVE  /\ stored(d) \in Seq(Datagram) /\ Keyed(stored(d))
           /\ \A i \in DOMAIN stored(d) : stored(d)[i] = d \/ \E j \in DOMAIN rs : stored(d)[i] = rs[j]
           /\ \E i \in DOMAIN stored(d) : stored(d)[i] = d
<1>1. rs \in Seq(Datagram) /\ DOMAIN rs = 1 .. Len(rs) /\ Len(rs) \in Nat
  BY DEF UdpTypes
<1>2. CASE \E i \in DOMAIN rs : rs[i].seq = d.seq
  <2>1. PICK f : f = [i \in DOMAIN rs |-> IF rs[i].seq = d.seq THEN d ELSE rs[i]]
    OBVIOUS
  <2>2. stored(d) = f
    BY <1>2, <2>1 DEF stored
  <2>3. f \in [1 .. Len(rs) -> Datagram] /\ DOMAIN f = DOMAIN rs
    BY <1>1, <2>1
  <2>4. f \in Seq(Datagram)
    BY <1>1, <2>3
  <2>5. \A i \in DOMAIN rs : f[i].seq = rs[i].seq
    BY <2>1
  <2>6. Keyed(f)
    BY <2>3, <2>5 DEF Keyed
  <2>7. \E i \in DOMAIN f : f[i] = d
    BY <1>2, <2>1, <2>3
  <2>8. \A i \in DOMAIN f : f[i] = d \/ \E j \in DOMAIN rs : f[i] = rs[j]
    BY <2>1, <2>3
  <2> QED
    BY <2>2, <2>4, <2>6, <2>7, <2>8
<1>3. CASE ~ \E i \in DOMAIN rs : rs[i].seq = d.seq
  <2>1. Append(rs, d) \in Seq(Datagram)
    BY <1>1
  <2>2. PICK f \in Seq(Datagram) : f = Append(rs, d)
    BY <2>1
  <2>3. /\ DOMAIN f = 1 .. Len(rs) + 1 /\ f[Len(rs) + 1] = d
        /\ \A i \in 1 .. Len(rs) : f[i] = rs[i]
    BY <1>1, <2>2
  <2>4. stored(d) = f
    BY <1>3, <2>2 DEF stored
  <2>5. ASSUME NEW i \in DOMAIN f, NEW j \in DOMAIN f, f[i].seq = f[j].seq PROVE i = j
    <3>1. i \in DOMAIN rs \/ i = Len(rs) + 1
      BY <1>1, <2>3
    <3>2. j \in DOMAIN rs \/ j = Len(rs) + 1
      BY <1>1, <2>3
    <3> QED
      BY <1>1, <1>3, <2>3, <2>5, <3>1, <3>2 DEF Keyed
  <2>6. Keyed(f)
    BY <2>5 DEF Keyed
  <2>7. \A i \in DOMAIN f : f[i] = d \/ \E j \in DOMAIN rs : f[i] = rs[j]
    BY <1>1, <2>3
  <2>8. \E i \in DOMAIN f : f[i] = d
    BY <1>1, <2>3
  <2> QED
    BY <2>2, <2>4, <2>6, <2>7, <2>8
<1> QED
  BY <1>2, <1>3

LEMMA InitUInv == udpInit => UInv
<1> SUFFICES ASSUME udpInit PROVE UInv
  OBVIOUS
<1>1. UdpTypes
  BY DEF udpInit, UdpTypes, NoCall
<1>2. Pieces
  BY DEF udpInit, Pieces, NoCall, Keyed
<1> QED
  BY <1>1, <1>2 DEF udpInit, UInv

\* A call begins, or ends without an answer.
LEMMA CallUInv ==
    ASSUME UInv, recvTimeout \/ \E req \in Requests, port \in Ports : mget(req, port)
    PROVE  UInv'
<1>1. UNCHANGED <<wire, answers, sending>> /\ rs' = << >>
  BY DEF recvTimeout, mget
<1>2. call' \in [on : BOOLEAN, req : Requests \cup {0}, port : Ports \cup {0}]
      /\ asked' \subseteq [req : Requests, port : Ports]
  <2>1. CASE recvTimeout
    BY <2>1 DEF recvTimeout, NoCall, UInv, UdpTypes
  <2>2. CASE \E req \in Requests, port \in Ports : mget(req, port)
    <3>1. PICK req \in Requests, port \in Ports : mget(req, port)
      BY <2>2
    <3>2. call' = [on |-> TRUE, req |-> req, port |-> port]
          /\ asked' = asked \cup {[req |-> req, port |-> port]}
      BY <3>1 DEF mget
    <3>3. call' \in [on : BOOLEAN, req : Requests \cup {0}, port : Ports \cup {0}]
      BY <3>2
    <3>4. [req |-> req, port |-> port] \in [req : Requests, port : Ports]
      OBVIOUS
    <3>5. asked \subseteq [req : Requests, port : Ports]
      BY DEF UInv, UdpTypes
    <3> QED
      BY <3>2, <3>3, <3>4, <3>5
  <2> QED
    BY <2>1, <2>2
<1>3. UdpTypes'
  BY <1>1, <1>2 DEF UInv, UdpTypes
<1>4. Pieces'
  BY <1>1 DEF UInv, Pieces, Keyed
<1>5. result' = << >> \/ result' = result
  BY DEF recvTimeout, mget
<1>6. ASSUME NEW s, Returned(s), result' = result PROVE Returned(s)'
  BY <1>1, <1>6 DEF Returned
<1> QED
  BY <1>3, <1>4, <1>5, <1>6 DEF UInv

\* A datagram is delivered.
LEMMA RecvUInv ==
    ASSUME UInv, NEW d \in wire, recvfrom(d)
    PROVE  UInv'
<1>1. d \in Datagram /\ Of(d, answers) /\ call.on /\ d.port = call.port
      /\ wire' \subseteq wire /\ UNCHANGED <<calls, asked, answers, sending>>
  BY DEF recvfrom, UInv, UdpTypes, Pieces
<1>2. CASE UNCHANGED <<call, rs, result>>
  <2>1. UdpTypes' /\ Pieces'
    BY <1>1, <1>2 DEF UInv, UdpTypes, Pieces, Keyed
  <2>2. ASSUME NEW s, Returned(s) PROVE Returned(s)'
    BY <1>1, <1>2, <2>2 DEF Returned
  <2> QED
    BY <1>2, <2>1, <2>2 DEF UInv
<1>3. CASE isReply(d) /\ rs' = stored(d)
  <2>1. PICK t : t = stored(d)
    OBVIOUS
  <2>2. UdpTypes /\ Keyed(rs)
    BY DEF UInv, Pieces
  <2>3. /\ t \in Seq(Datagram) /\ Keyed(t)
        /\ \A i \in DOMAIN t : t[i] = d \/ \E j \in DOMAIN rs : t[i] = rs[j]
        /\ \E i \in DOMAIN t : t[i] = d
    BY <1>1, <2>1, <2>2, StoredPieces
  <2>4. rs' = t
    BY <1>3, <2>1
  <2>5. /\ rs' \in Seq(Datagram) /\ Keyed(rs)'
        /\ \A i \in DOMAIN rs' : rs'[i] = d \/ \E j \in DOMAIN rs : rs'[i] = rs[j]
        /\ \E i \in DOMAIN rs' : rs'[i] = d
    BY <2>3, <2>4 DEF Keyed
  <2>6. \A i \in DOMAIN rs' : Of(rs'[i], answers) /\ rs'[i].req = call.req /\ rs'[i].port = call.port
    BY <1>1, <1>3, <2>5 DEF UInv, Pieces, isReply
  <2>7. call' = call \/ (call' = NoCall /\ Len(rs') = d.size)
    BY <1>3 DEF recvfrom
  <2>8. UdpTypes'
    <3>1. call' \in [on : BOOLEAN, req : Requests \cup {0}, port : Ports \cup {0}]
      <4>1. CASE call' = call
        BY <4>1 DEF UInv, UdpTypes
      <4>2. CASE call' = NoCall
        BY <4>2 DEF NoCall
      <4> QED
        BY <2>7, <4>1, <4>2
    <3>2. wire \subseteq Datagram /\ answers \in Seq(Answer) /\ sending \in [answer : Nat, seq : Nat]
          /\ asked \subseteq [req : Requests, port : Ports]
      BY DEF UInv, UdpTypes
    <3> QED
      BY <1>1, <2>5, <3>1, <3>2 DEF UdpTypes
  <2>9. Pieces'
    BY <1>1, <2>5, <2>6, <2>7 DEF UInv, Pieces, NoCall
  <2>10. CASE result' = result
    <3>1. ASSUME NEW s, Returned(s) PROVE Returned(s)'
      BY <1>1, <2>10, <3>1 DEF Returned
    <3> QED
      BY <2>8, <2>9, <2>10, <3>1 DEF UInv
  <2>11. CASE result' = << >>
    BY <2>8, <2>9, <2>11 DEF UInv
  <2>12. CASE Len(rs') = d.size /\ result' = implode(rs')
    <3>1. PICK s \in Seq(Datagram) : s = rs'
      BY <2>5
    <3>2. \A i, j \in DOMAIN s : s[i].req = s[j].req /\ s[i].port = s[j].port
      BY <2>6, <3>1
    <3>3. \E i \in DOMAIN s : s[i].size = Len(s)
      BY <2>5, <2>12, <3>1
    <3>4. Keyed(s) /\ \A i \in DOMAIN s : Of(s[i], answers')
      BY <1>1, <2>5, <2>6, <3>1 DEF Keyed
    <3>5. result' = implode(s)
      BY <2>12, <3>1
    <3>6. Returned(s)'
      BY <3>2, <3>3, <3>4, <3>5 DEF Returned
    <3> QED
      BY <2>8, <2>9, <3>6 DEF UInv
  <2> QED
    BY <1>3, <2>10, <2>11, <2>12 DEF recvfrom
<1> QED
  BY <1>2, <1>3 DEF recvfrom

\* An answer begins.
LEMMA AnswerUInv ==
    ASSUME UInv, NEW r \in asked, processCommandFromUdpClient(r)
    PROVE  UInv'
<1>1. PICK n \in Sizes : answers' = Append(answers, [size |-> n, req |-> r.req, port |-> r.port])
  BY DEF processCommandFromUdpClient
<1>2. PICK x \in Answer : x = [size |-> n, req |-> r.req, port |-> r.port]
  BY DEF UInv, UdpTypes, Answer
<1>3. answers \in Seq(Answer) /\ answers' = Append(answers, x) /\ asked' \subseteq asked
      /\ UNCHANGED <<call, rs, wire, result>> /\ sending' = [answer |-> Len(answers'), seq |-> 0]
  BY <1>1, <1>2 DEF processCommandFromUdpClient, UInv, UdpTypes
<1>4. /\ answers' \in Seq(Answer) /\ Len(answers') \in DOMAIN answers' /\ Len(answers') \in Nat
      /\ answers'[Len(answers')] = x
  BY <1>3
<1>5. \A d : Of(d, answers) => Of(d, answers')
  BY <1>3, StillOf
<1>6. UdpTypes'
  BY <1>3, <1>4 DEF UInv, UdpTypes
<1>7. Pieces'
  <2>1. sending'.answer \in DOMAIN answers' /\ sending'.seq < answers'[sending'.answer].size
    BY <1>2, <1>3, <1>4, UdpAssumption
  <2>2. Keyed(rs)' /\ \A i \in DOMAIN rs' : Of(rs'[i], answers')
    BY <1>3, <1>5 DEF UInv, Pieces, Keyed
  <2>3. \A d \in wire' : Of(d, answers')
    BY <1>3, <1>5 DEF UInv, Pieces
  <2> QED
    BY <1>3, <2>1, <2>2, <2>3 DEF UInv, Pieces
<1>8. ASSUME NEW s, Returned(s) PROVE Returned(s)'
  BY <1>3, <1>5, <1>8 DEF Returned
<1> QED
  BY <1>3, <1>6, <1>7, <1>8 DEF UInv

\* A datagram is sent, or the loop ends.
LEMMA SendUInv ==
    ASSUME UInv, anetUdpSendTo
    PROVE  UInv'
<1>1. sending.answer \in DOMAIN answers /\ sending.answer \in Nat /\ sending.seq \in Nat
      /\ sending.seq < answers[sending.answer].size /\ answers[sending.answer] \in Answer
  BY DEF anetUdpSendTo, UInv, UdpTypes, Pieces
<1>2. PICK a \in Answer : a = answers[sending.answer]
  BY <1>1
<1>3. PICK d \in Datagram : d = [req |-> a.req, port |-> a.port, answer |-> sending.answer,
                                 seq |-> sending.seq, size |-> a.size]
  BY <1>1 DEF Datagram, Answer
<1>4. Of(d, answers)
  BY <1>1, <1>2, <1>3 DEF Of
<1>5. /\ wire' \subseteq wire \cup {d} /\ UNCHANGED <<call, rs, asked, answers, result>>
      /\ \/ sending' = [answer |-> 0, seq |-> 0]
         \/ sending.seq + 1 # a.size /\ sending' = [sending EXCEPT !.seq = @ + 1]
  BY <1>2, <1>3 DEF anetUdpSendTo
<1>6. sending' \in [answer : Nat, seq : Nat]
  BY <1>1, <1>5 DEF UInv, UdpTypes
<1>7. UdpTypes'
  BY <1>5, <1>6 DEF UInv, UdpTypes
<1>8. sending'.answer # 0 => /\ sending'.answer \in DOMAIN answers'
                             /\ sending'.seq < answers'[sending'.answer].size
  <2>1. CASE sending' = [answer |-> 0, seq |-> 0]
    BY <2>1
  <2>2. CASE sending.seq + 1 # a.size /\ sending' = [sending EXCEPT !.seq = @ + 1]
    <3>1. a.size \in Nat
      BY UdpAssumption DEF Answer
    <3>2. sending'.answer = sending.answer /\ sending'.seq = sending.seq + 1
      BY <2>2 DEF UInv, UdpTypes
    <3> QED
      BY <1>1, <1>2, <1>5, <2>2, <3>1, <3>2
  <2> QED
    BY <1>5, <2>1, <2>2
<1>9. Pieces'
  BY <1>4, <1>5, <1>8 DEF UInv, Pieces, Keyed
<1>10. ASSUME NEW s, Returned(s) PROVE Returned(s)'
  BY <1>5, <1>10 DEF Returned
<1> QED
  BY <1>5, <1>7, <1>9, <1>10 DEF UInv

\* The network loses a datagram.
LEMMA LoseUInv ==
    ASSUME UInv, lose \/ UNCHANGED udpVars
    PROVE  UInv'
<1>1. wire' \subseteq wire /\ asked' \subseteq asked /\ UNCHANGED <<call, rs, answers, sending, result>>
  BY DEF lose, udpVars
<1>2. UdpTypes' /\ Pieces'
  BY <1>1 DEF UInv, UdpTypes, Pieces, Keyed
<1>3. ASSUME NEW s, Returned(s) PROVE Returned(s)'
  BY <1>1, <1>3 DEF Returned
<1> QED
  BY <1>1, <1>2, <1>3 DEF UInv

LEMMA NextUInv == UInv /\ [udpNext]_udpVars => UInv'
BY CallUInv, RecvUInv, AnswerUInv, SendUInv, LoseUInv DEF udpNext

\* As many different numbers below a length as the length are all of them.
LEMMA AllNumbers ==
    ASSUME NEW s \in Seq(Datagram), Keyed(s), \A i \in DOMAIN s : s[i].seq < Len(s)
    PROVE  {s[i].seq : i \in DOMAIN s} = 0 .. Len(s) - 1
<1>1. Len(s) \in Nat /\ DOMAIN s = 1 .. Len(s) /\ \A i \in DOMAIN s : s[i] \in Datagram
  OBVIOUS
<1>2. PICK n \in Nat : n = Len(s)
  BY <1>1
<1>3. PICK f : f = [i \in 1 .. n |-> s[i].seq]
  OBVIOUS
<1>4. f \in [1 .. n -> 0 .. n - 1]
  <2>1. \A i \in 1 .. n : s[i].seq \in Nat /\ s[i].seq < n
    BY <1>1, <1>2 DEF Datagram
  <2> QED
    BY <1>3, <2>1
<1>5. f \in Injection(1 .. n, 0 .. n - 1)
  BY <1>1, <1>2, <1>3, <1>4 DEF Injection, IsInjective, Keyed
<1>6. /\ IsFiniteSet(0 .. n - 1) /\ Cardinality(0 .. n - 1) = n
      /\ Cardinality(1 .. n) = n
  <2>1. PICK m \in Int : m = n - 1
    OBVIOUS
  <2>2. IsFiniteSet(0 .. m) /\ Cardinality(0 .. m) = IF 0 > m THEN 0 ELSE m - 0 + 1
    BY <2>1, FS_Interval
  <2>3. 1 \in Int /\ n \in Int
    OBVIOUS
  <2>4. Cardinality(1 .. n) = IF 1 > n THEN 0 ELSE n - 1 + 1
    BY <2>3, FS_Interval
  <2>5. Cardinality(0 .. m) = n
    BY <2>1, <2>2
  <2>6. Cardinality(1 .. n) = n
    BY <2>4
  <2> QED
    BY <2>1, <2>2, <2>5, <2>6
<1>7. f \in Surjection(1 .. n, 0 .. n - 1)
  BY <1>5, <1>6, FS_Injection
<1>8. \A m \in 0 .. n - 1 : \E i \in 1 .. n : f[i] = m
  BY <1>7 DEF Surjection
<1>9. ASSUME NEW m \in 0 .. n - 1 PROVE m \in {s[i].seq : i \in DOMAIN s}
  <2>1. PICK i \in 1 .. n : f[i] = m
    BY <1>8
  <2>2. i \in DOMAIN s /\ s[i].seq = m
    BY <1>1, <1>2, <1>3, <2>1
  <2> QED
    BY <2>2
<1>10. ASSUME NEW i \in DOMAIN s PROVE s[i].seq \in 0 .. n - 1
  <2>1. i \in 1 .. n /\ f[i] = s[i].seq
    BY <1>1, <1>2, <1>3
  <2> QED
    BY <1>4, <2>1
<1>11. {s[i].seq : i \in DOMAIN s} = 0 .. n - 1
  BY <1>9, <1>10
<1> QED
  BY <1>2, <1>11

LEMMA ExplainedByAnswers == UInv => ReplyExplained
<1> SUFFICES ASSUME UInv, result # << >> PROVE ReplyExplained
  BY DEF ReplyExplained
<1>1. PICK s \in Seq(Datagram) : Returned(s)
  BY DEF UInv
<1>2. DOMAIN result = DOMAIN s /\ \A i \in DOMAIN s : result[i].answer = s[i].answer /\ result[i].seq = s[i].seq
  BY <1>1 DEF Returned, implode
<1>3. \A i, j \in DOMAIN result : /\ answers[result[i].answer].req = answers[result[j].answer].req
                                  /\ answers[result[i].answer].port = answers[result[j].answer].port
  BY <1>1, <1>2 DEF Returned, Of
<1>4. ASSUME OneAnswer(result)
      PROVE  {result[i].seq : i \in DOMAIN result} = 0 .. answers[result[1].answer].size - 1
  <2>1. PICK k \in DOMAIN s : s[k].size = Len(s)
    BY <1>1 DEF Returned
  <2>2. 1 \in DOMAIN s
    BY <2>1
  <2>3. \A i \in DOMAIN s : s[i].size = Len(s) /\ s[i].size = answers[result[1].answer].size
    BY <1>1, <1>2, <1>4, <2>1, <2>2 DEF Returned, Of, OneAnswer
  <2>4. \A i \in DOMAIN s : s[i].seq < Len(s)
    BY <1>1, <2>3 DEF Returned, Of
  <2>5. {s[i].seq : i \in DOMAIN s} = 0 .. Len(s) - 1
    BY <1>1, <2>4, AllNumbers DEF Returned
  <2>6. {result[i].seq : i \in DOMAIN result} = {s[i].seq : i \in DOMAIN s}
    BY <1>2
  <2> QED
    BY <2>2, <2>3, <2>5, <2>6
<1> QED
  BY <1>3, <1>4 DEF ReplyExplained

\* Whatever the network loses, repeats and reorders, and however often numbers
\* and ports come again: what a get returns has every piece of its answer once,
\* and pieces of several answers only if all were sent to its number and port.
\* (uRedis_mget and uMemcache_mget with processCommandFromUdpClient.)
THEOREM RepliesAlwaysExplained == udpSpec => []ReplyExplained
<1>1. udpSpec => []UInv
  BY InitUInv, NextUInv, PTL DEF udpSpec
<1> QED
  BY <1>1, ExplainedByAnswers, PTL

-----------------------------------------------------------------------------
(* The echo server. *)

Entry  == [fd : Fds, flags : SUBSET {"in", "out", "hup"}]
Object == [there : BOOLEAN, out_buf : Seq(Nat)]
Socket == [open : BOOLEAN, peer : {"none", "open", "shut", "reset"},
           sent : Nat, got : Nat, held : Nat, echoed : Seq(Nat)]

EchoTypes ==
    /\ obj \in [Fds -> Object] /\ events \in [Fds -> SUBSET {"in", "out"}]
    /\ sock \in [Fds -> Socket] /\ polled \in Seq(Entry)

\* What is known of one descriptor: its dispatcher, its events and its socket
\* agree, and a closed one has left nothing behind.
Agrees(n, o, e, s) ==
    /\ o.there <=> s.open
    /\ s.open <=> e # {}
    /\ o.out_buf # << >> => "out" \in e
    /\ s.echoed \o o.out_buf = [i \in 1 .. s.got |-> i]
    /\ ~s.open => o = NoObj /\ s = NoSock
    /\ n = Listener => s.peer = "none"

\* What is known of an entry that waits: a reset it tells of has happened.
Current(p) == "hup" \in p.flags /\ sock[p.fd].open => sock[p.fd].peer = "reset"

\* One entry for a descriptor; only the entry that is being handled may be that
\* of a closed dispatcher, and never that of the listening socket.
Batch ==
    /\ \A i, j \in DOMAIN polled : polled[i].fd = polled[j].fd => i = j
    /\ \A i \in DOMAIN polled : /\ Current(polled[i])
                                /\ i # 1 \/ polled[i].fd = Listener => sock[polled[i].fd].open

Dropped == closedConn.rest # << >> => closedConn.peer \in {"shut", "reset"}

EInv == /\ EchoTypes /\ Batch /\ Dropped
        /\ \A n \in Fds : Agrees(n, obj[n], events[n], sock[n])

LEMMA SoundByAgreement == EInv => EchoSound
BY DEF EInv, EchoSound, Agrees, Dropped

-----------------------------------------------------------------------------
(* Bytes. *)

\* Sequences of bytes.
LEMMA Joined ==
    ASSUME NEW a \in Seq(Nat), NEW b \in Seq(Nat)
    PROVE  /\ a \o b \in Seq(Nat) /\ Len(a \o b) = Len(a) + Len(b)
           /\ Len(a) \in Nat /\ Len(b) \in Nat
           /\ \A i \in 1 .. Len(a) : (a \o b)[i] = a[i]
           /\ \A i \in 1 .. Len(b) : (a \o b)[Len(a) + i] = b[i]
<1>1. Len(a) \in Nat /\ Len(b) \in Nat
  OBVIOUS
<1>2. /\ a \o b \in Seq(Nat) /\ Len(a \o b) = Len(a) + Len(b)
      /\ \A i \in 1 .. Len(a) + Len(b) : (a \o b)[i] = IF i <= Len(a) THEN a[i] ELSE b[i - Len(a)]
  BY ConcatProperties, Zenon
<1> QED
  BY <1>1, <1>2

LEMMA Regrouped ==
    ASSUME NEW a \in Seq(Nat), NEW b \in Seq(Nat), NEW c \in Seq(Nat)
    PROVE  (a \o b) \o c = a \o (b \o c)
BY ConcatAssociative, SMTT(30)

\* The bytes after the first g, up to the k-th.
After(g, k) == [i \in 1 .. k - g |-> g + i]
First(k) == [i \in 1 .. k |-> i]

\* What was received is appended to what waits.
LEMMA ReceivedInOrder ==
    ASSUME NEW e \in Seq(Nat), NEW b \in Seq(Nat), NEW g \in Nat, NEW k \in Nat, g < k,
           e \o b = First(g)
    PROVE  b \o After(g, k) \in Seq(Nat) /\ b \o After(g, k) # << >>
           /\ e \o (b \o After(g, k)) = First(k)
<1>1. PICK a : a = e \o b
  OBVIOUS
<1>2. PICK x : x = After(g, k)
  OBVIOUS
<1>3. a = [i \in 1 .. g |-> i] /\ x = [i \in 1 .. k - g |-> g + i]
  BY <1>1, <1>2 DEF First, After
<1>4. PICK m \in Nat : m = k - g /\ m > 0 /\ k = g + m
  OBVIOUS
<1>5. x \in Seq(Nat) /\ Len(x) = m /\ \A i \in 1 .. m : x[i] = g + i
  <2>1. x \in [1 .. m -> Nat]
    BY <1>4, <1>3
  <2> QED
    BY <1>4, <1>3, <2>1
<1>6. a \in Seq(Nat) /\ Len(a) = g /\ Len(b) \in Nat /\ \A i \in 1 .. g : a[i] = i
  <2>1. a \in Seq(Nat)
    BY <1>1, Joined
  <2> QED
    BY <1>3, <2>1
<1>7. e \o (b \o x) = a \o x
  <2>1. (e \o b) \o x = e \o (b \o x)
    BY <1>5, Regrouped, Zenon
  <2> QED
    BY <1>1, <2>1, Zenon
<1>8. PICK y : y = a \o x
  OBVIOUS
<1>9. /\ y \in Seq(Nat) /\ Len(y) = g + m
      /\ \A i \in 1 .. g : y[i] = a[i]
      /\ \A i \in 1 .. m : y[g + i] = x[i]
  <2>1. /\ a \o x \in Seq(Nat) /\ Len(a \o x) = Len(a) + Len(x)
        /\ \A i \in 1 .. Len(a) : (a \o x)[i] = a[i]
        /\ \A i \in 1 .. Len(x) : (a \o x)[Len(a) + i] = x[i]
    <3>1. a \in Seq(Nat) /\ x \in Seq(Nat)
      BY <1>5, <1>6
    <3> QED
      BY <3>1, Joined
  <2> QED
    BY <1>5, <1>6, <1>8, <2>1, Zenon
<1>10. \A i \in 1 .. k : y[i] = i
  <2>1. ASSUME NEW i \in 1 .. k, i > g PROVE y[i] = i
    <3>1. i - g \in 1 .. m /\ g + (i - g) = i
      BY <1>4, <2>1
    <3>2. PICK j \in 1 .. m : j = i - g
      BY <3>1
    <3> QED
      BY <1>5, <1>9, <3>1, <3>2
  <2>2. ASSUME NEW i \in 1 .. k, ~(i > g) PROVE y[i] = i
    <3>1. i \in 1 .. g
      BY <2>2
    <3> QED
      BY <1>6, <1>9, <3>1
  <2> QED
    BY <2>1, <2>2
<1>11. y = [i \in 1 .. k |-> i]
  BY <1>4, <1>9, <1>10
<1>12. b \o x \in Seq(Nat) /\ b \o x # << >>
  <2>1. b \o x \in Seq(Nat) /\ Len(b \o x) = Len(b) + m
    BY <1>5, Joined
  <2>2. Len(b \o x) # 0
    BY <1>4, <1>6, <2>1
  <2> QED
    BY <2>1, <2>2
<1> QED
  BY <1>2, <1>7, <1>8, <1>11, <1>12, Zenon DEF First

\* What is sent moves from what waits to what was sent.
LEMMA SentInOrder ==
    ASSUME NEW e \in Seq(Nat), NEW b \in Seq(Nat), NEW k \in Nat, k <= Len(b)
    PROVE  /\ rest(b, k) \in Seq(Nat) /\ e \o SubSeq(b, 1, k) \in Seq(Nat)
           /\ (e \o SubSeq(b, 1, k)) \o rest(b, k) = e \o b
<1>1. PICK n \in Nat : n = Len(b) /\ k <= n
  OBVIOUS
<1>2. SubSeq(b, 1, k) \in Seq(Nat)
  <2>1. \A i \in 1 .. k : b[i] \in Nat
    BY <1>1
  <2> QED
    BY <1>1, <2>1
<1>3. SubSeq(b, k + 1, n) \in Seq(Nat)
  <2>1. \A i \in k + 1 .. n : b[i] \in Nat
    BY <1>1
  <2> QED
    BY <1>1, <2>1
<1>4. SubSeq(b, 1, k) \o SubSeq(b, k + 1, n) = SubSeq(b, 1, n)
  <2>1. 1 \in 1 .. Len(b) + 1 /\ k \in 1 - 1 .. Len(b) /\ n \in k .. Len(b)
    BY <1>1
  <2> QED
    BY <2>1, ConcatAdjacentSubSeq, Zenon
<1>5. SubSeq(b, 1, n) = b
  BY <1>1
<1>6. (e \o SubSeq(b, 1, k)) \o SubSeq(b, k + 1, n) = e \o (SubSeq(b, 1, k) \o SubSeq(b, k + 1, n))
  BY <1>2, <1>3, Regrouped, Zenon
<1>7. e \o SubSeq(b, 1, k) \in Seq(Nat)
  BY <1>2, Joined, Zenon
<1>8. rest(b, k) = SubSeq(b, k + 1, n)
  BY <1>1 DEF rest
<1> QED
  BY <1>3, <1>4, <1>5, <1>6, <1>7, <1>8, Zenon

-----------------------------------------------------------------------------
(* One descriptor. *)

LEMMA NoBytes == << >> \o << >> = [i \in 1 .. 0 |-> i] /\ << >> \in Seq(Nat)
OBVIOUS

\* Closed, and just opened: nothing was received and nothing waits.
LEMMA AgreesClosed == \A n : Agrees(n, NoObj, {}, NoSock) /\ NoObj \in Object /\ NoSock \in Socket
BY NoBytes DEF Agrees, NoObj, NoSock, Object, Socket

OpenObj == [there |-> TRUE, out_buf |-> << >>]
OpenSock(p) ==
    [open |-> TRUE, peer |-> p, sent |-> 0, got |-> 0, held |-> 0, echoed |-> << >>]

LEMMA Opened ==
    /\ [NoObj EXCEPT !.there = TRUE] = OpenObj
    /\ [NoSock EXCEPT !.open = TRUE] = OpenSock("none")
    /\ [NoSock EXCEPT !.open = TRUE, !.peer = "open"] = OpenSock("open")
<1>1. PICK o : o = [NoObj EXCEPT !.there = TRUE]
  OBVIOUS
<1>2. o = OpenObj
  BY <1>1 DEF NoObj, OpenObj
<1>3. [NoObj EXCEPT !.there = TRUE] = OpenObj
  BY <1>1, <1>2, Zenon
<1>4. PICK s : s = [NoSock EXCEPT !.open = TRUE]
  OBVIOUS
<1>5. s = OpenSock("none")
  BY <1>4 DEF NoSock, OpenSock
<1>6. PICK w : w = [s EXCEPT !.peer = "open"]
  OBVIOUS
<1>7. w = OpenSock("open")
  BY <1>5, <1>6 DEF OpenSock
<1>8. [s EXCEPT !.peer = "open"] = OpenSock("open")
  BY <1>6, <1>7, Zenon
<1>9. [NoSock EXCEPT !.open = TRUE, !.peer = "open"] = [s EXCEPT !.peer = "open"]
  BY <1>4 DEF NoSock
<1> QED
  BY <1>3, <1>4, <1>5, <1>8, <1>9

LEMMA AgreesOpened ==
    ASSUME NEW n, NEW p \in {"none", "open"}, n = Listener => p = "none"
    PROVE  Agrees(n, OpenObj, {"in"}, OpenSock(p)) /\ OpenObj \in Object /\ OpenSock(p) \in Socket
BY NoBytes DEF Agrees, OpenObj, OpenSock, Object, Socket

LEMMA EFacts ==
    ASSUME EInv, polled # << >>
    PROVE  /\ fd \in Fds /\ flags \in SUBSET {"in", "out", "hup"}
           /\ polled[1] \in Entry /\ Len(polled) \in Nat \ {0} /\ DOMAIN polled = 1 .. Len(polled)
           /\ "hup" \in flags /\ sock[fd].open => sock[fd].peer = "reset"
           /\ fd = Listener => sock[fd].open
<1>1. polled \in Seq(Entry)
  BY DEF EInv, EchoTypes
<1>2. Len(polled) \in Nat \ {0} /\ polled[1] \in Entry /\ DOMAIN polled = 1 .. Len(polled) /\ 1 \in DOMAIN polled
  BY <1>1
<1>3. Current(polled[1]) /\ (polled[1].fd = Listener => sock[polled[1].fd].open)
  BY <1>2 DEF EInv, Batch
<1>4. polled[1].fd \in Fds /\ polled[1].flags \in SUBSET {"in", "out", "hup"}
  BY <1>2 DEF Entry
<1> QED
  BY <1>2, <1>3, <1>4 DEF fd, flags, Current

\* The entry that is handled goes, or loses a flag; the others are those of
\* other descriptors.
LEMMA NextBatch ==
    ASSUME EInv, polled # << >>,
           \A n \in Fds \ {fd} : sock[n].open => sock'[n].open /\ sock'[n].peer = sock[n].peer,
           \/ polled' = Tail(polled)
           \/ \E f : /\ done(f)
                     /\ flags = {f} \/ /\ sock'[fd].open => sock[fd].open /\ sock'[fd].peer = sock[fd].peer
                                       /\ fd = Listener => sock'[fd].open
    PROVE  polled' \in Seq(Entry) /\ Batch'
<1>1. PICK p \in Seq(Entry) : p = polled
  BY DEF EInv, EchoTypes
<1>2. PICK m \in Nat : m = Len(p) /\ m > 0 /\ DOMAIN p = 1 .. m
  <2>1. Len(polled) \in Nat \ {0} /\ DOMAIN polled = 1 .. Len(polled)
    BY EFacts
  <2>2. Len(polled) \in Nat /\ Len(polled) > 0
    BY <2>1
  <2>3. Len(p) \in Nat /\ Len(p) > 0 /\ DOMAIN p = 1 .. Len(p)
    BY <1>1, <2>1, <2>2, Zenon
  <2> QED
    BY <2>3, Zenon
<1>3. \A i \in 1 .. m : p[i] \in Entry
  BY <1>2
<1>4. /\ \A i, j \in 1 .. m : p[i].fd = p[j].fd => i = j
      /\ \A i \in 1 .. m : /\ Current(p[i])
                           /\ i # 1 \/ p[i].fd = Listener => sock[p[i].fd].open
  BY <1>1, <1>2 DEF EInv, Batch
<1>5. p[1].fd = fd /\ p[1].flags = flags /\ fd \in Fds
  BY <1>1, EFacts DEF fd, flags
<1>6. ASSUME NEW i \in 2 .. m
      PROVE  /\ sock'[p[i].fd].open /\ p[i].fd # fd
             /\ "hup" \in p[i].flags => sock'[p[i].fd].peer = "reset"
  <2>1. i \in 1 .. m /\ 1 \in 1 .. m /\ i # 1
    BY <1>2
  <2>2. sock[p[i].fd].open /\ Current(p[i]) /\ p[i].fd # fd
    BY <1>4, <1>5, <2>1
  <2>3. p[i].fd \in Fds
    BY <1>3, <2>1 DEF Entry
  <2>4. sock'[p[i].fd].open /\ sock'[p[i].fd].peer = sock[p[i].fd].peer
    BY <2>2, <2>3
  <2> QED
    BY <2>2, <2>4 DEF Current
<1>7. CASE polled' = Tail(polled)
  <2>1. PICK q : q = polled'
    OBVIOUS
  <2>2. q \in Seq(Entry) /\ DOMAIN q = 1 .. m - 1 /\ \A i \in 1 .. m - 1 : q[i] = p[i + 1]
    BY <1>1, <1>2, <1>7, <2>1
  <2>3. \A i, j \in DOMAIN q : q[i].fd = q[j].fd => i = j
    <3>1. ASSUME NEW i \in 1 .. m - 1, NEW j \in 1 .. m - 1, q[i].fd = q[j].fd PROVE i = j
      <4>1. i + 1 \in 1 .. m /\ j + 1 \in 1 .. m
        BY <1>2
      <4>2. p[i + 1].fd = p[j + 1].fd
        BY <2>2, <3>1
      <4>3. i + 1 = j + 1
        BY <1>4, <4>1, <4>2
      <4> QED
        BY <4>3
    <3> QED
      BY <2>2, <3>1
  <2>4. ASSUME NEW i \in DOMAIN q
        PROVE  sock'[q[i].fd].open /\ ("hup" \in q[i].flags => sock'[q[i].fd].peer = "reset")
    <3>1. i + 1 \in 2 .. m /\ q[i] = p[i + 1]
      BY <1>2, <2>2
    <3> QED
      BY <1>6, <3>1
  <2>5. Batch'
    BY <2>1, <2>3, <2>4 DEF Batch, Current
  <2> QED
    BY <2>1, <2>2, <2>5
<1>8. CASE polled' # Tail(polled)
  <2>1. PICK f : /\ done(f) /\ flags # {f}
                 /\ sock'[fd].open => sock[fd].open /\ sock'[fd].peer = sock[fd].peer
                 /\ fd = Listener => sock'[fd].open
    BY <1>8 DEF done
  <2>2. PICK e \in Entry : e = [fd |-> fd, flags |-> flags \ {f}]
    BY EFacts DEF Entry
  <2>3. e.fd = fd /\ e.flags \subseteq flags
    BY <2>2
  <2>4. PICK q : q = polled'
    OBVIOUS
  <2>5. Tail(p) \in Seq(Entry) /\ Len(Tail(p)) = m - 1 /\ \A i \in 1 .. m - 1 : Tail(p)[i] = p[i + 1]
    BY <1>2
  <2>6. q = <<e>> \o Tail(p)
    BY <1>1, <2>1, <2>2, <2>4 DEF done
  <2>7. q \in Seq(Entry) /\ DOMAIN q = 1 .. m /\ q[1] = e /\ \A i \in 2 .. m : q[i] = p[i]
    <3>1. PICK r \in Seq(Entry) : r = Tail(p)
      BY <2>5
    <3>2. <<e>> \in Seq(Entry) /\ Len(<<e>>) = 1 /\ <<e>>[1] = e
      OBVIOUS
    <3>3. PICK h \in Seq(Entry) : h = <<e>> /\ Len(h) = 1 /\ h[1] = e
      BY <3>2
    <3>4. Len(r) = m - 1 /\ \A i \in 1 .. m - 1 : r[i] = p[i + 1]
      BY <2>5, <3>1
    <3>5. /\ h \o r \in Seq(Entry) /\ Len(h \o r) = Len(h) + Len(r)
          /\ \A i \in 1 .. Len(h) + Len(r) : (h \o r)[i] = IF i <= Len(h) THEN h[i] ELSE r[i - Len(h)]
      BY ConcatProperties
    <3>6. q = h \o r
      BY <2>6, <3>1, <3>3
    <3>7. q \in Seq(Entry) /\ Len(q) = m /\ \A i \in 1 .. m : q[i] = IF i <= 1 THEN h[i] ELSE r[i - 1]
      BY <1>2, <3>3, <3>4, <3>5, <3>6
    <3>8. ASSUME NEW i \in 2 .. m PROVE q[i] = p[i]
      <4>1. i - 1 \in 1 .. m - 1 /\ (i - 1) + 1 = i /\ i \in 1 .. m /\ ~(i <= 1)
        BY <1>2
      <4> QED
        BY <3>4, <3>7, <4>1
    <3>9. q[1] = e
      BY <1>2, <3>3, <3>7
    <3> QED
      BY <1>2, <3>7, <3>8, <3>9
  <2>8. \A i \in 1 .. m : q[i].fd = p[i].fd
    <3>1. \A i \in 1 .. m : i = 1 \/ i \in 2 .. m
      BY <1>2
    <3> QED
      BY <1>5, <2>3, <2>7, <3>1
  <2>9. \A i, j \in DOMAIN q : q[i].fd = q[j].fd => i = j
    BY <1>4, <2>7, <2>8
  <2>10. ASSUME NEW i \in DOMAIN q
         PROVE  /\ i # 1 \/ q[i].fd = Listener => sock'[q[i].fd].open
                /\ "hup" \in q[i].flags /\ sock'[q[i].fd].open => sock'[q[i].fd].peer = "reset"
    <3>1. CASE i = 1
      <4>1. "hup" \in flags /\ sock[fd].open => sock[fd].peer = "reset"
        BY EFacts
      <4> QED
        BY <2>1, <2>3, <2>7, <3>1, <4>1
    <3>2. CASE i \in 2 .. m
      BY <1>6, <2>7, <3>2
    <3> QED
      BY <1>2, <2>7, <3>1, <3>2
  <2>11. Batch'
    BY <2>4, <2>9, <2>10 DEF Batch, Current
  <2> QED
    BY <2>4, <2>7, <2>11
<1> QED
  BY <1>7, <1>8

-----------------------------------------------------------------------------
(* Steps. *)

\* The smallest free number exists.
LEMMA LowestNumber ==
    ASSUME NEW F, F \subseteq Fds, F # {}
    PROVE  Min(F) \in F
<1> DEFINE Less == {ss \in Nat \X Nat : ss[1] < ss[2]}
<1>1. IsWellFoundedOn(Less, Nat)
  BY NatLessThanWellFounded, Zenon DEF OpToRel
<1>2. F \subseteq Nat /\ F # {}
  BY EchoAssumption
<1>3. \A x, y \in Nat : ~(<<y, x>> \in Less) => x <= y
  OBVIOUS
<1> HIDE DEF Less
<1>4. PICK x \in F : \A y \in F : ~(<<y, x>> \in Less)
  BY <1>1, <1>2, WFMin, Zenon
<1>5. \A y \in F : x <= y
  BY <1>2, <1>3, <1>4
<1> QED
  BY <1>4, <1>5 DEF Min

LEMMA InitEInv == echoInit => EInv
<1> SUFFICES ASSUME echoInit PROVE EInv
  OBVIOUS
<1>1. ASSUME NEW n \in Fds
      PROVE  /\ obj[n] \in Object /\ events[n] \in SUBSET {"in", "out"} /\ sock[n] \in Socket
             /\ Agrees(n, obj[n], events[n], sock[n])
  <2>1. CASE n = Listener
    <3>1. obj[n] = OpenObj /\ events[n] = {"in"} /\ sock[n] = OpenSock("none")
      BY <2>1, Opened DEF echoInit
    <3> QED
      BY <2>1, <3>1, AgreesOpened
  <2>2. CASE n # Listener
    <3>1. obj[n] = NoObj /\ events[n] = {} /\ sock[n] = NoSock
      BY <2>2 DEF echoInit
    <3> QED
      BY <3>1, AgreesClosed
  <2> QED
    BY <2>1, <2>2
<1>2. EchoTypes
  <2>1. obj = [n \in Fds |-> obj[n]] /\ events = [n \in Fds |-> events[n]] /\ sock = [n \in Fds |-> sock[n]]
    BY DEF echoInit
  <2>2. polled \in Seq(Entry)
    BY DEF echoInit
  <2> QED
    BY <1>1, <2>1, <2>2 DEF EchoTypes
<1>3. Batch /\ Dropped
  BY DEF echoInit, Batch, Dropped
<1> QED
  BY <1>1, <1>2, <1>3 DEF EInv

\* What changes is one descriptor and what is polled.
LEMMA OneChanges ==
    ASSUME EInv, NEW n \in Fds, NEW o \in Object, NEW e \in SUBSET {"in", "out"}, NEW s \in Socket,
           obj' = [obj EXCEPT ![n] = o], events' = [events EXCEPT ![n] = e],
           sock' = [sock EXCEPT ![n] = s], Agrees(n, o, e, s),
           polled' \in Seq(Entry), Batch', Dropped'
    PROVE  EInv'
<1>1. /\ obj \in [Fds -> Object] /\ events \in [Fds -> SUBSET {"in", "out"}] /\ sock \in [Fds -> Socket]
      /\ \A k \in Fds : Agrees(k, obj[k], events[k], sock[k])
  BY DEF EInv, EchoTypes
<1>2. obj' \in [Fds -> Object] /\ events' \in [Fds -> SUBSET {"in", "out"}] /\ sock' \in [Fds -> Socket]
  BY <1>1
<1>3. EchoTypes'
  BY <1>2 DEF EchoTypes
<1>4. ASSUME NEW k \in Fds PROVE Agrees(k, obj[k], events[k], sock[k])'
  <2>1. CASE k = n
    <3>1. obj'[k] = o /\ events'[k] = e /\ sock'[k] = s
      BY <1>1, <2>1
    <3> QED
      BY <2>1, <3>1 DEF Agrees
  <2>2. CASE k # n
    <3>1. obj'[k] = obj[k] /\ events'[k] = events[k] /\ sock'[k] = sock[k]
      BY <1>1, <2>2
    <3> QED
      BY <1>1, <3>1 DEF Agrees
  <2> QED
    BY <2>1, <2>2
<1> QED
  BY <1>3, <1>4 DEF EInv

\* The loop asks epoll.
LEMMA PollEInv ==
    ASSUME EInv, poll_epoll
    PROVE  EInv'
<1>1. PICK F : F = {n \in Fds : sock[n].open /\ ready(n) # {}}
  OBVIOUS
<1>2. PICK order \in SetToSeqs(F) :
         polled' = [i \in DOMAIN order |-> [fd |-> order[i], flags |-> ready(order[i])]]
  BY <1>1 DEF poll_epoll
<1>3. Cardinality(F) \in Nat
  <2>1. F \subseteq Fds /\ IsFiniteSet(Fds)
    BY <1>1, EchoAssumption
  <2>2. IsFiniteSet(F)
    BY <2>1, FS_Subset
  <2> QED
    BY <2>2, FS_CardinalityType
<1>4. PICK c \in Nat : c = Cardinality(F)
  BY <1>3
<1>5. order \in [1 .. c -> F] /\ \A i, j \in 1 .. c : i # j => order[i] # order[j]
  BY <1>2, <1>4 DEF SetToSeqs
<1>6. ASSUME NEW n \in Fds PROVE ready(n) \in SUBSET {"in", "out", "hup"} /\ ("hup" \in ready(n) => sock[n].peer = "reset")
  <2>1. events[n] \in SUBSET {"in", "out"}
    BY DEF EInv, EchoTypes
  <2> QED
    BY <2>1 DEF ready
<1>7. PICK q : q = polled'
  OBVIOUS
<1>8. \A i \in 1 .. c : order[i] \in Fds /\ sock[order[i]].open
  BY <1>1, <1>5
<1>9. DOMAIN q = 1 .. c /\ \A i \in 1 .. c : q[i] = [fd |-> order[i], flags |-> ready(order[i])]
  BY <1>2, <1>5, <1>7
<1>10. q \in Seq(Entry)
  <2>1. q = [i \in 1 .. c |-> [fd |-> order[i], flags |-> ready(order[i])]]
    BY <1>2, <1>5, <1>7
  <2>2. \A i \in 1 .. c : [fd |-> order[i], flags |-> ready(order[i])] \in Entry
    BY <1>6, <1>8 DEF Entry
  <2>3. q \in [1 .. c -> Entry]
    BY <2>1, <2>2
  <2> QED
    BY <2>3
<1>11. \A i \in 1 .. c : q[i].fd = order[i] /\ q[i].flags = ready(order[i])
  BY <1>9
<1>12. UNCHANGED <<obj, events, sock, backlog, conns, closedConn>>
  BY DEF poll_epoll
<1>13. Batch'
  <2>1. \A i, j \in DOMAIN q : q[i].fd = q[j].fd => i = j
    BY <1>5, <1>9, <1>11
  <2>2. \A i \in DOMAIN q : sock[q[i].fd].open /\ ("hup" \in q[i].flags => sock[q[i].fd].peer = "reset")
    BY <1>6, <1>8, <1>9, <1>11
  <2> QED
    BY <1>7, <1>12, <2>1, <2>2 DEF Batch, Current
<1> QED
  BY <1>7, <1>10, <1>12, <1>13 DEF EInv, EchoTypes, Dropped, Agrees

\* A dispatcher is closed: of a connection, after its peer has stopped.
LEMMA CloseEInv ==
    ASSUME EInv, polled # << >>, handle_close,
           sock[fd].open => fd = Listener \/ sock[fd].peer \in {"shut", "reset"},
           polled' = Tail(polled) \/ \E f : done(f) /\ (flags = {f} \/ fd # Listener)
    PROVE  EInv'
<1>1. fd \in Fds /\ (fd = Listener => sock[fd].open)
  BY EFacts
<1>2. PICK c \in Fds : c = fd
  BY <1>1
<1>3. CASE sock[fd].open
  <2>1. /\ obj' = [obj EXCEPT ![c] = NoObj] /\ events' = [events EXCEPT ![c] = {}]
        /\ sock' = [sock EXCEPT ![c] = NoSock]
        /\ closedConn' = IF c = Listener THEN closedConn
                         ELSE [peer |-> sock[c].peer, rest |-> obj[c].out_buf]
    BY <1>2, <1>3 DEF handle_close
  <2>2. sock \in [Fds -> Socket] /\ Dropped
    BY DEF EInv, EchoTypes
  <2>3. Dropped'
    BY <1>2, <1>3, <2>1, <2>2 DEF Dropped
  <2>4. (\A n \in Fds \ {fd} : sock'[n] = sock[n]) /\ ~sock'[fd].open
    BY <1>2, <2>1, <2>2 DEF NoSock
  <2>5. polled' \in Seq(Entry) /\ Batch'
    BY <2>4, NextBatch
  <2> QED
    BY <2>1, <2>3, <2>5, AgreesClosed, OneChanges
<1>4. CASE ~sock[fd].open
  <2>1. UNCHANGED <<obj, events, sock, closedConn>>
    BY <1>4 DEF handle_close
  <2>2. polled' \in Seq(Entry) /\ Batch'
    BY <1>1, <1>4, <2>1, NextBatch
  <2> QED
    BY <2>1, <2>2 DEF EInv, EchoTypes, Dropped, Agrees
<1> QED
  BY <1>3, <1>4

\* A connection is accepted, was gone, or accepting it failed.
LEMMA AcceptEInv ==
    ASSUME EInv, polled # << >>, fd = Listener, handle_accept
    PROVE  EInv'
<1>1. fd \in Fds /\ sock[fd].open
  BY EFacts
<1>2. CASE done("in") /\ UNCHANGED <<obj, events, sock, backlog, closedConn>>
  <2>1. polled' \in Seq(Entry) /\ Batch'
    BY <1>1, <1>2, NextBatch
  <2> QED
    BY <1>2, <2>1 DEF EInv, EchoTypes, Dropped, Agrees
<1>3. CASE handle_error
  BY <1>3, CloseEInv DEF handle_error
<1>4. CASE \E n \in Fds :
             /\ ~sock[n].open /\ done("in") /\ UNCHANGED closedConn
             /\ obj' = [obj EXCEPT ![n] = OpenObj]
             /\ events' = [events EXCEPT ![n] = {"in"}]
             /\ sock' = [sock EXCEPT ![n] = OpenSock("open")]
  <2>1. PICK n \in Fds :
             /\ ~sock[n].open /\ done("in") /\ UNCHANGED closedConn
             /\ obj' = [obj EXCEPT ![n] = OpenObj]
             /\ events' = [events EXCEPT ![n] = {"in"}]
             /\ sock' = [sock EXCEPT ![n] = OpenSock("open")]
    BY <1>4
  <2>2. n # fd /\ n # Listener
    BY <1>1, <2>1
  <2>3. PICK s : s = OpenSock("open")
    OBVIOUS
  <2>4. PICK o : o = OpenObj
    OBVIOUS
  <2>5. Agrees(n, o, {"in"}, s) /\ o \in Object /\ s \in Socket
    BY <2>2, <2>3, <2>4, AgreesOpened
  <2>6. sock \in [Fds -> Socket]
    BY DEF EInv, EchoTypes
  <2>7. \A k \in Fds : k # n => sock'[k] = sock[k]
    BY <2>1, <2>6
  <2>8. polled' \in Seq(Entry) /\ Batch'
    BY <1>1, <2>1, <2>2, <2>7, NextBatch
  <2>9. Dropped'
    BY <2>1 DEF EInv, Dropped
  <2> QED
    BY <2>1, <2>3, <2>4, <2>5, <2>8, <2>9, OneChanges
<1> QED
  <2>10. CASE done("in") /\ UNCHANGED <<obj, events, sock, backlog, closedConn>>
    BY <1>2, <2>10
  <2>11. CASE handle_error
    BY <1>3, <2>11
  <2>12. ASSUME ~(done("in") /\ UNCHANGED <<obj, events, sock, backlog, closedConn>>), ~handle_error
        PROVE  EInv'
    <3>1. PICK F : F = {n \in Fds : ~sock[n].open}
      OBVIOUS
    <3>2. PICK n : n = Min(F)
      OBVIOUS
    <3>3. /\ F # {} /\ done("in") /\ UNCHANGED closedConn
          /\ obj' = [obj EXCEPT ![n] = OpenObj]
          /\ events' = [events EXCEPT ![n] = {"in"}]
          /\ sock' = [sock EXCEPT ![n] = OpenSock("open")]
      BY <2>12, <3>1, <3>2, Opened DEF handle_accept, OpenObj
    <3>4. n \in F
      BY <3>1, <3>2, <3>3, LowestNumber
    <3> QED
      BY <1>4, <3>1, <3>3, <3>4
  <2> QED
    BY <2>10, <2>11, <2>12


\* Bytes are received, or the connection is closed.
LEMMA ReadEInv ==
    ASSUME EInv, polled # << >>, fd # Listener, handle_read, done("in")
    PROVE  EInv'
<1>1. PICK c \in Fds : c = fd /\ c # Listener
  BY EFacts
<1>2. /\ obj \in [Fds -> Object] /\ events \in [Fds -> SUBSET {"in", "out"}] /\ sock \in [Fds -> Socket]
      /\ Agrees(c, obj[c], events[c], sock[c]) /\ Dropped
  BY DEF EInv, EchoTypes
<1>3. CASE handle_close /\ sock[fd].peer \in {"shut", "reset"}
  BY <1>3, CloseEInv
<1>4. CASE /\ \E k \in sock[fd].got + 1 .. sock[fd].sent :
                /\ sock' = [sock EXCEPT ![fd].got = k]
                /\ obj' = [obj EXCEPT ![fd].out_buf = @ \o [i \in 1 .. k - sock[fd].got |-> sock[fd].got + i]]
           /\ events' = [events EXCEPT ![fd] = {"in", "out"}]
           /\ UNCHANGED closedConn
  <2>1. PICK k \in sock[fd].got + 1 .. sock[fd].sent :
             /\ sock' = [sock EXCEPT ![fd].got = k]
             /\ obj' = [obj EXCEPT ![fd].out_buf = @ \o [i \in 1 .. k - sock[fd].got |-> sock[fd].got + i]]
    BY <1>4, Zenon
  <2>2. /\ k \in sock[c].got + 1 .. sock[c].sent
        /\ sock' = [sock EXCEPT ![c].got = k]
        /\ obj' = [obj EXCEPT ![c].out_buf = @ \o [i \in 1 .. k - sock[c].got |-> sock[c].got + i]]
        /\ events' = [events EXCEPT ![c] = {"in", "out"}]
        /\ UNCHANGED closedConn
    BY <1>1, <1>4, <2>1
  <2>3. PICK g \in Nat, b \in Seq(Nat), h \in Seq(Nat) :
           g = sock[c].got /\ b = obj[c].out_buf /\ h = sock[c].echoed
    BY <1>2 DEF Socket, Object
  <2>4. k \in Nat /\ g < k /\ sock[c].sent > 0
    <3>1. sock[c].got \in Nat /\ sock[c].sent \in Nat
      BY <1>2 DEF Socket
    <3>2. k \in sock[c].got + 1 .. sock[c].sent /\ g = sock[c].got
      BY <2>2, <2>3
    <3> QED
      BY <3>1, <3>2
  <2>5. sock[c].open /\ obj[c].there
    BY <1>2, <2>4 DEF Agrees, NoSock
  <2>6. PICK x : x = [i \in 1 .. k - g |-> g + i]
    OBVIOUS
  <2>7. h \o b = First(g)
    BY <1>2, <2>3 DEF Agrees, First
  <2>8. b \o After(g, k) \in Seq(Nat) /\ b \o After(g, k) # << >>
        /\ h \o (b \o After(g, k)) = First(k)
    BY <2>4, <2>7, ReceivedInOrder
  <2>9. x = After(g, k)
    BY <2>6 DEF After
  <2>10. PICK z \in Seq(Nat) : z = b \o x /\ z # << >> /\ h \o z = [i \in 1 .. k |-> i]
    BY <2>9, <2>8 DEF First
  <2>11. PICK o : o = [obj[c] EXCEPT !.out_buf = z]
    OBVIOUS
  <2>12. PICK s : s = [sock[c] EXCEPT !.got = k]
    OBVIOUS
  <2>13. o \in Object /\ o.out_buf = z /\ o.there = obj[c].there
    BY <1>2, <2>11 DEF Object
  <2>14. s \in Socket /\ s.got = k /\ s.echoed = h /\ s.open = sock[c].open /\ s.peer = sock[c].peer
    BY <1>2, <2>3, <2>4, <2>12 DEF Socket
  <2>15. Agrees(c, o, {"in", "out"}, s)
    BY <1>1, <2>5, <2>10, <2>13, <2>14 DEF Agrees
  <2>16. obj' = [obj EXCEPT ![c] = o] /\ events' = [events EXCEPT ![c] = {"in", "out"}]
         /\ sock' = [sock EXCEPT ![c] = s]
    BY <2>2, <2>3, <2>6, <2>10, <2>11, <2>12
  <2>17. (\A n \in Fds \ {fd} : sock'[n] = sock[n]) /\ sock'[fd].open = sock[fd].open
         /\ sock'[fd].peer = sock[fd].peer
    BY <1>1, <1>2, <2>14, <2>16
  <2>18. polled' \in Seq(Entry) /\ Batch'
    BY <1>1, <2>17, NextBatch
  <2>19. Dropped'
    BY <1>2, <2>2 DEF Dropped
  <2> QED
    BY <2>13, <2>14, <2>15, <2>16, <2>18, <2>19, OneChanges
<1>5. \/ (sock[fd].peer = "reset" \/ sock[fd].peer = "shut") /\ handle_close
      \/ /\ \E k \in sock[fd].got + 1 .. sock[fd].sent :
              /\ sock' = [sock EXCEPT ![fd].got = k]
              /\ obj' = [obj EXCEPT ![fd].out_buf = @ \o [i \in 1 .. k - sock[fd].got |-> sock[fd].got + i]]
         /\ events' = [events EXCEPT ![fd] = {"in", "out"}]
         /\ UNCHANGED closedConn
  BY Zenon DEF handle_read
<1> QED
  BY <1>3, <1>4, <1>5

\* Bytes are sent, or the connection is closed.
LEMMA WriteEInv ==
    ASSUME EInv, polled # << >>, handle_write
    PROVE  EInv'
<1>1. PICK c \in Fds : c = fd
  BY EFacts
<1>2. /\ obj \in [Fds -> Object] /\ events \in [Fds -> SUBSET {"in", "out"}] /\ sock \in [Fds -> Socket]
      /\ Agrees(c, obj[c], events[c], sock[c]) /\ Dropped
  BY DEF EInv, EchoTypes
<1>3. CASE handle_error /\ (~sock[fd].open \/ sock[fd].peer = "reset")
  BY <1>3, CloseEInv DEF handle_error
<1>4. CASE /\ sock[c].open /\ done("out") /\ obj[c].out_buf = << >> /\ UNCHANGED <<obj, sock, closedConn>>
           /\ events' = [events EXCEPT ![c] = {"in"}]
  <2>1. PICK o \in Object, s \in Socket : o = obj[c] /\ s = sock[c]
    BY <1>2
  <2>2. Agrees(c, o, {"in"}, s)
    BY <1>2, <1>4, <2>1 DEF Agrees
  <2>3. obj' = [obj EXCEPT ![c] = o] /\ sock' = [sock EXCEPT ![c] = s]
    BY <1>2, <1>4, <2>1
  <2>4. polled' \in Seq(Entry) /\ Batch'
    BY <1>1, <1>4, NextBatch
  <2>5. Dropped'
    BY <1>2, <1>4 DEF Dropped
  <2> QED
    BY <1>4, <2>2, <2>3, <2>4, <2>5, OneChanges
<1>5. CASE /\ sock[c].open /\ done("out") /\ UNCHANGED closedConn
           /\ \E k \in (IF sock[c].held = SndBuf THEN {0} ELSE 1 .. SndBuf - sock[c].held) :
                /\ k <= Len(obj[c].out_buf)
                /\ sock' = [sock EXCEPT ![c].held = @ + k,
                                        ![c].echoed = @ \o SubSeq(obj[c].out_buf, 1, k)]
                /\ obj' = [obj EXCEPT ![c].out_buf = rest(obj[c].out_buf, k)]
                /\ events' = [events EXCEPT ![c] = interest(rest(obj[c].out_buf, k))]
  <2>1. PICK b \in Seq(Nat), h \in Seq(Nat), v \in Nat, g \in Nat :
           b = obj[c].out_buf /\ h = sock[c].echoed /\ v = sock[c].held /\ g = sock[c].got
    BY <1>2 DEF Socket, Object
  <2>2. PICK k \in (IF v = SndBuf THEN {0} ELSE 1 .. SndBuf - v) :
                /\ k <= Len(b)
                /\ sock' = [sock EXCEPT ![c].held = @ + k, ![c].echoed = @ \o SubSeq(b, 1, k)]
                /\ obj' = [obj EXCEPT ![c].out_buf = rest(b, k)]
                /\ events' = [events EXCEPT ![c] = interest(rest(b, k))]
    BY <1>5, <2>1
  <2>3. k \in Nat
    BY EchoAssumption
  <2>4. PICK z \in Seq(Nat), y \in Seq(Nat) :
           z = rest(b, k) /\ y = h \o SubSeq(b, 1, k) /\ y \o z = h \o b
    <3>1. /\ rest(b, k) \in Seq(Nat) /\ h \o SubSeq(b, 1, k) \in Seq(Nat)
          /\ (h \o SubSeq(b, 1, k)) \o rest(b, k) = h \o b
      BY <2>2, <2>3, SentInOrder, Zenon
    <3> QED
      BY <3>1, Zenon
  <2>5. y \o z = [i \in 1 .. g |-> i]
    BY <1>2, <2>1, <2>4 DEF Agrees
  <2>6. PICK o : o = [obj[c] EXCEPT !.out_buf = z]
    OBVIOUS
  <2>7. PICK x \in Nat : x = v + k
    BY <2>3
  <2>8. PICK s : s = [sock[c] EXCEPT !.held = x, !.echoed = y]
    OBVIOUS
  <2>9. PICK e : e = interest(z)
    OBVIOUS
  <2>10. o \in Object /\ o.out_buf = z /\ o.there = obj[c].there
    BY <1>2, <2>6 DEF Object
  <2>11. s \in Socket /\ s.got = g /\ s.echoed = y /\ s.open = sock[c].open /\ s.peer = sock[c].peer
    BY <1>2, <2>1, <2>8 DEF Socket
  <2>12. e \in SUBSET {"in", "out"} /\ e # {} /\ (z # << >> => "out" \in e)
    BY <2>9 DEF interest
  <2>13. Agrees(c, o, e, s)
    BY <1>2, <1>5, <2>5, <2>10, <2>11, <2>12 DEF Agrees
  <2>14. obj' = [obj EXCEPT ![c] = o] /\ events' = [events EXCEPT ![c] = e]
    BY <2>2, <2>4, <2>6, <2>9
  <2>15. sock' = [sock EXCEPT ![c] = s]
    BY <1>2, <2>1, <2>2, <2>4, <2>7, <2>8
  <2>16. (\A n \in Fds \ {fd} : sock'[n] = sock[n]) /\ sock'[fd].open = sock[fd].open
         /\ sock'[fd].peer = sock[fd].peer
    BY <1>1, <1>2, <2>11, <2>15
  <2>17. polled' \in Seq(Entry) /\ Batch'
    BY <1>1, <1>5, <2>16, NextBatch
  <2>18. Dropped'
    BY <1>2, <1>5 DEF Dropped
  <2> QED
    BY <2>10, <2>11, <2>12, <2>13, <2>14, <2>15, <2>17, <2>18, OneChanges
<1> QED
  <2>19. CASE ~sock[fd].open \/ (sock[fd].peer = "reset" /\ obj[fd].out_buf # << >>)
    BY <1>3, <2>19, <1>1, <1>4, <1>5 DEF handle_write
  <2>20. CASE ~(~sock[fd].open \/ (sock[fd].peer = "reset" /\ obj[fd].out_buf # << >>))
    BY <1>1, <1>4, <1>5, <2>20 DEF handle_write
  <2> QED
    BY <2>19, <2>20

LEMMA ReadWriteEInv == ASSUME EInv, readwrite PROVE EInv'
<1>1. polled # << >>
  BY DEF readwrite
<1>2. CASE fd = Listener /\ handle_accept
  BY <1>1, <1>2, AcceptEInv
<1>3. CASE fd # Listener /\ handle_read /\ done("in")
  BY <1>1, <1>3, ReadEInv
<1>4. CASE handle_write
  BY <1>1, <1>4, WriteEInv
<1>5. CASE flags = {"hup"} /\ handle_close /\ done("hup")
  <2>1. sock[fd].open => sock[fd].peer = "reset"
    BY <1>1, <1>5, EFacts
  <2> QED
    BY <1>1, <1>5, <2>1, CloseEInv
<1> QED
  BY <1>2, <1>3, <1>4, <1>5 DEF readwrite

\* The peers, as far as the server's side of a socket goes.
LEMMA PeerEInv ==
    ASSUME EInv, \/ peerConnects \/ peerAborts \/ UNCHANGED echoVars
                 \/ \E n \in Fds \ {Listener} : peerSteps(n) \/ peerReads(n)
    PROVE  EInv'
<1>1. UNCHANGED <<obj, events, polled, closedConn>>
  BY DEF peerConnects, peerAborts, peerSteps, peerReads, echoVars
<1>2. CASE sock' = sock
  BY <1>1, <1>2 DEF EInv, EchoTypes, Batch, Current, Dropped, Agrees
<1>3. CASE \E n \in Fds \ {Listener} : peerSteps(n) \/ peerReads(n)
  <2>1. PICK n \in Fds \ {Listener} : peerSteps(n) \/ peerReads(n)
    BY <1>3
  <2>2. sock \in [Fds -> Socket] /\ obj \in [Fds -> Object] /\ events \in [Fds -> SUBSET {"in", "out"}]
        /\ sock[n].open /\ Agrees(n, obj[n], events[n], sock[n]) /\ polled \in Seq(Entry) /\ Batch
        /\ sock[n] \in Socket /\ Dropped
    BY <2>1 DEF EInv, EchoTypes, peerSteps, peerReads
  <2>3. PICK s : s = sock'[n]
    OBVIOUS
  <2>4. /\ sock' = [sock EXCEPT ![n] = s] /\ s \in Socket
        /\ s.open /\ s.got = sock[n].got /\ s.echoed = sock[n].echoed
        /\ sock[n].peer = "reset" => s.peer = "reset"
    <3>1. CASE sock[n].peer = "open" /\ sock' = [sock EXCEPT ![n].sent = @ + 1]
      <4>1. sock[n].sent + 1 \in Nat
        BY <2>2 DEF Socket
      <4>2. PICK x \in Nat : x = sock[n].sent + 1
        BY <4>1
      <4>3. sock' = [sock EXCEPT ![n].sent = x]
        BY <2>2, <3>1, <4>2
      <4> QED
        BY <2>2, <2>3, <4>3 DEF Socket
    <3>2. CASE sock[n].peer = "open" /\ sock' = [sock EXCEPT ![n].peer = "shut"]
      BY <2>2, <2>3, <3>2 DEF Socket
    <3>3. CASE sock' = [sock EXCEPT ![n].peer = "reset"]
      BY <2>2, <2>3, <3>3 DEF Socket
    <3>4. CASE sock' = [sock EXCEPT ![n].held = 0]
      BY <2>2, <2>3, <3>4 DEF Socket
    <3>5. \/ sock[n].peer = "open" /\ sock' = [sock EXCEPT ![n].sent = @ + 1]
          \/ sock[n].peer = "open" /\ sock' = [sock EXCEPT ![n].peer = "shut"]
          \/ sock' = [sock EXCEPT ![n].peer = "reset"]
          \/ sock' = [sock EXCEPT ![n].held = 0]
      BY <2>1, Zenon DEF peerSteps, peerReads
    <3> QED
      BY <3>1, <3>2, <3>3, <3>4, <3>5
  <2>5. Agrees(n, obj[n], events[n], s)
    BY <2>2, <2>4 DEF Agrees
  <2>6. \A k \in Fds : sock'[k].open = sock[k].open /\ (sock[k].peer = "reset" => sock'[k].peer = "reset")
    BY <2>2, <2>4
  <2>7. \A i \in DOMAIN polled : polled[i].fd \in Fds
    <3>1. \A i \in DOMAIN polled : polled[i] \in Entry
      BY <2>2
    <3> QED
      BY <3>1 DEF Entry
  <2>8. Batch'
    BY <1>1, <2>2, <2>6, <2>7 DEF Batch, Current
  <2>9. PICK o \in Object, e \in SUBSET {"in", "out"} : o = obj[n] /\ e = events[n]
    BY <2>2
  <2>10. Agrees(n, o, e, s)
    BY <2>9, <2>5
  <2>11. obj' = [obj EXCEPT ![n] = o] /\ events' = [events EXCEPT ![n] = e]
        /\ polled' \in Seq(Entry) /\ Dropped'
    BY <1>1, <2>9, <2>2 DEF Dropped
  <2> QED
    BY <2>4, <2>8, <2>11, <2>10, OneChanges
<1> QED
  BY <1>2, <1>3 DEF peerConnects, peerAborts, echoVars

\* Whatever closes a dispatcher, its map entry, its events and its socket go
\* together; what was received is sent back in order, but for what waits and
\* has write events to be sent by; and nothing that waits is thrown away while
\* the peer may still send.  (readwrite of asyncell.py with echo.py.)
THEOREM EchoAlwaysSound == echoSpec => []EchoSound
<1>1. EInv /\ [echoNext]_echoVars => EInv'
  BY PollEInv, ReadWriteEInv, PeerEInv DEF echoNext
<1>2. echoSpec => []EInv
  BY <1>1, InitEInv, PTL DEF echoSpec
<1> QED
  BY <1>2, SoundByAgreement, PTL

=============================================================================
