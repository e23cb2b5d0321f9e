---------------------------- MODULE StreamsPeers ----------------------------
(***************************************************************************)
(* Proofs of what the two ends of a stream make of it: frames arrive whole *)
(* and both peers use the same stream.  The first part is about headers    *)
(* and chunks alone, the second about what each step leaves alone, the     *)
(* third about wires, the fourth about the choice of streams.              *)
(***************************************************************************)
EXTENDS StreamsProofs, SequenceTheorems

-----------------------------------------------------------------------------
(* Headers and chunks *)

\* A header has one to five bytes, and Decode finds in it what Encode put there.
THEOREM HeadersDecode ==
    ASSUME NEW f \in Frame
    PROVE  /\ Encode(f) \in Seq(Nat)
           /\ Len(Encode(f)) \in 1 .. 5
           /\ Decode(Encode(f)).header = Len(Encode(f))
           /\ Decode(Encode(f)).size = f.size
<1> DEFINE b == Encode(f)
<1>1. PICK z \in Nat, g \in Nat : f.size = z /\ f.flag = g
  BY DEF Frame
<1>2. CASE z <= 15
  <2>1. b = <<32 * g + z>>
    BY <1>1, <1>2, SMTT(20) DEF Encode
  <2>2. b[1] % 32 = z
    BY <1>1, <1>2, <2>1, SMT
  <2>3. Decode(b) = [size |-> z, header |-> 1]
    BY <1>1, <1>2, <2>2, SMT DEF Decode
  <2>4. QED
    BY <1>1, <2>1, <2>3, SMT
<1>3. CASE z > 15 /\ z <= 255
  <2>1. b = <<32 * g + 16, z>>
    BY <1>1, <1>3, SMTT(20) DEF Encode
  <2>2. b[1] % 32 = 16
    BY <1>1, <2>1, SMT
  <2>3. Decode(b) = [size |-> b[2], header |-> 2]
    BY <2>2, SMT DEF Decode
  <2>4. QED
    BY <1>1, <2>1, <2>3, SMT
<1>4. CASE z > 255 /\ z <= 65535
  <2>1. PICK c \in Nat, d \in Nat : c = z \div 256 /\ d = z % 256
    BY SMT
  <2>2. b = <<32 * g + 17, c, d>>
    BY <1>1, <1>4, <2>1, SMTT(20) DEF Encode
  <2>3. b[1] % 32 = 17
    <3>1. b[1] = 32 * g + 17
      BY <2>2, SMT
    <3>2. (32 * g + 17) % 32 = 17
      BY <1>1, SMT
    <3>3. QED
      BY ONLY <3>1, <3>2
  <2>4. Decode(b) = [size |-> 256 * b[2] + b[3], header |-> 3]
    BY <2>3, SMT DEF Decode
  <2>5. 256 * c + d = z
    BY <1>1, <2>1, SMT
  <2>6. QED
    BY <1>1, <2>2, <2>4, <2>5, SMT
<1>5. CASE z > 65535
  <2>1. PICK p \in Nat, q \in Nat, c \in Nat, d \in Nat :
           /\ p = z \div 16777216 /\ q = (z \div 65536) % 256
           /\ c = (z \div 256) % 256 /\ d = z % 256
    BY <1>1, SMT
  <2>2. b = <<32 * g + 18, p, q, c, d>>
    BY <1>1, <1>5, <2>1, SMTT(20) DEF Encode
  <2>3. b[1] % 32 = 18
    BY <1>1, <2>2, SMT
  <2>4. Decode(b) = [size |-> 16777216 * b[2] + 65536 * b[3] + 256 * b[4] + b[5],
                     header |-> 5]
    BY <2>3, SMT DEF Decode
  <2>5. 16777216 * p + 65536 * q + 256 * c + d = z
    BY <1>1, <2>1, SMT
  <2>6. QED
    BY <1>1, <2>2, <2>4, <2>5, SMT
<1> HIDE DEF b
<1>6. CASE z <= 255
  <2>1. z <= 15 \/ (z > 15 /\ z <= 255)
    BY ONLY <1>1, <1>6, SMT
  <2>2. QED
    BY <1>2, <1>3, <2>1, SMTT(20) DEF b
<1>7. CASE z > 255
  <2>1. (z > 255 /\ z <= 65535) \/ z > 65535
    BY ONLY <1>1, <1>7, SMT
  <2>2. QED
    BY <1>4, <1>5, <2>1, SMTT(20) DEF b
<1>8. z <= 255 \/ z > 255
  BY SMT
<1>9. QED
  BY <1>6, <1>7, <1>8

\* A function on 1 .. n is a sequence of length n.
LEMMA FunctionIsSeq ==
    ASSUME NEW S, NEW n \in Nat, NEW c \in [1 .. n -> S]
    PROVE  c \in Seq(S) /\ Len(c) = n
  BY SMT

\* Products are monotonic.
LEMMA Times ==
    ASSUME NEW a \in Nat, NEW b \in Nat, NEW k \in Nat, a <= b
    PROVE  a * k <= b * k
  BY SMT

\* One more is one more.
LEMMA Once ==
    ASSUME NEW a \in Nat, NEW k \in Nat
    PROVE  (a + 1) * k = a * k + k
  BY SMT

\* Quotient and remainder.
LEMMA Division ==
    ASSUME NEW t \in Nat, NEW k \in Nat, k > 0
    PROVE  \E q \in Nat, r \in Nat :
              q = t \div k /\ r = t % k /\ t = q * k + r /\ r < k
<1>1. PICK q \in Nat, r \in Nat : q = t \div k /\ r = t % k
  BY SMT
<1>2. t = q * k + r /\ r < k
  BY <1>1, SMT
<1>3. QED
  BY <1>1, <1>2

\* A frame is cut into at least one chunk: the first has the header and what fits
\* beside it, the last has what then is missing, and those between are full.
LEMMA Cut ==
    ASSUME NEW f \in Frame
    PROVE  /\ Chunks(f) \in Seq(Piece)
           /\ Len(Chunks(f)) \in Nat \ {0}
           /\ Chunks(f)[1].head = Encode(f)
           /\ Chunks(f)[1].body =
                 IF Len(Chunks(f)) = 1 THEN f.size ELSE Chunk - Len(Encode(f))
           /\ \A i \in 2 .. Len(Chunks(f)) :
                 /\ Chunks(f)[i].head = <<>>
                 /\ Chunks(f)[i].body =
                       IF i = Len(Chunks(f)) THEN Missing(f, i - 1) ELSE Chunk
           /\ \A i \in 1 .. Len(Chunks(f)) - 1 : Missing(f, i) \in Nat \ {0}
<1>1. PICK h \in 1 .. 5, z \in Nat, k \in Nat :
         h = Len(Encode(f)) /\ z = f.size /\ k = Chunk /\ k >= 5
  BY HeadersDecode, BoundAssumption DEF Frame
<1>2. PICK t \in Nat : t = h + z
  BY SMT
<1>4. PICK q \in Nat, r \in Nat : q = t \div k /\ r = t % k /\ t = q * k + r /\ r < k
  BY <1>1, Division
<1> DEFINE n == q + (IF r = 0 THEN 0 ELSE 1)
           long(i) == IF i <= q THEN k ELSE r
           c == [i \in 1 .. n |-> IF i = 1 THEN [head |-> Encode(f), body |-> long(1) - h]
                                 ELSE [head |-> <<>>, body |-> long(i)]]
<1>3. Chunks(f) = c
  BY <1>1, <1>2, <1>4 DEF Chunks
<1>5. n \in Nat \ {0}
  <2>1. q = 0 => q * k = 0
    BY SMT
  <2>2. q # 0 \/ r # 0
    BY <1>2, <1>4, <2>1, SMT
  <2>3. QED
    BY <2>2, SMT
<1>6. long(1) >= h /\ (n = 1 => long(1) = t) /\ (n > 1 => long(1) = k)
  <2>1. q = 0 => q * k = 0
    BY SMT
  <2>2. q = 1 => q * k = k
    BY SMT
  <2>3. CASE q = 0
    <3>1. t = r
      BY <1>4, <2>1, <2>3, SMT
    <3>2. n = 1 /\ long(1) = r
      BY <1>5, <2>3, SMT
    <3> HIDE DEF n, long
    <3>3. QED
      BY <1>1, <1>2, <3>1, <3>2, SMT
  <2>4. CASE q > 0
    <3>1. n = 1 => q = 1 /\ r = 0
      BY <2>4, SMT
    <3>2. long(1) = k
      BY <2>4, SMT
    <3>3. q = 1 /\ r = 0 => t = k
      BY <1>4, <2>2, SMT
    <3> HIDE DEF n, long
    <3>4. QED
      BY <1>1, <3>1, <3>2, <3>3, SMT
  <2>5. QED
    BY <2>3, <2>4, SMT
<1>7. c \in [1 .. n -> Piece]
  <2>1. \A i \in 1 .. n : long(i) \in Nat
    BY <1>1
  <2>2. long(1) - h \in Nat
    BY <1>1, <1>6
  <2>3. <<>> \in Seq(Nat)
    OBVIOUS
  <2> HIDE DEF long, n
  <2>4. QED
    BY <1>1, <2>1, <2>2, <2>3, HeadersDecode DEF Piece
<1>8. Chunks(f) \in Seq(Piece) /\ Len(Chunks(f)) = n
  <2> HIDE DEF n, c
  <2>1. QED
    BY <1>3, <1>5, <1>7, FunctionIsSeq
<1>9. ASSUME NEW i \in 1 .. n - 1
      PROVE  Missing(f, i) \in Nat \ {0} /\ (i = n - 1 => Missing(f, i) = long(n))
  <2>0. Missing(f, i) = t - i * k
    BY <1>1, <1>2 DEF Missing
  <2>1. CASE r = 0
    <3>1. i + 1 <= q /\ i * k <= q * k
      BY <2>1, <1>1, <1>5, Times
    <3>2. (i + 1) * k <= q * k /\ (i + 1) * k = i * k + Chunk
      BY <3>1, <1>1, Times, Once
    <3>3. i = n - 1 => i + 1 = q /\ long(n) = k
      BY <2>1
    <3>4. QED
      BY <2>0, <2>1, <3>1, <3>2, <3>3, <1>1, <1>4, SMT
  <2>2. CASE r > 0
    <3>1. i <= q /\ i * k <= q * k
      BY <2>2, <1>1, <1>5, Times
    <3>2. i = n - 1 => i = q /\ long(n) = r
      BY <2>2
    <3>3. QED
      BY <2>0, <2>2, <3>1, <3>2, <1>1, <1>4, SMT
  <2>3. QED
    BY <2>1, <2>2
<1>10. /\ Chunks(f)[1].head = Encode(f)
       /\ Chunks(f)[1].body = IF n = 1 THEN z ELSE k - h
  <2>1. Chunks(f)[1] = [head |-> Encode(f), body |-> long(1) - h]
    BY <1>3, <1>5
  <2>2. n = 1 => long(1) - h = z
    BY <1>1, <1>2, <1>6
  <2> HIDE DEF long, n
  <2>3. QED
    BY <1>5, <1>6, <2>1, <2>2
<1>11. ASSUME NEW i \in 2 .. n
       PROVE  /\ Chunks(f)[i].head = <<>>
              /\ Chunks(f)[i].body = IF i = n THEN Missing(f, i - 1) ELSE k
  <2>1. Chunks(f)[i] = [head |-> <<>>, body |-> long(i)]
    BY <1>3, <1>5
  <2>2. i # n => long(i) = k
    BY <1>5
  <2>3. i = n => long(i) = Missing(f, i - 1)
    BY <1>5, <1>9
  <2> HIDE DEF long, n
  <2>4. QED
    BY <2>1, <2>2, <2>3
<1> HIDE DEF n, c
<1>12. QED
  BY <1>1, <1>5, <1>8, <1>9, <1>10, <1>11

-----------------------------------------------------------------------------
(* Chunks that follow each other *)

\* The frames that are sent are frames, and what is missing of them are numbers.
LEMMA SizesAreNat == Sent \subseteq Frame /\ 0 \in Sizes /\ Sizes \subseteq Nat
<1>1. Sent \subseteq Frame
  BY FrameAssumption DEF Sent
<1>2. \A f \in Sent : \A k \in 1 .. Len(Chunks(f)) - 1 : Missing(f, k) \in Nat
  BY <1>1, Cut
<1>3. QED
  BY <1>1, <1>2 DEF Sizes

\* The chunks of a frame take the reader from the end of a frame to the end of
\* this one.
THEOREM FrameFlows == ASSUME NEW f \in Sent PROVE Flows(Chunks(f), 0, 0)
<1> DEFINE c == Chunks(f)
           n == Len(c)
           d == [i \in 0 .. n |-> IF i = 0 \/ i = n THEN 0 ELSE Missing(f, i)]
<1>1. f \in Frame
  BY SizesAreNat
<1>2. /\ n \in Nat \ {0}
      /\ c[1].head = Encode(f)
      /\ c[1].body = IF n = 1 THEN f.size ELSE Chunk - Len(Encode(f))
      /\ \A i \in 2 .. n : /\ c[i].head = <<>>
                          /\ c[i].body = IF i = n THEN Missing(f, i - 1) ELSE Chunk
      /\ \A i \in 1 .. n - 1 : Missing(f, i) \in Nat \ {0}
  BY <1>1, Cut
<1>3. PICK h \in 1 .. 5, z \in Nat, k \in Nat :
         /\ h = Len(Encode(f)) /\ z = f.size /\ k = Chunk
         /\ Encode(f) # <<>> /\ Decode(Encode(f)).header = h /\ Decode(Encode(f)).size = z
  <2>1. /\ Encode(f) # <<>> /\ Len(Encode(f)) \in 1 .. 5 /\ f.size \in Nat
        /\ Decode(Encode(f)).header = Len(Encode(f)) /\ Decode(Encode(f)).size = f.size
    <3>1. Len(Encode(f)) \in 1 .. 5
      BY <1>1, HeadersDecode
    <3>2. Encode(f) # <<>>
      <4>1. 0 \notin 1 .. 5 /\ Len(<<>>) = 0
        OBVIOUS
      <4>2. QED
        BY <3>1, <4>1, Zenon
    <3>3. QED
      BY <1>1, <3>1, <3>2, HeadersDecode DEF Frame
  <2>2. QED
    BY <2>1, BoundAssumption
<1> HIDE DEF n
<1>4. d \in [0 .. n -> Sizes]
  <2>1. \A i \in 1 .. n - 1 : Missing(f, i) \in Sizes
    BY DEF Sizes, n
  <2>2. \A i \in 0 .. n : i = 0 \/ i = n \/ i \in 1 .. n - 1
    BY <1>2
  <2>3. QED
    BY <2>1, <2>2, SizesAreNat
<1>5. d[0] = 0 /\ d[n] = 0
  BY <1>2
<1>6. \A i \in 1 .. n - 1 : d[i] = Missing(f, i) /\ Missing(f, i) = h + z - i * k
  BY <1>2, <1>3 DEF Missing
<1>7. Fits(d[0], c[1]) /\ d[1] = After(d[0], c[1])
  <2>1. CASE n = 1
    BY <1>2, <1>3, <1>5, <2>1 DEF Fits, After
  <2>2. CASE n > 1
    <3>0. 1 \in 1 .. n - 1 /\ 1 * k = k
      BY <1>2, <2>2
    <3>1. d[1] = h + z - k /\ d[1] \in Nat
      BY <1>2, <1>6, <3>0
    <3>2. c[1].body = k - h /\ c[1].head = Encode(f)
      BY <1>2, <1>3, <2>2
    <3> HIDE DEF d, c
    <3>3. QED
      BY <1>3, <1>5, <3>1, <3>2 DEF Fits, After
  <2>3. QED
    BY <1>2, <2>1, <2>2
<1>8. ASSUME NEW i \in 2 .. n
      PROVE  Fits(d[i - 1], c[i]) /\ d[i] = After(d[i - 1], c[i])
  <2>1. d[i - 1] = Missing(f, i - 1) /\ d[i - 1] \in Nat \ {0} /\ c[i].head = <<>>
    BY <1>2, <1>6
  <2>2. CASE i = n
    <3>1. c[i].body = d[i - 1] /\ d[i] = 0
      BY <1>2, <1>5, <2>1, <2>2
    <3> HIDE DEF d, c
    <3>2. QED
      BY <2>1, <3>1 DEF Fits, After
  <2>3. CASE i # n
    <3>1. c[i].body = k /\ d[i] = Missing(f, i) /\ d[i] \in Nat
      BY <1>2, <1>3, <1>6, <2>3
    <3>2. d[i] = d[i - 1] - k
      <4>0. PICK a \in Nat : i = a + 1 /\ i - 1 = a
        BY SMT
      <4>1. (a + 1) * k = a * k + k
        BY Once
      <4>2. Missing(f, a) = h + z - a * k /\ Missing(f, a + 1) = h + z - (a + 1) * k
        BY <1>3 DEF Missing
      <4> HIDE DEF d
      <4>3. QED
        BY <2>1, <3>1, <4>0, <4>1, <4>2, SMT
    <3> HIDE DEF d, c
    <3>3. QED
      BY <1>3, <2>1, <3>1, <3>2 DEF Fits, After
  <2>4. QED
    BY <2>2, <2>3
<1>9. \A i \in 1 .. n : Fits(d[i - 1], c[i]) /\ d[i] = After(d[i - 1], c[i])
  <2> HIDE DEF d, c
  <2>1. 1 - 1 = 0 /\ \A i \in 1 .. n : i = 1 \/ i \in 2 .. n
    BY <1>2
  <2>2. QED
    BY <1>7, <1>8, <2>1
<1> HIDE DEF d
<1>10. QED
  BY <1>4, <1>5, <1>9 DEF Flows, n

\* No chunks change nothing.
LEMMA FlowNone ==
    ASSUME NEW r \in Sizes
    PROVE  Flows(<<>>, r, r) /\ \A t : Flows(<<>>, r, t) => t = r
<1> DEFINE d == [i \in 0 .. 0 |-> r]
<1>1. Len(<<>>) = 0
  OBVIOUS
<1>2. d \in [0 .. 0 -> Sizes] /\ d[0] = r
  OBVIOUS
<1> HIDE DEF d
<1>3. Flows(<<>>, r, r)
  BY <1>1, <1>2 DEF Flows
<1>4. QED
  BY <1>1, <1>3 DEF Flows

\* The first chunk is one that the reader expects, and the others are for who
\* has read it.
LEMMA FlowFirst ==
    ASSUME NEW w \in Seq(Piece), w # <<>>, NEW r, NEW t, Flows(w, r, t)
    PROVE  /\ Fits(r, w[1])
           /\ After(r, w[1]) \in Sizes
           /\ Flows(SubSeq(w, 2, Len(w)), After(r, w[1]), t)
<1> DEFINE v == SubSeq(w, 2, Len(w))
<1>1. /\ Len(w) \in Nat \ {0} /\ Len(v) = Len(w) - 1
      /\ \A i \in 1 .. Len(v) : v[i] = w[i + 1]
  BY SubSeqProperties
<1>2. PICK d \in [0 .. Len(w) -> Sizes] :
         /\ d[0] = r /\ d[Len(w)] = t
         /\ \A i \in 1 .. Len(w) : Fits(d[i - 1], w[i]) /\ d[i] = After(d[i - 1], w[i])
  BY DEF Flows
<1>3. Fits(r, w[1]) /\ d[1] = After(r, w[1]) /\ d[1] \in Sizes
  BY <1>1, <1>2
<1> DEFINE g == [i \in 0 .. Len(v) |-> d[i + 1]]
<1> HIDE DEF v
<1>4. g \in [0 .. Len(v) -> Sizes] /\ g[0] = d[1] /\ g[Len(v)] = t
  BY <1>1, <1>2
<1>5. \A i \in 1 .. Len(v) : Fits(g[i - 1], v[i]) /\ g[i] = After(g[i - 1], v[i])
  <2> SUFFICES ASSUME NEW i \in 1 .. Len(v)
               PROVE  Fits(g[i - 1], v[i]) /\ g[i] = After(g[i - 1], v[i])
    OBVIOUS
  <2>1. g[i - 1] = d[i] /\ g[i] = d[i + 1] /\ v[i] = w[i + 1]
    BY <1>1
  <2>2. Fits(d[i], w[i + 1]) /\ d[i + 1] = After(d[i], w[i + 1])
    BY <1>1, <1>2
  <2>3. QED
    BY <2>1, <2>2
<1> HIDE DEF g
<1>6. Flows(v, d[1], t)
  BY <1>4, <1>5 DEF Flows
<1>7. QED
  BY <1>3, <1>6 DEF v

\* What takes a reader to x, and then to t, takes it to t.
LEMMA FlowJoin ==
    ASSUME NEW w \in Seq(Piece), NEW v \in Seq(Piece), NEW r, NEW x, NEW t,
           Flows(w, r, x), Flows(v, x, t)
    PROVE  Flows(w \o v, r, t)
<1>1. PICK a \in [0 .. Len(w) -> Sizes] :
         /\ a[0] = r /\ a[Len(w)] = x
         /\ \A i \in 1 .. Len(w) : Fits(a[i - 1], w[i]) /\ a[i] = After(a[i - 1], w[i])
  BY DEF Flows
<1>2. PICK b \in [0 .. Len(v) -> Sizes] :
         /\ b[0] = x /\ b[Len(v)] = t
         /\ \A i \in 1 .. Len(v) : Fits(b[i - 1], v[i]) /\ b[i] = After(b[i - 1], v[i])
  BY DEF Flows
<1>3. PICK p \in Nat, q \in Nat : p = Len(w) /\ q = Len(v)
  OBVIOUS
<1> DEFINE y == w \o v
           d == [i \in 0 .. p + q |-> IF i <= p THEN a[i] ELSE b[i - p]]
<1>4. /\ Len(y) = p + q
      /\ \A i \in 1 .. p : y[i] = w[i]
      /\ \A i \in 1 .. q : y[p + i] = v[i]
  BY <1>3
<1>5. d \in [0 .. p + q -> Sizes] /\ d[0] = r /\ d[p + q] = t
  BY <1>1, <1>2, <1>3
<1>6. /\ \A i \in 0 .. p : d[i] = a[i]
      /\ \A i \in 0 .. q : d[p + i] = b[i]
  BY <1>1, <1>2, <1>3
<1> HIDE DEF d, y
<1>7. ASSUME NEW i \in 1 .. p + q
      PROVE  Fits(d[i - 1], y[i]) /\ d[i] = After(d[i - 1], y[i])
  <2>1. CASE i <= p
    <3>1. d[i - 1] = a[i - 1] /\ d[i] = a[i] /\ y[i] = w[i]
      BY <1>4, <1>6, <2>1
    <3>2. Fits(a[i - 1], w[i]) /\ a[i] = After(a[i - 1], w[i])
      BY <1>1, <1>3, <2>1
    <3>3. QED
      BY <3>1, <3>2
  <2>2. CASE i > p
    <3>1. PICK j \in 1 .. q : i = p + j /\ i - 1 = p + (j - 1)
      BY <2>2
    <3>2. d[i - 1] = b[j - 1] /\ d[i] = b[j] /\ y[i] = v[j]
      BY <1>4, <1>6, <3>1
    <3>3. Fits(b[j - 1], v[j]) /\ b[j] = After(b[j - 1], v[j])
      BY <1>2, <1>3
    <3>4. QED
      BY <3>2, <3>3
  <2>3. QED
    BY <2>1, <2>2
<1>8. QED
  BY <1>4, <1>5, <1>7 DEF Flows, y

\* What takes a reader to t takes it somewhere on the way.
LEMMA FlowSplit ==
    ASSUME NEW w \in Seq(Piece), NEW v \in Seq(Piece), NEW r, NEW t, Flows(w \o v, r, t)
    PROVE  \E x \in Sizes : Flows(w, r, x)
<1>1. PICK d \in [0 .. Len(w \o v) -> Sizes] :
         /\ d[0] = r
         /\ \A i \in 1 .. Len(w \o v) :
               Fits(d[i - 1], (w \o v)[i]) /\ d[i] = After(d[i - 1], (w \o v)[i])
  BY DEF Flows
<1>2. PICK p \in Nat :
         p = Len(w) /\ p <= Len(w \o v) /\ \A i \in 1 .. p : (w \o v)[i] = w[i]
  OBVIOUS
<1> DEFINE a == [i \in 0 .. p |-> d[i]]
<1>3. a \in [0 .. p -> Sizes] /\ a[0] = r /\ a[p] \in Sizes
  BY <1>1, <1>2
<1>4. \A i \in 1 .. p : Fits(a[i - 1], w[i]) /\ a[i] = After(a[i - 1], w[i])
  BY <1>1, <1>2
<1> HIDE DEF a
<1>5. QED
  BY <1>2, <1>3, <1>4 DEF Flows

\* The others of a sequence follow its first element.
LEMMA TheOthers ==
    ASSUME NEW w \in Seq(Piece), w # <<>>
    PROVE  /\ Len(w) \in Nat \ {0} /\ w[1] \in Piece
           /\ SubSeq(w, 2, Len(w)) \in Seq(Piece) /\ Len(SubSeq(w, 2, Len(w))) = Len(w) - 1
           /\ \A i \in 1 .. Len(w) - 1 : SubSeq(w, 2, Len(w))[i] = w[i + 1]
<1>1. Len(w) \in Nat \ {0} /\ w[1] \in Piece /\ \A i \in 2 .. Len(w) : w[i] \in Piece
  BY SMT
<1> DEFINE t == SubSeq(w, 2, Len(w))
           n == Len(w)
<1>2. /\ t \in Seq(Piece)
      /\ Len(t) = IF 2 <= n THEN n - 2 + 1 ELSE 0
      /\ \A i \in 1 .. n - 2 + 1 : t[i] = w[2 + i - 1]
  <2>1. 2 \in Int /\ n \in Int
    BY <1>1
  <2> HIDE DEF n
  <2>2. QED
    BY ONLY <1>1, <2>1, SubSeqProperties DEF n
<1>3. n \in Nat \ {0} /\ n = Len(w)
  BY <1>1
<1> HIDE DEF t, n
<1>4. n - 2 + 1 = n - 1 /\ Len(t) = n - 1 /\ \A i \in 1 .. n - 1 : 2 + i - 1 = i + 1
  BY <1>2, <1>3
<1>5. \A i \in 1 .. n - 1 : t[i] = w[i + 1]
  BY <1>2, <1>4
<1>6. QED
  BY <1>1, <1>2, <1>3, <1>4, <1>5 DEF t, n

\* A sequence is its first element and the others.
LEMMA FirstAndRest ==
    ASSUME NEW v \in Seq(Piece), v # <<>>
    PROVE  /\ SubSeq(v, 2, Len(v)) \in Seq(Piece)
           /\ v[1] \in Piece /\ <<v[1]>> \in Seq(Piece)
           /\ v = <<v[1]>> \o SubSeq(v, 2, Len(v))
           /\ Len(v) \in Nat \ {0} /\ (Len(v) = 1 => v = <<v[1]>>)
<1> DEFINE t == SubSeq(v, 2, Len(v))
<1>1. Len(v) \in Nat \ {0} /\ v[1] \in Piece
  BY TheOthers
<1>2. /\ t \in Seq(Piece) /\ Len(t) = Len(v) - 1
      /\ \A i \in 1 .. Len(v) - 1 : t[i] = v[i + 1]
  BY TheOthers
<1> DEFINE h == <<v[1]>>
<1>3. h \in Seq(Piece) /\ Len(h) = 1 /\ h[1] = v[1]
  BY <1>1, SMT
<1> HIDE DEF t, h
<1>4. /\ h \o t \in Seq(Piece) /\ Len(h \o t) = Len(v)
      /\ \A i \in 1 .. Len(v) : (h \o t)[i] = v[i]
  <2>1. /\ h \o t \in Seq(Piece) /\ Len(h \o t) = Len(h) + Len(t)
        /\ \A i \in 1 .. Len(h) + Len(t) :
              (h \o t)[i] = IF i <= Len(h) THEN h[i] ELSE t[i - Len(h)]
    <3>1. h \in Seq(Piece) /\ t \in Seq(Piece)
      BY <1>2, <1>3
    <3>2. QED
      BY ONLY <3>1, ConcatProperties
  <2>2. QED
    BY <1>1, <1>2, <1>3, <2>1
<1>5. v = h \o t
  BY <1>4, SeqEqual
<1>6. ASSUME Len(v) = 1
      PROVE  v = h
  BY <1>3, <1>6, SeqEqual
<1>7. QED
  BY <1>1, <1>2, <1>3, <1>5, <1>6 DEF t, h

\* A chunk that is written moves from the one sequence to the other.
LEMMA Moved ==
    ASSUME NEW w \in Seq(Piece), NEW v \in Seq(Piece), v # <<>>
    PROVE  /\ Append(w, v[1]) \in Seq(Piece)
           /\ SubSeq(v, 2, Len(v)) \in Seq(Piece)
           /\ Append(w, v[1]) \o SubSeq(v, 2, Len(v)) = w \o v
           /\ Len(v) = 1 => Append(w, v[1]) = w \o v
<1> DEFINE h == <<v[1]>>
           t == SubSeq(v, 2, Len(v))
<1>1. /\ h \in Seq(Piece) /\ t \in Seq(Piece) /\ v = h \o t /\ v[1] \in Piece
      /\ Len(v) = 1 => v = h
  BY FirstAndRest
<1>2. Append(w, v[1]) = w \o h /\ Append(w, v[1]) \in Seq(Piece)
  BY <1>1, AppendIsConcat, AppendProperties
<1> HIDE DEF h, t
<1>3. (w \o h) \o t = w \o (h \o t)
  BY <1>1, ConcatAssociative
<1>4. QED
  BY <1>1, <1>2, <1>3 DEF t

\* A chunk that is read is the first of all that are still to come.
LEMMA Taken ==
    ASSUME NEW w \in Seq(Piece), NEW v \in Seq(Piece), w # <<>>
    PROVE  /\ SubSeq(w, 2, Len(w)) \in Seq(Piece)
           /\ w \o v \in Seq(Piece) /\ w \o v # <<>>
           /\ (w \o v)[1] = w[1]
           /\ SubSeq(w \o v, 2, Len(w \o v)) = SubSeq(w, 2, Len(w)) \o v
<1> DEFINE y == w \o v
           x == SubSeq(w, 2, Len(w)) \o v
           z == SubSeq(y, 2, Len(y))
<1>1. /\ Len(w) \in Nat \ {0} /\ Len(v) \in Nat
      /\ SubSeq(w, 2, Len(w)) \in Seq(Piece) /\ Len(SubSeq(w, 2, Len(w))) = Len(w) - 1
      /\ \A i \in 1 .. Len(w) - 1 : SubSeq(w, 2, Len(w))[i] = w[i + 1]
  <2>1. Len(v) \in Nat
    OBVIOUS
  <2> HIDE DEF x, y, z
  <2>2. QED
    BY <2>1, TheOthers
<1>2. /\ y \in Seq(Piece) /\ Len(y) = Len(w) + Len(v)
      /\ \A i \in 1 .. Len(w) + Len(v) : y[i] = IF i <= Len(w) THEN w[i] ELSE v[i - Len(w)]
  <2>1. w \in Seq(Piece) /\ v \in Seq(Piece)
    OBVIOUS
  <2>2. QED
    BY ONLY <2>1, ConcatProperties
<1>3. y # <<>> /\ y[1] = w[1]
  BY <1>1, <1>2
<1>4. /\ x \in Seq(Piece) /\ Len(x) = Len(w) - 1 + Len(v)
      /\ \A i \in 1 .. Len(w) - 1 + Len(v) :
            x[i] = IF i <= Len(w) - 1 THEN w[i + 1] ELSE v[i - (Len(w) - 1)]
  <2> DEFINE u == SubSeq(w, 2, Len(w))
  <2> HIDE DEF u
  <2>1. /\ u \o v \in Seq(Piece) /\ Len(u \o v) = Len(u) + Len(v)
        /\ \A i \in 1 .. Len(u) + Len(v) :
              (u \o v)[i] = IF i <= Len(u) THEN u[i] ELSE v[i - Len(u)]
    BY <1>1, ConcatProperties DEF u
  <2>2. Len(u) = Len(w) - 1 /\ x = u \o v /\ \A i \in 1 .. Len(w) - 1 : u[i] = w[i + 1]
    BY <1>1 DEF u
  <2>3. QED
    BY <1>1, <2>1, <2>2
<1> HIDE DEF x, y
<1>5. /\ z \in Seq(Piece) /\ Len(z) = Len(y) - 1
      /\ \A i \in 1 .. Len(y) - 1 : z[i] = y[i + 1]
  BY <1>1, <1>2, <1>3, SMT
<1> HIDE DEF z
<1>6. ASSUME NEW i \in 1 .. Len(z)
      PROVE  z[i] = x[i]
  <2>1. z[i] = y[i + 1] /\ i + 1 \in 1 .. Len(w) + Len(v) /\ i \in 1 .. Len(w) - 1 + Len(v)
    BY <1>1, <1>2, <1>5
  <2>2. CASE i + 1 <= Len(w)
    BY <1>1, <1>2, <1>4, <2>1, <2>2
  <2>3. CASE i + 1 > Len(w)
    BY <1>1, <1>2, <1>4, <2>1, <2>3
  <2>4. QED
    BY <1>1, <2>2, <2>3
<1>7. z = x
  <2>1. Len(z) = Len(x)
    BY <1>1, <1>2, <1>4, <1>5
  <2>2. QED
    BY <1>4, <1>5, <1>6, <2>1, SeqEqual
<1>8. QED
  BY <1>1, <1>2, <1>3, <1>7 DEF x, y, z

-----------------------------------------------------------------------------
(* Steps of the model *)

\* What a step of the goroutine u leaves to the others.
Others(u) ==
    \A v \in User \ {u} :
        pc'[v] = pc[v] /\ held'[v] = held[v] /\ frame'[v] = frame[v] /\ todo'[v] = todo[v]

\* The types of what follows.
Typed ==
    /\ link \in [Stream -> Link \cup {None}] /\ end \in [Node \X Stream -> EndState]
    /\ cache \in [Node \X Node -> Stream \cup {None}] /\ shut \subseteq Node \X Stream
    /\ pc \in [User -> Stage] /\ frame \in [User -> Frame \cup {None}]
    /\ held \in [User -> Stream \cup {None}] /\ Frames \in [User -> SUBSET Frame]
    /\ None \notin Stream /\ None \notin Link /\ None \notin Frame
    /\ Home \in [User -> Node] /\ Peer \in [User -> Node]
    /\ \A u \in User : Home[u] # Peer[u]
    /\ \A s \in Stream : link[s] # None => link[s].from \in Node /\ link[s].to \in Node

\* They follow from the shape of the state.
LEMMA Types == ASSUME Shape PROVE Typed
<1>1. /\ None \notin Stream /\ None \notin Link /\ None \notin Frame
      /\ Frames \in [User -> SUBSET Frame]
  BY NobodyAssumption, FrameAssumption
<1>2. \A s \in Stream : link[s] # None => link[s].from \in Node /\ link[s].to \in Node
  BY <1>1 DEF Shape, Link
<1>3. QED
  BY <1>1, <1>2, UserAssumption DEF Typed, Shape, End

\* What is in the cache leads to the peer it is cached for.
LEMMA CachedJoins ==
    ASSUME Typed, Leads, NEW u \in User, cache[<<Home[u], Peer[u]>>] # None
    PROVE  /\ Joins(cache[<<Home[u], Peer[u]>>], Home[u], Peer[u])
           /\ cache[<<Home[u], Peer[u]>>] \in Stream
           /\ end[<<Home[u], cache[<<Home[u], Peer[u]>>]>>] = "reading"
<1>1. Home[u] \in Node /\ Peer[u] \in Node
  BY DEF Typed
<1>2. cache[<<Home[u], Peer[u]>>] \in Stream
  BY <1>1 DEF Typed
<1>3. QED
  BY <1>1, <1>2 DEF Leads, Joins

\* GetStream finds a stream in the cache, or needs a new one.
Begun(u, f) ==
    /\ Others(u) /\ UNCHANGED <<world, link, end, shut, cache, wire, rest>>
    /\ pc[u] = "idle" /\ frame'[u] = f /\ f \in Frame /\ todo'[u] = Chunks(f)
    /\ \/ pc'[u] = "open" /\ cache[<<Home[u], Peer[u]>>] = None
       \/ /\ pc'[u] = "write" /\ held'[u] = cache[<<Home[u], Peer[u]>>]
          /\ cache[<<Home[u], Peer[u]>>] # None

\* So it is, for every such step.
LEMMA Sends ==
    ASSUME Typed, todo \in [User -> Seq(Piece)], NEW u \in User, NEW f \in Frames[u], Send(u, f)
    PROVE  Begun(u, f)
<1> USE DEF Begun
<1>1. /\ UNCHANGED <<world, link, end, shut, cache, wire, rest>> /\ pc[u] = "idle"
      /\ pc' = [pc EXCEPT ![u] = IF Cached(u) = None THEN "open" ELSE "write"]
      /\ frame' = [frame EXCEPT ![u] = f]
      /\ todo' = [todo EXCEPT ![u] = Chunks(f)]
      /\ held' = [held EXCEPT ![u] = Cached(u)]
  BY DEF Send, streams
<1>2. QED
  BY <1>1 DEF Others, Typed, Cached

\* What NewStream leaves to the others.
Opened(u, s, direct) ==
    /\ Others(u) /\ UNCHANGED <<world, shut, cache, wire, rest>>
    /\ pc[u] = "open" /\ pc'[u] = "handle" /\ held'[u] = s
    /\ frame'[u] = frame[u] /\ todo'[u] = todo[u]
    /\ link[s] = None /\ link'[s].from = Home[u] /\ link'[s].to = Peer[u]
    /\ link'[s] # None /\ link'[s].direct = direct
    /\ end'[<<Home[u], s>>] = "opened" /\ end'[<<Peer[u], s>>] = "incoming"
    /\ \A n \in Node \ {Home[u], Peer[u]} : end'[<<n, s>>] = end[<<n, s>>]
    /\ \A t \in Stream \ {s} : link'[t] = link[t]
    /\ \A n \in Node, t \in Stream \ {s} : end'[<<n, t>>] = end[<<n, t>>]

\* So it is, for every such step.
LEMMA OpensOwn ==
    ASSUME Typed, Shape, NEW u \in User, NEW s \in Stream, NEW direct \in BOOLEAN,
           NewStream(u, s, direct)
    PROVE  Opened(u, s, direct)
<1> USE DEF Opened
<1>1. /\ UNCHANGED <<world, shut, cache, wire, rest, frame, todo>>
      /\ pc[u] = "open" /\ link[s] = None
      /\ link' = [link EXCEPT ![s] = [from |-> Home[u], to |-> Peer[u], direct |-> direct]]
      /\ end' = [end EXCEPT ![<<Home[u], s>>] = "opened", ![<<Peer[u], s>>] = "incoming"]
      /\ held' = [held EXCEPT ![u] = s]
      /\ pc' = [pc EXCEPT ![u] = "handle"]
  BY DEF NewStream
<1>2. link'[s] # None /\ \A t \in Stream \ {s} : link'[t] = link[t]
  BY <1>1, Opens
<1>3. link'[s] = [from |-> Home[u], to |-> Peer[u], direct |-> direct]
  BY <1>1 DEF Typed
<1>4. Others(u) /\ pc'[u] = "handle" /\ held'[u] = s
  BY <1>1 DEF Others, Typed
<1>5. QED
  BY <1>1, <1>2, <1>3, <1>4 DEF Typed

\* The second look gives a goroutine with a frame what is in the cache.
Looked(u) ==
    /\ Others(u) /\ UNCHANGED <<world, link, end, shut, cache, wire, rest>>
    /\ pc[u] = "look"
    /\ \/ pc'[u] = "idle" /\ frame'[u] = None
       \/ /\ pc'[u] = "write" /\ held'[u] = cache[<<Home[u], Peer[u]>>]
          /\ cache[<<Home[u], Peer[u]>>] # None /\ frame[u] # None
          /\ frame'[u] = frame[u] /\ todo'[u] = todo[u]

\* So it is, for every such step.
LEMMA LooksOn ==
    ASSUME Typed, todo \in [User -> Seq(Piece)], NEW u \in User, Look(u)
    PROVE  Looked(u)
<1> USE DEF Looked
<1>1. /\ UNCHANGED <<world, link, end, shut, cache, wire, rest>> /\ pc[u] = "look"
      /\ \/ Return(u)
         \/ /\ frame[u] # None
            /\ Cached(u) # None
            /\ held' = [held EXCEPT ![u] = Cached(u)]
            /\ pc' = [pc EXCEPT ![u] = "write"]
            /\ UNCHANGED <<frame, todo>>
  BY DEF Look, streams
<1>2. QED
  BY <1>1 DEF Others, Typed, Cached, Return

\* A write puts the next chunk on the wire, if anyone still reads it.
Written(u) ==
    /\ Others(u) /\ UNCHANGED <<world, link, end, shut, cache, rest>>
    /\ pc[u] = "write" /\ ~Closed(Home[u], held[u]) /\ todo[u] # <<>>
    /\ IF end[<<Other(Home[u], held[u]), held[u]>>] = "gone" THEN wire' = wire
       ELSE wire' = [wire EXCEPT ![<<Home[u], held[u]>>] = Append(@, todo[u][1])]
    /\ \/ pc'[u] = "idle" /\ frame'[u] = None /\ Len(todo[u]) = 1
       \/ /\ pc'[u] = "write" /\ held'[u] = held[u] /\ frame'[u] = frame[u]
          /\ todo'[u] = SubSeq(todo[u], 2, Len(todo[u])) /\ Len(todo[u]) > 1

\* So it is, for every such step.
LEMMA WritesOn ==
    ASSUME Typed, todo \in [User -> Seq(Piece)], NEW u \in User, Write(u)
    PROVE  Written(u)
<1> USE DEF Written
<1>1. /\ UNCHANGED <<world, link, end, shut, cache, rest>>
      /\ pc[u] = "write" /\ ~Closed(Home[u], held[u])
      /\ IF end[<<Other(Home[u], held[u]), held[u]>>] = "gone" THEN wire' = wire
         ELSE wire' = [wire EXCEPT ![<<Home[u], held[u]>>] = Append(@, todo[u][1])]
  BY DEF Write, streams
<1>2. \/ /\ Len(todo[u]) = 1
         /\ Return(u)
      \/ /\ Len(todo[u]) > 1
         /\ todo' = [todo EXCEPT ![u] = SubSeq(@, 2, Len(@))]
         /\ UNCHANGED <<pc, frame, held>>
  BY DEF Write
<1>3. todo[u] # <<>>
  <2>1. Len(todo[u]) = 1 \/ Len(todo[u]) > 1
    BY <1>2
  <2>2. todo[u] = <<>> => Len(todo[u]) = 0
    OBVIOUS
  <2>3. ~(0 = 1 \/ 0 > 1)
    OBVIOUS
  <2>4. QED
    BY <2>1, <2>2, <2>3
<1>4. CASE Len(todo[u]) = 1 /\ Return(u)
  <2>1. Others(u) /\ pc'[u] = "idle" /\ frame'[u] = None
    BY <1>4 DEF Others, Typed, Return
  <2>2. QED
    BY <1>1, <1>3, <1>4, <2>1
<1>5. CASE /\ Len(todo[u]) > 1
           /\ todo' = [todo EXCEPT ![u] = SubSeq(@, 2, Len(@))]
           /\ UNCHANGED <<pc, frame, held>>
  <2>1. Others(u) /\ todo'[u] = SubSeq(todo[u], 2, Len(todo[u]))
    BY <1>5 DEF Others
  <2>2. QED
    BY <1>1, <1>3, <1>5, <2>1
<1>6. QED
  BY <1>2, <1>4, <1>5

\* A write that fails closes the stream; the goroutine needs another, or is done.
NotWritten(u) ==
    /\ Others(u) /\ UNCHANGED <<world, link, end, cache, wire, rest>>
    /\ pc[u] = "write"
    /\ IF end[<<Home[u], held[u]>>] = "gone" THEN shut' = shut
       ELSE shut' = shut \cup {<<Home[u], held[u]>>}
    /\ \/ pc'[u] = "idle" /\ frame'[u] = None
       \/ pc'[u] = "open" /\ frame'[u] = frame[u] /\ todo'[u] = Chunks(frame[u])

\* So it is, for every such step.
LEMMA WritesNotOn ==
    ASSUME Typed, todo \in [User -> Seq(Piece)], NEW u \in User, WriteError(u)
    PROVE  NotWritten(u)
<1> USE DEF NotWritten
<1>1. /\ UNCHANGED <<world, link, end, cache, wire, rest>> /\ pc[u] = "write"
      /\ IF end[<<Home[u], held[u]>>] = "gone" THEN shut' = shut
         ELSE shut' = shut \cup {<<Home[u], held[u]>>}
      /\ \/ Return(u)
         \/ /\ todo' = [todo EXCEPT ![u] = Chunks(frame[u])]
            /\ held' = [held EXCEPT ![u] = None]
            /\ pc' = [pc EXCEPT ![u] = "open"]
            /\ UNCHANGED frame
  BY DEF WriteError, Close
<1>2. CASE Return(u)
  BY <1>1, <1>2 DEF Others, Typed, Return
<1>3. CASE /\ todo' = [todo EXCEPT ![u] = Chunks(frame[u])]
           /\ held' = [held EXCEPT ![u] = None]
           /\ pc' = [pc EXCEPT ![u] = "open"]
           /\ UNCHANGED frame
  BY <1>1, <1>3 DEF Others, Typed
<1>4. QED
  BY <1>1, <1>2, <1>3

\* handle gives a stream a read loop, and perhaps the cache.
Handled(n, s) ==
    /\ UNCHANGED <<world, link, shut, wire, rest>>
    /\ end'[<<n, s>>] = "reading"
    /\ \A m \in Node, t \in Stream : <<m, t>> # <<n, s>> => end'[<<m, t>>] = end[<<m, t>>]

\* So it is, for every such step.
LEMMA Handles ==
    ASSUME Typed, NEW n \in Node, NEW s \in Stream, Handle(n, s)
    PROVE  Handled(n, s)
<1> USE DEF Handled
<1>1. /\ UNCHANGED <<world, link, shut, wire, rest>>
      /\ end' = [end EXCEPT ![<<n, s>>] = "reading"]
  BY DEF Handle
<1>2. QED
  BY <1>1 DEF Typed

\* The end of a read loop: nobody reads any more what still comes.
Left(n, s) ==
    /\ UNCHANGED <<world, link, users>>
    /\ end'[<<n, s>>] = "gone" /\ shut' = shut \ {<<n, s>>}
    /\ rest' = [rest EXCEPT ![<<n, s>>] = 0]
    /\ wire' = [wire EXCEPT ![<<Other(n, s), s>>] = <<>>]
    /\ \A m \in Node, t \in Stream :
          <<m, t>> # <<n, s>> => /\ end'[<<m, t>>] = end[<<m, t>>]
                                 /\ rest'[<<m, t>>] = rest[<<m, t>>]
    /\ \A m \in Node, t \in Stream :
          <<m, t>> # <<Other(n, s), s>> => wire'[<<m, t>>] = wire[<<m, t>>]

\* So it is, for every such step.
LEMMA LeavesOn ==
    ASSUME Typed, wire \in [End -> Seq(Piece)], rest \in [End -> Sizes],
           NEW n \in Node, NEW s \in Stream, Gone(n, s), Other(n, s) \in Node
    PROVE  Left(n, s)
<1> USE DEF Left
<1>1. /\ UNCHANGED <<world, link, users>>
      /\ end' = [end EXCEPT ![<<n, s>>] = "gone"] /\ shut' = shut \ {<<n, s>>}
      /\ rest' = [rest EXCEPT ![<<n, s>>] = 0]
      /\ wire' = [wire EXCEPT ![<<Other(n, s), s>>] = <<>>]
  BY DEF Gone
<1>2. QED
  BY <1>1 DEF Typed, End


\* A goroutine writes its whole frame.
LEMMA FramingStep ==
    ASSUME Shape, Framing, todo \in [User -> Seq(Piece)], [Next]_vars
    PROVE  Framing'
PROOF
<1>0. Typed
  BY Types
<1>1. ASSUME NEW n \in Node, NEW s \in Stream, HandleIncoming(n, s)
     PROVE  Framing'
  <2>1. UNCHANGED <<pc, frame, todo>>
    BY <1>1 DEF HandleIncoming, Handle, Other, streams, users
  <2>2. QED
    BY <2>1, <1>0 DEF Framing, Typed
<1>2. ASSUME NEW n \in Node, NEW s \in Stream, DropIncoming(n, s)
     PROVE  Framing'
  <2>1. UNCHANGED <<pc, frame, todo>>
    BY <1>2 DEF DropIncoming, streams, users
  <2>2. QED
    BY <2>1, <1>0 DEF Framing, Typed
<1>3. ASSUME NEW n \in Node, NEW s \in Stream, Read(n, s)
     PROVE  Framing'
  <2>1. UNCHANGED <<pc, frame, todo>>
    BY <1>3 DEF Read, streams, users
  <2>2. QED
    BY <2>1, <1>0 DEF Framing, Typed
<1>4. ASSUME NEW n \in Node, NEW s \in Stream, Leave(n, s)
     PROVE  Framing'
  <2>1. UNCHANGED <<pc, frame, todo>>
    BY <1>4 DEF Leave, ReadFails, Gone, Other, streams, users
  <2>2. QED
    BY <2>1, <1>0 DEF Framing, Typed
<1>5. ASSUME NEW u \in User, NEW f \in Frames[u], Send(u, f)
     PROVE  Framing'
  <2>1. Begun(u, f)
    BY <1>5, <1>0, Sends
  <2>2. QED
    BY <1>0, <2>1, ZenonT(30) DEF Begun, Others, Framing, Typed, Stage
<1>6. ASSUME NEW u \in User, Connected(u)
     PROVE  Framing'
  BY <1>6, <1>0 DEF Connected, Called, Cached, streams, users, Framing, Typed
<1>7. ASSUME NEW u \in User, NEW s \in Stream, NEW direct \in BOOLEAN, NewStream(u, s, direct)
     PROVE  Framing'
  <2>0. Opened(u, s, direct)
    BY <1>7, <1>0, OpensOwn
  <2>1. \A v \in User : /\ frame'[v] = frame[v] /\ todo'[v] = todo[v]
                        /\ pc'[v] = pc[v] \/ (pc[v] = "open" /\ pc'[v] = "handle")
    BY <2>0 DEF Opened, Others
  <2>2. QED
    BY <2>1 DEF Framing
<1>8. ASSUME NEW u \in User, NewStreamError(u)
     PROVE  Framing'
  BY <1>8, <1>0 DEF NewStreamError, Return, streams, users, Framing, Typed
<1>9. ASSUME NEW u \in User, HandleOwn(u)
     PROVE  Framing'
  BY <1>9, <1>0 DEF HandleOwn, Handle, Other, streams, users, Framing, Typed
<1>10. ASSUME NEW u \in User, Look(u)
     PROVE  Framing'
  <2>1. Looked(u)
    BY <1>10, <1>0, LooksOn
  <2>2. QED
    BY <1>0, <2>1, ZenonT(30) DEF Looked, Others, Framing, Typed, Stage
<1>11. ASSUME NEW u \in User, LookPanic(u)
     PROVE  Framing'
  <2>1. \A v \in User : \/ pc'[v] = pc[v] /\ frame'[v] = frame[v] /\ todo'[v] = todo[v]
                        \/ pc'[v] = "idle" /\ frame'[v] = None
    BY <1>11 DEF LookPanic
  <2>2. QED
    BY <2>1 DEF Framing
<1>12. ASSUME NEW u \in User, Write(u)
     PROVE  Framing'
  <2>1. Written(u)
    BY <1>12, <1>0, WritesOn
  <2>2. QED
    BY <1>0, <2>1, ZenonT(30) DEF Written, Others, Framing, Typed, Stage
<1>13. ASSUME NEW u \in User, WriteError(u)
     PROVE  Framing'
  <2>1. NotWritten(u)
    BY <1>13, <1>0, WritesNotOn
  <2>2. QED
    BY <1>0, <2>1, ZenonT(30) DEF NotWritten, Others, Framing, Typed, Stage
<1>14. ASSUME NEW s \in Stream, Break(s)
     PROVE  Framing'
  <2>1. UNCHANGED <<pc, frame, todo>>
    BY <1>14 DEF Break, streams, users
  <2>2. QED
    BY <2>1, <1>0 DEF Framing, Typed
<1>15. CASE UNCHANGED vars
  BY <1>15, <1>0 DEF vars, streams, users, Framing, Typed
<1>16. QED
  BY <1>1, <1>2, <1>3, <1>4, <1>5, <1>6, <1>7, <1>8, <1>9, <1>10, <1>11,
    <1>12, <1>13, <1>14, <1>15 DEF Next, ReadStep, Arrive, UserStep

\* Both ends of an opened stream stay ends of it.
LEMMA SidesStep ==
    ASSUME Shape, Ends, Sides, [Next]_vars
    PROVE  Sides'
PROOF
<1>0. Typed
  BY Types
<1>1. ASSUME NEW n \in Node, NEW s \in Stream, HandleIncoming(n, s)
     PROVE  Sides'
  BY <1>1, <1>0 DEF HandleIncoming, Handle, Other, streams, users, Sides, Ends, Linked,
    Handling, Writing, Typed
<1>2. ASSUME NEW n \in Node, NEW s \in Stream, DropIncoming(n, s)
     PROVE  Sides'
  BY <1>2, <1>0 DEF DropIncoming, streams, users, Sides, Ends, Linked, Handling, Writing,
    Typed
<1>3. ASSUME NEW n \in Node, NEW s \in Stream, Read(n, s)
     PROVE  Sides'
  <2>1. UNCHANGED <<link, end, shut>>
    BY <1>3 DEF Read, streams, users
  <2>2. QED
    BY <2>1, <1>0 DEF Sides, Ends, Linked, Handling, Writing, Typed
<1>4. ASSUME NEW n \in Node, NEW s \in Stream, Leave(n, s)
     PROVE  Sides'
  BY <1>4, <1>0 DEF Leave, ReadFails, Gone, Other, streams, users, Sides, Ends, Linked,
    Handling, Writing, Typed
<1>5. ASSUME NEW u \in User, NEW f \in Frames[u], Send(u, f)
     PROVE  Sides'
  <2>1. UNCHANGED <<link, end, shut>>
    BY <1>5 DEF Send, Called, Cached, streams, users
  <2>2. QED
    BY <2>1, <1>0 DEF Sides, Ends, Linked, Handling, Writing, Typed
<1>6. ASSUME NEW u \in User, Connected(u)
     PROVE  Sides'
  <2>1. UNCHANGED <<link, end, shut>>
    BY <1>6 DEF Connected, Called, Cached, streams, users
  <2>2. QED
    BY <2>1, <1>0 DEF Sides, Ends, Linked, Handling, Writing, Typed
<1>7. ASSUME NEW u \in User, NEW s \in Stream, NEW direct \in BOOLEAN, NewStream(u, s, direct)
     PROVE  Sides'
  <2>0. Opened(u, s, direct)
    BY <1>7, <1>0, OpensOwn
  <2>1. \A n \in Node : n \in {Home[u], Peer[u]} \/ end'[<<n, s>>] = end[<<n, s>>]
    BY <2>0, <1>0 DEF Opened
  <2>2. \A t \in Stream : link'[t] # None => link'[t].from \in Node /\ link'[t].to \in Node
    BY <2>0, <1>0 DEF Opened, Typed
  <2>3. ASSUME NEW t \in Stream, link'[t] # None
        PROVE  /\ end'[<<link'[t].from, t>>] \in {"opened", "reading", "gone"}
               /\ end'[<<link'[t].to, t>>] \in {"incoming", "reading", "gone"}
    <3>1. CASE t = s
      BY <2>0, <3>1 DEF Opened
    <3>2. CASE t # s
      BY <2>0, <2>2, <2>3, <3>2 DEF Opened, Sides
    <3>3. QED
      BY <3>1, <3>2
  <2>4. ASSUME NEW n \in Node, NEW t \in Stream, <<n, t>> \in shut'
        PROVE  end'[<<n, t>>] \notin {"none", "gone"}
    <3>1. <<n, t>> \in shut
      BY <2>0, <2>4 DEF Opened
    <3>2. CASE t = s
      BY <2>0, <2>1, <3>1, <3>2 DEF Opened, Sides
    <3>3. CASE t # s
      BY <2>0, <3>1, <3>3 DEF Opened, Sides
    <3>4. QED
      BY <3>2, <3>3
  <2>5. QED
    BY <2>3, <2>4 DEF Sides
<1>8. ASSUME NEW u \in User, NewStreamError(u)
     PROVE  Sides'
  <2>1. UNCHANGED <<link, end, shut>>
    BY <1>8 DEF NewStreamError, Return, streams, users
  <2>2. QED
    BY <2>1, <1>0 DEF Sides, Ends, Linked, Handling, Writing, Typed
<1>9. ASSUME NEW u \in User, HandleOwn(u)
     PROVE  Sides'
  BY <1>9, <1>0 DEF HandleOwn, Handle, Other, streams, users, Sides, Ends, Linked,
    Handling, Writing, Typed
<1>10. ASSUME NEW u \in User, Look(u)
     PROVE  Sides'
  <2>1. UNCHANGED <<link, end, shut>>
    BY <1>10 DEF Look, Cached, Return, streams, users
  <2>2. QED
    BY <2>1, <1>0 DEF Sides, Ends, Linked, Handling, Writing, Typed
<1>11. ASSUME NEW u \in User, LookPanic(u)
     PROVE  Sides'
  <2>1. /\ link' = link
        /\ \A n \in Node, s \in Stream :
              \/ /\ end'[<<n, s>>] = end[<<n, s>>]
                 /\ \/ <<n, s>> \in shut
                    \/ <<n, s>> \notin shut'
                    \/ end[<<n, s>>] \in {"opened", "incoming", "reading"}
              \/ end'[<<n, s>>] = "gone" /\ link[s] # None /\ <<n, s>> \notin shut'
    BY <1>11, <1>0 DEF LookPanic, End
  <2>2. QED
    BY <2>1, <1>0 DEF Sides, Typed
<1>12. ASSUME NEW u \in User, Write(u)
     PROVE  Sides'
  BY <1>12, <1>0 DEF Write, Return, streams, users, Sides, Ends, Linked, Handling, Writing,
    Typed
<1>13. ASSUME NEW u \in User, WriteError(u)
     PROVE  Sides'
  BY <1>13, <1>0 DEF WriteError, Close, Return, streams, users, Sides, Ends, Linked,
    Handling, Writing, Typed
<1>14. ASSUME NEW s \in Stream, Break(s)
     PROVE  Sides'
  BY <1>14, <1>0 DEF Break, streams, users, Sides, Ends, Linked, Handling, Writing, Typed
<1>15. CASE UNCHANGED vars
  BY <1>15, <1>0 DEF vars, streams, users, Sides, Ends, Linked, Handling, Writing, Typed
<1>16. QED
  BY <1>1, <1>2, <1>3, <1>4, <1>5, <1>6, <1>7, <1>8, <1>9, <1>10, <1>11,
    <1>12, <1>13, <1>14, <1>15 DEF Next, ReadStep, Arrive, UserStep

\* Goroutines write to their peers.
LEMMA TowardStep ==
    ASSUME Shape, Ends, Leads, Toward, todo \in [User -> Seq(Piece)], [Next]_vars
    PROVE  Toward'
PROOF
<1>0. Typed
  BY Types
<1>1. ASSUME NEW n \in Node, NEW s \in Stream, HandleIncoming(n, s)
     PROVE  Toward'
  <2>1. UNCHANGED <<link, pc, held>>
    BY <1>1 DEF HandleIncoming, Handle, Other, streams, users
  <2>2. QED
    BY <2>1, <1>0 DEF Toward, Joins
<1>2. ASSUME NEW n \in Node, NEW s \in Stream, DropIncoming(n, s)
     PROVE  Toward'
  <2>1. UNCHANGED <<link, pc, held>>
    BY <1>2 DEF DropIncoming, streams, users
  <2>2. QED
    BY <2>1, <1>0 DEF Toward, Joins
<1>3. ASSUME NEW n \in Node, NEW s \in Stream, Read(n, s)
     PROVE  Toward'
  <2>1. UNCHANGED <<link, pc, held>>
    BY <1>3 DEF Read, streams, users
  <2>2. QED
    BY <2>1, <1>0 DEF Toward, Joins
<1>4. ASSUME NEW n \in Node, NEW s \in Stream, Leave(n, s)
     PROVE  Toward'
  <2>1. UNCHANGED <<link, pc, held>>
    BY <1>4 DEF Leave, ReadFails, Gone, Other, streams, users
  <2>2. QED
    BY <2>1, <1>0 DEF Toward, Joins
<1>5. ASSUME NEW u \in User, NEW f \in Frames[u], Send(u, f)
     PROVE  Toward'
  <2>0. Begun(u, f)
    BY <1>5, <1>0, Sends
  <2>1. pc'[u] = "write" => Joins(held'[u], Home[u], Peer[u])
    BY <2>0, <1>0, CachedJoins DEF Begun
  <2>2. link' = link /\ \A v \in User \ {u} : pc'[v] = pc[v] /\ held'[v] = held[v]
    BY <2>0 DEF Begun, Others
  <2>3. QED
    BY <2>1, <2>2 DEF Toward, Joins
<1>6. ASSUME NEW u \in User, Connected(u)
     PROVE  Toward'
  BY <1>6, <1>0 DEF Connected, Called, Cached, streams, users, Toward, Joins
<1>7. ASSUME NEW u \in User, NEW s \in Stream, NEW direct \in BOOLEAN, NewStream(u, s, direct)
     PROVE  Toward'
  <2>0. Opened(u, s, direct)
    BY <1>7, <1>0, OpensOwn
  <2>1. ASSUME NEW v \in User, pc'[v] = "write"
        PROVE  v # u /\ pc[v] = "write" /\ held[v] \in Stream \ {s} /\ held'[v] = held[v]
    <3>1. v # u /\ pc[v] = "write" /\ held'[v] = held[v]
      BY <2>0, <2>1 DEF Opened, Others
    <3>2. held[v] # None /\ link[held[v]] # None /\ link[s] = None
      BY <2>0, <3>1 DEF Opened, Ends, Writing
    <3>3. QED
      BY <3>1, <3>2, <1>0 DEF Typed
  <2>2. \A t \in Stream \ {s} : link'[t] = link[t]
    BY <2>0, <1>0 DEF Opened
  <2>3. QED
    BY <2>1, <2>2 DEF Toward, Joins
<1>8. ASSUME NEW u \in User, NewStreamError(u)
     PROVE  Toward'
  BY <1>8, <1>0 DEF NewStreamError, Return, streams, users, Toward, Joins
<1>9. ASSUME NEW u \in User, HandleOwn(u)
     PROVE  Toward'
  BY <1>9, <1>0 DEF HandleOwn, Handle, Other, streams, users, Toward, Joins
<1>10. ASSUME NEW u \in User, Look(u)
     PROVE  Toward'
  <2>0. Looked(u)
    BY <1>10, <1>0, LooksOn
  <2>1. pc'[u] = "write" => Joins(held'[u], Home[u], Peer[u])
    BY <2>0, <1>0, CachedJoins DEF Looked
  <2>2. link' = link /\ \A v \in User \ {u} : pc'[v] = pc[v] /\ held'[v] = held[v]
    BY <2>0 DEF Looked, Others
  <2>3. QED
    BY <2>1, <2>2 DEF Toward, Joins
<1>11. ASSUME NEW u \in User, LookPanic(u)
     PROVE  Toward'
  <2>1. PanicAt(Home[u])
    BY <1>11, Panic
  <2>2. QED
    BY <2>1, <1>0 DEF PanicAt, Toward, Joins
<1>12. ASSUME NEW u \in User, Write(u)
     PROVE  Toward'
  <2>1. Written(u)
    BY <1>12, <1>0, WritesOn
  <2>2. QED
    BY <1>0, <2>1 DEF Written, Others, Toward, Joins
<1>13. ASSUME NEW u \in User, WriteError(u)
     PROVE  Toward'
  <2>0. NotWritten(u)
    BY <1>13, <1>0, WritesNotOn
  <2>1. /\ link' = link /\ pc'[u] # "write"
        /\ \A v \in User \ {u} : pc'[v] = pc[v] /\ held'[v] = held[v]
    BY <2>0 DEF NotWritten, Others
  <2>2. QED
    BY <2>1 DEF Toward, Joins
<1>14. ASSUME NEW s \in Stream, Break(s)
     PROVE  Toward'
  <2>1. UNCHANGED <<link, pc, held>>
    BY <1>14 DEF Break, streams, users
  <2>2. QED
    BY <2>1, <1>0 DEF Toward, Joins
<1>15. CASE UNCHANGED vars
  BY <1>15, <1>0 DEF vars, streams, users, Toward, Joins
<1>16. QED
  BY <1>1, <1>2, <1>3, <1>4, <1>5, <1>6, <1>7, <1>8, <1>9, <1>10, <1>11,
    <1>12, <1>13, <1>14, <1>15 DEF Next, ReadStep, Arrive, UserStep

-----------------------------------------------------------------------------
(* What is on a wire *)

\* A read takes the next chunk, which fits.
Taking(n, m, s) ==
    /\ UNCHANGED <<world, link, end, shut, cache, pc, frame, todo, held>>
    /\ m \in Node /\ Joins(s, n, m) /\ wire[<<m, s>>] # <<>> /\ <<n, s>> \notin shut
    /\ end[<<n, s>>] = "reading"
    /\ wire'[<<m, s>>] = SubSeq(wire[<<m, s>>], 2, Len(wire[<<m, s>>]))
    /\ rest'[<<n, s>>] = After(rest[<<n, s>>], wire[<<m, s>>][1])
    /\ rest' \in [End -> Sizes] /\ wire' \in [End -> Seq(Piece)]
    /\ \A e \in End : e # <<m, s>> => wire'[e] = wire[e]
    /\ \A e \in End : e # <<n, s>> => rest'[e] = rest[e]

\* An end that is read is an end of a stream between two nodes.
LEMMA ReadJoins ==
    ASSUME Typed, Linked, NEW n \in Node, NEW s \in Stream, end[<<n, s>>] # "none"
    PROVE  /\ Other(n, s) \in Node /\ Joins(s, n, Other(n, s)) /\ Other(n, s) # n
           /\ Joins(s, Other(n, s), n)
           /\ Other(Other(n, s), s) = n
<1>1. /\ link[s] # None /\ (n = link[s].from \/ n = link[s].to)
      /\ link[s].from # link[s].to /\ link[s].from \in Node /\ link[s].to \in Node
  BY DEF Linked, Typed
<1>2. QED
  BY <1>1 DEF Joins, Other

\* So it is, for every such step.
LEMMA ReadsOn ==
    ASSUME Typed, Pieces, Linked, Wires, NEW n \in Node, NEW s \in Stream, Read(n, s)
    PROVE  Taking(n, Other(n, s), s)
<1>1. /\ end[<<n, s>>] = "reading" /\ <<n, s>> \notin shut
      /\ UNCHANGED <<world, link, end, shut, cache, pc, frame, todo, held>>
  BY DEF Read, streams, users
<1>2. PICK m \in Node : m = Other(n, s) /\ Joins(s, n, m) /\ Joins(s, m, n)
  BY <1>1, ReadJoins
<1> DEFINE e == <<m, s>>
           a == <<n, s>>
           w == wire[e]
           r == rest[a]
<1>3. /\ w # <<>>
      /\ wire' = [wire EXCEPT ![e] = SubSeq(@, 2, Len(@))]
      /\ rest' = [rest EXCEPT ![a] =
                     IF w[1].body <= (IF r = 0 THEN Decode(w[1].head).size ELSE r)
                     THEN (IF r = 0 THEN Decode(w[1].head).size ELSE r) - w[1].body ELSE 0]
  BY <1>2 DEF Read
<1>4. e \in End /\ a \in End
  BY DEF End
<1>5. w \in Seq(Piece) /\ r \in Sizes
  BY <1>4 DEF Pieces
<1>6. PICK t \in Sizes : Flows(w, r, t)
  BY <1>1, <1>2 DEF Wires, Fed
<1>7. Fits(r, w[1]) /\ After(r, w[1]) \in Sizes /\ SubSeq(w, 2, Len(w)) \in Seq(Piece)
  <2> HIDE DEF w, r
  <2>1. QED
    BY <1>3, <1>5, <1>6, FlowFirst, FirstAndRest
<1>8. w[1].body <= (IF r = 0 THEN Decode(w[1].head).size ELSE r)
  <2>1. r \in Nat
    BY <1>5, SizesAreNat
  <2> HIDE DEF w, r
  <2>2. QED
    BY <1>7, <2>1 DEF Fits
<1>9. rest' = [rest EXCEPT ![a] = After(r, w[1])]
  BY <1>3, <1>8 DEF After
<1> HIDE DEF w, r
<1>10. rest' \in [End -> Sizes] /\ rest'[a] = After(r, w[1])
  BY <1>4, <1>7, <1>9 DEF Pieces
<1>11. wire' = [wire EXCEPT ![e] = SubSeq(w, 2, Len(w))]
  BY <1>3 DEF w
<1>12. wire' \in [End -> Seq(Piece)] /\ wire'[e] = SubSeq(w, 2, Len(w))
  BY <1>4, <1>7, <1>11 DEF Pieces
<1>13. /\ \A x \in End : x # e => wire'[x] = wire[x]
       /\ \A x \in End : x # a => rest'[x] = rest[x]
  BY <1>9, <1>11 DEF Pieces
<1>14. QED
  BY <1>1, <1>2, <1>3, <1>10, <1>12, <1>13 DEF Taking, w, r

\* Where nothing happens to a wire and to who writes there, it stays as it is.
LEMMA FedKept ==
    ASSUME NEW n \in Node, NEW m \in Node, NEW s \in Stream, Fed(n, m, s),
           wire'[<<n, s>>] = wire[<<n, s>>], rest'[<<m, s>>] = rest[<<m, s>>],
           \/ Closed(n, s)'
           \/ /\ ~Closed(n, s)
              /\ \A v \in User :
                    /\ Sender(v, n, s)' <=> Sender(v, n, s)
                    /\ Sender(v, n, s) => todo'[v] = todo[v] /\ frame'[v] = frame[v]
    PROVE  Fed(n, m, s)'
<1>1. \E t \in Sizes : Flows(wire'[<<n, s>>], rest'[<<m, s>>], t)
  BY DEF Fed
<1>2. ASSUME ~Closed(n, s)'
      PROVE  (Between(n, m, s) \/ Within(n, m, s))'
  <2>1. \A v \in User :
           /\ Sender(v, n, s)' <=> Sender(v, n, s)
           /\ Sender(v, n, s) => todo'[v] = todo[v] /\ frame'[v] = frame[v]
    BY <1>2
  <2>2. CASE Between(n, m, s)
    <3>1. \A v \in User : Sender(v, n, s)' => todo'[v] = Chunks(frame'[v])
      BY <2>1, <2>2 DEF Between
    <3>2. Flows(wire'[<<n, s>>], rest'[<<m, s>>], 0)
      BY <2>2 DEF Between
    <3>3. QED
      BY <3>1, <3>2 DEF Between
  <2>3. CASE Within(n, m, s)
    <3>1. PICK v \in User : /\ Sender(v, n, s) /\ Len(Chunks(frame[v])) > 1
                            /\ Flows(wire[<<n, s>>] \o todo[v], rest[<<m, s>>], 0)
      BY <2>3 DEF Within
    <3>2. todo'[v] = todo[v] /\ frame'[v] = frame[v] /\ Sender(v, n, s)'
      BY <2>1, <3>1
    <3>3. Flows(wire'[<<n, s>>] \o todo'[v], rest'[<<m, s>>], 0)
      BY <3>1, <3>2
    <3>4. Len(Chunks(frame'[v])) > 1
      BY <3>1, <3>2
    <3>5. QED
      BY <3>2, <3>3, <3>4 DEF Within
  <2>4. Between(n, m, s) \/ Within(n, m, s)
    BY <1>2 DEF Fed
  <2>5. QED
    BY <2>2, <2>3, <2>4
<1>3. QED
  BY <1>1, <1>2 DEF Fed

\* Who writes a frame of several chunks to a stream is alone there.
LEMMA Alone1 ==
    ASSUME Unshared, Typed, Linked, Framing, Toward, NEW u \in User, NEW v \in User,
           NEW s \in Stream, u # v,
           Home[u] = Home[v], Joins(s, Home[u], Peer[u]), Frames[u] # {},
           Sender(v, Home[v], s), Len(Chunks(frame[v])) > 1
    PROVE  FALSE
<1>1. Joins(s, Home[v], Peer[v]) /\ frame[v] \in Frames[v]
  BY DEF Sender, Toward, Framing
<1>2. Peer[u] = Peer[v]
  BY <1>1 DEF Joins, Linked
<1>3. Len(Chunks(frame[v])) = 1
  BY <1>1, <1>2 DEF Unshared
<1>4. QED
  BY <1>3

\* A goroutine that begins to write finds the stream between two frames.
LEMMA FedJoined ==
    ASSUME Unshared, Typed, Linked, Framing, Toward,
           NEW n \in Node, NEW m \in Node, NEW s \in Stream, Fed(n, m, s),
           wire'[<<n, s>>] = wire[<<n, s>>], rest'[<<m, s>>] = rest[<<m, s>>],
           NEW u \in User, Others(u), UNCHANGED <<end, shut>>,
           Home[u] = n, Joins(s, n, Peer[u]), Frames[u] # {}, pc[u] # "write",
           todo'[u] = Chunks(frame'[u])
    PROVE  Fed(n, m, s)'
<1>1. \E t \in Sizes : Flows(wire'[<<n, s>>], rest'[<<m, s>>], t)
  BY DEF Fed
<1>2. ASSUME ~Closed(n, s)'
      PROVE  Between(n, m, s)'
  <2>1. ~Within(n, m, s)
    <3>1. SUFFICES ASSUME NEW v \in User, Sender(v, n, s), Len(Chunks(frame[v])) > 1
                   PROVE  FALSE
      BY DEF Within
    <3>2. v # u /\ Home[v] = n
      BY <3>1 DEF Sender
    <3>3. QED
      BY <3>1, <3>2, Alone1
  <2>2. Between(n, m, s)
    BY <1>2, <2>1 DEF Fed, Closed
  <2>3. \A v \in User : Sender(v, n, s)' => todo'[v] = Chunks(frame'[v])
    BY <2>2 DEF Between, Sender, Others
  <2>4. QED
    BY <2>2, <2>3 DEF Between
<1>3. QED
  BY <1>1, <1>2 DEF Fed

\* An empty wire, where nobody is writing.
LEMMA FedEmpty ==
    ASSUME Pieces', NEW n \in Node, NEW m \in Node, NEW s \in Stream, wire'[<<n, s>>] = <<>>,
           \/ Closed(n, s)'
           \/ rest'[<<m, s>>] = 0 /\ \A v \in User : ~Sender(v, n, s)'
    PROVE  Fed(n, m, s)'
<1>1. rest'[<<m, s>>] \in Sizes
  BY DEF Pieces, End
<1>2. Flows(<<>>, rest'[<<m, s>>], rest'[<<m, s>>])
  BY <1>1, FlowNone
<1>3. QED
  BY <1>1, <1>2 DEF Fed, Between

\* A read leaves the next ones as they should be.
LEMMA FedRead ==
    ASSUME Pieces, NEW n \in Node, NEW m \in Node, NEW s \in Stream, Fed(n, m, s),
           Taking(m, n, s)
    PROVE  Fed(n, m, s)'
<1> DEFINE w == wire[<<n, s>>]
           r == rest[<<m, s>>]
           x == After(r, w[1])
           y == SubSeq(w, 2, Len(w))
<1>1. /\ w \in Seq(Piece) /\ w # <<>>
      /\ wire'[<<n, s>>] = y /\ rest'[<<m, s>>] = x
      /\ UNCHANGED <<end, shut, pc, frame, todo, held>>
      /\ todo \in [User -> Seq(Piece)]
  BY DEF Pieces, Taking, End
<1> HIDE DEF w, r, x, y
<1>2. \A t \in Sizes : Flows(w, r, t) => Flows(y, x, t)
  BY <1>1, FlowFirst DEF x, y
<1>3. ASSUME NEW v \in User, Flows(w \o todo[v], r, 0)
      PROVE  Flows(y \o todo[v], x, 0)
  <2>1. todo[v] \in Seq(Piece)
    BY <1>1
  <2>2. /\ w \o todo[v] \in Seq(Piece) /\ w \o todo[v] # <<>>
        /\ (w \o todo[v])[1] = w[1]
        /\ SubSeq(w \o todo[v], 2, Len(w \o todo[v])) = y \o todo[v]
    BY <1>1, <2>1, Taken DEF y
  <2>3. QED
    BY <1>3, <2>2, FlowFirst DEF x
<1>4. \E t \in Sizes : Flows(y, x, t)
  BY <1>2 DEF Fed, w, r
<1>5. Closed(n, s)' <=> Closed(n, s)
  BY <1>1 DEF Closed
<1>6. Between(n, m, s) => Between(n, m, s)'
  <2>1. 0 \in Sizes
    BY SizesAreNat
  <2>2. Flows(w, r, 0) => Flows(y, x, 0)
    BY <1>2, <2>1
  <2>3. \A v \in User : /\ Sender(v, n, s)' <=> Sender(v, n, s)
                        /\ todo'[v] = todo[v] /\ frame'[v] = frame[v]
    BY <1>1 DEF Sender
  <2>4. QED
    BY <1>1, <2>2, <2>3 DEF Between, w, r
<1>7. Within(n, m, s) => Within(n, m, s)'
  <2>1. SUFFICES ASSUME NEW v \in User, Sender(v, n, s), Len(Chunks(frame[v])) > 1,
                        Flows(w \o todo[v], r, 0)
                 PROVE  Within(n, m, s)'
    BY DEF Within, w, r
  <2>2. Sender(v, n, s)' /\ Len(Chunks(frame'[v])) > 1 /\ todo'[v] = todo[v]
    BY <1>1, <2>1 DEF Sender
  <2>3. Flows(wire'[<<n, s>>] \o todo'[v], rest'[<<m, s>>], 0)
    BY <1>1, <1>3, <2>1, <2>2
  <2>4. QED
    BY <2>2, <2>3 DEF Within
<1>8. QED
  BY <1>1, <1>4, <1>5, <1>6, <1>7 DEF Fed

\* A write goes on with what is on the wire, and leaves it complete in the end.
LEMMA FedWritten ==
    ASSUME Unshared, Typed, Linked, Pieces, Framing, Toward,
           NEW u \in User, Written(u), NEW n \in Node, NEW m \in Node, NEW s \in Stream,
           n = Home[u], m = Peer[u], s = held[u], Fed(n, m, s),
           wire'[<<n, s>>] = Append(wire[<<n, s>>], todo[u][1])
    PROVE  Fed(n, m, s)'
<1> DEFINE w == wire[<<n, s>>]
           v == todo[u]
           r == rest[<<m, s>>]
           y == Append(w, v[1])
<1>1. /\ w \in Seq(Piece) /\ v \in Seq(Piece) /\ v # <<>>
      /\ wire'[<<n, s>>] = y /\ rest'[<<m, s>>] = r
      /\ Others(u) /\ UNCHANGED <<end, shut>> /\ ~Closed(n, s)
      /\ Sender(u, n, s) /\ frame[u] \in Frames[u] /\ Joins(s, Home[u], Peer[u])
  BY DEF Pieces, Written, End, Sender, Framing, Toward
<1>2. /\ y \in Seq(Piece) /\ SubSeq(v, 2, Len(v)) \in Seq(Piece)
      /\ y \o SubSeq(v, 2, Len(v)) = w \o v
      /\ Len(v) = 1 => y = w \o v
  <2> HIDE DEF w, v
  <2>1. QED
    BY <1>1, Moved DEF y
<1>3. ASSUME NEW x \in User, x # u, Sender(x, n, s)
      PROVE  ~(Len(Chunks(frame[u])) > 1) /\ ~(Len(Chunks(frame[x])) > 1)
  <2>1. Home[x] = n /\ Joins(s, Home[x], Peer[x]) /\ frame[x] \in Frames[x]
    BY <1>3 DEF Sender, Toward, Framing
  <2>2. Frames[x] # {} /\ Frames[u] # {}
    BY <1>1, <2>1
  <2>3. QED
    BY <1>1, <1>3, <2>1, <2>2, Alone1
<1> HIDE DEF w, v, r, y
<1>4. ASSUME Between(n, m, s)
      PROVE  /\ Flows(w \o v, r, 0)
             /\ Len(v) > 1 => Len(Chunks(frame[u])) > 1
             /\ \A x \in User \ {u} : Sender(x, n, s) => todo[x] = Chunks(frame[x])
  <2>1. Flows(w, r, 0) /\ v = Chunks(frame[u])
    BY <1>1, <1>4 DEF Between, w, v, r
  <2>2. frame[u] \in Sent
    BY <1>1 DEF Sent
  <2>3. Flows(w \o v, r, 0)
    BY <1>1, <2>1, <2>2, FrameFlows, FlowJoin
  <2>4. \A x \in User : Sender(x, n, s) => todo[x] = Chunks(frame[x])
    BY <1>4 DEF Between
  <2>5. QED
    BY <2>1, <2>3, <2>4
<1>5. ASSUME Within(n, m, s)
      PROVE  /\ Flows(w \o v, r, 0)
             /\ Len(v) > 1 => Len(Chunks(frame[u])) > 1
             /\ \A x \in User \ {u} : Sender(x, n, s) => todo[x] = Chunks(frame[x])
  <2>1. PICK x \in User : /\ Sender(x, n, s) /\ Len(Chunks(frame[x])) > 1
                          /\ Flows(w \o todo[x], r, 0)
    BY <1>5 DEF Within, w, r
  <2>2. x = u
    BY <1>3, <2>1
  <2>3. QED
    BY <1>3, <2>1, <2>2 DEF v
<1>6. /\ Flows(w \o v, r, 0)
      /\ Len(v) > 1 => Len(Chunks(frame[u])) > 1
      /\ \A x \in User \ {u} : Sender(x, n, s) => todo[x] = Chunks(frame[x])
  BY <1>1, <1>4, <1>5 DEF Fed
<1>7. CASE pc'[u] = "idle" /\ Len(v) = 1
  <2>1. Flows(wire'[<<n, s>>], rest'[<<m, s>>], 0)
    BY <1>1, <1>2, <1>6, <1>7
  <2>2. \A x \in User : Sender(x, n, s)' => todo'[x] = Chunks(frame'[x])
    BY <1>1, <1>6, <1>7 DEF Sender, Others
  <2>3. Between(n, m, s)' /\ 0 \in Sizes
    BY <2>1, <2>2, SizesAreNat DEF Between
  <2>4. QED
    BY <2>1, <2>3 DEF Fed
<1>8. CASE /\ pc'[u] = "write" /\ held'[u] = held[u] /\ frame'[u] = frame[u]
           /\ todo'[u] = SubSeq(v, 2, Len(v)) /\ Len(v) > 1
  <2>1. Flows(wire'[<<n, s>>] \o todo'[u], rest'[<<m, s>>], 0)
    BY <1>1, <1>2, <1>6, <1>8
  <2>2. Sender(u, n, s)' /\ Len(Chunks(frame'[u])) > 1
    BY <1>1, <1>6, <1>8 DEF Sender
  <2>3. Within(n, m, s)'
    BY <2>1, <2>2 DEF Within
  <2>4. \E t \in Sizes : Flows(wire'[<<n, s>>], rest'[<<m, s>>], t)
    BY <1>1, <1>2, <1>8, <2>1, FlowSplit
  <2>5. QED
    BY <2>3, <2>4 DEF Fed
<1>9. QED
  BY <1>7, <1>8 DEF Written, v

\* A wire is empty before its stream is opened, and nothing is missed before it is read.
LEMMA QuietStep ==
    ASSUME Shape, Ends, Leads, FramesInv, [Next]_vars
    PROVE  Quiet'
PROOF
<1>0. Typed
  BY Types
<1>0a. /\ Pieces /\ Quiet /\ Linked /\ Wires
       /\ wire \in [End -> Seq(Piece)] /\ todo \in [User -> Seq(Piece)]
       /\ rest \in [End -> Sizes]
  BY DEF FramesInv, Ends, Pieces
<1>1. ASSUME NEW n \in Node, NEW s \in Stream, HandleIncoming(n, s)
     PROVE  Quiet'
  <2>1. Handled(n, s)
    BY <1>1, <1>0, Handles DEF HandleIncoming
  <2>2. QED
    BY <2>1, <1>0a DEF Handled, Quiet
<1>2. ASSUME NEW n \in Node, NEW s \in Stream, DropIncoming(n, s)
     PROVE  Quiet'
  <2>1. UNCHANGED <<link, wire, rest>> /\ end[<<n, s>>] = "incoming"
    BY <1>2 DEF DropIncoming
  <2>2. \A x \in Node, t \in Stream :
           <<x, t>> = <<n, s>> \/ end'[<<x, t>>] = end[<<x, t>>]
    BY <1>2, <1>0 DEF DropIncoming, Typed
  <2>3. QED
    BY <2>1, <2>2, <1>0a DEF Quiet
<1>3. ASSUME NEW n \in Node, NEW s \in Stream, Read(n, s)
     PROVE  Quiet'
  <2>1. Taking(n, Other(n, s), s)
    BY <1>3, <1>0, <1>0a, ReadsOn
  <2>2. QED
    BY <2>1, <1>0a DEF Taking, Quiet, Joins, End
<1>4. ASSUME NEW n \in Node, NEW s \in Stream, Leave(n, s)
     PROVE  Quiet'
  <2>1. Left(n, s) /\ Joins(s, n, Other(n, s))
    BY <1>4, <1>0, <1>0a, LeavesOn, ReadJoins DEF Leave, ReadFails
  <2>2. ASSUME NEW x \in Node, NEW t \in Stream
        PROVE  wire'[<<x, t>>] = wire[<<x, t>>] \/ t = s
    BY <2>1, <2>2 DEF Left
  <2>3. rest'[<<n, s>>] = 0
    BY <2>1, <1>0a DEF Left, Pieces, End
  <2>4. /\ link' = link /\ link[s] # None
        /\ \A x \in Node, t \in Stream : <<x, t>> # <<n, s>> =>
              end'[<<x, t>>] = end[<<x, t>>] /\ rest'[<<x, t>>] = rest[<<x, t>>]
    BY <2>1 DEF Left, Joins
  <2>5. \A x \in Node, t \in Stream :
           \/ rest'[<<x, t>>] = 0
           \/ end'[<<x, t>>] = end[<<x, t>>] /\ rest'[<<x, t>>] = rest[<<x, t>>]
    BY <2>3, <2>4
  <2>6. ASSUME NEW x \in Node, NEW t \in Stream, link'[t] = None
        PROVE  wire'[<<x, t>>] = <<>>
    BY <2>2, <2>4, <2>6, <1>0a DEF Quiet
  <2>7. ASSUME NEW x \in Node, NEW t \in Stream, end'[<<x, t>>] # "reading"
        PROVE  rest'[<<x, t>>] = 0
    BY <2>5, <2>7, <1>0a DEF Quiet
  <2>8. QED
    BY <2>6, <2>7 DEF Quiet
<1>5. ASSUME NEW u \in User, NEW f \in Frames[u], Send(u, f)
     PROVE  Quiet'
  <2>1. UNCHANGED <<link, end, wire, rest>>
    BY <1>5 DEF Send, Called, Cached, streams, users
  <2>2. QED
    BY <2>1, <1>0, <1>0a DEF Quiet
<1>6. ASSUME NEW u \in User, Connected(u)
     PROVE  Quiet'
  <2>1. UNCHANGED <<link, end, wire, rest>>
    BY <1>6 DEF Connected, Called, Cached, streams, users
  <2>2. QED
    BY <2>1, <1>0, <1>0a DEF Quiet
<1>7. ASSUME NEW u \in User, NEW s \in Stream, NEW direct \in BOOLEAN, NewStream(u, s, direct)
     PROVE  Quiet'
  <2>0. Opened(u, s, direct)
    BY <1>7, <1>0, <1>0a, OpensOwn
  <2>1. ASSUME NEW x \in Node, NEW t \in Stream, end'[<<x, t>>] # "reading"
        PROVE  rest[<<x, t>>] = 0
    <3>1. CASE t = s
      BY <2>0, <3>1, <1>0a DEF Opened, Quiet, Linked
    <3>2. CASE t # s
      BY <2>0, <2>1, <3>2, <1>0a DEF Opened, Quiet
    <3>3. QED
      BY <3>1, <3>2
  <2>2. QED
    BY <2>0, <2>1, <1>0a DEF Opened, Quiet
<1>8. ASSUME NEW u \in User, NewStreamError(u)
     PROVE  Quiet'
  <2>1. UNCHANGED <<link, end, wire, rest>>
    BY <1>8 DEF NewStreamError, Return, streams, users
  <2>2. QED
    BY <2>1, <1>0, <1>0a DEF Quiet
<1>9. ASSUME NEW u \in User, HandleOwn(u)
     PROVE  Quiet'
  <2>1. Home[u] \in Node /\ held[u] \in Stream
    <3>1. pc[u] = "handle"
      BY <1>9 DEF HandleOwn
    <3>2. held[u] # None
      BY <3>1 DEF Ends, Handling
    <3>3. QED
      BY <3>2, <1>0 DEF Typed
  <2>2. Handled(Home[u], held[u])
    BY <1>9, <1>0, <2>1, Handles DEF HandleOwn
  <2>3. QED
    BY <2>2, <1>0a DEF Handled, Quiet
<1>10. ASSUME NEW u \in User, Look(u)
     PROVE  Quiet'
  <2>1. UNCHANGED <<link, end, wire, rest>>
    BY <1>10 DEF Look, Cached, Return, streams, users
  <2>2. QED
    BY <2>1, <1>0, <1>0a DEF Quiet
<1>11. ASSUME NEW u \in User, LookPanic(u)
     PROVE  Quiet'
  <2>1. /\ link' = link
        /\ \A x \in Node, t \in Stream :
              /\ wire'[<<x, t>>] = <<>> \/ wire'[<<x, t>>] = wire[<<x, t>>]
              /\ \/ rest'[<<x, t>>] = 0
                 \/ rest'[<<x, t>>] = rest[<<x, t>>] /\ end'[<<x, t>>] = end[<<x, t>>]
    BY <1>11 DEF LookPanic, End
  <2>2. QED
    BY <2>1, <1>0a DEF Quiet
<1>12. ASSUME NEW u \in User, Write(u)
     PROVE  Quiet'
  <2>0. Written(u)
    BY <1>12, <1>0, <1>0a, WritesOn
  <2>1. link[held[u]] # None
    BY <2>0 DEF Written, Ends, Writing
  <2>2. \A x \in Node, t \in Stream : t # held[u] => wire'[<<x, t>>] = wire[<<x, t>>]
    BY <2>0, <1>0a DEF Written, Pieces, End
  <2>3. QED
    BY <2>0, <2>1, <2>2, <1>0a DEF Written, Quiet
<1>13. ASSUME NEW u \in User, WriteError(u)
     PROVE  Quiet'
  <2>1. UNCHANGED <<link, end, wire, rest>>
    BY <1>13 DEF WriteError, Close, Return, streams, users
  <2>2. QED
    BY <2>1, <1>0, <1>0a DEF Quiet
<1>14. ASSUME NEW s \in Stream, Break(s)
     PROVE  Quiet'
  <2>1. /\ UNCHANGED <<link, end, rest>>
        /\ \A x \in Node, t \in Stream : wire'[<<x, t>>] = <<>> \/ wire'[<<x, t>>] = wire[<<x, t>>]
    BY <1>14 DEF Break, End
  <2>2. QED
    BY <2>1, <1>0a DEF Quiet
<1>15. CASE UNCHANGED vars
  BY <1>15, <1>0, <1>0a DEF vars, streams, users, Quiet
<1>16. QED
  BY <1>1, <1>2, <1>3, <1>4, <1>5, <1>6, <1>7, <1>8, <1>9, <1>10, <1>11,
    <1>12, <1>13, <1>14, <1>15 DEF Next, ReadStep, Arrive, UserStep

\* Chunks on a wire come from frames, and so does what is missed.
LEMMA PiecesStep ==
    ASSUME Shape, Ends, Leads, FramesInv, [Next]_vars
    PROVE  Pieces'
PROOF
<1>0. Typed
  BY Types
<1>0a. /\ wire \in [End -> Seq(Piece)] /\ todo \in [User -> Seq(Piece)]
       /\ rest \in [End -> Sizes]
  BY DEF FramesInv, Pieces
<1>0b. Pieces /\ Linked /\ Wires
  BY DEF FramesInv, Ends
<1>1. ASSUME NEW n \in Node, NEW s \in Stream, HandleIncoming(n, s)
     PROVE  Pieces'
  <2>1. UNCHANGED <<wire, todo, rest>>
    BY <1>1 DEF HandleIncoming, Handle, Other, streams, users
  <2>2. QED
    BY <2>1, <1>0a DEF Pieces
<1>2. ASSUME NEW n \in Node, NEW s \in Stream, DropIncoming(n, s)
     PROVE  Pieces'
  <2>1. UNCHANGED <<wire, todo, rest>>
    BY <1>2 DEF DropIncoming, streams, users
  <2>2. QED
    BY <2>1, <1>0a DEF Pieces
<1>3. ASSUME NEW n \in Node, NEW s \in Stream, Read(n, s)
     PROVE  Pieces'
  <2>1. Taking(n, Other(n, s), s)
    BY <1>3, <1>0, <1>0b, ReadsOn
  <2>2. QED
    BY <2>1, <1>0a DEF Taking, Pieces
<1>4. ASSUME NEW n \in Node, NEW s \in Stream, Leave(n, s)
     PROVE  Pieces'
  <2>1. Left(n, s)
    BY <1>4, <1>0, <1>0a, <1>0b, LeavesOn, ReadJoins DEF Leave, ReadFails
  <2>2. todo' = todo /\ 0 \in Sizes /\ <<>> \in Seq(Piece)
    BY <2>1, SizesAreNat DEF Left, users
  <2>3. wire' \in [End -> Seq(Piece)]
    BY <2>1, <2>2, <1>0a DEF Left
  <2>4. rest' \in [End -> Sizes]
    BY <2>1, <2>2, <1>0a DEF Left
  <2>5. QED
    BY <2>2, <2>3, <2>4, <1>0a DEF Pieces
<1>5. ASSUME NEW u \in User, NEW f \in Frames[u], Send(u, f)
     PROVE  Pieces'
  <2>1. Chunks(f) \in Seq(Piece)
    BY <1>0, Cut DEF Typed
  <2>2. /\ UNCHANGED <<wire, rest>>
        /\ todo' = [todo EXCEPT ![u] = Chunks(f)]
    BY <1>5 DEF Send
  <2> HIDE DEF Chunks
  <2>3. QED
    BY <2>1, <2>2, <1>0a DEF Pieces
<1>6. ASSUME NEW u \in User, Connected(u)
     PROVE  Pieces'
  <2>1. UNCHANGED <<wire, todo, rest>>
    BY <1>6 DEF Connected, Called, Cached, streams, users
  <2>2. QED
    BY <2>1, <1>0a DEF Pieces
<1>7. ASSUME NEW u \in User, NEW s \in Stream, NEW direct \in BOOLEAN, NewStream(u, s, direct)
     PROVE  Pieces'
  <2>1. UNCHANGED <<wire, todo, rest>>
    BY <1>7 DEF NewStream, streams, users
  <2>2. QED
    BY <2>1, <1>0a DEF Pieces
<1>8. ASSUME NEW u \in User, NewStreamError(u)
     PROVE  Pieces'
  <2>1. UNCHANGED <<wire, rest>> /\ todo' = [todo EXCEPT ![u] = <<>>]
    BY <1>8 DEF NewStreamError, Return
  <2>2. QED
    BY <2>1, <1>0a DEF Pieces
<1>9. ASSUME NEW u \in User, HandleOwn(u)
     PROVE  Pieces'
  <2>1. UNCHANGED <<wire, todo, rest>>
    BY <1>9 DEF HandleOwn, Handle, Other, streams, users
  <2>2. QED
    BY <2>1, <1>0a DEF Pieces
<1>10. ASSUME NEW u \in User, Look(u)
     PROVE  Pieces'
  <2>1. UNCHANGED <<wire, rest>> /\ (todo' = todo \/ todo' = [todo EXCEPT ![u] = <<>>])
    BY <1>10 DEF Look, Return
  <2>2. <<>> \in Seq(Piece)
    OBVIOUS
  <2>3. QED
    BY <2>1, <2>2, <1>0a DEF Pieces
<1>11. ASSUME NEW u \in User, LookPanic(u)
     PROVE  Pieces'
  <2>1. 0 \in Sizes /\ <<>> \in Seq(Piece)
    BY SizesAreNat
  <2>2. wire' \in [End -> Seq(Piece)]
    BY <1>11, <2>1, <1>0a DEF LookPanic
  <2>3. rest' \in [End -> Sizes]
    BY <1>11, <2>1, <1>0a DEF LookPanic
  <2>4. todo' \in [User -> Seq(Piece)]
    BY <1>11, <2>1, <1>0a DEF LookPanic
  <2>5. QED
    BY <2>2, <2>3, <2>4 DEF Pieces
<1>12. ASSUME NEW u \in User, Write(u)
     PROVE  Pieces'
  <2>0. Written(u)
    BY <1>12, <1>0, <1>0a, WritesOn
  <2>1. /\ todo[u] \in Seq(Piece) /\ todo[u] # <<>> /\ rest' = rest /\ <<>> \in Seq(Piece)
        /\ \/ todo' = [todo EXCEPT ![u] = <<>>]
           \/ todo' = [todo EXCEPT ![u] = SubSeq(todo[u], 2, Len(todo[u]))]
    BY <1>12, <2>0, <1>0a DEF Written, Write, Return
  <2>2. SubSeq(todo[u], 2, Len(todo[u])) \in Seq(Piece) /\ todo[u][1] \in Piece
    BY <2>1, FirstAndRest
  <2>3. todo' \in [User -> Seq(Piece)]
    BY <2>1, <2>2, <1>0a
  <2>4. wire' \in [End -> Seq(Piece)]
    <3> DEFINE e == <<Home[u], held[u]>>
    <3>1. wire' = wire \/ wire' = [wire EXCEPT ![e] = Append(wire[e], todo[u][1])]
      BY <2>0 DEF Written
    <3>2. e \in End
      BY <2>0, <1>0 DEF Written, Ends, Writing, Typed, End
    <3> HIDE DEF e
    <3>3. Append(wire[e], todo[u][1]) \in Seq(Piece)
      BY <2>2, <3>2, <1>0a, AppendProperties
    <3>4. QED
      BY <3>1, <3>2, <3>3, <1>0a
  <2>5. QED
    BY <2>1, <2>3, <2>4, <1>0a DEF Pieces
<1>13. ASSUME NEW u \in User, WriteError(u)
     PROVE  Pieces'
  <2>0. NotWritten(u)
    BY <1>13, <1>0, <1>0a, WritesNotOn
  <2>1. frame[u] \in Frame
    BY <2>0, <1>0 DEF NotWritten, FramesInv, Framing, Typed
  <2>2. Chunks(frame[u]) \in Seq(Piece)
    BY <2>1, Cut
  <2>3. /\ UNCHANGED <<wire, rest>>
        /\ todo' = [todo EXCEPT ![u] = Chunks(frame[u])] \/ todo' = [todo EXCEPT ![u] = <<>>]
    BY <1>13 DEF WriteError, Return
  <2>4. <<>> \in Seq(Piece)
    OBVIOUS
  <2>5. QED
    BY <2>2, <2>3, <2>4, <1>0a DEF Pieces
<1>14. ASSUME NEW s \in Stream, Break(s)
     PROVE  Pieces'
  <2>1. UNCHANGED <<todo, rest>> /\ <<>> \in Seq(Piece)
    BY <1>14 DEF Break, users
  <2>2. wire' \in [End -> Seq(Piece)]
    BY <1>14, <2>1, <1>0a DEF Break
  <2>3. QED
    BY <2>1, <2>2, <1>0a DEF Pieces
<1>15. CASE UNCHANGED vars
  BY <1>15, <1>0a DEF vars, streams, users, Pieces
<1>16. QED
  BY <1>1, <1>2, <1>3, <1>4, <1>5, <1>6, <1>7, <1>8, <1>9, <1>10, <1>11,
    <1>12, <1>13, <1>14, <1>15 DEF Next, ReadStep, Arrive, UserStep

\* A goroutine that writes nowhere, before and after its step, changes no wire.
LEMMA FedElsewhere ==
    ASSUME Wires, UNCHANGED <<link, end, shut, wire, rest>>, NEW u \in User, Others(u),
           pc[u] # "write", pc'[u] # "write"
    PROVE  Wires'
<1> SUFFICES ASSUME NEW t \in Stream, NEW x \in Node, NEW y \in Node,
                    Joins(t, x, y)', end'[<<y, t>>] # "gone"
             PROVE  Fed(x, y, t)'
  BY DEF Wires
<1>1. Joins(t, x, y) /\ Fed(x, y, t) /\ (Closed(x, t)' <=> Closed(x, t))
  BY DEF Joins, Wires, Closed
<1>2. \A v \in User : /\ Sender(v, x, t)' <=> Sender(v, x, t)
                      /\ Sender(v, x, t) => todo'[v] = todo[v] /\ frame'[v] = frame[v]
  BY DEF Sender, Others
<1>3. QED
  BY <1>1, <1>2, FedKept

\* Neither does one that begins to write what it has, all of it, to the cached stream.
LEMMA FedBegun ==
    ASSUME Unshared, Typed, Linked, Framing, Toward, Leads, Wires,
           UNCHANGED <<link, end, shut, wire, rest>>, NEW u \in User, Others(u),
           pc[u] # "write", cache[<<Home[u], Peer[u]>>] # None,
           held'[u] = cache[<<Home[u], Peer[u]>>],
           todo'[u] = Chunks(frame'[u]), Frames[u] # {}
    PROVE  Wires'
<1> SUFFICES ASSUME NEW t \in Stream, NEW x \in Node, NEW y \in Node,
                    Joins(t, x, y)', end'[<<y, t>>] # "gone"
             PROVE  Fed(x, y, t)'
  BY DEF Wires
<1>1. Joins(t, x, y) /\ Fed(x, y, t) /\ (Closed(x, t)' <=> Closed(x, t))
  BY DEF Joins, Wires, Closed
<1>2. CASE t = held'[u] /\ x = Home[u]
  <2>1. Joins(t, x, Peer[u])
    BY <1>2, CachedJoins
  <2>2. QED
    BY <1>1, <1>2, <2>1, FedJoined
<1>3. CASE ~(t = held'[u] /\ x = Home[u])
  <2>1. \A v \in User : /\ Sender(v, x, t)' <=> Sender(v, x, t)
                        /\ Sender(v, x, t) => todo'[v] = todo[v] /\ frame'[v] = frame[v]
    BY <1>3 DEF Sender, Others
  <2>2. QED
    BY <1>1, <2>1, FedKept
<1>4. QED
  BY <1>2, <1>3

\* What is on a wire, and what is still to be written, fits its reader.
LEMMA WiresStep ==
    ASSUME Unshared, Shape, Ends, Leads, FramesInv, Pieces', [Next]_vars
    PROVE  Wires'
PROOF
<1>0. Typed
  BY Types
<1>0a. /\ Unshared /\ Pieces /\ Pieces' /\ Sides /\ Quiet /\ Framing /\ Toward /\ Wires
       /\ Linked /\ Handling /\ Writing /\ Leads
       /\ wire \in [End -> Seq(Piece)] /\ todo \in [User -> Seq(Piece)]
       /\ rest \in [End -> Sizes]
  BY DEF FramesInv, Ends, Pieces
<1>1. ASSUME NEW n \in Node, NEW s \in Stream, HandleIncoming(n, s)
     PROVE  Wires'
  <2> SUFFICES ASSUME NEW t \in Stream, NEW x \in Node, NEW y \in Node,
                      Joins(t, x, y)', end'[<<y, t>>] # "gone"
               PROVE  Fed(x, y, t)'
    BY DEF Wires
  <2>1. Handled(n, s) /\ UNCHANGED users /\ end[<<n, s>>] = "incoming"
    BY <1>1, <1>0, Handles DEF HandleIncoming
  <2>2. /\ Joins(t, x, y) /\ end[<<y, t>>] # "gone" /\ (Closed(x, t)' <=> Closed(x, t))
        /\ wire' = wire /\ rest' = rest
    BY <2>1 DEF Handled, Joins, Closed
  <2>3. QED
    BY <2>1, <2>2, <1>0a, FedKept DEF Wires, Sender, users
<1>2. ASSUME NEW n \in Node, NEW s \in Stream, DropIncoming(n, s)
     PROVE  Wires'
  <2> SUFFICES ASSUME NEW t \in Stream, NEW x \in Node, NEW y \in Node,
                      Joins(t, x, y)', end'[<<y, t>>] # "gone"
               PROVE  Fed(x, y, t)'
    BY DEF Wires
  <2>1. /\ UNCHANGED <<link, wire, rest, users>> /\ end'[<<n, s>>] = "gone"
        /\ \A a \in Node, b \in Stream : <<a, b>> # <<n, s>> =>
              /\ end'[<<a, b>>] = end[<<a, b>>]
              /\ <<a, b>> \in shut' <=> <<a, b>> \in shut
    BY <1>2, <1>0 DEF DropIncoming, Typed
  <2>2. Joins(t, x, y) /\ <<y, t>> # <<n, s>> /\ end[<<y, t>>] # "gone"
    BY <2>1 DEF Joins
  <2>3. Closed(x, t)' \/ (Closed(x, t)' <=> Closed(x, t))
    BY <2>1 DEF Closed
  <2>4. QED
    BY <2>1, <2>2, <2>3, <1>0a, FedKept DEF Wires, Sender, users
<1>3. ASSUME NEW n \in Node, NEW s \in Stream, Read(n, s)
     PROVE  Wires'
  <2> SUFFICES ASSUME NEW t \in Stream, NEW x \in Node, NEW y \in Node,
                      Joins(t, x, y)', end'[<<y, t>>] # "gone"
               PROVE  Fed(x, y, t)'
    BY DEF Wires
  <2> DEFINE m == Other(n, s)
  <2>1. Taking(n, m, s) /\ m \in Node /\ Joins(s, n, m)
    BY <1>3, <1>0, <1>0a, ReadsOn DEF Taking
  <2> HIDE DEF m
  <2>2. Joins(t, x, y) /\ end[<<y, t>>] # "gone" /\ Fed(x, y, t)
    BY <2>1, <1>0a DEF Taking, Joins, Wires
  <2>3. CASE t = s /\ x = m
    <3>1. y = n
      BY <2>1, <2>2, <2>3, <1>0a DEF Joins, Linked
    <3>2. QED
      BY <2>1, <2>2, <2>3, <3>1, <1>0a, FedRead
  <2>4. CASE ~(t = s /\ x = m)
    <3>1. ~(t = s /\ y = n)
      BY <2>1, <2>2, <2>4, <1>0a DEF Joins, Linked
    <3>2. wire'[<<x, t>>] = wire[<<x, t>>] /\ rest'[<<y, t>>] = rest[<<y, t>>]
      BY <2>1, <2>4, <3>1 DEF Taking, End
    <3>3. UNCHANGED <<end, shut, pc, held, todo, frame>>
      BY <2>1 DEF Taking
    <3>4. QED
      BY <2>2, <3>2, <3>3, FedKept DEF Sender, Closed
  <2>5. QED
    BY <2>3, <2>4
<1>4. ASSUME NEW n \in Node, NEW s \in Stream, Leave(n, s)
     PROVE  Wires'
  <2> SUFFICES ASSUME NEW t \in Stream, NEW x \in Node, NEW y \in Node,
                      Joins(t, x, y)', end'[<<y, t>>] # "gone"
               PROVE  Fed(x, y, t)'
    BY DEF Wires
  <2> DEFINE m == Other(n, s)
  <2>1. Left(n, s) /\ Joins(s, n, m) /\ m \in Node /\ <<n, s>> \in End
    BY <1>4, <1>0, <1>0a, LeavesOn, ReadJoins DEF Leave, ReadFails, End
  <2> HIDE DEF m
  <2>2. Joins(t, x, y) /\ <<y, t>> # <<n, s>> /\ end[<<y, t>>] # "gone" /\ Fed(x, y, t)
    BY <2>1, <1>0a DEF Left, Joins, Wires
  <2>3. ~(t = s /\ x = m)
    BY <2>1, <2>2, <1>0a DEF Joins, Linked
  <2>4. wire'[<<x, t>>] = wire[<<x, t>>] /\ rest'[<<y, t>>] = rest[<<y, t>>]
    BY <2>1, <2>2, <2>3 DEF Left, m
  <2>5. Closed(x, t)' \/ (Closed(x, t)' <=> Closed(x, t))
    BY <2>1 DEF Left, Closed
  <2>6. UNCHANGED <<pc, held, todo, frame>>
    BY <2>1 DEF Left, users
  <2>7. QED
    BY <2>2, <2>4, <2>5, <2>6, FedKept DEF Sender
<1>5. ASSUME NEW u \in User, NEW f \in Frames[u], Send(u, f)
     PROVE  Wires'
  <2>0. Begun(u, f)
    BY <1>5, <1>0, <1>0a, Sends
  <2>1. pc[u] # "write" /\ UNCHANGED <<link, end, shut, wire, rest>> /\ Others(u)
    BY <2>0 DEF Begun
  <2>2. CASE pc'[u] # "write"
    BY <2>1, <2>2, <1>0a, FedElsewhere
  <2>3. CASE pc'[u] = "write"
    <3>1. /\ held'[u] = cache[<<Home[u], Peer[u]>>] /\ cache[<<Home[u], Peer[u]>>] # None
          /\ todo'[u] = Chunks(frame'[u]) /\ Frames[u] # {}
      BY <2>0, <2>3 DEF Begun
    <3>2. QED
      BY <2>1, <3>1, <1>0, <1>0a, FedBegun
  <2>4. QED
    BY <2>2, <2>3
<1>6. ASSUME NEW u \in User, Connected(u)
     PROVE  Wires'
  <2>1. /\ UNCHANGED <<link, end, shut, wire, rest>>
        /\ pc[u] # "write" /\ pc'[u] # "write" /\ Others(u)
    BY <1>6, <1>0 DEF Connected, streams, Others, Typed
  <2>2. QED
    BY <2>1, <1>0a, FedElsewhere
<1>7. ASSUME NEW u \in User, NEW s \in Stream, NEW direct \in BOOLEAN, NewStream(u, s, direct)
     PROVE  Wires'
  <2> SUFFICES ASSUME NEW t \in Stream, NEW x \in Node, NEW y \in Node,
                      Joins(t, x, y)', end'[<<y, t>>] # "gone"
               PROVE  Fed(x, y, t)'
    BY DEF Wires
  <2>0. Opened(u, s, direct)
    BY <1>7, <1>0, <1>0a, OpensOwn
  <2>1. UNCHANGED <<wire, rest, shut>> /\ \A v \in User : pc'[v] = "write" =>
              v # u /\ pc[v] = "write" /\ held'[v] = held[v] /\ held[v] # s
    <3>1. UNCHANGED <<wire, rest, shut>> /\ pc'[u] = "handle" /\ Others(u) /\ link[s] = None
      BY <2>0 DEF Opened
    <3>2. \A v \in User : pc'[v] = "write" => v # u /\ pc[v] = "write" /\ held'[v] = held[v]
      BY <3>1 DEF Others
    <3>3. \A v \in User : pc[v] = "write" => held[v] # s
      BY <3>1, <1>0a DEF Writing
    <3>4. QED
      BY <3>1, <3>2, <3>3
  <2>2. CASE t = s
    <3>1. link[s] = None /\ wire[<<x, s>>] = <<>>
      BY <2>0, <1>0a DEF Opened, Quiet
    <3>2. end[<<y, s>>] = "none" /\ rest[<<y, s>>] = 0
      BY <3>1, <1>0a DEF Linked, Quiet
    <3>3. \A v \in User : ~Sender(v, x, s)'
      BY <2>1 DEF Sender
    <3>4. QED
      BY <2>1, <2>2, <3>1, <3>2, <3>3, FedEmpty
  <2>3. CASE t # s
    <3>1. Joins(t, x, y) /\ end[<<y, t>>] # "gone" /\ (Closed(x, t)' <=> Closed(x, t))
      BY <2>0, <2>3 DEF Opened, Joins, Closed
    <3>2. \A v \in User : /\ Sender(v, x, t)' <=> Sender(v, x, t)
                          /\ Sender(v, x, t) => todo'[v] = todo[v] /\ frame'[v] = frame[v]
      BY <2>0, <2>3 DEF Opened, Others, Sender
    <3>3. QED
      BY <2>1, <3>1, <3>2, <1>0a, FedKept DEF Wires
  <2>4. QED
    BY <2>2, <2>3
<1>8. ASSUME NEW u \in User, NewStreamError(u)
     PROVE  Wires'
  <2>1. /\ UNCHANGED <<link, end, shut, wire, rest>>
        /\ pc[u] # "write" /\ pc'[u] # "write" /\ Others(u)
    BY <1>8, <1>0 DEF NewStreamError, Return, streams, Others, Typed
  <2>2. QED
    BY <2>1, <1>0a, FedElsewhere
<1>9. ASSUME NEW u \in User, HandleOwn(u)
     PROVE  Wires'
  <2> SUFFICES ASSUME NEW t \in Stream, NEW x \in Node, NEW y \in Node,
                      Joins(t, x, y)', end'[<<y, t>>] # "gone"
               PROVE  Fed(x, y, t)'
    BY DEF Wires
  <2>1. pc[u] = "handle" /\ Home[u] \in Node
    BY <1>9, <1>0 DEF HandleOwn, Typed
  <2>2. held[u] # None /\ end[<<Home[u], held[u]>>] = "opened" /\ held[u] \in Stream
    BY <2>1, <1>0, <1>0a DEF Handling, Typed
  <2>3. Handled(Home[u], held[u])
    BY <1>9, <2>1, <2>2, <1>0, Handles DEF HandleOwn
  <2>4. /\ Joins(t, x, y) /\ end[<<y, t>>] # "gone" /\ (Closed(x, t)' <=> Closed(x, t))
        /\ wire' = wire /\ rest' = rest
    BY <2>2, <2>3 DEF Handled, Joins, Closed
  <2>5. UNCHANGED <<held, frame, todo>> /\ pc' = [pc EXCEPT ![u] = "look"]
    BY <1>9 DEF HandleOwn
  <2>6. \A v \in User : Sender(v, x, t)' <=> Sender(v, x, t)
    BY <2>1, <2>5, <1>0 DEF Sender, Typed
  <2>7. QED
    BY <2>4, <2>5, <2>6, <1>0a, FedKept DEF Wires
<1>10. ASSUME NEW u \in User, Look(u)
     PROVE  Wires'
  <2>0. Looked(u)
    BY <1>10, <1>0, <1>0a, LooksOn
  <2>1. pc[u] # "write" /\ UNCHANGED <<link, end, shut, wire, rest>> /\ Others(u)
    BY <2>0 DEF Looked
  <2>2. CASE pc'[u] # "write"
    BY <2>1, <2>2, <1>0a, FedElsewhere
  <2>3. CASE pc'[u] = "write"
    <3>1. /\ held'[u] = cache[<<Home[u], Peer[u]>>] /\ cache[<<Home[u], Peer[u]>>] # None
          /\ pc[u] = "look" /\ frame[u] # None
          /\ frame'[u] = frame[u] /\ todo'[u] = todo[u]
      BY <2>0, <2>3 DEF Looked
    <3>2. todo'[u] = Chunks(frame'[u]) /\ Frames[u] # {}
      BY <3>1, <1>0a DEF Framing
    <3>3. QED
      BY <2>1, <3>1, <3>2, <1>0, <1>0a, FedBegun
  <2>4. QED
    BY <2>2, <2>3
<1>11. ASSUME NEW u \in User, LookPanic(u)
     PROVE  Wires'
  <2> SUFFICES ASSUME NEW t \in Stream, NEW x \in Node, NEW y \in Node,
                      Joins(t, x, y)', end'[<<y, t>>] # "gone"
               PROVE  Fed(x, y, t)'
    BY DEF Wires
  <2> DEFINE h == Home[u]
  <2>1. h \in Node
    BY <1>0 DEF Typed
  <2>2. /\ link' = link /\ Joins(t, x, y)
        /\ x = h \/ y = h => end'[<<h, t>>] = "gone" /\ wire'[<<x, t>>] = <<>>
        /\ x # h /\ y # h =>
              /\ wire'[<<x, t>>] = wire[<<x, t>>] /\ rest'[<<y, t>>] = rest[<<y, t>>]
              /\ end'[<<x, t>>] = end[<<x, t>>] /\ end'[<<y, t>>] = end[<<y, t>>]
              /\ <<x, t>> \in shut' <=> <<x, t>> \in shut
    BY <1>11, <2>1, SMTT(30) DEF LookPanic, Joins, End
  <2>3. \A v \in User : Home[v] # h =>
           pc'[v] = pc[v] /\ held'[v] = held[v] /\ todo'[v] = todo[v] /\ frame'[v] = frame[v]
    BY <1>11 DEF LookPanic
  <2> HIDE DEF h
  <2>4. CASE x = h \/ y = h
    BY <2>2, <2>4, <1>0a, FedEmpty DEF Closed
  <2>5. CASE x # h /\ y # h
    <3>1. Fed(x, y, t) /\ (Closed(x, t)' <=> Closed(x, t))
      BY <2>2, <2>5, <1>0a DEF Wires, Closed
    <3>2. \A v \in User : /\ Sender(v, x, t)' <=> Sender(v, x, t)
                          /\ Sender(v, x, t) => todo'[v] = todo[v] /\ frame'[v] = frame[v]
      <4>1. \A v \in User : Home[v] = x \/ (~Sender(v, x, t) /\ ~Sender(v, x, t)')
        BY DEF Sender
      <4>2. QED
        BY <2>3, <2>5, <4>1 DEF Sender
    <3>3. QED
      BY <2>2, <2>5, <3>1, <3>2, FedKept
  <2>6. QED
    BY <2>4, <2>5
<1>12. ASSUME NEW u \in User, Write(u)
     PROVE  Wires'
  <2> SUFFICES ASSUME NEW t \in Stream, NEW x \in Node, NEW y \in Node,
                      Joins(t, x, y)', end'[<<y, t>>] # "gone"
               PROVE  Fed(x, y, t)'
    BY DEF Wires
  <2>0. Written(u)
    BY <1>12, <1>0, <1>0a, WritesOn
  <2>1. /\ Joins(held[u], Home[u], Peer[u]) /\ held[u] \in Stream
        /\ Other(Home[u], held[u]) = Peer[u]
    <3>1. Joins(held[u], Home[u], Peer[u]) /\ held[u] # None
      BY <2>0, <1>0a DEF Written, Toward, Writing
    <3>2. held[u] \in Stream
      BY <3>1, <1>0 DEF Typed
    <3>3. QED
      BY <3>1, <3>2, <1>0a DEF Joins, Other, Linked
  <2>2. Joins(t, x, y) /\ end[<<y, t>>] # "gone" /\ Fed(x, y, t)
    BY <2>0, <1>0a DEF Written, Joins, Wires
  <2>3. CASE t = held[u] /\ x = Home[u]
    <3>1. y = Peer[u]
      BY <2>1, <2>2, <2>3, <1>0a DEF Joins, Linked
    <3>2. wire'[<<x, t>>] = Append(wire[<<x, t>>], todo[u][1])
      BY <2>0, <2>1, <2>2, <2>3, <3>1, <1>0a DEF Written, End
    <3>3. QED
      BY <2>0, <2>2, <2>3, <3>1, <3>2, <1>0, <1>0a, FedWritten
  <2>4. CASE ~(t = held[u] /\ x = Home[u])
    <3>1. wire'[<<x, t>>] = wire[<<x, t>>] /\ rest' = rest
      BY <2>0, <2>4, <1>0a DEF Written, End
    <3>2. \A v \in User : /\ Sender(v, x, t)' <=> Sender(v, x, t)
                          /\ Sender(v, x, t) => todo'[v] = todo[v] /\ frame'[v] = frame[v]
      BY <2>0, <2>4 DEF Written, Others, Sender
    <3>3. Closed(x, t)' <=> Closed(x, t)
      BY <2>0 DEF Written, Closed
    <3>4. QED
      BY <2>2, <3>1, <3>2, <3>3, FedKept
  <2>5. QED
    BY <2>3, <2>4
<1>13. ASSUME NEW u \in User, WriteError(u)
     PROVE  Wires'
  <2> SUFFICES ASSUME NEW t \in Stream, NEW x \in Node, NEW y \in Node,
                      Joins(t, x, y)', end'[<<y, t>>] # "gone"
               PROVE  Fed(x, y, t)'
    BY DEF Wires
  <2>0. NotWritten(u)
    BY <1>13, <1>0, <1>0a, WritesNotOn
  <2>1. /\ Joins(t, x, y) /\ Fed(x, y, t) /\ wire' = wire /\ rest' = rest
    BY <2>0, <1>0a DEF NotWritten, Joins, Wires
  <2>2. CASE t = held[u] /\ x = Home[u]
    <3>1. Closed(x, t)'
      BY <2>0, <2>2 DEF NotWritten, Closed
    <3>2. QED
      BY <2>1, <3>1, FedKept
  <2>3. CASE ~(t = held[u] /\ x = Home[u])
    <3>1. \A v \in User : /\ Sender(v, x, t)' <=> Sender(v, x, t)
                          /\ Sender(v, x, t) => todo'[v] = todo[v] /\ frame'[v] = frame[v]
      BY <2>0, <2>3 DEF NotWritten, Others, Sender
    <3>2. Closed(x, t)' <=> Closed(x, t)
      BY <2>0, <2>3 DEF NotWritten, Closed
    <3>3. QED
      BY <2>1, <3>1, <3>2, FedKept
  <2>4. QED
    BY <2>2, <2>3
<1>14. ASSUME NEW s \in Stream, Break(s)
     PROVE  Wires'
  <2> SUFFICES ASSUME NEW t \in Stream, NEW x \in Node, NEW y \in Node,
                      Joins(t, x, y)', end'[<<y, t>>] # "gone"
               PROVE  Fed(x, y, t)'
    BY DEF Wires
  <2>1. /\ UNCHANGED <<link, end, rest, users>>
        /\ t = s => /\ wire'[<<x, t>>] = <<>>
                    /\ end[<<x, t>>] \notin {"none", "gone"} => <<x, t>> \in shut'
        /\ t # s => /\ wire'[<<x, t>>] = wire[<<x, t>>]
                    /\ <<x, t>> \in shut' <=> <<x, t>> \in shut
    BY <1>14 DEF Break, End
  <2>2. Joins(t, x, y) /\ end[<<y, t>>] # "gone" /\ Fed(x, y, t)
    BY <2>1, <1>0a DEF Joins, Wires
  <2>3. CASE t = s
    <3>1. end[<<x, t>>] # "none"
      BY <2>2, <1>0a DEF Joins, Sides
    <3>2. Closed(x, t)'
      BY <2>1, <2>3, <3>1 DEF Closed
    <3>3. QED
      BY <2>1, <2>3, <3>2, <1>0a, FedEmpty
  <2>4. CASE t # s
    BY <2>1, <2>2, <2>4, FedKept DEF Closed, Sender, users
  <2>5. QED
    BY <2>3, <2>4
<1>15. CASE UNCHANGED vars
  <2> SUFFICES ASSUME NEW t \in Stream, NEW x \in Node, NEW y \in Node,
                      Joins(t, x, y)', end'[<<y, t>>] # "gone"
               PROVE  Fed(x, y, t)'
    BY DEF Wires
  <2>1. UNCHANGED <<link, end, shut, wire, rest, pc, held, todo, frame>>
    BY <1>15 DEF vars, streams, users
  <2>2. Joins(t, x, y) /\ end[<<y, t>>] # "gone" /\ (Closed(x, t)' <=> Closed(x, t))
    BY <2>1 DEF Joins, Closed
  <2>3. QED
    BY <2>1, <2>2, <1>0a, FedKept DEF Wires, Sender
<1>16. QED
  BY <1>1, <1>2, <1>3, <1>4, <1>5, <1>6, <1>7, <1>8, <1>9, <1>10, <1>11,
    <1>12, <1>13, <1>14, <1>15 DEF Next, ReadStep, Arrive, UserStep

-----------------------------------------------------------------------------
(* The theorems about frames *)

\* Nothing is on a wire in the beginning.
LEMMA FramesInitially == Init => FramesInv
<1> SUFFICES ASSUME Init PROVE FramesInv
  OBVIOUS
<1>1. /\ link = [s \in Stream |-> None]
      /\ end = [e \in Node \X Stream |-> "none"] /\ shut = {}
      /\ wire = [e \in End |-> <<>>] /\ rest = [e \in End |-> 0]
      /\ pc = [u \in User |-> "idle"] /\ frame = [u \in User |-> None]
      /\ todo = [u \in User |-> <<>>]
  BY DEF Init, End
<1>2. <<>> \in Seq(Piece) /\ 0 \in Sizes
  BY SizesAreNat
<1>3. Pieces
  BY <1>1, <1>2 DEF Pieces
<1>4. Sides /\ Quiet /\ Toward
  BY <1>1 DEF Sides, Quiet, Toward, End
<1>5. Framing
  BY <1>1 DEF Framing
<1>6. Wires
  BY <1>1 DEF Wires, Joins
<1>7. QED
  BY <1>3, <1>4, <1>5, <1>6 DEF FramesInv

\* Where no frame of several chunks shares a stream, every wire goes on with what its
\* reader expects.
THEOREM FramesInvariant == ASSUME Unshared PROVE Spec => []FramesInv
<1>1. Inv /\ FramesInv /\ [Next]_vars => FramesInv'
  <2> SUFFICES ASSUME Inv, FramesInv, [Next]_vars PROVE FramesInv'
    OBVIOUS
  <2>1. /\ Shape /\ Ends /\ Leads
        /\ Pieces /\ Sides /\ Framing /\ Toward /\ todo \in [User -> Seq(Piece)]
    BY DEF Inv, FramesInv, Pieces
  <2>2. Pieces'
    BY <2>1, PiecesStep
  <2>3. Sides' /\ Quiet' /\ Framing' /\ Toward'
    BY <2>1, SidesStep, QuietStep, FramingStep, TowardStep
  <2>4. Wires'
    BY <2>1, <2>2, WiresStep
  <2>5. QED
    BY <2>2, <2>3, <2>4 DEF FramesInv
<1>2. QED
  BY <1>1, FramesInitially, Invariant, PTL DEF Spec

\* The next chunk is always one that the reader expects, whatever write failed before
\* and wherever the frame was sent again.
THEOREM FramesArriveWhole == ASSUME Unshared PROVE Spec => []FramesWhole
<1>1. Inv /\ FramesInv => FramesWhole
  <2> SUFFICES ASSUME Inv, FramesInv,
                      NEW s \in Stream, link[s] # None,
                      NEW n \in {link[s].from, link[s].to},
                      end[<<n, s>>] = "reading", wire[<<Other(n, s), s>>] # <<>>
               PROVE  Fits(rest[<<n, s>>], wire[<<Other(n, s), s>>][1])
    BY DEF FramesWhole
  <2>1. Typed /\ Linked /\ Pieces /\ Wires
    BY Types DEF Inv, Ends, FramesInv
  <2>2. n \in Node
    BY <2>1 DEF Typed
  <2>3. Other(n, s) \in Node /\ Joins(s, Other(n, s), n)
    BY <2>1, <2>2, ReadJoins
  <2>4. Fed(Other(n, s), n, s) /\ <<Other(n, s), s>> \in End
    BY <2>1, <2>2, <2>3 DEF Wires, End
  <2>5. /\ \E t \in Sizes : Flows(wire[<<Other(n, s), s>>], rest[<<n, s>>], t)
        /\ wire[<<Other(n, s), s>>] \in Seq(Piece)
    BY <2>1, <2>4 DEF Fed, Pieces
  <2>6. QED
    BY <2>5, FlowFirst
<1>2. QED
  BY <1>1, FramesInvariant, Invariant, PTL

\* Then no reader ever misses less than nothing, either.
THEOREM TypesAreKept == ASSUME Unshared PROVE Spec => []TypeOK
<1>1. Inv /\ FramesInv => TypeOK
  <2> SUFFICES ASSUME Inv, FramesInv PROVE TypeOK
    OBVIOUS
  <2>1. Shape /\ rest \in [End -> Sizes]
    BY DEF Inv, FramesInv, Pieces
  <2>2. rest \in [End -> Nat]
    BY <2>1, SizesAreNat
  <2>3. QED
    BY <2>1, <2>2 DEF TypeOK
<1>2. QED
  BY <1>1, FramesInvariant, Invariant, PTL

-----------------------------------------------------------------------------
(* Crossing streams *)

\* Two relayed streams that cross: one opened by n to m, the other by m to n.
Crossing(n, m, s, t) ==
    /\ link[s].from = n /\ link[s].to = m /\ ~link[s].direct
    /\ link[t].from = m /\ link[t].to = n /\ ~link[t].direct

\* What is in the cache of a node that has handled the stream s after the stream old.
KeptOf(n, old, s) == IF Wins(n, s, old) THEN s ELSE old

\* Both ends of two relayed streams that cross keep the same one, that of the node
\* with the smaller id, whichever of the two either end handles first: the rule of
\* handle is symmetric.
THEOREM TieBreakAgrees ==
    ASSUME NEW n \in Node, NEW m \in Node, n # m, NEW s \in Stream, NEW t \in Stream,
           Crossing(n, m, s, t)
    PROVE  /\ KeptOf(n, s, t) = IF n < m THEN s ELSE t
           /\ KeptOf(n, t, s) = IF n < m THEN s ELSE t
           /\ KeptOf(m, s, t) = IF n < m THEN s ELSE t
           /\ KeptOf(m, t, s) = IF n < m THEN s ELSE t
<1>1. n \in Nat /\ m \in Nat /\ s # None /\ t # None
  BY NodeAssumption, NobodyAssumption
<1>2. /\ Other(n, s) = m /\ Other(m, s) = n /\ Other(n, t) = m /\ Other(m, t) = n
      /\ ~Inbound(n, s) /\ Inbound(m, s) /\ Inbound(n, t) /\ ~Inbound(m, t)
  BY DEF Crossing, Other, Inbound
<1>3. ~link[s].direct /\ ~link[t].direct
  BY DEF Crossing
<1>4. /\ Wins(n, s, t) <=> n < m
      /\ Wins(n, t, s) <=> m < n
  BY <1>1, <1>2, <1>3 DEF Wins
<1>5. /\ Wins(m, s, t) <=> n < m
      /\ Wins(m, t, s) <=> m < n
  BY <1>1, <1>2, <1>3 DEF Wins
<1>6. QED
  BY <1>1, <1>4, <1>5 DEF KeptOf

-----------------------------------------------------------------------------
(* Steps of a cache *)

\* What a panic at the node h leaves to the others.
Panicked(h) ==
    /\ UNCHANGED <<world, link>>
    /\ \A x \in Node \ {h}, t \in Stream :
          end'[<<x, t>>] = end[<<x, t>>] /\ (<<x, t>> \in shut => <<x, t>> \in shut')
    /\ \A t \in Stream :
          IF link[t] # None /\ (link[t].from = h \/ link[t].to = h)
          THEN end'[<<h, t>>] = "gone" ELSE end'[<<h, t>>] = end[<<h, t>>]
    /\ \A x, y \in Node : cache'[<<x, y>>] = IF x = h THEN None ELSE cache[<<x, y>>]
    /\ \A v \in User :
          IF Home[v] = h THEN pc'[v] = "idle" /\ frame'[v] = None
          ELSE pc'[v] = pc[v] /\ held'[v] = held[v] /\ frame'[v] = frame[v]

\* So it is, for every such step.
LEMMA Panics == ASSUME Typed, NEW u \in User, LookPanic(u) PROVE Panicked(Home[u])
<1>1. Home[u] \in Node
  BY DEF Typed
<1>2. QED
  BY <1>1 DEF LookPanic, Panicked, End

\* handle chooses between the new stream and the cached one.
Chosen(n, m, s) ==
    /\ m \in Node /\ m # n /\ Joins(s, n, m) /\ Other(n, s) = m
    /\ IF Wins(n, s, cache[<<n, m>>]) THEN cache'[<<n, m>>] = s
       ELSE cache'[<<n, m>>] = cache[<<n, m>>]
    /\ \A x, y \in Node : <<x, y>> # <<n, m>> => cache'[<<x, y>>] = cache[<<x, y>>]

\* So it is, for every such step.
LEMMA Chooses ==
    ASSUME Typed, Linked, NEW n \in Node, NEW s \in Stream, Handle(n, s), end[<<n, s>>] # "none"
    PROVE  Chosen(n, Other(n, s), s)
<1>1. /\ Other(n, s) \in Node /\ Joins(s, n, Other(n, s)) /\ Other(n, s) # n
  BY ReadJoins
<1>2. cache' = IF Wins(n, s, cache[<<n, Other(n, s)>>])
               THEN [cache EXCEPT ![<<n, Other(n, s)>>] = s] ELSE cache
  BY DEF Handle
<1>3. QED
  BY <1>1, <1>2 DEF Chosen, Typed

\* A goroutine handles the stream that it opened.
LEMMA HandlesOwn ==
    ASSUME Typed, Linked, Handling, NEW u \in User, HandleOwn(u)
    PROVE  /\ Handled(Home[u], held[u]) /\ Chosen(Home[u], Peer[u], held[u])
           /\ Home[u] \in Node /\ Peer[u] \in Node /\ held[u] \in Stream /\ pc[u] = "handle"
           /\ end[<<Home[u], held[u]>>] = "opened"
           /\ link[held[u]].from = Home[u] /\ link[held[u]].to = Peer[u]
           /\ UNCHANGED <<held, frame>> /\ pc' = [pc EXCEPT ![u] = "look"]
<1>1. pc[u] = "handle" /\ Handle(Home[u], held[u]) /\ UNCHANGED <<held, frame>>
      /\ pc' = [pc EXCEPT ![u] = "look"]
  BY DEF HandleOwn
<1>2. /\ held[u] # None /\ link[held[u]] # None
      /\ end[<<Home[u], held[u]>>] = "opened"
      /\ link[held[u]].from = Home[u] /\ link[held[u]].to = Peer[u]
  BY <1>1 DEF Handling
<1>3. Home[u] \in Node /\ Peer[u] \in Node /\ held[u] \in Stream
  BY <1>2 DEF Typed
<1>4. Other(Home[u], held[u]) = Peer[u]
  BY <1>2 DEF Other
<1>5. Chosen(Home[u], Peer[u], held[u])
  BY <1>1, <1>2, <1>3, <1>4, Chooses
<1>6. Handled(Home[u], held[u])
  BY <1>1, <1>3, Handles
<1>7. QED
  BY <1>1, <1>2, <1>3, <1>5, <1>6

\* A stream that is opened was at no end, and is read at none.
LEMMA OpenedUnread ==
    ASSUME Typed, Linked, NEW u \in User, NEW s \in Stream, NEW direct \in BOOLEAN,
           Opened(u, s, direct)
    PROVE  \A x \in Node : end[<<x, s>>] = "none" /\ end'[<<x, s>>] # "reading"
<1>1. link[s] = None /\ end'[<<Home[u], s>>] = "opened" /\ end'[<<Peer[u], s>>] = "incoming"
  BY DEF Opened
<1>2. \A x \in Node \ {Home[u], Peer[u]} : end'[<<x, s>>] = end[<<x, s>>]
  BY DEF Opened
<1>3. \A x \in Node : end[<<x, s>>] = "none"
  BY <1>1 DEF Linked
<1> TAKE x \in Node
<1>4. CASE x = Home[u]
  BY <1>1, <1>3, <1>4
<1>5. CASE x = Peer[u]
  BY <1>1, <1>3, <1>5
<1>6. CASE x \notin {Home[u], Peer[u]}
  BY <1>2, <1>3, <1>6
<1>7. QED
  BY <1>4, <1>5, <1>6

\* An end that is closed stays closed.
LEMMA ClosedStays ==
    ASSUME Shape, Ends, Sides, [Next]_vars
    PROVE  \A x \in Node, t \in Stream : Closed(x, t) => Closed(x, t)'
PROOF
<1>0. Typed
  BY Types
<1>0a. Linked /\ Sides /\ Handling
  BY DEF Ends
<1>1. ASSUME NEW n \in Node, NEW s \in Stream, HandleIncoming(n, s)
     PROVE  \A x \in Node, t \in Stream : Closed(x, t) => Closed(x, t)'
  <2>1. Handled(n, s) /\ end[<<n, s>>] = "incoming"
    BY <1>1, <1>0, Handles DEF HandleIncoming
  <2>2. QED
    BY <2>1 DEF Handled, Closed
<1>2. ASSUME NEW n \in Node, NEW s \in Stream, DropIncoming(n, s)
     PROVE  \A x \in Node, t \in Stream : Closed(x, t) => Closed(x, t)'
  BY <1>2, <1>0 DEF DropIncoming, streams, users, Closed, Typed
<1>3. ASSUME NEW n \in Node, NEW s \in Stream, Read(n, s)
     PROVE  \A x \in Node, t \in Stream : Closed(x, t) => Closed(x, t)'
  <2>1. UNCHANGED <<end, shut>>
    BY <1>3 DEF Read, streams, users
  <2>2. QED
    BY <2>1, <1>0 DEF Closed, Typed
<1>4. ASSUME NEW n \in Node, NEW s \in Stream, Leave(n, s)
     PROVE  \A x \in Node, t \in Stream : Closed(x, t) => Closed(x, t)'
  BY <1>4, <1>0 DEF Leave, ReadFails, Gone, Other, streams, users, Closed, Typed
<1>5. ASSUME NEW u \in User, NEW f \in Frames[u], Send(u, f)
     PROVE  \A x \in Node, t \in Stream : Closed(x, t) => Closed(x, t)'
  <2>1. UNCHANGED <<end, shut>>
    BY <1>5 DEF Send, Called, Cached, streams, users
  <2>2. QED
    BY <2>1, <1>0 DEF Closed, Typed
<1>6. ASSUME NEW u \in User, Connected(u)
     PROVE  \A x \in Node, t \in Stream : Closed(x, t) => Closed(x, t)'
  <2>1. UNCHANGED <<end, shut>>
    BY <1>6 DEF Connected, Called, Cached, streams, users
  <2>2. QED
    BY <2>1, <1>0 DEF Closed, Typed
<1>7. ASSUME NEW u \in User, NEW s \in Stream, NEW direct \in BOOLEAN, NewStream(u, s, direct)
     PROVE  \A x \in Node, t \in Stream : Closed(x, t) => Closed(x, t)'
  <2>0. Opened(u, s, direct)
    BY <1>7, <1>0, OpensOwn
  <2>1. \A x \in Node : end[<<x, s>>] = "none"
    BY <2>0, <1>0, <1>0a, OpenedUnread
  <2>2. QED
    BY <2>0, <2>1 DEF Opened, Closed
<1>8. ASSUME NEW u \in User, NewStreamError(u)
     PROVE  \A x \in Node, t \in Stream : Closed(x, t) => Closed(x, t)'
  <2>1. UNCHANGED <<end, shut>>
    BY <1>8 DEF NewStreamError, Return, streams, users
  <2>2. QED
    BY <2>1, <1>0 DEF Closed, Typed
<1>9. ASSUME NEW u \in User, HandleOwn(u)
     PROVE  \A x \in Node, t \in Stream : Closed(x, t) => Closed(x, t)'
  <2>1. Handled(Home[u], held[u]) /\ end[<<Home[u], held[u]>>] = "opened"
    BY <1>9, <1>0, <1>0a, HandlesOwn
  <2>2. QED
    BY <2>1 DEF Handled, Closed
<1>10. ASSUME NEW u \in User, Look(u)
     PROVE  \A x \in Node, t \in Stream : Closed(x, t) => Closed(x, t)'
  <2>1. UNCHANGED <<end, shut>>
    BY <1>10 DEF Look, Cached, Return, streams, users
  <2>2. QED
    BY <2>1, <1>0 DEF Closed, Typed
<1>11. ASSUME NEW u \in User, LookPanic(u)
     PROVE  \A x \in Node, t \in Stream : Closed(x, t) => Closed(x, t)'
  <2>1. Panicked(Home[u])
    BY <1>11, <1>0, Panics
  <2>2. SUFFICES ASSUME NEW x \in Node, NEW t \in Stream, Closed(x, t) PROVE Closed(x, t)'
    OBVIOUS
  <2>3. CASE x = Home[u]
    <3>1. end[<<x, t>>] # "none"
      BY <2>2, <1>0a DEF Closed, Sides
    <3>2. QED
      BY <2>1, <2>3, <3>1, <1>0a DEF Linked, Panicked, Closed
  <2>4. CASE x # Home[u]
    BY <2>1, <2>2, <2>4 DEF Panicked, Closed
  <2>5. QED
    BY <2>3, <2>4
<1>12. ASSUME NEW u \in User, Write(u)
     PROVE  \A x \in Node, t \in Stream : Closed(x, t) => Closed(x, t)'
  <2>1. UNCHANGED <<end, shut>>
    BY <1>12 DEF Write, Return, streams, users
  <2>2. QED
    BY <2>1, <1>0 DEF Closed, Typed
<1>13. ASSUME NEW u \in User, WriteError(u)
     PROVE  \A x \in Node, t \in Stream : Closed(x, t) => Closed(x, t)'
  BY <1>13, <1>0 DEF WriteError, Close, Return, streams, users, Closed, Typed
<1>14. ASSUME NEW s \in Stream, Break(s)
     PROVE  \A x \in Node, t \in Stream : Closed(x, t) => Closed(x, t)'
  BY <1>14, <1>0 DEF Break, streams, users, Closed, Typed
<1>15. CASE UNCHANGED vars
  BY <1>15, <1>0 DEF vars, streams, users, Closed, Typed
<1>16. QED
  BY <1>1, <1>2, <1>3, <1>4, <1>5, <1>6, <1>7, <1>8, <1>9, <1>10, <1>11,
    <1>12, <1>13, <1>14, <1>15 DEF Next, ReadStep, Arrive, UserStep

-----------------------------------------------------------------------------
(* The streams of one side *)

\* Streams stay numbered in the order in which they are opened.
LEMMA NumberedStep ==
    ASSUME OneSender, Orderly, Inv, FramesInv, Ordered, [Next]_vars
    PROVE  Numbered'
PROOF
<1>0. Typed
  BY Types DEF Inv
<1>0a. /\ OneSender /\ Orderly /\ Linked /\ Handling /\ Writing /\ Leads /\ OwnIsHandled
       /\ Sides /\ Framing /\ Numbered /\ InOrder /\ LastCached /\ Newest /\ Needed
       /\ todo \in [User -> Seq(Piece)]
  BY DEF Inv, Ends, FramesInv, Pieces, Ordered
<1>1. ASSUME NEW n \in Node, NEW s \in Stream, HandleIncoming(n, s)
     PROVE  Numbered'
  <2>0. /\ Handled(n, s) /\ Chosen(n, Other(n, s), s) /\ UNCHANGED users
        /\ end[<<n, s>>] = "incoming" /\ InTurn(n, s)
    BY <1>1, <1>0, <1>0a, Handles, Chooses DEF HandleIncoming
  <2>1. link' = link /\ \A v \in User :
           /\ pc'[v] # "idle" => frame'[v] # None
           /\ pc'[v] = "handle" => pc[v] = "handle" /\ held'[v] = held[v]
    BY <2>0, <1>0, <1>0a DEF Handled, users, Others, Numbered, Typed
  <2>2. QED
    BY <2>1, <1>0a DEF Numbered, SameWay
<1>2. ASSUME NEW n \in Node, NEW s \in Stream, DropIncoming(n, s)
     PROVE  Numbered'
  <2>1. UNCHANGED <<link, pc, frame, held>>
    BY <1>2 DEF DropIncoming, streams, users
  <2>2. QED
    BY <2>1, <1>0a DEF Numbered, SameWay
<1>3. ASSUME NEW n \in Node, NEW s \in Stream, Read(n, s)
     PROVE  Numbered'
  <2>1. UNCHANGED <<link, pc, frame, held>>
    BY <1>3 DEF Read, streams, users
  <2>2. QED
    BY <2>1, <1>0a DEF Numbered, SameWay
<1>4. ASSUME NEW n \in Node, NEW s \in Stream, Leave(n, s)
     PROVE  Numbered'
  <2>1. UNCHANGED <<link, pc, frame, held>>
    BY <1>4 DEF Leave, ReadFails, Gone, Other, streams, users
  <2>2. QED
    BY <2>1, <1>0a DEF Numbered, SameWay
<1>5. ASSUME NEW u \in User, NEW f \in Frames[u], Send(u, f)
     PROVE  Numbered'
  <2>0. Begun(u, f)
    BY <1>5, <1>0, <1>0a, Sends
  <2>1. link' = link /\ \A v \in User :
           /\ pc'[v] # "idle" => frame'[v] # None
           /\ pc'[v] = "handle" => pc[v] = "handle" /\ held'[v] = held[v]
    BY <2>0, <1>0, <1>0a DEF Begun, Others, Numbered, Typed
  <2>2. QED
    BY <2>1, <1>0a DEF Numbered, SameWay
<1>6. ASSUME NEW u \in User, Connected(u)
     PROVE  Numbered'
  <2>1. QED
    BY <1>6, <1>0a DEF Connected, Orderly
<1>7. ASSUME NEW u \in User, NEW s \in Stream, NEW direct \in BOOLEAN, NewStream(u, s, direct)
     PROVE  Numbered'
  <2>0. Opened(u, s, direct)
    BY <1>7, <1>0, <1>0a, OpensOwn DEF Inv
  <2>1. /\ direct = FALSE /\ \A t \in Stream : t < s => link[t] # None
    BY <1>7, <1>0a DEF NewStream, Orderly
  <2>2. \A t \in Stream : link'[t] # None => ~link'[t].direct
    BY <2>0, <2>1, <1>0a DEF Opened, Numbered
  <2>3. ASSUME NEW r \in Stream, NEW t \in Stream, t < r, link'[r] # None
        PROVE  link'[t] # None
    <3>1. CASE t = s
      BY <2>0, <3>1 DEF Opened
    <3>2. CASE t # s
      <4>1. link[t] # None
        BY <2>0, <2>1, <2>3, <3>2, <1>0a DEF Opened, Numbered
      <4>2. QED
        BY <2>0, <3>2, <4>1 DEF Opened
    <3>3. QED
      BY <3>1, <3>2
  <2>4. \A v \in User : pc'[v] # "idle" => frame'[v] # None
    BY <2>0, <1>0a DEF Opened, Others, Numbered
  <2>5. ASSUME NEW v \in User, NEW t \in Stream, pc'[v] = "handle", SameWay(t, held[v])'
        PROVE  t <= held'[v]
    <3>1. CASE v = u
      <4>1. held'[v] = s /\ link'[t] # None
        BY <2>0, <2>5, <3>1 DEF Opened, SameWay
      <4>2. t = s \/ link[t] # None
        BY <2>0, <4>1 DEF Opened
      <4>3. ~(s < t /\ link[t] # None)
        BY <2>0, <1>0a DEF Opened, Numbered
      <4>4. s \in Nat /\ t \in Nat
        BY DEF Stream
      <4>5. QED
        BY <4>1, <4>2, <4>3, <4>4
    <3>2. CASE v # u
      <4>1. pc[v] = "handle" /\ held'[v] = held[v]
        BY <2>0, <2>5, <3>2 DEF Opened, Others
      <4>1a. /\ held[v] # None /\ link[held[v]] # None
             /\ link[held[v]].from = Home[v] /\ link[held[v]].to = Peer[v]
        BY <4>1, <1>0a DEF Handling
      <4>1b. held[v] \in Stream /\ held[v] # s
        BY <2>0, <4>1a, <1>0 DEF Opened, Typed
      <4>2. link'[held'[v]] = link[held[v]]
        BY <2>0, <4>1, <4>1b DEF Opened
      <4>2a. /\ link'[t] # None
             /\ link'[t].from = link[held[v]].from /\ link'[t].to = link[held[v]].to
        BY <2>5, <4>2 DEF SameWay
      <4>3. t # s
        <5>1. SUFFICES ASSUME t = s PROVE FALSE
          OBVIOUS
        <5>2. Home[v] = Home[u] /\ Peer[v] = Peer[u]
          BY <2>0, <4>1a, <4>2a, <5>1 DEF Opened
        <5>3. frame[u] # None /\ frame[v] # None
          BY <2>0, <4>1, <1>0a DEF Opened, Numbered
        <5>4. Frames[u] # {} /\ Frames[v] # {}
          BY <5>3, <1>0a DEF Framing
        <5>5. QED
          BY <3>2, <5>2, <5>4, <1>0a DEF OneSender
      <4>4. SameWay(t, held[v])
        <5>1. link'[t] = link[t]
          BY <2>0, <4>3 DEF Opened
        <5>2. QED
          BY <4>1a, <4>2a, <5>1 DEF SameWay
      <4>5. QED
        BY <4>1, <4>4, <1>0a DEF Numbered
    <3>3. QED
      BY <3>1, <3>2
  <2>6. QED
    BY <2>2, <2>3, <2>4, <2>5 DEF Numbered
<1>8. ASSUME NEW u \in User, NewStreamError(u)
     PROVE  Numbered'
  <2>1. link' = link /\ \A v \in User :
           \/ pc'[v] = "idle"
           \/ pc'[v] = pc[v] /\ held'[v] = held[v] /\ frame'[v] = frame[v]
    BY <1>8, <1>0 DEF NewStreamError, Return, Typed, streams
  <2>2. QED
    BY <2>1, <1>0a DEF Numbered, SameWay
<1>9. ASSUME NEW u \in User, HandleOwn(u)
     PROVE  Numbered'
  <2>0. /\ Handled(Home[u], held[u]) /\ Chosen(Home[u], Peer[u], held[u])
        /\ Home[u] \in Node /\ Peer[u] \in Node /\ held[u] \in Stream /\ pc[u] = "handle"
        /\ end[<<Home[u], held[u]>>] = "opened"
        /\ link[held[u]].from = Home[u] /\ link[held[u]].to = Peer[u]
        /\ UNCHANGED <<held, frame>> /\ pc' = [pc EXCEPT ![u] = "look"]
    BY <1>9, <1>0, <1>0a, HandlesOwn
  <2>1. link' = link /\ \A v \in User :
           /\ pc'[v] # "idle" => frame'[v] # None
           /\ pc'[v] = "handle" => pc[v] = "handle" /\ held'[v] = held[v]
    BY <2>0, <1>0, <1>0a DEF Handled, Others, Numbered, Typed
  <2>2. QED
    BY <2>1, <1>0a DEF Numbered, SameWay
<1>10. ASSUME NEW u \in User, Look(u)
     PROVE  Numbered'
  <2>0. Looked(u)
    BY <1>10, <1>0, <1>0a, LooksOn
  <2>1. link' = link /\ \A v \in User :
           /\ pc'[v] # "idle" => frame'[v] # None
           /\ pc'[v] = "handle" => pc[v] = "handle" /\ held'[v] = held[v]
    BY <2>0, <1>0, <1>0a DEF Looked, Others, Numbered, Typed
  <2>2. QED
    BY <2>1, <1>0a DEF Numbered, SameWay
<1>11. ASSUME NEW u \in User, LookPanic(u)
     PROVE  Numbered'
  <2>0. Panicked(Home[u])
    BY <1>11, <1>0, Panics
  <2>1. link' = link /\ \A v \in User :
           /\ pc'[v] # "idle" => frame'[v] # None
           /\ pc'[v] = "handle" => pc[v] = "handle" /\ held'[v] = held[v]
    BY <2>0, <1>0, <1>0a DEF Panicked, Others, Numbered, Typed
  <2>2. QED
    BY <2>1, <1>0a DEF Numbered, SameWay
<1>12. ASSUME NEW u \in User, Write(u)
     PROVE  Numbered'
  <2>0. Written(u)
    BY <1>12, <1>0, <1>0a, WritesOn
  <2>1. UNCHANGED link /\ pc[u] = "write"
    BY <2>0 DEF Written
  <2>2. pc'[u] = "idle" \/ (pc'[u] = "write" /\ frame'[u] = frame[u])
    BY <2>0 DEF Written
  <2>3. \A v \in User \ {u} : pc'[v] = pc[v] /\ held'[v] = held[v] /\ frame'[v] = frame[v]
    BY <2>0 DEF Written, Others
  <2>4. \A v \in User : pc[v] # "idle" => frame[v] # None
    BY <1>0a DEF Numbered
  <2>5. link' = link /\ \A v \in User :
           /\ pc'[v] # "idle" => frame'[v] # None
           /\ pc'[v] = "handle" => pc[v] = "handle" /\ held'[v] = held[v]
    BY <2>1, <2>2, <2>3, <2>4
  <2>6. QED
    BY <2>5, <1>0a DEF Numbered, SameWay
<1>13. ASSUME NEW u \in User, WriteError(u)
     PROVE  Numbered'
  <2>0. NotWritten(u)
    BY <1>13, <1>0, <1>0a, WritesNotOn
  <2>1. link' = link /\ \A v \in User :
           /\ pc'[v] # "idle" => frame'[v] # None
           /\ pc'[v] = "handle" => pc[v] = "handle" /\ held'[v] = held[v]
    BY <2>0, <1>0, <1>0a DEF NotWritten, Others, Numbered, Typed
  <2>2. QED
    BY <2>1, <1>0a DEF Numbered, SameWay
<1>14. ASSUME NEW s \in Stream, Break(s)
     PROVE  Numbered'
  <2>1. UNCHANGED <<link, pc, frame, held>>
    BY <1>14 DEF Break, streams, users
  <2>2. QED
    BY <2>1, <1>0a DEF Numbered, SameWay
<1>15. CASE UNCHANGED vars
  BY <1>15, <1>0a DEF vars, streams, users, Numbered, SameWay
<1>16. QED
  BY <1>1, <1>2, <1>3, <1>4, <1>5, <1>6, <1>7, <1>8, <1>9, <1>10, <1>11,
    <1>12, <1>13, <1>14, <1>15 DEF Next, ReadStep, Arrive, UserStep

\* Ends that are lost do not change the order.
LEMMA InOrderKept ==
    ASSUME Typed, InOrder, link' = link,
           \A x \in Node, t \in Stream : end'[<<x, t>>] = "gone" \/ end'[<<x, t>>] = end[<<x, t>>]
    PROVE  InOrder'
<1> SUFFICES ASSUME NEW a \in Stream, NEW b \in Stream, SameWay(a, b),
                    end'[<<link[a].to, a>>] = "reading", end'[<<link[b].to, b>>] = "incoming"
             PROVE  a < b
  BY DEF InOrder, SameWay
<1>1. link[a].to \in Node /\ link[b].to \in Node
  BY DEF SameWay, Typed
<1>2. end[<<link[a].to, a>>] = "reading" /\ end[<<link[b].to, b>>] = "incoming"
  BY <1>1
<1>3. QED
  BY <1>2 DEF InOrder

\* Streams of one node are handled in order.
LEMMA InOrderStep ==
    ASSUME OneSender, Orderly, Inv, FramesInv, Ordered, [Next]_vars
    PROVE  InOrder'
PROOF
<1>0. Typed
  BY Types DEF Inv
<1>0a. /\ OneSender /\ Orderly /\ Linked /\ Handling /\ Writing /\ Leads /\ OwnIsHandled
       /\ Sides /\ Framing /\ Numbered /\ InOrder /\ LastCached /\ Newest /\ Needed
       /\ todo \in [User -> Seq(Piece)]
  BY DEF Inv, Ends, FramesInv, Pieces, Ordered
<1>1. ASSUME NEW n \in Node, NEW s \in Stream, HandleIncoming(n, s)
     PROVE  InOrder'
  <2>0. /\ Handled(n, s) /\ Chosen(n, Other(n, s), s) /\ UNCHANGED users
        /\ end[<<n, s>>] = "incoming" /\ InTurn(n, s)
    BY <1>1, <1>0, <1>0a, Handles, Chooses DEF HandleIncoming
  <2>1. link[s].to = n /\ link[s].from # n /\ link[s] # None
    BY <2>0, <1>0a DEF Linked, Sides
  <2>2. \A t \in Stream : t < s /\ end[<<n, t>>] = "incoming" => link[t].from # link[s].from
    BY <2>0, <1>0a DEF InTurn, Orderly
  <2>3. ASSUME NEW a \in Stream, NEW b \in Stream, SameWay(a, b),
               end'[<<link[a].to, a>>] = "reading", end'[<<link[b].to, b>>] = "incoming"
        PROVE  a < b
    <3>1. link[a].to \in Node /\ link[b].to = link[a].to /\ link[b].from = link[a].from
      BY <2>3, <1>0 DEF SameWay, Typed
    <3>2. end[<<link[b].to, b>>] = "incoming" /\ b # s
      BY <2>0, <2>1, <2>3, <3>1 DEF Handled
    <3>3. CASE a = s
      <4>1. ~(b < s)
        BY <2>1, <2>2, <3>1, <3>2, <3>3
      <4>2. b \in Nat /\ s \in Nat
        BY DEF Stream
      <4>3. QED
        BY <3>2, <3>3, <4>1, <4>2
    <3>4. CASE a # s
      <4>1. end[<<link[a].to, a>>] = "reading"
        BY <2>0, <2>3, <3>1, <3>4 DEF Handled
      <4>2. QED
        BY <2>3, <3>2, <4>1, <1>0a DEF InOrder
    <3>5. QED
      BY <3>3, <3>4
  <2>4. QED
    BY <2>0, <2>3 DEF Handled, InOrder, SameWay
<1>2. ASSUME NEW n \in Node, NEW s \in Stream, DropIncoming(n, s)
     PROVE  InOrder'
  <2>1. /\ link' = link
        /\ \A x \in Node, t \in Stream : end'[<<x, t>>] = "gone" \/ end'[<<x, t>>] = end[<<x, t>>]
    BY <1>2, <1>0 DEF DropIncoming, Typed
  <2>2. QED
    BY <2>1, <1>0, <1>0a, InOrderKept
<1>3. ASSUME NEW n \in Node, NEW s \in Stream, Read(n, s)
     PROVE  InOrder'
  <2>1. UNCHANGED <<link, end>>
    BY <1>3 DEF Read, streams, users
  <2>2. QED
    BY <2>1, <1>0a DEF InOrder, SameWay
<1>4. ASSUME NEW n \in Node, NEW s \in Stream, Leave(n, s)
     PROVE  InOrder'
  <2>1. /\ link' = link
        /\ \A x \in Node, t \in Stream : end'[<<x, t>>] = "gone" \/ end'[<<x, t>>] = end[<<x, t>>]
    BY <1>4, <1>0 DEF Leave, Gone, Typed
  <2>2. QED
    BY <2>1, <1>0, <1>0a, InOrderKept
<1>5. ASSUME NEW u \in User, NEW f \in Frames[u], Send(u, f)
     PROVE  InOrder'
  <2>1. UNCHANGED <<link, end>>
    BY <1>5 DEF Send, Called, Cached, streams, users
  <2>2. QED
    BY <2>1, <1>0a DEF InOrder, SameWay
<1>6. ASSUME NEW u \in User, Connected(u)
     PROVE  InOrder'
  <2>1. UNCHANGED <<link, end>>
    BY <1>6 DEF Connected, Called, Cached, streams, users
  <2>2. QED
    BY <2>1, <1>0a DEF InOrder, SameWay
<1>7. ASSUME NEW u \in User, NEW s \in Stream, NEW direct \in BOOLEAN, NewStream(u, s, direct)
     PROVE  InOrder'
  <2>0. Opened(u, s, direct)
    BY <1>7, <1>0, <1>0a, OpensOwn DEF Inv
  <2>1. \A x \in Node : end'[<<x, s>>] # "reading"
    BY <2>0, <1>0, <1>0a, OpenedUnread
  <2>2. ASSUME NEW a \in Stream, NEW b \in Stream, SameWay(a, b)',
               end'[<<link'[a].to, a>>] = "reading", end'[<<link'[b].to, b>>] = "incoming"
        PROVE  a < b
    <3>1. link'[a].to \in Node /\ link'[a] # None
      BY <2>0, <2>2, <1>0 DEF Opened, SameWay, Typed
    <3>2. a # s /\ link[a] # None
      BY <2>0, <2>1, <2>2, <3>1 DEF Opened
    <3>3. CASE b = s
      <4>1. ~(s < a)
        BY <2>0, <3>2, <1>0a DEF Opened, Numbered
      <4>2. a \in Nat /\ s \in Nat
        BY DEF Stream
      <4>3. QED
        BY <3>2, <3>3, <4>1, <4>2
    <3>4. CASE b # s
      BY <2>0, <2>2, <3>1, <3>2, <3>4, <1>0, <1>0a DEF Opened, InOrder, SameWay, Typed
    <3>5. QED
      BY <3>3, <3>4
  <2>3. QED
    BY <2>2 DEF InOrder
<1>8. ASSUME NEW u \in User, NewStreamError(u)
     PROVE  InOrder'
  <2>1. UNCHANGED <<link, end>>
    BY <1>8 DEF NewStreamError, Return, streams, users
  <2>2. QED
    BY <2>1, <1>0a DEF InOrder, SameWay
<1>9. ASSUME NEW u \in User, HandleOwn(u)
     PROVE  InOrder'
  <2>0. /\ Handled(Home[u], held[u]) /\ Chosen(Home[u], Peer[u], held[u])
        /\ Home[u] \in Node /\ Peer[u] \in Node /\ held[u] \in Stream /\ pc[u] = "handle"
        /\ end[<<Home[u], held[u]>>] = "opened"
        /\ link[held[u]].from = Home[u] /\ link[held[u]].to = Peer[u]
        /\ UNCHANGED <<held, frame>> /\ pc' = [pc EXCEPT ![u] = "look"]
    BY <1>9, <1>0, <1>0a, HandlesOwn
  <2>1. ASSUME NEW a \in Stream, link[a] # None
        PROVE  end'[<<link[a].to, a>>] = end[<<link[a].to, a>>]
    BY <2>0, <2>1, <1>0, <1>0a DEF Handled, Linked, Typed
  <2>2. QED
    BY <2>0, <2>1, <1>0a DEF Handled, InOrder, SameWay
<1>10. ASSUME NEW u \in User, Look(u)
     PROVE  InOrder'
  <2>1. UNCHANGED <<link, end>>
    BY <1>10 DEF Look, Cached, Return, streams, users
  <2>2. QED
    BY <2>1, <1>0a DEF InOrder, SameWay
<1>11. ASSUME NEW u \in User, LookPanic(u)
     PROVE  InOrder'
  <2>0. Panicked(Home[u])
    BY <1>11, <1>0, Panics
  <2>1. /\ link' = link
        /\ \A x \in Node, t \in Stream : end'[<<x, t>>] = "gone" \/ end'[<<x, t>>] = end[<<x, t>>]
    BY <2>0 DEF Panicked
  <2>2. QED
    BY <2>1, <1>0, <1>0a, InOrderKept
<1>12. ASSUME NEW u \in User, Write(u)
     PROVE  InOrder'
  <2>1. UNCHANGED <<link, end>>
    BY <1>12 DEF Write, Return, streams, users
  <2>2. QED
    BY <2>1, <1>0a DEF InOrder, SameWay
<1>13. ASSUME NEW u \in User, WriteError(u)
     PROVE  InOrder'
  <2>1. UNCHANGED <<link, end>>
    BY <1>13 DEF WriteError, Close, Return, streams, users
  <2>2. QED
    BY <2>1, <1>0a DEF InOrder, SameWay
<1>14. ASSUME NEW s \in Stream, Break(s)
     PROVE  InOrder'
  <2>1. UNCHANGED <<link, end>>
    BY <1>14 DEF Break, streams, users
  <2>2. QED
    BY <2>1, <1>0a DEF InOrder, SameWay
<1>15. CASE UNCHANGED vars
  BY <1>15, <1>0a DEF vars, streams, users, InOrder, SameWay
<1>16. QED
  BY <1>1, <1>2, <1>3, <1>4, <1>5, <1>6, <1>7, <1>8, <1>9, <1>10, <1>11,
    <1>12, <1>13, <1>14, <1>15 DEF Next, ReadStep, Arrive, UserStep

\* The stream s is newer than all that came the same way and are read at n.
Last(n, s) == \A t \in Stream : SameWay(t, s) /\ end[<<n, t>>] = "reading" => t < s

\* So it is with one that arrives,
LEMMA IncomingIsLast ==
    ASSUME Typed, Linked, Sides, InOrder,
           NEW n \in Node, NEW s \in Stream, end[<<n, s>>] = "incoming"
    PROVE  Last(n, s) /\ link[s] # None /\ link[s].to = n /\ link[s].from # n
<1>1. link[s].to = n /\ link[s].from # n /\ link[s] # None
  BY DEF Linked, Sides
<1>2. QED
  BY <1>1 DEF Last, InOrder, SameWay

\* and with the one that a goroutine has opened.
LEMMA OwnIsLast ==
    ASSUME Numbered, NEW u \in User, pc[u] = "handle", held[u] \in Stream,
           end[<<Home[u], held[u]>>] = "opened"
    PROVE  Last(Home[u], held[u])
<1> SUFFICES ASSUME NEW t \in Stream, SameWay(t, held[u]), end[<<Home[u], t>>] = "reading"
             PROVE  t < held[u]
  BY DEF Last
<1>1. t <= held[u] /\ t # held[u]
  BY DEF Numbered
<1>2. t \in Nat /\ held[u] \in Nat
  BY DEF Stream
<1>3. QED
  BY <1>1, <1>2

\* Then it follows what was cached, also where it is not chosen.
LEMMA LastHandled ==
    ASSUME Typed, Leads, LastCached,
           NEW n \in Node, NEW m \in Node, NEW s \in Stream,
           Handled(n, s), Chosen(n, m, s), Last(n, s)
    PROVE  LastCached'
<1> SUFFICES ASSUME NEW x \in Node, NEW y \in Node, NEW t \in Stream, cache'[<<x, y>>] # None,
                    SameWay(t, cache'[<<x, y>>]), end'[<<x, t>>] = "reading"
             PROVE  t <= cache'[<<x, y>>]
  BY DEF Handled, LastCached, SameWay
<1>0. s \in Nat /\ t \in Nat
  BY DEF Stream
<1>1. CASE <<x, y>> = <<n, m>> /\ Wins(n, s, cache[<<n, m>>])
  <2>1. x = n /\ cache'[<<x, y>>] = s
    BY <1>1 DEF Chosen
  <2>2. t = s \/ end[<<n, t>>] = "reading"
    BY <2>1 DEF Handled
  <2>3. t = s \/ t < s
    BY <2>1, <2>2 DEF Last
  <2>4. QED
    BY <1>0, <2>1, <2>3
<1>2. CASE <<x, y>> = <<n, m>> /\ ~Wins(n, s, cache[<<n, m>>])
  <2>1. x = n /\ y = m /\ cache'[<<x, y>>] = cache[<<n, m>>]
    BY <1>2 DEF Chosen
  <2>2. t # s
    BY <1>2, <2>1 DEF Wins, Inbound, SameWay
  <2>3. end[<<x, t>>] = "reading"
    BY <2>2 DEF Handled
  <2>4. QED
    BY <2>1, <2>3 DEF LastCached
<1>3. CASE <<x, y>> # <<n, m>>
  <2>1. cache'[<<x, y>>] = cache[<<x, y>>]
    BY <1>3 DEF Chosen
  <2>2. <<x, t>> # <<n, s>>
    <3>1. SUFFICES ASSUME x = n, t = s PROVE FALSE
      OBVIOUS
    <3>2. Joins(cache[<<x, y>>], n, y)
      BY <2>1, <3>1 DEF Leads, Joins
    <3>3. y # m /\ Joins(s, n, m)
      BY <1>3, <3>1 DEF Chosen
    <3>4. QED
      BY <2>1, <3>1, <3>2, <3>3 DEF Joins, SameWay
  <2>3. end[<<x, t>>] = "reading"
    BY <2>2 DEF Handled
  <2>4. QED
    BY <2>1, <2>3 DEF LastCached
<1>4. QED
  BY <1>1, <1>2, <1>3

\* Nor does it change when ends are lost.
LEMMA LastCachedKept ==
    ASSUME LastCached, link' = link,
           \A x, y \in Node : cache'[<<x, y>>] \in {None, cache[<<x, y>>]},
           \A x \in Node, t \in Stream : end'[<<x, t>>] = "reading" => end[<<x, t>>] = "reading"
    PROVE  LastCached'
<1> SUFFICES ASSUME NEW x \in Node, NEW y \in Node, NEW t \in Stream, cache'[<<x, y>>] # None,
                    SameWay(t, cache'[<<x, y>>]), end'[<<x, t>>] = "reading"
             PROVE  t <= cache'[<<x, y>>]
  BY DEF LastCached, SameWay
<1>1. cache'[<<x, y>>] = cache[<<x, y>>] /\ end[<<x, t>>] = "reading"
  OBVIOUS
<1>2. QED
  BY <1>1 DEF LastCached

\* The last stream of each side stays in the cache.
LEMMA LastCachedStep ==
    ASSUME OneSender, Orderly, Inv, FramesInv, Ordered, [Next]_vars
    PROVE  LastCached'
PROOF
<1>0. Typed
  BY Types DEF Inv
<1>0a. /\ OneSender /\ Orderly /\ Linked /\ Handling /\ Writing /\ Leads /\ OwnIsHandled
       /\ Sides /\ Framing /\ Numbered /\ InOrder /\ LastCached /\ Newest /\ Needed
       /\ todo \in [User -> Seq(Piece)]
  BY DEF Inv, Ends, FramesInv, Pieces, Ordered
<1>1. ASSUME NEW n \in Node, NEW s \in Stream, HandleIncoming(n, s)
     PROVE  LastCached'
  <2>0. /\ Handled(n, s) /\ Chosen(n, Other(n, s), s) /\ UNCHANGED users
        /\ end[<<n, s>>] = "incoming" /\ InTurn(n, s)
    BY <1>1, <1>0, <1>0a, Handles, Chooses DEF HandleIncoming
  <2>1. Last(n, s) /\ Other(n, s) \in Node
    BY <2>0, <1>0, <1>0a, IncomingIsLast DEF Chosen
  <2>2. QED
    BY <2>0, <2>1, <1>0, <1>0a, LastHandled
<1>2. ASSUME NEW n \in Node, NEW s \in Stream, DropIncoming(n, s)
     PROVE  LastCached'
  <2>1. /\ link' = link
        /\ \A x, y \in Node : cache'[<<x, y>>] \in {None, cache[<<x, y>>]}
        /\ \A x \in Node, t \in Stream : end'[<<x, t>>] = "reading" => end[<<x, t>>] = "reading"
    BY <1>2, <1>0 DEF DropIncoming, Typed
  <2>2. QED
    BY <2>1, <1>0a, LastCachedKept
<1>3. ASSUME NEW n \in Node, NEW s \in Stream, Read(n, s)
     PROVE  LastCached'
  <2>1. UNCHANGED <<link, end, cache>>
    BY <1>3 DEF Read, streams, users
  <2>2. QED
    BY <2>1, <1>0a DEF LastCached, SameWay
<1>4. ASSUME NEW n \in Node, NEW s \in Stream, Leave(n, s)
     PROVE  LastCached'
  <2>1. /\ link' = link
        /\ \A x, y \in Node : cache'[<<x, y>>] \in {None, cache[<<x, y>>]}
        /\ \A x \in Node, t \in Stream : end'[<<x, t>>] = "reading" => end[<<x, t>>] = "reading"
    BY <1>4, <1>0 DEF Leave, Gone, Typed
  <2>2. QED
    BY <2>1, <1>0a, LastCachedKept
<1>5. ASSUME NEW u \in User, NEW f \in Frames[u], Send(u, f)
     PROVE  LastCached'
  <2>1. UNCHANGED <<link, end, cache>>
    BY <1>5 DEF Send, Called, Cached, streams, users
  <2>2. QED
    BY <2>1, <1>0a DEF LastCached, SameWay
<1>6. ASSUME NEW u \in User, Connected(u)
     PROVE  LastCached'
  <2>1. UNCHANGED <<link, end, cache>>
    BY <1>6 DEF Connected, Called, Cached, streams, users
  <2>2. QED
    BY <2>1, <1>0a DEF LastCached, SameWay
<1>7. ASSUME NEW u \in User, NEW s \in Stream, NEW direct \in BOOLEAN, NewStream(u, s, direct)
     PROVE  LastCached'
  <2>0. Opened(u, s, direct)
    BY <1>7, <1>0, <1>0a, OpensOwn DEF Inv
  <2>1. \A x \in Node : end'[<<x, s>>] # "reading"
    BY <2>0, <1>0, <1>0a, OpenedUnread
  <2>2. ASSUME NEW x \in Node, NEW y \in Node, NEW t \in Stream, cache[<<x, y>>] # None,
               SameWay(t, cache[<<x, y>>])', end'[<<x, t>>] = "reading"
        PROVE  t <= cache[<<x, y>>]
    <3>1. cache[<<x, y>>] \in Stream \ {s}
      <4>1. cache[<<x, y>>] \in Stream
        BY <2>2, <1>0 DEF Typed
      <4>2. link[cache[<<x, y>>]] # None
        BY <2>2, <1>0a DEF Leads
      <4>3. QED
        BY <2>0, <4>1, <4>2 DEF Opened
    <3>2. t # s
      BY <2>1, <2>2
    <3>3. cache' = cache /\ end[<<x, t>>] = "reading"
      BY <2>0, <2>2, <3>2 DEF Opened
    <3>4. link'[t] = link[t] /\ link'[cache'[<<x, y>>]] = link[cache[<<x, y>>]]
      BY <2>0, <3>1, <3>2, <3>3 DEF Opened
    <3>5. SameWay(t, cache[<<x, y>>])
      BY <2>2, <3>4 DEF SameWay
    <3>6. QED
      BY <2>2, <3>3, <3>5, <1>0a DEF LastCached
  <2>3. cache' = cache
    BY <2>0 DEF Opened
  <2>4. QED
    BY <2>2, <2>3 DEF LastCached
<1>8. ASSUME NEW u \in User, NewStreamError(u)
     PROVE  LastCached'
  <2>1. UNCHANGED <<link, end, cache>>
    BY <1>8 DEF NewStreamError, Return, streams, users
  <2>2. QED
    BY <2>1, <1>0a DEF LastCached, SameWay
<1>9. ASSUME NEW u \in User, HandleOwn(u)
     PROVE  LastCached'
  <2>0. /\ Handled(Home[u], held[u]) /\ Chosen(Home[u], Peer[u], held[u])
        /\ Home[u] \in Node /\ Peer[u] \in Node /\ held[u] \in Stream /\ pc[u] = "handle"
        /\ end[<<Home[u], held[u]>>] = "opened"
        /\ link[held[u]].from = Home[u] /\ link[held[u]].to = Peer[u]
        /\ UNCHANGED <<held, frame>> /\ pc' = [pc EXCEPT ![u] = "look"]
    BY <1>9, <1>0, <1>0a, HandlesOwn
  <2>1. Last(Home[u], held[u])
    BY <2>0, <1>0a, OwnIsLast
  <2>2. QED
    BY <2>0, <2>1, <1>0, <1>0a, LastHandled
<1>10. ASSUME NEW u \in User, Look(u)
     PROVE  LastCached'
  <2>1. UNCHANGED <<link, end, cache>>
    BY <1>10 DEF Look, Cached, Return, streams, users
  <2>2. QED
    BY <2>1, <1>0a DEF LastCached, SameWay
<1>11. ASSUME NEW u \in User, LookPanic(u)
     PROVE  LastCached'
  <2>0. Panicked(Home[u])
    BY <1>11, <1>0, Panics
  <2>1. /\ link' = link
        /\ \A x, y \in Node : cache'[<<x, y>>] \in {None, cache[<<x, y>>]}
        /\ \A x \in Node, t \in Stream : end'[<<x, t>>] = "reading" => end[<<x, t>>] = "reading"
    BY <2>0 DEF Panicked
  <2>2. QED
    BY <2>1, <1>0a, LastCachedKept
<1>12. ASSUME NEW u \in User, Write(u)
     PROVE  LastCached'
  <2>1. UNCHANGED <<link, end, cache>>
    BY <1>12 DEF Write, Return, streams, users
  <2>2. QED
    BY <2>1, <1>0a DEF LastCached, SameWay
<1>13. ASSUME NEW u \in User, WriteError(u)
     PROVE  LastCached'
  <2>1. UNCHANGED <<link, end, cache>>
    BY <1>13 DEF WriteError, Close, Return, streams, users
  <2>2. QED
    BY <2>1, <1>0a DEF LastCached, SameWay
<1>14. ASSUME NEW s \in Stream, Break(s)
     PROVE  LastCached'
  <2>1. UNCHANGED <<link, end, cache>>
    BY <1>14 DEF Break, streams, users
  <2>2. QED
    BY <2>1, <1>0a DEF LastCached, SameWay
<1>15. CASE UNCHANGED vars
  BY <1>15, <1>0a DEF vars, streams, users, LastCached, SameWay
<1>16. QED
  BY <1>1, <1>2, <1>3, <1>4, <1>5, <1>6, <1>7, <1>8, <1>9, <1>10, <1>11,
    <1>12, <1>13, <1>14, <1>15 DEF Next, ReadStep, Arrive, UserStep

-----------------------------------------------------------------------------
(* The newest stream *)

\* Of a strong stream both ends say the same.
LEMMA NewestEnds ==
    ASSUME Newest, NEW s \in Stream, Strong(s), ~Closed(link[s].from, s),
           NEW x \in Node, NEW y \in Node, Joins(s, x, y), end[<<x, s>>] = "reading"
    PROVE  cache[<<x, y>>] = s
BY DEF Newest, Joins

\* It is enough to look at one of them.
LEMMA NewestLater ==
    ASSUME Typed, Newest, link' = link,
           \A x \in Node, t \in Stream : Closed(x, t) => Closed(x, t)',
           \A s \in Stream, x, y \in Node :
              /\ Strong(s) /\ ~Closed(link[s].from, s)
              /\ Joins(s, x, y)
              /\ end'[<<x, s>>] = "reading"
              => cache'[<<x, y>>] = s
    PROVE  Newest'
<1>1. \A s \in Stream : link[s] # None => link[s].from \in Node /\ link[s].to \in Node
  BY DEF Typed
<1>2. ASSUME NEW s \in Stream, NEW t \in Stream, Strong(s), SameWay(s, t), s < t
      PROVE  Closed(link[s].from, s)'
  BY <1>1, <1>2 DEF Newest, SameWay
<1>3. ASSUME NEW s \in Stream, Strong(s), ~Closed(link[s].from, s)'
      PROVE  /\ end'[<<link[s].from, s>>] = "reading" => cache'[<<link[s].from, link[s].to>>] = s
             /\ end'[<<link[s].to, s>>] = "reading" => cache'[<<link[s].to, link[s].from>>] = s
  <2>1. link[s].from \in Node /\ link[s].to \in Node /\ link[s] # None
    BY <1>1, <1>3 DEF Strong
  <2>2. ~Closed(link[s].from, s)
    BY <1>3, <2>1
  <2>3. Joins(s, link[s].from, link[s].to) /\ Joins(s, link[s].to, link[s].from)
    BY <2>1 DEF Joins
  <2>4. QED
    BY <1>3, <2>1, <2>2, <2>3
<1>4. QED
  BY <1>2, <1>3 DEF Newest, Strong, SameWay

\* The newest strong stream wins, and no other one wins against it.
LEMMA NewestHandled ==
    ASSUME Typed, Newest, \A x \in Node, t \in Stream : Closed(x, t) => Closed(x, t)',
           NEW n \in Node, NEW m \in Node, NEW s \in Stream,
           Handled(n, s), Chosen(n, m, s), Last(n, s), ~link[s].direct
    PROVE  Newest'
<1>1. ASSUME NEW t \in Stream, NEW x \in Node, NEW y \in Node,
             Strong(t), ~Closed(link[t].from, t), Joins(t, x, y), end'[<<x, t>>] = "reading"
      PROVE  cache'[<<x, y>>] = t
  <2>0. n \in Nat /\ m \in Nat
    BY NodeAssumption
  <2>1. Joins(s, n, m) /\ n # m
    BY DEF Chosen
  <2>2. CASE <<x, t>> = <<n, s>>
    <3>1. x = n /\ t = s /\ y = m
      BY <1>1, <2>1, <2>2 DEF Joins
    <3>2. Wins(n, s, cache[<<n, m>>])
      <4>1. Other(n, s) = m
        BY DEF Chosen
      <4>2. link[s].from < link[s].to
        BY <1>1, <3>1 DEF Strong
      <4>3. QED
        BY <2>1, <4>1, <4>2 DEF Wins, Inbound, Joins
    <3>3. QED
      BY <3>1, <3>2 DEF Chosen
  <2>3. CASE <<x, t>> # <<n, s>>
    <3>1. end[<<x, t>>] = "reading"
      BY <1>1, <2>3 DEF Handled
    <3>2. cache[<<x, y>>] = t
      BY <1>1, <3>1, NewestEnds
    <3>3. CASE <<x, y>> = <<n, m>>
      <4>1. x = n /\ y = m /\ Joins(t, n, m) /\ Other(n, s) = m /\ t # None
        BY <1>1, <2>3, <3>3 DEF Chosen, Typed
      <4>2. ~SameWay(t, s)
        <5>1. SUFFICES ASSUME SameWay(t, s) PROVE FALSE
          OBVIOUS
        <5>2. t < s
          BY <3>1, <4>1, <5>1 DEF Last
        <5>3. QED
          BY <1>1, <5>1, <5>2 DEF Newest
      <4>3. \/ link[s].to = n /\ link[t].to = m /\ link[t].from = n
            \/ link[s].to = m /\ link[t].to = n /\ link[t].from = m
        BY <2>1, <4>1, <4>2 DEF Joins, SameWay
      <4>4. link[t].from < link[t].to
        BY <1>1 DEF Strong
      <4>5. ~Wins(n, s, t)
        BY <2>0, <2>1, <4>1, <4>3, <4>4 DEF Wins, Inbound
      <4>6. QED
        BY <3>2, <4>1, <4>5 DEF Chosen
    <3>4. CASE <<x, y>> # <<n, m>>
      BY <3>2, <3>4 DEF Chosen
    <3>5. QED
      BY <3>3, <3>4
  <2>4. QED
    BY <2>2, <2>3
<1>2. link' = link
  BY DEF Handled
<1>3. QED
  BY <1>1, <1>2, NewestLater

\* A cache that loses only streams that are no longer read is as good.
LEMMA NewestKept ==
    ASSUME Typed, Newest, link' = link,
           \A x \in Node, t \in Stream : Closed(x, t) => Closed(x, t)',
           \A x \in Node, t \in Stream : end'[<<x, t>>] = "reading" => end[<<x, t>>] = "reading",
           \A x, y \in Node : \/ cache'[<<x, y>>] = cache[<<x, y>>]
                              \/ end'[<<x, cache[<<x, y>>]>>] = "gone"
    PROVE  Newest'
<1>1. ASSUME NEW t \in Stream, NEW x \in Node, NEW y \in Node,
             Strong(t), ~Closed(link[t].from, t), Joins(t, x, y), end'[<<x, t>>] = "reading"
      PROVE  cache'[<<x, y>>] = t
  <2>1. cache[<<x, y>>] = t
    BY <1>1, NewestEnds
  <2>2. QED
    BY <1>1, <2>1
<1>2. QED
  BY <1>1, NewestLater

\* The newest strong stream stays in both caches.
LEMMA NewestStep ==
    ASSUME OneSender, Orderly, Inv, FramesInv, Ordered, [Next]_vars
    PROVE  Newest'
PROOF
<1>0. Typed
  BY Types DEF Inv
<1>0a. /\ OneSender /\ Orderly /\ Linked /\ Handling /\ Writing /\ Leads /\ OwnIsHandled
       /\ Sides /\ Framing /\ Numbered /\ InOrder /\ LastCached /\ Newest /\ Needed
       /\ todo \in [User -> Seq(Piece)]
  BY DEF Inv, Ends, FramesInv, Pieces, Ordered
<1>0b. \A x \in Node, t \in Stream : Closed(x, t) => Closed(x, t)'
  BY ClosedStays DEF Inv, FramesInv
<1>1. ASSUME NEW n \in Node, NEW s \in Stream, HandleIncoming(n, s)
     PROVE  Newest'
  <2>0. /\ Handled(n, s) /\ Chosen(n, Other(n, s), s) /\ UNCHANGED users
        /\ end[<<n, s>>] = "incoming" /\ InTurn(n, s)
    BY <1>1, <1>0, <1>0a, Handles, Chooses DEF HandleIncoming
  <2>1. Last(n, s) /\ Other(n, s) \in Node /\ ~link[s].direct
    BY <2>0, <1>0, <1>0a, IncomingIsLast DEF Chosen, Numbered
  <2>2. QED
    BY <2>0, <2>1, <1>0, <1>0a, <1>0b, NewestHandled
<1>2. ASSUME NEW n \in Node, NEW s \in Stream, DropIncoming(n, s)
     PROVE  Newest'
  <2>1. /\ link' = link
        /\ \A x \in Node, t \in Stream : end'[<<x, t>>] = "reading" => end[<<x, t>>] = "reading"
        /\ \A x, y \in Node : \/ cache'[<<x, y>>] = cache[<<x, y>>]
                              \/ end'[<<x, cache[<<x, y>>]>>] = "gone"
    BY <1>2, <1>0 DEF DropIncoming, Typed
  <2>2. QED
    BY <2>1, <1>0, <1>0a, <1>0b, NewestKept
<1>3. ASSUME NEW n \in Node, NEW s \in Stream, Read(n, s)
     PROVE  Newest'
  <2>1. UNCHANGED <<link, end, shut, cache>>
    BY <1>3 DEF Read, streams, users
  <2>2. QED
    BY <2>1, <1>0a DEF Newest, SameWay, Strong, Closed
<1>4. ASSUME NEW n \in Node, NEW s \in Stream, Leave(n, s)
     PROVE  Newest'
  <2>a. /\ end' = [end EXCEPT ![<<n, s>>] = "gone"] /\ link' = link
        /\ cache' = IF cache[<<n, Other(n, s)>>] = s
                    THEN [cache EXCEPT ![<<n, Other(n, s)>>] = None] ELSE cache
    BY <1>4 DEF Leave, Gone
  <2>b. ASSUME NEW x \in Node, NEW y \in Node, cache'[<<x, y>>] # cache[<<x, y>>]
        PROVE  x = n /\ cache[<<x, y>>] = s
    BY <2>a, <2>b, <1>0 DEF Typed
  <2>1. /\ link' = link
        /\ \A x \in Node, t \in Stream : end'[<<x, t>>] = "reading" => end[<<x, t>>] = "reading"
        /\ \A x, y \in Node : \/ cache'[<<x, y>>] = cache[<<x, y>>]
                              \/ end'[<<x, cache[<<x, y>>]>>] = "gone"
    BY <2>a, <2>b, <1>0 DEF Typed
  <2>2. QED
    BY <2>1, <1>0, <1>0a, <1>0b, NewestKept
<1>5. ASSUME NEW u \in User, NEW f \in Frames[u], Send(u, f)
     PROVE  Newest'
  <2>1. UNCHANGED <<link, end, shut, cache>>
    BY <1>5 DEF Send, Called, Cached, streams, users
  <2>2. QED
    BY <2>1, <1>0a DEF Newest, SameWay, Strong, Closed
<1>6. ASSUME NEW u \in User, Connected(u)
     PROVE  Newest'
  <2>1. UNCHANGED <<link, end, shut, cache>>
    BY <1>6 DEF Connected, Called, Cached, streams, users
  <2>2. QED
    BY <2>1, <1>0a DEF Newest, SameWay, Strong, Closed
<1>7. ASSUME NEW u \in User, NEW s \in Stream, NEW direct \in BOOLEAN, NewStream(u, s, direct)
     PROVE  Newest'
  <2>0. Opened(u, s, direct)
    BY <1>7, <1>0, <1>0a, OpensOwn DEF Inv
  <2>1. \A x \in Node : end'[<<x, s>>] # "reading"
    BY <2>0, <1>0, <1>0a, OpenedUnread
  <2>2. ASSUME NEW a \in Stream, NEW b \in Stream, Strong(a)', SameWay(a, b)', a < b
        PROVE  Closed(link[a].from, a)'
    <3>0. a \in Nat /\ b \in Nat
      BY DEF Stream
    <3>1. a # s
      <4>1. SUFFICES ASSUME a = s PROVE FALSE
        OBVIOUS
      <4>2. b # s /\ link[b] # None
        BY <2>0, <2>2, <3>0, <4>1 DEF Opened, SameWay
      <4>3. QED
        BY <2>0, <2>2, <4>1, <4>2, <1>0a DEF Opened, Numbered
    <3>2. link'[a] = link[a] /\ Strong(a)
      BY <2>0, <2>2, <3>1 DEF Opened, Strong
    <3>3. link[a].from \in Node
      BY <3>2, <1>0 DEF Strong, Typed
    <3>4. Closed(link[a].from, a)
      <4>1. CASE b = s
        <5>1. link[a].from = Home[u] /\ link[a].to = Peer[u] /\ pc[u] = "open"
          BY <2>0, <2>2, <3>2, <4>1 DEF Opened, SameWay
        <5>2. QED
          BY <3>2, <5>1, <1>0a DEF Needed
      <4>2. CASE b # s
        <5>1. link'[b] = link[b]
          BY <2>0, <4>2 DEF Opened
        <5>2. SameWay(a, b)
          BY <2>2, <3>2, <5>1 DEF SameWay
        <5>3. QED
          BY <2>2, <3>2, <5>2, <1>0a DEF Newest
      <4>3. QED
        BY <4>1, <4>2
    <3>5. QED
      BY <3>2, <3>3, <3>4, <1>0b
  <2>3. ASSUME NEW a \in Stream, Strong(a)', ~Closed(link[a].from, a)'
        PROVE  /\ end'[<<link'[a].from, a>>] = "reading"
                     => cache'[<<link'[a].from, link'[a].to>>] = a
               /\ end'[<<link'[a].to, a>>] = "reading"
                     => cache'[<<link'[a].to, link'[a].from>>] = a
    <3>1. link'[s].from \in Node /\ link'[s].to \in Node
      BY <2>0, <1>0 DEF Opened, Typed
    <3>2. CASE a = s
      BY <2>1, <3>1, <3>2
    <3>3. CASE a # s
      <4>1. link'[a] = link[a] /\ Strong(a) /\ cache' = cache
        BY <2>0, <2>3, <3>3 DEF Opened, Strong
      <4>2. link[a].from \in Node /\ link[a].to \in Node
        BY <4>1, <1>0 DEF Strong, Typed
      <4>3. ~Closed(link[a].from, a)
        BY <2>3, <4>1, <4>2, <1>0b
      <4>4. \A x \in Node : end'[<<x, a>>] = end[<<x, a>>]
        BY <2>0, <3>3 DEF Opened
      <4>5. QED
        BY <4>1, <4>2, <4>3, <4>4, <1>0a DEF Newest
    <3>4. QED
      BY <3>2, <3>3
  <2>4. QED
    BY <2>2, <2>3 DEF Newest
<1>8. ASSUME NEW u \in User, NewStreamError(u)
     PROVE  Newest'
  <2>1. UNCHANGED <<link, end, shut, cache>>
    BY <1>8 DEF NewStreamError, Return, streams, users
  <2>2. QED
    BY <2>1, <1>0a DEF Newest, SameWay, Strong, Closed
<1>9. ASSUME NEW u \in User, HandleOwn(u)
     PROVE  Newest'
  <2>0. /\ Handled(Home[u], held[u]) /\ Chosen(Home[u], Peer[u], held[u])
        /\ Home[u] \in Node /\ Peer[u] \in Node /\ held[u] \in Stream /\ pc[u] = "handle"
        /\ end[<<Home[u], held[u]>>] = "opened"
        /\ link[held[u]].from = Home[u] /\ link[held[u]].to = Peer[u]
        /\ UNCHANGED <<held, frame>> /\ pc' = [pc EXCEPT ![u] = "look"]
    BY <1>9, <1>0, <1>0a, HandlesOwn
  <2>1. Last(Home[u], held[u]) /\ link[held[u]] # None
    BY <2>0, <1>0a, OwnIsLast DEF Handling
  <2>2. ~link[held[u]].direct
    BY <2>0, <2>1, <1>0a DEF Numbered
  <2>3. QED
    BY <2>0, <2>1, <2>2, <1>0, <1>0a, <1>0b, NewestHandled
<1>10. ASSUME NEW u \in User, Look(u)
     PROVE  Newest'
  <2>1. UNCHANGED <<link, end, shut, cache>>
    BY <1>10 DEF Look, Cached, Return, streams, users
  <2>2. QED
    BY <2>1, <1>0a DEF Newest, SameWay, Strong, Closed
<1>11. ASSUME NEW u \in User, LookPanic(u)
     PROVE  Newest'
  <2>0. Panicked(Home[u])
    BY <1>11, <1>0, Panics
  <2>a. ASSUME NEW x \in Node, NEW y \in Node, cache'[<<x, y>>] # cache[<<x, y>>]
        PROVE  end'[<<x, cache[<<x, y>>]>>] = "gone"
    <3>1. x = Home[u] /\ cache[<<x, y>>] # None
      BY <2>0, <2>a DEF Panicked
    <3>2. cache[<<x, y>>] \in Stream
      BY <3>1, <1>0 DEF Typed
    <3>3. /\ link[cache[<<x, y>>]] # None
          /\ link[cache[<<x, y>>]].from = x \/ link[cache[<<x, y>>]].to = x
      BY <3>1, <1>0a DEF Leads
    <3>4. QED
      BY <2>0, <3>1, <3>2, <3>3 DEF Panicked
  <2>b. \A x \in Node, t \in Stream : end'[<<x, t>>] = "reading" => end[<<x, t>>] = "reading"
    BY <2>0 DEF Panicked
  <2>c. link' = link
    BY <2>0 DEF Panicked
  <2>1. /\ link' = link
        /\ \A x \in Node, t \in Stream : end'[<<x, t>>] = "reading" => end[<<x, t>>] = "reading"
        /\ \A x, y \in Node : \/ cache'[<<x, y>>] = cache[<<x, y>>]
                              \/ end'[<<x, cache[<<x, y>>]>>] = "gone"
    BY <2>a, <2>b, <2>c
  <2>2. QED
    BY <2>1, <1>0, <1>0a, <1>0b, NewestKept
<1>12. ASSUME NEW u \in User, Write(u)
     PROVE  Newest'
  <2>1. UNCHANGED <<link, end, shut, cache>>
    BY <1>12 DEF Write, Return, streams, users
  <2>2. QED
    BY <2>1, <1>0a DEF Newest, SameWay, Strong, Closed
<1>13. ASSUME NEW u \in User, WriteError(u)
     PROVE  Newest'
  <2>0. NotWritten(u)
    BY <1>13, <1>0, <1>0a, WritesNotOn
  <2>1. /\ link' = link
        /\ \A x \in Node, t \in Stream : end'[<<x, t>>] = "reading" => end[<<x, t>>] = "reading"
        /\ \A x, y \in Node : \/ cache'[<<x, y>>] = cache[<<x, y>>]
                              \/ end'[<<x, cache[<<x, y>>]>>] = "gone"
    BY <2>0 DEF NotWritten
  <2>2. QED
    BY <2>1, <1>0, <1>0a, <1>0b, NewestKept
<1>14. ASSUME NEW s \in Stream, Break(s)
     PROVE  Newest'
  <2>1. /\ link' = link
        /\ \A x \in Node, t \in Stream : end'[<<x, t>>] = "reading" => end[<<x, t>>] = "reading"
        /\ \A x, y \in Node : \/ cache'[<<x, y>>] = cache[<<x, y>>]
                              \/ end'[<<x, cache[<<x, y>>]>>] = "gone"
    BY <1>14 DEF Break
  <2>2. QED
    BY <2>1, <1>0, <1>0a, <1>0b, NewestKept
<1>15. CASE UNCHANGED vars
  BY <1>15, <1>0a DEF vars, streams, users, Newest, SameWay, Strong, Closed
<1>16. QED
  BY <1>1, <1>2, <1>3, <1>4, <1>5, <1>6, <1>7, <1>8, <1>9, <1>10, <1>11,
    <1>12, <1>13, <1>14, <1>15 DEF Next, ReadStep, Arrive, UserStep

\* A stream that is opened is handled by the one that opens streams there.
LEMMA Opener ==
    ASSUME OneSender, Typed, Handling, OwnIsHandled, Framing, Numbered,
           NEW u \in User, NEW s \in Stream, link[s].to = Peer[u],
           end[<<Home[u], s>>] = "opened", Frames[u] # {}
    PROVE  pc[u] = "handle"
<1>1. Home[u] \in Node
  BY DEF Typed
<1>2. PICK v \in User : Home[v] = Home[u] /\ pc[v] = "handle" /\ held[v] = s
  BY <1>1 DEF OwnIsHandled
<1>3. Peer[v] = Peer[u]
  BY <1>2 DEF Handling
<1>4. frame[v] # None
  BY <1>2 DEF Numbered
<1>5. Frames[v] # {}
  BY <1>4 DEF Framing
<1>6. QED
  BY <1>2, <1>3, <1>5 DEF OneSender

\* The newest strong stream that is open at its opener is in the cache there, once
\* it is handled.
LEMMA OpenIsCached ==
    ASSUME OneSender, Typed, Handling, OwnIsHandled, Sides, Framing, Numbered, Newest,
           NEW u \in User, NEW s \in Stream, Strong(s),
           link[s].from = Home[u], link[s].to = Peer[u],
           ~Closed(Home[u], s), Frames[u] # {}, pc[u] # "handle"
    PROVE  cache[<<Home[u], Peer[u]>>] = s /\ end[<<Home[u], s>>] = "reading"
<1>1. end[<<Home[u], s>>] \in {"opened", "reading", "gone"}
  BY DEF Sides, Strong
<1>2. end[<<Home[u], s>>] # "opened"
  BY Opener
<1>3. end[<<Home[u], s>>] = "reading"
  BY <1>1, <1>2 DEF Closed
<1>4. QED
  BY <1>3 DEF Newest

\* Who had no part in a step needs what he needed.
LEMMA NeededKept ==
    ASSUME Typed, Needed, NEW U \in SUBSET User, link' = link,
           \A x \in Node, t \in Stream : Closed(x, t) => Closed(x, t)',
           \A v \in U : pc'[v] \in {"open", "write"} => pc'[v] = pc[v] /\ held'[v] = held[v],
           \A v \in U, t \in Stream :
              /\ link[t] # None /\ link[t].from = Home[v] /\ link[t].to = Peer[v]
              /\ pc[v] = "write" /\ end'[<<Home[v], t>>] = "reading"
              => end[<<Home[v], t>>] = "reading",
           \A v \in User \ U, t \in Stream :
              Strong(t) /\ link[t].from = Home[v] /\ link[t].to = Peer[v] =>
                /\ pc'[v] = "open" => Closed(Home[v], t)'
                /\ /\ pc'[v] = "write" /\ end'[<<Home[v], t>>] = "reading"
                   /\ <<Home[v], t>> \notin shut'
                   => held'[v] = t
    PROVE  Needed'
<1> SUFFICES ASSUME NEW v \in User, NEW t \in Stream,
                    Strong(t), link[t].from = Home[v], link[t].to = Peer[v]
             PROVE  /\ pc'[v] = "open" => Closed(Home[v], t)'
                    /\ /\ pc'[v] = "write" /\ end'[<<Home[v], t>>] = "reading"
                       /\ <<Home[v], t>> \notin shut'
                       => held'[v] = t
  BY DEF Needed, Strong
<1>1. CASE v \notin U
  BY <1>1
<1>2. CASE v \in U
  <2>1. Home[v] \in Node /\ link[t] # None
    BY DEF Typed, Strong
  <2>2. pc'[v] = "open" => Closed(Home[v], t)'
    BY <1>2, <2>1 DEF Needed
  <2>3. ASSUME pc'[v] = "write", end'[<<Home[v], t>>] = "reading", <<Home[v], t>> \notin shut'
        PROVE  held'[v] = t
    <3>1. pc[v] = "write" /\ held'[v] = held[v]
      BY <1>2, <2>3
    <3>2. end[<<Home[v], t>>] = "reading"
      BY <1>2, <2>1, <2>3, <3>1
    <3>3. ~Closed(Home[v], t)'
      BY <2>3 DEF Closed
    <3>4. <<Home[v], t>> \notin shut
      BY <2>1, <3>3 DEF Closed
    <3>5. QED
      BY <3>1, <3>2, <3>4 DEF Needed
  <2>4. QED
    BY <2>2, <2>3
<1>3. QED
  BY <1>1, <1>2

\* So it is with everybody, when nobody takes it.
LEMMA NeededByNone ==
    ASSUME Typed, Needed, link' = link,
           \A x \in Node, t \in Stream : Closed(x, t) => Closed(x, t)',
           \A v \in User : pc'[v] \in {"open", "write"} => pc'[v] = pc[v] /\ held'[v] = held[v],
           \A x \in Node, t \in Stream : end'[<<x, t>>] = "reading" => end[<<x, t>>] = "reading"
    PROVE  Needed'
<1> DEFINE U == User
<1>1. /\ U \in SUBSET User
      /\ \A v \in U : pc'[v] \in {"open", "write"} => pc'[v] = pc[v] /\ held'[v] = held[v]
  OBVIOUS
<1>2. \A v \in U, t \in Stream :
         /\ link[t] # None /\ link[t].from = Home[v] /\ link[t].to = Peer[v]
         /\ pc[v] = "write" /\ end'[<<Home[v], t>>] = "reading"
         => end[<<Home[v], t>>] = "reading"
  BY DEF Typed
<1>3. \A v \in User \ U, t \in Stream :
         Strong(t) /\ link[t].from = Home[v] /\ link[t].to = Peer[v] =>
           /\ pc'[v] = "open" => Closed(Home[v], t)'
           /\ /\ pc'[v] = "write" /\ end'[<<Home[v], t>>] = "reading"
              /\ <<Home[v], t>> \notin shut'
              => held'[v] = t
  OBVIOUS
<1> HIDE DEF U
<1>4. QED
  BY <1>1, <1>2, <1>3, NeededKept

\* So it is with all but the one who takes it.
LEMMA NeededByOne ==
    ASSUME Typed, Needed, NEW u \in User, link' = link,
           \A x \in Node, t \in Stream : Closed(x, t) => Closed(x, t)',
           \A v \in User \ {u} : pc'[v] = pc[v] /\ held'[v] = held[v],
           \A x \in Node, t \in Stream : end'[<<x, t>>] = "reading" => end[<<x, t>>] = "reading",
           \A t \in Stream :
              Strong(t) /\ link[t].from = Home[u] /\ link[t].to = Peer[u] =>
                /\ pc'[u] = "open" => Closed(Home[u], t)'
                /\ /\ pc'[u] = "write" /\ end'[<<Home[u], t>>] = "reading"
                   /\ <<Home[u], t>> \notin shut'
                   => held'[u] = t
    PROVE  Needed'
<1> DEFINE U == User \ {u}
<1>1. U \in SUBSET User
  OBVIOUS
<1>2. \A v \in U : pc'[v] \in {"open", "write"} => pc'[v] = pc[v] /\ held'[v] = held[v]
  OBVIOUS
<1>3. \A v \in U, t \in Stream :
         /\ link[t] # None /\ link[t].from = Home[v] /\ link[t].to = Peer[v]
         /\ pc[v] = "write" /\ end'[<<Home[v], t>>] = "reading"
         => end[<<Home[v], t>>] = "reading"
  BY DEF Typed
<1>4. \A v \in User \ U, t \in Stream :
         Strong(t) /\ link[t].from = Home[v] /\ link[t].to = Peer[v] =>
           /\ pc'[v] = "open" => Closed(Home[v], t)'
           /\ /\ pc'[v] = "write" /\ end'[<<Home[v], t>>] = "reading"
              /\ <<Home[v], t>> \notin shut'
              => held'[v] = t
  <2>1. \A v \in User \ U : v = u
    OBVIOUS
  <2>2. QED
    BY <2>1
<1> HIDE DEF U
<1>5. QED
  BY <1>1, <1>2, <1>3, <1>4, NeededKept

\* Another stream is opened only when the newest one is closed.
LEMMA NeededStep ==
    ASSUME OneSender, Orderly, Inv, FramesInv, Ordered, [Next]_vars
    PROVE  Needed'
PROOF
<1>0. Typed
  BY Types DEF Inv
<1>0a. /\ OneSender /\ Orderly /\ Linked /\ Handling /\ Writing /\ Leads /\ OwnIsHandled
       /\ Sides /\ Framing /\ Numbered /\ InOrder /\ LastCached /\ Newest /\ Needed
       /\ todo \in [User -> Seq(Piece)]
  BY DEF Inv, Ends, FramesInv, Pieces, Ordered
<1>0b. \A x \in Node, t \in Stream : Closed(x, t) => Closed(x, t)'
  BY ClosedStays DEF Inv, FramesInv
<1>1. ASSUME NEW n \in Node, NEW s \in Stream, HandleIncoming(n, s)
     PROVE  Needed'
  <2>0. /\ Handled(n, s) /\ Chosen(n, Other(n, s), s) /\ UNCHANGED users
        /\ end[<<n, s>>] = "incoming" /\ InTurn(n, s)
    BY <1>1, <1>0, <1>0a, Handles, Chooses DEF HandleIncoming
  <2>1. link[s].to = n /\ link[s].from # n /\ link[s] # None
    BY <2>0, <1>0, <1>0a, IncomingIsLast
  <2>2. \A v \in User : pc'[v] = pc[v] /\ held'[v] = held[v]
    BY <2>0 DEF users
  <2>3. ASSUME NEW v \in User, NEW t \in Stream, link[t] # None, link[t].from = Home[v],
               end'[<<Home[v], t>>] = "reading"
        PROVE  end[<<Home[v], t>>] = "reading"
    <3>1. <<Home[v], t>> # <<n, s>> /\ Home[v] \in Node
      BY <2>1, <2>3, <1>0 DEF Typed
    <3>2. QED
      BY <2>0, <2>3, <3>1 DEF Handled
  <2>4. link' = link
    BY <2>0 DEF Handled
  <2>5. QED
    BY <2>2, <2>3, <2>4, <1>0, <1>0a, <1>0b, NeededKept
<1>2. ASSUME NEW n \in Node, NEW s \in Stream, DropIncoming(n, s)
     PROVE  Needed'
  <2>1. /\ link' = link
        /\ \A v \in User : pc'[v] \in {"open", "write"} => pc'[v] = pc[v] /\ held'[v] = held[v]
        /\ \A x \in Node, t \in Stream : end'[<<x, t>>] = "reading" => end[<<x, t>>] = "reading"
    BY <1>2, <1>0 DEF DropIncoming, users, Typed
  <2>2. QED
    BY <2>1, <1>0, <1>0a, <1>0b, NeededByNone
<1>3. ASSUME NEW n \in Node, NEW s \in Stream, Read(n, s)
     PROVE  Needed'
  <2>1. /\ link' = link
        /\ \A v \in User : pc'[v] \in {"open", "write"} => pc'[v] = pc[v] /\ held'[v] = held[v]
        /\ \A x \in Node, t \in Stream : end'[<<x, t>>] = "reading" => end[<<x, t>>] = "reading"
    BY <1>3 DEF Read, streams, users
  <2>2. QED
    BY <2>1, <1>0, <1>0a, <1>0b, NeededByNone
<1>4. ASSUME NEW n \in Node, NEW s \in Stream, Leave(n, s)
     PROVE  Needed'
  <2>1. /\ link' = link
        /\ \A v \in User : pc'[v] \in {"open", "write"} => pc'[v] = pc[v] /\ held'[v] = held[v]
        /\ \A x \in Node, t \in Stream : end'[<<x, t>>] = "reading" => end[<<x, t>>] = "reading"
    BY <1>4, <1>0 DEF Leave, Gone, users, Typed
  <2>2. QED
    BY <2>1, <1>0, <1>0a, <1>0b, NeededByNone
<1>5. ASSUME NEW u \in User, NEW f \in Frames[u], Send(u, f)
     PROVE  Needed'
  <2>0. Begun(u, f)
    BY <1>5, <1>0, <1>0a, Sends
  <2>1. /\ link' = link
        /\ \A v \in User \ {u} : pc'[v] = pc[v] /\ held'[v] = held[v]
        /\ \A x \in Node, t \in Stream : end'[<<x, t>>] = "reading" => end[<<x, t>>] = "reading"
    BY <2>0 DEF Begun, Others
  <2>2. ASSUME NEW t \in Stream, Strong(t), link[t].from = Home[u], link[t].to = Peer[u]
        PROVE  /\ pc'[u] = "open" => Closed(Home[u], t)'
               /\ /\ pc'[u] = "write" /\ end'[<<Home[u], t>>] = "reading"
                  /\ <<Home[u], t>> \notin shut'
                  => held'[u] = t
    <3>1. pc[u] = "idle" /\ Frames[u] # {}
      BY <2>0 DEF Begun
    <3>2. ~Closed(Home[u], t) => cache[<<Home[u], Peer[u]>>] = t
      BY <2>2, <3>1, <1>0, <1>0a, OpenIsCached
    <3>3. t # None /\ Closed(Home[u], t)' = Closed(Home[u], t)
      BY <2>0, <1>0 DEF Begun, Closed, Typed
    <3>4. QED
      BY <2>0, <3>2, <3>3 DEF Begun, Closed
  <2>3. QED
    BY <2>1, <2>2, <1>0, <1>0a, <1>0b, NeededByOne
<1>6. ASSUME NEW u \in User, Connected(u)
     PROVE  Needed'
  <2>1. QED
    BY <1>6, <1>0a DEF Connected, Orderly
<1>7. ASSUME NEW u \in User, NEW s \in Stream, NEW direct \in BOOLEAN, NewStream(u, s, direct)
     PROVE  Needed'
  <2>0. Opened(u, s, direct)
    BY <1>7, <1>0, <1>0a, OpensOwn DEF Inv
  <2>1. ASSUME NEW v \in User, NEW t \in Stream, Strong(t)',
               link'[t].from = Home[v], link'[t].to = Peer[v], pc'[v] \in {"open", "write"}
        PROVE  /\ pc'[v] = "open" => Closed(Home[v], t)'
               /\ /\ pc'[v] = "write" /\ end'[<<Home[v], t>>] = "reading"
                  /\ <<Home[v], t>> \notin shut'
                  => held'[v] = t
    <3>1. v # u /\ pc'[v] = pc[v] /\ held'[v] = held[v]
      BY <2>0, <2>1 DEF Opened, Others
    <3>2. t # s
      <4>1. SUFFICES ASSUME t = s PROVE FALSE
        OBVIOUS
      <4>2. Home[v] = Home[u] /\ Peer[v] = Peer[u]
        BY <2>0, <2>1, <4>1 DEF Opened
      <4>3. frame[v] # None /\ frame[u] # None
        BY <2>0, <2>1, <3>1, <1>0a DEF Opened, Numbered
      <4>4. Frames[v] # {} /\ Frames[u] # {}
        BY <4>3, <1>0a DEF Framing
      <4>5. QED
        BY <3>1, <4>2, <4>4, <1>0a DEF OneSender
    <3>3. link'[t] = link[t] /\ shut' = shut /\ \A x \in Node : end'[<<x, t>>] = end[<<x, t>>]
      BY <2>0, <3>2 DEF Opened
    <3>4. Strong(t) /\ link[t].from = Home[v] /\ link[t].to = Peer[v] /\ Home[v] \in Node
      BY <2>1, <3>3, <1>0 DEF Strong, Typed
    <3>5. pc'[v] = "open" => Closed(Home[v], t)'
      BY <3>1, <3>4, <1>0a, <1>0b DEF Needed
    <3>6. QED
      BY <3>1, <3>3, <3>4, <3>5, <1>0a DEF Needed
  <2>2. QED
    BY <2>1 DEF Needed
<1>8. ASSUME NEW u \in User, NewStreamError(u)
     PROVE  Needed'
  <2>1. /\ link' = link
        /\ \A v \in User : pc'[v] \in {"open", "write"} => pc'[v] = pc[v] /\ held'[v] = held[v]
        /\ \A x \in Node, t \in Stream : end'[<<x, t>>] = "reading" => end[<<x, t>>] = "reading"
    BY <1>8, <1>0 DEF NewStreamError, Return, streams, Typed
  <2>2. QED
    BY <2>1, <1>0, <1>0a, <1>0b, NeededByNone
<1>9. ASSUME NEW u \in User, HandleOwn(u)
     PROVE  Needed'
  <2>0. /\ Handled(Home[u], held[u]) /\ Chosen(Home[u], Peer[u], held[u])
        /\ Home[u] \in Node /\ Peer[u] \in Node /\ held[u] \in Stream /\ pc[u] = "handle"
        /\ end[<<Home[u], held[u]>>] = "opened"
        /\ link[held[u]].from = Home[u] /\ link[held[u]].to = Peer[u]
        /\ UNCHANGED <<held, frame>> /\ pc' = [pc EXCEPT ![u] = "look"]
    BY <1>9, <1>0, <1>0a, HandlesOwn
  <2>1. link' = link
    BY <2>0 DEF Handled
  <2>2. \A v \in User : pc'[v] \in {"open", "write"} => pc'[v] = pc[v] /\ held'[v] = held[v]
    BY <2>0, <1>0 DEF Typed
  <2>3. ASSUME NEW v \in User, NEW t \in Stream, link[t].from = Home[v], link[t].to = Peer[v],
               pc[v] = "write", end'[<<Home[v], t>>] = "reading"
        PROVE  end[<<Home[v], t>>] = "reading"
    <3>1. Home[v] \in Node
      BY <1>0 DEF Typed
    <3>2. <<Home[v], t>> # <<Home[u], held[u]>>
      <4>1. SUFFICES ASSUME Home[v] = Home[u], t = held[u] PROVE FALSE
        OBVIOUS
      <4>2. Peer[v] = Peer[u] /\ v # u
        BY <2>0, <2>3, <4>1
      <4>3. frame[v] # None /\ frame[u] # None
        BY <2>0, <2>3, <1>0a DEF Numbered
      <4>4. Frames[v] # {} /\ Frames[u] # {}
        BY <4>3, <1>0a DEF Framing
      <4>5. QED
        BY <4>1, <4>2, <4>4, <1>0a DEF OneSender
    <3>3. QED
      BY <2>0, <2>3, <3>1, <3>2 DEF Handled
  <2>4. QED
    BY <2>1, <2>2, <2>3, <1>0, <1>0a, <1>0b, NeededKept
<1>10. ASSUME NEW u \in User, Look(u)
     PROVE  Needed'
  <2>0. Looked(u)
    BY <1>10, <1>0, <1>0a, LooksOn
  <2>1. /\ link' = link
        /\ \A v \in User \ {u} : pc'[v] = pc[v] /\ held'[v] = held[v]
        /\ \A x \in Node, t \in Stream : end'[<<x, t>>] = "reading" => end[<<x, t>>] = "reading"
    BY <2>0 DEF Looked, Others
  <2>2. ASSUME NEW t \in Stream, Strong(t), link[t].from = Home[u], link[t].to = Peer[u]
        PROVE  /\ pc'[u] = "open" => Closed(Home[u], t)'
               /\ /\ pc'[u] = "write" /\ end'[<<Home[u], t>>] = "reading"
                  /\ <<Home[u], t>> \notin shut'
                  => held'[u] = t
    <3>1. ASSUME pc'[u] = "write", end'[<<Home[u], t>>] = "reading", <<Home[u], t>> \notin shut'
          PROVE  held'[u] = t
      <4>1. /\ end[<<Home[u], t>>] = "reading" /\ ~Closed(Home[u], t)
            /\ held'[u] = cache[<<Home[u], Peer[u]>>]
        BY <2>0, <3>1 DEF Looked, Closed
      <4>2. QED
        BY <2>2, <4>1, <1>0a DEF Newest
    <3>2. pc'[u] # "open"
      BY <2>0 DEF Looked
    <3>3. QED
      BY <3>1, <3>2
  <2>3. QED
    BY <2>1, <2>2, <1>0, <1>0a, <1>0b, NeededByOne
<1>11. ASSUME NEW u \in User, LookPanic(u)
     PROVE  Needed'
  <2>0. Panicked(Home[u])
    BY <1>11, <1>0, Panics
  <2>1. /\ link' = link
        /\ \A v \in User : pc'[v] \in {"open", "write"} => pc'[v] = pc[v] /\ held'[v] = held[v]
        /\ \A x \in Node, t \in Stream : end'[<<x, t>>] = "reading" => end[<<x, t>>] = "reading"
    BY <2>0 DEF Panicked
  <2>2. QED
    BY <2>1, <1>0, <1>0a, <1>0b, NeededByNone
<1>12. ASSUME NEW u \in User, Write(u)
     PROVE  Needed'
  <2>0. Written(u)
    BY <1>12, <1>0, <1>0a, WritesOn
  <2>a. \A v \in User : pc'[v] \in {"open", "write"} => pc'[v] = pc[v] /\ held'[v] = held[v]
    BY <2>0 DEF Written, Others
  <2>b. end' = end /\ link' = link
    BY <2>0 DEF Written
  <2>1. /\ link' = link
        /\ \A v \in User : pc'[v] \in {"open", "write"} => pc'[v] = pc[v] /\ held'[v] = held[v]
        /\ \A x \in Node, t \in Stream : end'[<<x, t>>] = "reading" => end[<<x, t>>] = "reading"
    BY <2>a, <2>b DEF Typed
  <2>2. QED
    BY <2>1, <1>0, <1>0a, <1>0b, NeededByNone
<1>13. ASSUME NEW u \in User, WriteError(u)
     PROVE  Needed'
  <2>0. NotWritten(u)
    BY <1>13, <1>0, <1>0a, WritesNotOn
  <2>1. /\ link' = link
        /\ \A v \in User \ {u} : pc'[v] = pc[v] /\ held'[v] = held[v]
        /\ \A x \in Node, t \in Stream : end'[<<x, t>>] = "reading" => end[<<x, t>>] = "reading"
    BY <2>0 DEF NotWritten, Others
  <2>2. ASSUME NEW t \in Stream, Strong(t), link[t].from = Home[u], link[t].to = Peer[u]
        PROVE  /\ pc'[u] = "open" => Closed(Home[u], t)'
               /\ /\ pc'[u] = "write" /\ end'[<<Home[u], t>>] = "reading"
                  /\ <<Home[u], t>> \notin shut'
                  => held'[u] = t
    <3>1. pc[u] = "write" /\ pc'[u] # "write"
      BY <2>0 DEF NotWritten
    <3>2. Frames[u] # {} /\ Home[u] \in Node
      BY <3>1, <1>0, <1>0a DEF Framing, Typed
    <3>3. CASE Closed(Home[u], t)
      BY <3>1, <3>2, <3>3, <1>0b
    <3>4. CASE ~Closed(Home[u], t)
      <4>1. end[<<Home[u], t>>] = "reading" /\ <<Home[u], t>> \notin shut
        BY <2>2, <3>1, <3>2, <3>4, <1>0, <1>0a, OpenIsCached DEF Closed
      <4>2. held[u] = t
        BY <2>2, <3>1, <4>1, <1>0a DEF Needed
      <4>3. Closed(Home[u], t)'
        BY <2>0, <4>1, <4>2 DEF NotWritten, Closed
      <4>4. QED
        BY <3>1, <4>3
    <3>5. QED
      BY <3>3, <3>4
  <2>3. QED
    BY <2>1, <2>2, <1>0, <1>0a, <1>0b, NeededByOne
<1>14. ASSUME NEW s \in Stream, Break(s)
     PROVE  Needed'
  <2>1. /\ link' = link
        /\ \A v \in User : pc'[v] \in {"open", "write"} => pc'[v] = pc[v] /\ held'[v] = held[v]
        /\ \A x \in Node, t \in Stream : end'[<<x, t>>] = "reading" => end[<<x, t>>] = "reading"
    BY <1>14 DEF Break, users
  <2>2. QED
    BY <2>1, <1>0, <1>0a, <1>0b, NeededByNone
<1>15. CASE UNCHANGED vars
  <2>1. /\ link' = link
        /\ \A v \in User : pc'[v] \in {"open", "write"} => pc'[v] = pc[v] /\ held'[v] = held[v]
        /\ \A x \in Node, t \in Stream : end'[<<x, t>>] = "reading" => end[<<x, t>>] = "reading"
    BY <1>15 DEF vars, streams, users
  <2>2. QED
    BY <2>1, <1>0, <1>0a, <1>0b, NeededByNone
<1>16. QED
  BY <1>1, <1>2, <1>3, <1>4, <1>5, <1>6, <1>7, <1>8, <1>9, <1>10, <1>11,
    <1>12, <1>13, <1>14, <1>15 DEF Next, ReadStep, Arrive, UserStep

-----------------------------------------------------------------------------
(* Agreement *)

\* The faults of a behaviour do not change.
LEMMA WorldStays == ASSUME [Next]_vars PROVE world' = world
<1> USE DEF Handle, HandleIncoming, DropIncoming, Read, Leave, Gone, Send, Connected,
  NewStream,
            NewStreamError, HandleOwn, Look, LookPanic, Write, WriteError, Break
<1>1. ASSUME NEW n \in Node, NEW s \in Stream, ReadStep(n, s) \/ Arrive(n, s)
      PROVE  world' = world
  BY <1>1 DEF ReadStep, Arrive
<1>2. ASSUME NEW u \in User, (\E f \in Frames[u] : Send(u, f)) \/ Connected(u) \/ UserStep(u)
      PROVE  world' = world
  BY <1>2 DEF UserStep
<1>3. QED
  BY <1>1, <1>2 DEF Next, vars

\* Streams are as ordered in the beginning as they can be: there are none.
LEMMA OrderedInitially == Init => Ordered
<1> SUFFICES ASSUME Init PROVE Ordered
  OBVIOUS
<1>1. /\ link = [s \in Stream |-> None]
      /\ cache = [e \in Node \X Node |-> None]
      /\ pc = [u \in User |-> "idle"]
  BY DEF Init
<1>2. Numbered
  BY <1>1 DEF Numbered
<1>3. InOrder /\ LastCached
  BY <1>1 DEF InOrder, LastCached, SameWay
<1>4. Newest /\ Needed
  BY <1>1 DEF Newest, Needed, Strong
<1>5. QED
  BY <1>2, <1>3, <1>4 DEF Ordered

\* One sender alone cannot be in his own way.
LEMMA OneIsUnshared == OneSender => Unshared
<1> SUFFICES ASSUME OneSender, NEW u \in User, NEW v \in User,
                    Home[u] = Home[v], Peer[u] = Peer[v], u # v, Frames[v] # {},
                    NEW f \in Frames[u]
             PROVE  Len(Chunks(f)) = 1
  BY DEF Unshared
<1>1. QED
  BY DEF OneSender

\* If only one goroutine of a node opens streams to a peer (which the callers of
\* GetStream do not see to), and the streams that it opens are handled in order, the
\* newest stream of the peer with the smaller id is the only one of its side that
\* can be open.
LEMMA AgreementInvariant == ASSUME OneSender PROVE Spec => []AgreementInv
<1>1. Init => AgreementInv
  BY OrderedInitially DEF AgreementInv
<1>2. Inv /\ FramesInv /\ AgreementInv /\ [Next]_vars => AgreementInv'
  <2> SUFFICES ASSUME Inv, FramesInv, AgreementInv, [Next]_vars, Orderly' PROVE Ordered'
    BY DEF AgreementInv
  <2>1. Orderly /\ Ordered
    BY WorldStays DEF Orderly, AgreementInv
  <2>2. Numbered' /\ InOrder'
    BY <2>1, NumberedStep, InOrderStep
  <2>3. LastCached' /\ Newest' /\ Needed'
    BY <2>1, LastCachedStep, NewestStep, NeededStep
  <2>4. QED
    BY <2>2, <2>3 DEF Ordered
<1>3. Spec => []FramesInv
  BY OneIsUnshared, FramesInvariant
<1>4. QED
  BY <1>1, <1>2, <1>3, Invariant, PTL DEF Spec

\* Under the same condition peers that open streams to each other at once come to
\* use the same one: when both have a working stream in the cache, it is the same.
LEMMA PeersAgree == ASSUME OneSender PROVE Spec => []Agreement
<1>1. Inv /\ AgreementInv => Agreement
  <2> SUFFICES ASSUME Inv, AgreementInv, NEW n \in Node, NEW m \in Node, Orderly,
                      cache[<<n, m>>] # None, cache[<<m, n>>] # None,
                      Alive(cache[<<n, m>>]), Alive(cache[<<m, n>>])
               PROVE  cache[<<n, m>>] = cache[<<m, n>>]
    BY DEF Agreement, Orderly
  <2> DEFINE s == cache[<<n, m>>]
             t == cache[<<m, n>>]
  <2>1. Typed /\ Linked /\ Leads /\ LastCached /\ Newest
    BY Types DEF Inv, Ends, AgreementInv, Ordered
  <2>2. s \in Stream /\ t \in Stream
    BY <2>1 DEF Typed
  <2>3. Joins(s, n, m) /\ Joins(t, m, n)
    BY <2>1 DEF Leads, Joins
  <2>4. n # m
    BY <2>1, <2>2, <2>3 DEF Linked, Joins
  <2>5. /\ \A x \in {n, m} : end[<<x, s>>] = "reading" /\ ~Closed(x, s)
        /\ \A x \in {n, m} : end[<<x, t>>] = "reading" /\ ~Closed(x, t)
    BY <2>3 DEF Alive, Joins, Closed
  <2> HIDE DEF s, t
  <2>6. CASE Strong(s)
    <3>1. ~Closed(link[s].from, s)
      BY <2>3, <2>5 DEF Joins
    <3>2. cache[<<m, n>>] = s
      BY <2>1, <2>2, <2>3, <2>5, <2>6, <3>1, NewestEnds DEF Joins
    <3>3. QED
      BY <3>2 DEF s
  <2>7. CASE Strong(t)
    <3>1. ~Closed(link[t].from, t)
      BY <2>3, <2>5 DEF Joins
    <3>2. cache[<<n, m>>] = t
      BY <2>1, <2>2, <2>3, <2>5, <2>7, <3>1, NewestEnds DEF Joins
    <3>3. QED
      BY <3>2 DEF t
  <2>8. CASE ~Strong(s) /\ ~Strong(t)
    <3>1. n \in Nat /\ m \in Nat /\ s \in Nat /\ t \in Nat
      BY <2>2, NodeAssumption DEF Stream
    <3>2. SameWay(s, t) /\ SameWay(t, s)
      BY <2>3, <2>4, <2>8, <3>1 DEF Joins, Strong, SameWay
    <3>3. t <= s
      <4>1. s = cache[<<n, m>>]
        BY DEF s
      <4>2. QED
        BY <2>1, <2>2, <2>5, <3>2, <4>1 DEF LastCached
    <3>4. s <= t
      <4>1. t = cache[<<m, n>>]
        BY DEF t
      <4>2. QED
        BY <2>1, <2>2, <2>5, <3>2, <4>1 DEF LastCached
    <3>5. s = t
      BY <3>1, <3>3, <3>4
    <3>6. QED
      BY <3>5 DEF s, t
  <2>9. QED
    BY <2>6, <2>7, <2>8
<1>2. QED
  BY <1>1, AgreementInvariant, Invariant, PTL

\* All of it, where it holds: what the run checks on its instance.
THEOREM PeersInvariant == Spec => []PeersInv
<1>1. CASE ~Unshared
  <2>1. Inv => PeersInv
    BY <1>1, OneIsUnshared DEF PeersInv
  <2>2. QED
    BY <2>1, Invariant, PTL
<1>2. CASE Unshared /\ ~OneSender
  <2>1. Inv /\ FramesInv => PeersInv
    BY <1>2 DEF PeersInv
  <2>2. Spec => []FramesInv
    BY <1>2, FramesInvariant
  <2>3. QED
    BY <2>1, <2>2, Invariant, PTL
<1>3. CASE OneSender
  <2>1. Inv /\ FramesInv /\ AgreementInv => PeersInv
    BY DEF PeersInv
  <2>2. Spec => []FramesInv
    BY <1>3, OneIsUnshared, FramesInvariant
  <2>3. Spec => []AgreementInv
    BY <1>3, AgreementInvariant
  <2>4. QED
    BY <2>1, <2>2, <2>3, Invariant, PTL
<1>4. QED
  BY <1>1, <1>2, <1>3

=============================================================================
