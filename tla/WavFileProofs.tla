---------------------------- MODULE WavFileProofs ----------------------------
(***************************************************************************)
(* The reader finds in a file what was laid out there: of the writer's     *)
(* files every sample or nothing, of other ordinary files the first data   *)
(* chunk.  First what stands where in a file, then what the reader makes   *)
(* of it, then its walk through the chunks.                                *)
(***************************************************************************)
EXTENDS WavFile, SequenceTheorems, FiniteSetTheorems, WellFoundedInduction, TLAPS

\* The bytes p stand in s after the first off.
At(s, off, p) ==
  /\ off + Len(p) <= Len(s)
  /\ \A k \in 1 .. Len(p) : s[off + k] = p[k]
-----------------------------------------------------------------------------
(* Numbers. *)

LEMMA Moduli ==
  /\ FieldBase \in Nat /\ FieldBase >= 5
  /\ WordMod \in Nat /\ WordMod = FieldBase * FieldBase /\ WordMod > 16
  /\ SizeMod \in Nat /\ SizeMod = WordMod * WordMod /\ SizeMod > WordMod
<1>1. FieldBase \in Nat /\ 16 < FieldBase * FieldBase
  BY WavAssumption DEF BitsPerSample, WordMod
<1>2. FieldBase >= 5
  <2>1. CASE FieldBase \in {0, 1, 2, 3, 4}  BY <1>1, <2>1
  <2>2. CASE FieldBase \notin {0, 1, 2, 3, 4}  BY <1>1, <2>2
  <2> QED BY <2>1, <2>2
<1>3. WordMod \in Nat /\ WordMod = FieldBase * FieldBase /\ WordMod > 16
  BY <1>1 DEF WordMod
<1>4. \A w \in Nat : w > 16 => w * w \in Nat /\ w * w > w  OBVIOUS
<1>5. SizeMod \in Nat /\ SizeMod = WordMod * WordMod /\ SizeMod > WordMod
  BY <1>3, <1>4 DEF SizeMod
<1> QED BY <1>1, <1>2, <1>3, <1>5

LEMMA Division ==
  ASSUME NEW v \in Nat, NEW m \in Nat \ {0}, NEW q \in Nat, v < q * m
  PROVE  /\ v % m \in 0 .. (m - 1) /\ v \div m \in 0 .. (q - 1)
         /\ v = (v % m) + m * (v \div m)
<1>1. v % m \in 0 .. (m - 1) /\ v \div m \in Nat /\ v = (v % m) + m * (v \div m)
  OBVIOUS
<1> DEFINE d == v \div m
           r == v % m
<1>2. d < q
  <2> SUFFICES ASSUME d >= q PROVE FALSE
    BY <1>1
  <2> HIDE DEF d, r
  <2>1. d \in Nat /\ r \in Nat /\ v = r + m * d  BY <1>1 DEF d, r
  <2>2. PICK e \in Nat : d = q + e
    <3>1. d - q \in Nat /\ d = q + (d - q)  BY <2>1
    <3> QED BY <3>1
  <2>3. m * d = q * m + m * e /\ m * e >= 0  BY <2>2
  <2> QED BY <2>1, <2>3
<1> QED BY <1>1, <1>2

LEMMA Word ==
  ASSUME NEW v \in 0 .. (WordMod - 1)
  PROVE  /\ U16(v) \in Seq(Bytes) /\ U16(v) \in Seq(Nat) /\ Len(U16(v)) = 2
         /\ U16(v)[1] + FieldBase * U16(v)[2] = v
<1> DEFINE lo == v % FieldBase
           hi == v \div FieldBase
<1>1. lo \in Bytes /\ hi \in Bytes /\ v = lo + FieldBase * hi
  <2>1. v \in Nat /\ v < FieldBase * FieldBase /\ FieldBase \in Nat \ {0}  BY Moduli
  <2> QED BY <2>1, Division DEF Bytes
<1>2. U16(v) = <<lo, hi>>  BY DEF U16
<1> HIDE DEF lo, hi
<1>3. lo \in Nat /\ hi \in Nat  BY <1>1, Moduli DEF Bytes
<1>4. <<lo, hi>> \in Seq(Bytes) /\ <<lo, hi>> \in Seq(Nat) /\ Len(<<lo, hi>>) = 2
  BY <1>1, <1>3
<1>5. <<lo, hi>>[1] = lo /\ <<lo, hi>>[2] = hi  OBVIOUS
<1> QED BY <1>1, <1>2, <1>4, <1>5

LEMMA Chain ==
  ASSUME NEW s \in Seq(Nat), NEW t \in Seq(Nat)
  PROVE  /\ s \o t \in Seq(Nat) /\ Len(s \o t) = Len(s) + Len(t)
         /\ At(s \o t, Len(s), t)
         /\ \A off \in Nat, p \in Seq(Nat) : At(s, off, p) => At(s \o t, off, p)
         /\ \A off \in Nat, p \in Seq(Nat) : At(t, off, p) => At(s \o t, Len(s) + off, p)
<1>1. Len(s) \in Nat /\ Len(t) \in Nat  OBVIOUS
<1>2. /\ s \o t \in Seq(Nat) /\ Len(s \o t) = Len(s) + Len(t)
      /\ \A i \in 1 .. (Len(s) + Len(t)) :
           (s \o t)[i] = IF i <= Len(s) THEN s[i] ELSE t[i - Len(s)]
  BY ConcatProperties
<1> DEFINE u == s \o t
<1> HIDE DEF u
<1>3. At(u, Len(s), t)
  <2> SUFFICES ASSUME NEW k \in 1 .. Len(t) PROVE u[Len(s) + k] = t[k]
    BY <1>1, <1>2 DEF At, u
  <2>1. Len(s) + k \in 1 .. (Len(s) + Len(t)) /\ ~(Len(s) + k <= Len(s))
        /\ (Len(s) + k) - Len(s) = k
    BY <1>1
  <2> QED BY <1>2, <2>1 DEF u
<1>4. ASSUME NEW off \in Nat, NEW p \in Seq(Nat), At(s, off, p) PROVE At(u, off, p)
  <2>1. Len(p) \in Nat /\ off + Len(p) <= Len(s)  BY <1>4 DEF At
  <2>2. \A k \in 1 .. Len(p) : off + k \in 1 .. (Len(s) + Len(t)) /\ off + k <= Len(s)
    BY <1>1, <2>1
  <2>3. \A k \in 1 .. Len(p) : u[off + k] = p[k]
    BY <1>2, <1>4, <2>2 DEF At, u
  <2> QED BY <1>1, <1>2, <2>1, <2>3 DEF At, u
<1>5. ASSUME NEW off \in Nat, NEW p \in Seq(Nat), At(t, off, p) PROVE At(u, Len(s) + off, p)
  <2>1. Len(p) \in Nat /\ off + Len(p) <= Len(t)  BY <1>5 DEF At
  <2>2. \A k \in 1 .. Len(p) : (Len(s) + off) + k \in 1 .. (Len(s) + Len(t))
           /\ ~((Len(s) + off) + k <= Len(s)) /\ ((Len(s) + off) + k) - Len(s) = off + k
    BY <1>1, <2>1
  <2>3. \A k \in 1 .. Len(p) : u[(Len(s) + off) + k] = p[k]
    BY <1>2, <1>5, <2>2 DEF At, u
  <2> QED BY <1>1, <1>2, <2>1, <2>3 DEF At, u
<1> QED BY <1>2, <1>3, <1>4, <1>5 DEF u

LEMMA Long ==
  ASSUME NEW v \in 0 .. (SizeMod - 1)
  PROVE  LET l == v % WordMod
             h == v \div WordMod
         IN  /\ l \in 0 .. (WordMod - 1) /\ h \in 0 .. (WordMod - 1) /\ v = l + WordMod * h
             /\ U32(v) \in Seq(Nat) /\ U32(v) \in Seq(Bytes) /\ Len(U32(v)) = 4
             /\ At(U32(v), 0, U16(l)) /\ At(U32(v), 2, U16(h))
<1> DEFINE l == v % WordMod
           h == v \div WordMod
<1>1. l \in 0 .. (WordMod - 1) /\ h \in 0 .. (WordMod - 1) /\ v = l + WordMod * h
  <2>1. v \in Nat /\ v < WordMod * WordMod /\ WordMod \in Nat \ {0}  BY Moduli
  <2> QED BY <2>1, Division
<1>2. U32(v) = U16(l) \o U16(h)  BY DEF U32
<1> HIDE DEF l, h
<1>3. /\ U16(l) \in Seq(Nat) /\ U16(h) \in Seq(Nat) /\ Len(U16(l)) = 2 /\ Len(U16(h)) = 2
      /\ U16(l) \in Seq(Bytes) /\ U16(h) \in Seq(Bytes)
  BY <1>1, Word
<1>4. U32(v) \in Seq(Nat) /\ Len(U32(v)) = 4 /\ At(U32(v), 2, U16(h))
  <2>1. /\ U16(l) \o U16(h) \in Seq(Nat)
        /\ Len(U16(l) \o U16(h)) = Len(U16(l)) + Len(U16(h))
        /\ At(U16(l) \o U16(h), Len(U16(l)), U16(h))
    BY <1>3, Chain
  <2> QED BY <1>2, <1>3, <2>1
<1>5. U32(v) \in Seq(Bytes)  BY <1>2, <1>3, ConcatProperties
<1>6. At(U16(l), 0, U16(l))  BY <1>3 DEF At
<1>7. At(U32(v), 0, U16(l))  BY <1>2, <1>3, <1>6, Chain
<1> QED BY <1>1, <1>4, <1>5, <1>7 DEF l, h

LEMMA BytesAreNumbers == Bytes \subseteq Nat /\ 0 \in Bytes
  BY Moduli DEF Bytes

LEMMA IdBytes ==
  /\ Riff \in Ids /\ Wave \in Ids /\ FmtId \in Ids /\ DataId \in Ids /\ FmtId # DataId
  /\ \A id \in Ids : id \in Seq(Nat) /\ Len(id) = 4
<1>1. \A id \in Ids : id \in Seq(Nat) /\ Len(id) = 4
  <2> TAKE id \in Ids
  <2>1. id \in [1 .. 4 -> Nat]  BY BytesAreNumbers DEF Ids
  <2>2. id \in Seq(Nat)
    <3>1. [1 .. 4 -> Nat] \in {[1 .. n -> Nat] : n \in Nat}  OBVIOUS
    <3>2. id \in UNION {[1 .. n -> Nat] : n \in Nat}  BY <2>1, <3>1
    <3> QED BY <3>2, SeqDef
  <2>3. id \in [1 .. Len(id) -> Nat] /\ Len(id) \in Nat  BY <2>2, LenProperties
  <2>4. 1 .. Len(id) = 1 .. 4  BY <2>1, <2>3
  <2>5. \A n \in Nat : 1 .. n = 1 .. 4 => n = 4
    <3> TAKE n \in Nat
    <3>1. 4 \in 1 .. n => n >= 4  OBVIOUS
    <3>2. n > 4 => 5 \in 1 .. n  OBVIOUS
    <3>3. 4 \in 1 .. 4 /\ 5 \notin 1 .. 4  OBVIOUS
    <3> QED BY <3>1, <3>2, <3>3
  <2> QED BY <2>2, <2>3, <2>4, <2>5
<1> QED BY <1>1, WavAssumption

LEMMA SampleWords ==
  ASSUME NEW ints \in Seq(Samples)
  PROVE  /\ Words(ints) \in Seq(Nat) /\ Words(ints) \in Seq(Bytes)
         /\ Len(Words(ints)) = 2 * Len(ints)
         /\ \A i \in 1 .. Len(ints) :
              Words(ints)[2 * i - 1] + FieldBase * Words(ints)[2 * i] = ints[i] % WordMod
<1> DEFINE n == Len(ints)
           w == Words(ints)
           word(i) == U16(ints[i] % WordMod)
<1>1. n \in Nat  OBVIOUS
<1>2. \A i \in 1 .. n : ints[i] % WordMod \in 0 .. (WordMod - 1)
  <2> TAKE i \in 1 .. n
  <2>1. ints[i] \in Samples  OBVIOUS
  <2>2. ints[i] \in Int
    <3>1. WordMod \div 2 \in Int  BY Moduli
    <3> QED BY <2>1, <3>1 DEF Samples
  <2> QED BY <2>2, Moduli
<1>3. \A i \in 1 .. n : /\ word(i) \in Seq(Bytes) /\ Len(word(i)) = 2
                        /\ word(i)[1] + FieldBase * word(i)[2] = ints[i] % WordMod
  BY <1>2, Word
<1>4. w = [k \in 1 .. 2 * n |-> word((k + 1) \div 2)[2 - (k % 2)]]  BY DEF Words
<1> HIDE DEF n, w, word
<1>5. \A k \in 1 .. 2 * n : (k + 1) \div 2 \in 1 .. n /\ 2 - (k % 2) \in 1 .. 2
  BY <1>1
<1>6. \A k \in 1 .. 2 * n : word((k + 1) \div 2)[2 - (k % 2)] \in Bytes
  <2>1. \A i \in 1 .. n, b \in 1 .. 2 : word(i)[b] \in Bytes
    <3> TAKE i \in 1 .. n, b \in 1 .. 2
    <3>1. word(i) \in Seq(Bytes) /\ b \in 1 .. Len(word(i))  BY <1>3
    <3> QED BY <3>1, ElementOfSeq
  <2> QED BY <1>5, <2>1
<1>7. 2 * n \in Nat  BY <1>1
<1>8. w \in Seq(Bytes) /\ Len(w) = 2 * n
  BY <1>4, <1>6, <1>7
<1>9. w \in Seq(Nat)
  <2>1. Bytes \subseteq Nat  BY Moduli DEF Bytes
  <2> QED BY <1>8, <2>1, SeqMonotonic
<1>10. ASSUME NEW i \in 1 .. n
       PROVE  w[2 * i - 1] + FieldBase * w[2 * i] = ints[i] % WordMod
  <2>1. /\ 2 * i - 1 \in 1 .. 2 * n /\ 2 * i \in 1 .. 2 * n
        /\ ((2 * i - 1) + 1) \div 2 = i /\ 2 - ((2 * i - 1) % 2) = 1
        /\ (2 * i + 1) \div 2 = i /\ 2 - ((2 * i) % 2) = 2
    BY <1>1
  <2>2. w[2 * i - 1] = word(i)[1] /\ w[2 * i] = word(i)[2]  BY <1>4, <2>1
  <2> QED BY <1>3, <2>2
<1> QED BY <1>8, <1>9, <1>10 DEF n, w

LEMMA SampleBack == ASSUME NEW x \in Samples PROVE ToSample(x % WordMod) = x
<1> DEFINE h == WordMod \div 2
<1>1. h \in Nat /\ (WordMod = 2 * h \/ WordMod = 2 * h + 1) /\ WordMod \in Nat \ {0}
  BY Moduli
<1>2. x \in (0 - h) .. (h - 1)  BY <1>1 DEF Samples
<1>3. CASE x >= 0
  <2>1. x % WordMod = x  BY <1>1, <1>2, <1>3
  <2> QED BY <1>1, <1>2, <1>3, <2>1 DEF ToSample
<1>4. CASE x < 0
  <2>1. x % WordMod = x + WordMod
    <3> HIDE DEF h
    <3>1. x + WordMod \in 0 .. (WordMod - 1) /\ x \in Int  BY <1>1, <1>2, <1>4
    <3>2. x = WordMod * (-1) + (x + WordMod)  BY <1>1, <3>1
    <3> QED BY <1>1, <3>1, <3>2
  <2> HIDE DEF h
  <2>2. ~(x + WordMod < h)  BY <1>1, <1>2
  <2>3. ToSample(x + WordMod) = (x + WordMod) - WordMod  BY <2>2 DEF ToSample, h
  <2> QED BY <1>1, <1>2, <2>1, <2>3
<1> QED BY <1>2, <1>3, <1>4, <1>1

LEMMA FmtBytes ==
  ASSUME NEW format \in 0 .. (WordMod - 1), NEW channels \in 0 .. (WordMod - 1),
         NEW rate \in 0 .. (SizeMod - 1), NEW bits \in 0 .. (WordMod - 1)
  PROVE  LET f == Fmt(format, channels, rate, bits)
         IN  /\ f \in Seq(Nat) /\ Len(f) = 16
             /\ At(f, 0, U16(format)) /\ At(f, 2, U16(channels))
             /\ At(f, 4, U32(rate)) /\ At(f, 14, U16(bits))
<1> DEFINE a == U16(format)
           b == U16(channels)
           c == U32(rate)
           d == U32((rate * Channels * 2) % SizeMod)
           e == U16(Channels * 2)
           g == U16(bits)
<1>1. /\ a \in Seq(Nat) /\ Len(a) = 2 /\ b \in Seq(Nat) /\ Len(b) = 2
      /\ g \in Seq(Nat) /\ Len(g) = 2
  BY Word
<1>2. c \in Seq(Nat) /\ Len(c) = 4  BY Long
<1>3. d \in Seq(Nat) /\ Len(d) = 4
  <2>1. (rate * Channels * 2) % SizeMod \in 0 .. (SizeMod - 1)  BY Moduli DEF Channels
  <2> QED BY <2>1, Long
<1>4. e \in Seq(Nat) /\ Len(e) = 2
  <2>1. Channels * 2 \in 0 .. (WordMod - 1)  BY Moduli DEF Channels
  <2> QED BY <2>1, Word
<1>5. Fmt(format, channels, rate, bits) = ((((a \o b) \o c) \o d) \o e) \o g
  BY DEF Fmt
<1> HIDE DEF a, b, c, d, e, g
<1>6. At(a, 0, a)  BY <1>1 DEF At
<1>7. /\ a \o b \in Seq(Nat) /\ Len(a \o b) = 4 /\ At(a \o b, 0, a) /\ At(a \o b, 2, b)
  <2>1. Len(a) + Len(b) = 4  BY <1>1
  <2> QED BY <1>1, <1>6, <2>1, Chain
<1> DEFINE p == a \o b
<1> HIDE DEF p
<1>8. /\ p \o c \in Seq(Nat) /\ Len(p \o c) = 8
      /\ At(p \o c, 0, a) /\ At(p \o c, 2, b) /\ At(p \o c, 4, c)
  <2>1. p \in Seq(Nat) /\ Len(p) = 4 /\ Len(p) + Len(c) = 8  BY <1>2, <1>7 DEF p
  <2>2. At(p, 0, a) /\ At(p, 2, b)  BY <1>7 DEF p
  <2> QED BY <1>1, <1>2, <2>1, <2>2, Chain
<1> DEFINE q == p \o c
<1> HIDE DEF q
<1>9. /\ q \o d \in Seq(Nat) /\ Len(q \o d) = 12
      /\ At(q \o d, 0, a) /\ At(q \o d, 2, b) /\ At(q \o d, 4, c)
  <2>1. q \in Seq(Nat) /\ Len(q) + Len(d) = 12  BY <1>3, <1>8 DEF q
  <2>2. At(q, 0, a) /\ At(q, 2, b) /\ At(q, 4, c)  BY <1>8 DEF q
  <2> QED BY <1>1, <1>2, <1>3, <2>1, <2>2, Chain
<1> DEFINE r == q \o d
<1> HIDE DEF r
<1>10. /\ r \o e \in Seq(Nat) /\ Len(r \o e) = 14
       /\ At(r \o e, 0, a) /\ At(r \o e, 2, b) /\ At(r \o e, 4, c)
  <2>1. r \in Seq(Nat) /\ Len(r) + Len(e) = 14  BY <1>4, <1>9 DEF r
  <2>2. At(r, 0, a) /\ At(r, 2, b) /\ At(r, 4, c)  BY <1>9 DEF r
  <2> QED BY <1>1, <1>2, <1>4, <2>1, <2>2, Chain
<1> DEFINE s == r \o e
<1> HIDE DEF s
<1>11. /\ s \o g \in Seq(Nat) /\ Len(s \o g) = 16 /\ At(s \o g, 14, g)
       /\ At(s \o g, 0, a) /\ At(s \o g, 2, b) /\ At(s \o g, 4, c)
  <2>1. s \in Seq(Nat) /\ Len(s) = 14 /\ Len(s) + Len(g) = 16  BY <1>1, <1>10 DEF s
  <2>2. At(s, 0, a) /\ At(s, 2, b) /\ At(s, 4, c)  BY <1>10 DEF s
  <2> QED BY <1>1, <1>2, <2>1, <2>2, Chain
<1> QED BY <1>5, <1>11 DEF s, r, q, p, a, b, c, g
-----------------------------------------------------------------------------
(* What stands where in a file. *)

LEMMA AtWithin ==
  ASSUME NEW s \in Seq(Nat), NEW p \in Seq(Nat), NEW q \in Seq(Nat),
         NEW off \in Nat, NEW inner \in Nat, At(s, off, p), At(p, inner, q)
  PROVE  At(s, off + inner, q)
<1>1. Len(s) \in Nat /\ Len(p) \in Nat /\ Len(q) \in Nat  OBVIOUS
<1>2. off + Len(p) <= Len(s) /\ inner + Len(q) <= Len(p)  BY DEF At
<1>3. \A k \in 1 .. Len(q) : /\ inner + k \in 1 .. Len(p)
                             /\ (off + inner) + k = off + (inner + k)
  BY <1>1, <1>2
<1>4. \A k \in 1 .. Len(q) : s[(off + inner) + k] = q[k]
  BY <1>3 DEF At
<1> QED BY <1>1, <1>2, <1>4 DEF At

LEMMA AtCut ==
  ASSUME NEW s \in Seq(Nat), NEW length \in 0 .. Len(s)
  PROVE  LET f == SubSeq(s, 1, length)
         IN  /\ f \in Seq(Nat) /\ Len(f) = length
             /\ \A k \in 1 .. length : f[k] = s[k]
             /\ \A off \in Nat, p \in Seq(Nat) :
                  At(s, off, p) /\ off + Len(p) <= length => At(f, off, p)
<1> DEFINE f == SubSeq(s, 1, length)
<1>1. length \in Nat /\ Len(s) \in Nat /\ 1 .. length \subseteq 1 .. Len(s)  OBVIOUS
<1>2. \A i \in 1 .. length : s[i] \in Nat  BY <1>1, ElementOfSeq
<1>3. /\ f \in Seq(Nat) /\ Len(f) = IF 1 <= length THEN length - 1 + 1 ELSE 0
      /\ \A i \in 1 .. length - 1 + 1 : f[i] = s[1 + i - 1]
  BY <1>1, <1>2, SubSeqProperties
<1> HIDE DEF f
<1>4. Len(f) = length  BY <1>1, <1>3
<1>5. \A k \in 1 .. length : f[k] = s[k]
  <2> TAKE k \in 1 .. length
  <2>1. k \in 1 .. length - 1 + 1 /\ 1 + k - 1 = k  BY <1>1
  <2> QED BY <1>3, <2>1
<1>6. ASSUME NEW off \in Nat, NEW p \in Seq(Nat), At(s, off, p), off + Len(p) <= length
      PROVE  At(f, off, p)
  <2>1. Len(p) \in Nat  OBVIOUS
  <2>2. \A k \in 1 .. Len(p) : off + k \in 1 .. length  BY <1>1, <1>6, <2>1
  <2>3. \A k \in 1 .. Len(p) : f[off + k] = p[k]  BY <1>5, <1>6, <2>2 DEF At
  <2> QED BY <1>4, <1>6, <2>3 DEF At
<1> QED BY <1>3, <1>4, <1>5, <1>6 DEF f

\* A header of four bytes and a length, which every chunk and file begins with.
LEMMA WavHeader ==
  ASSUME NEW rate \in 0 .. (SizeMod - 1), NEW ints \in Seq(Samples),
         2 * Len(ints) < SizeMod
  PROVE  LET w == WavBytes(rate, ints)
         IN  /\ w \in Seq(Nat) /\ Len(w) = 44 + 2 * Len(ints)
             /\ At(w, 0, Riff) /\ At(w, 8, Wave)
             /\ At(w, 12, FmtId) /\ At(w, 16, U32(16))
             /\ At(w, 20, Fmt(1, Channels, rate, BitsPerSample))
             /\ At(w, 36, DataId) /\ At(w, 40, U32(2 * Len(ints)))
             /\ At(w, 44, Words(ints))
<1> DEFINE n == Len(ints)
           a == Riff
           b == U32((36 + DataBytes(n)) % SizeMod)
           c == Wave
           d == FmtId
           e == U32(16)
           g == Fmt(1, Channels, rate, BitsPerSample)
           h == DataId
           i == U32(2 * n)
           j == Words(ints)
<1>1. n \in Nat /\ 2 * n \in 0 .. (SizeMod - 1) /\ DataBytes(n) = 2 * n
  <2>1. n \in Nat /\ 2 * n \in Nat /\ 2 * n < SizeMod  OBVIOUS
  <2>2. (2 * n) % SizeMod = 2 * n  BY <2>1, Moduli
  <2> QED BY <2>1, <2>2, Moduli DEF DataBytes
<1>2. WavBytes(rate, ints) = (((((((a \o b) \o c) \o d) \o e) \o g) \o h) \o i) \o j
  BY <1>1 DEF WavBytes
<1>3. /\ a \in Seq(Nat) /\ Len(a) = 4 /\ c \in Seq(Nat) /\ Len(c) = 4
      /\ d \in Seq(Nat) /\ Len(d) = 4 /\ h \in Seq(Nat) /\ Len(h) = 4
  BY IdBytes
<1>4. /\ b \in Seq(Nat) /\ Len(b) = 4 /\ e \in Seq(Nat) /\ Len(e) = 4
      /\ i \in Seq(Nat) /\ Len(i) = 4
  <2>1. (36 + DataBytes(n)) % SizeMod \in 0 .. (SizeMod - 1)  BY <1>1, Moduli
  <2>2. 16 \in 0 .. (SizeMod - 1)  BY Moduli
  <2> QED BY <1>1, <2>1, <2>2, Long
<1>5. g \in Seq(Nat) /\ Len(g) = 16
  <2>1. 1 \in 0 .. (WordMod - 1) /\ Channels \in 0 .. (WordMod - 1)
        /\ BitsPerSample \in 0 .. (WordMod - 1)
    BY Moduli DEF Channels, BitsPerSample
  <2> QED BY <2>1, FmtBytes
<1>6. j \in Seq(Nat) /\ Len(j) = 2 * n  BY SampleWords
<1> HIDE DEF n, a, b, c, d, e, g, h, i, j
<1>7. At(a, 0, a)  BY <1>3 DEF At
<1>8. a \o b \in Seq(Nat) /\ Len(a \o b) = 8 /\ At(a \o b, 0, a)
  <2>1. Len(a) + Len(b) = 8  BY <1>3, <1>4
  <2> QED BY <1>3, <1>4, <1>7, <2>1, Chain
<1> DEFINE p == a \o b
<1> HIDE DEF p
<1>9. p \o c \in Seq(Nat) /\ Len(p \o c) = 12 /\ At(p \o c, 0, a) /\ At(p \o c, 8, c)
  <2>1. p \in Seq(Nat) /\ Len(p) = 8 /\ Len(p) + Len(c) = 12 /\ At(p, 0, a)
    BY <1>3, <1>8 DEF p
  <2> QED BY <1>3, <2>1, Chain
<1> DEFINE q == p \o c
<1> HIDE DEF q
<1>10. /\ q \o d \in Seq(Nat) /\ Len(q \o d) = 16
       /\ At(q \o d, 0, a) /\ At(q \o d, 8, c) /\ At(q \o d, 12, d)
  <2>1. q \in Seq(Nat) /\ Len(q) = 12 /\ Len(q) + Len(d) = 16 /\ At(q, 0, a) /\ At(q, 8, c)
    BY <1>3, <1>9 DEF q
  <2> QED BY <1>3, <2>1, Chain
<1> DEFINE r == q \o d
<1> HIDE DEF r
<1>11. /\ r \o e \in Seq(Nat) /\ Len(r \o e) = 20 /\ At(r \o e, 16, e)
       /\ At(r \o e, 0, a) /\ At(r \o e, 8, c) /\ At(r \o e, 12, d)
  <2>1. /\ r \in Seq(Nat) /\ Len(r) = 16 /\ Len(r) + Len(e) = 20
        /\ At(r, 0, a) /\ At(r, 8, c) /\ At(r, 12, d)
    BY <1>4, <1>10 DEF r
  <2> QED BY <1>3, <1>4, <2>1, Chain
<1> DEFINE s == r \o e
<1> HIDE DEF s
<1>12. /\ s \o g \in Seq(Nat) /\ Len(s \o g) = 36 /\ At(s \o g, 16, e) /\ At(s \o g, 20, g)
       /\ At(s \o g, 0, a) /\ At(s \o g, 8, c) /\ At(s \o g, 12, d)
  <2>1. /\ s \in Seq(Nat) /\ Len(s) = 20 /\ Len(s) + Len(g) = 36 /\ At(s, 16, e)
        /\ At(s, 0, a) /\ At(s, 8, c) /\ At(s, 12, d)
    BY <1>5, <1>11 DEF s
  <2> QED BY <1>3, <1>4, <1>5, <2>1, Chain
<1> DEFINE t == s \o g
<1> HIDE DEF t
<1>13. /\ t \o h \in Seq(Nat) /\ Len(t \o h) = 40 /\ At(t \o h, 16, e) /\ At(t \o h, 20, g)
       /\ At(t \o h, 0, a) /\ At(t \o h, 8, c) /\ At(t \o h, 12, d) /\ At(t \o h, 36, h)
  <2>1. /\ t \in Seq(Nat) /\ Len(t) = 36 /\ Len(t) + Len(h) = 40 /\ At(t, 16, e)
        /\ At(t, 20, g) /\ At(t, 0, a) /\ At(t, 8, c) /\ At(t, 12, d)
    BY <1>3, <1>12 DEF t
  <2>2. /\ t \o h \in Seq(Nat) /\ Len(t \o h) = 40 /\ At(t \o h, 36, h)
        /\ \A off \in Nat, w \in Seq(Nat) : At(t, off, w) => At(t \o h, off, w)
    BY <1>3, <2>1, Chain
  <2> QED BY <1>3, <1>4, <1>5, <2>1, <2>2
<1> DEFINE u == t \o h
<1> HIDE DEF u
<1>14. /\ u \o i \in Seq(Nat) /\ Len(u \o i) = 44 /\ At(u \o i, 16, e) /\ At(u \o i, 20, g)
       /\ At(u \o i, 0, a) /\ At(u \o i, 8, c) /\ At(u \o i, 12, d) /\ At(u \o i, 36, h)
       /\ At(u \o i, 40, i)
  <2>1. /\ u \in Seq(Nat) /\ Len(u) = 40 /\ Len(u) + Len(i) = 44 /\ At(u, 16, e)
        /\ At(u, 20, g) /\ At(u, 0, a) /\ At(u, 8, c) /\ At(u, 12, d) /\ At(u, 36, h)
    BY <1>4, <1>13 DEF u
  <2>2. /\ u \o i \in Seq(Nat) /\ Len(u \o i) = 44 /\ At(u \o i, 40, i)
        /\ \A off \in Nat, w \in Seq(Nat) : At(u, off, w) => At(u \o i, off, w)
    BY <1>4, <2>1, Chain
  <2> QED BY <1>3, <1>4, <1>5, <2>1, <2>2
<1> DEFINE v == u \o i
<1> HIDE DEF v
<1>15. /\ v \o j \in Seq(Nat) /\ Len(v \o j) = 44 + 2 * n /\ At(v \o j, 16, e)
       /\ At(v \o j, 20, g) /\ At(v \o j, 0, a) /\ At(v \o j, 8, c) /\ At(v \o j, 12, d)
       /\ At(v \o j, 36, h) /\ At(v \o j, 40, i) /\ At(v \o j, 44, j)
  <2>1. /\ v \in Seq(Nat) /\ Len(v) = 44 /\ At(v, 16, e) /\ At(v, 40, i)
        /\ At(v, 20, g) /\ At(v, 0, a) /\ At(v, 8, c) /\ At(v, 12, d) /\ At(v, 36, h)
    BY <1>14 DEF v
  <2>2. Len(v) + Len(j) = 44 + 2 * n  BY <1>6, <2>1
  <2>3. /\ v \o j \in Seq(Nat) /\ Len(v \o j) = 44 + 2 * n /\ At(v \o j, 44, j)
        /\ \A off \in Nat, w \in Seq(Nat) : At(v, off, w) => At(v \o j, off, w)
    BY <1>6, <2>1, <2>2, Chain
  <2> QED BY <1>3, <1>4, <1>5, <2>1, <2>3
<1>16. WavBytes(rate, ints) = v \o j  BY <1>2 DEF v, u, t, s, r, q, p
<1> QED BY <1>15, <1>16 DEF n, a, c, d, e, g, h, i, j
-----------------------------------------------------------------------------
(* What the reader makes of it. *)

LEMMA ReadsWord ==
  ASSUME file \in Seq(Nat), pos \in Nat, NEW offset \in Nat, NEW v \in 0 .. (WordMod - 1),
         At(file, pos + offset, U16(v))
  PROVE  ReadU16(offset) = v
<1>1. Len(U16(v)) = 2 /\ U16(v)[1] + FieldBase * U16(v)[2] = v  BY Word
<1>2. 1 \in 1 .. Len(U16(v)) /\ 2 \in 1 .. Len(U16(v))  BY <1>1
<1>3. file[(pos + offset) + 1] = U16(v)[1] /\ file[(pos + offset) + 2] = U16(v)[2]
  BY <1>2 DEF At
<1> QED BY <1>1, <1>3 DEF ReadU16

LEMMA ReadsLong ==
  ASSUME file \in Seq(Nat), pos \in Nat, NEW offset \in Nat, NEW v \in 0 .. (SizeMod - 1),
         At(file, pos + offset, U32(v))
  PROVE  ReadU32(offset) = v
<1> DEFINE l == v % WordMod
           h == v \div WordMod
<1>1. /\ l \in 0 .. (WordMod - 1) /\ h \in 0 .. (WordMod - 1) /\ v = l + WordMod * h
      /\ U32(v) \in Seq(Nat) /\ At(U32(v), 0, U16(l)) /\ At(U32(v), 2, U16(h))
  BY Long
<1> HIDE DEF l, h
<1>2. U16(l) \in Seq(Nat) /\ U16(h) \in Seq(Nat)  BY <1>1, Word
<1>3. pos + offset \in Nat /\ (pos + offset) + 0 = pos + offset
      /\ (pos + offset) + 2 = pos + (offset + 2) /\ offset + 2 \in Nat /\ 0 \in Nat /\ 2 \in Nat
  OBVIOUS
<1>4. At(file, (pos + offset) + 0, U16(l)) /\ At(file, (pos + offset) + 2, U16(h))
  BY <1>1, <1>2, <1>3, AtWithin
<1>5. At(file, pos + offset, U16(l)) /\ At(file, pos + (offset + 2), U16(h))
  BY <1>3, <1>4
<1>6. ReadU16(offset) = l /\ ReadU16(offset + 2) = h  BY <1>1, <1>3, <1>5, ReadsWord
<1> QED BY <1>1, <1>6 DEF ReadU32

LEMMA IdThere ==
  ASSUME file \in Seq(Nat), NEW o \in Nat, NEW id \in Ids, At(file, o, id)
  PROVE  SubSeq(file, o + 1, o + 4) = id
<1> DEFINE b == o + 1
           e == o + 4
           t == SubSeq(file, b, e)
<1>1. id \in Seq(Nat) /\ Len(id) = 4  BY IdBytes
<1>2. o + 4 <= Len(file) /\ Len(file) \in Nat  BY <1>1 DEF At
<1>3. \A i \in b .. e : file[i] \in Nat
  <2> TAKE i \in b .. e
  <2>1. i \in 1 .. Len(file)  BY <1>2
  <2> QED BY <2>1, ElementOfSeq
<1>4. b \in Int /\ e \in Int /\ b <= e /\ e - b + 1 = 4 /\ \A i \in 1 .. 4 : b + i - 1 = o + i
  OBVIOUS
<1>5. \A i \in 1 .. 4 : file[o + i] = id[i]  BY <1>1 DEF At
<1> HIDE DEF b, e
<1>6. /\ t \in Seq(Nat) /\ Len(t) = IF b <= e THEN e - b + 1 ELSE 0
      /\ \A i \in 1 .. e - b + 1 : t[i] = file[b + i - 1]
  BY <1>3, <1>4, SubSeqProperties
<1> HIDE DEF t
<1>7. \A i \in 1 .. 4 : t[i] = id[i]  BY <1>4, <1>5, <1>6
<1>8. t = id  BY <1>1, <1>4, <1>6, <1>7, SeqEqual
<1> QED BY <1>8 DEF t, b, e

LEMMA ReadsTag ==
  ASSUME file \in Seq(Nat), pos \in Nat, NEW offset \in Nat, NEW id \in Ids,
         At(file, pos + offset, id)
  PROVE  \A other : HasTag(offset, other) <=> other = id
<1>1. pos + offset \in Nat  OBVIOUS
<1>2. SubSeq(file, pos + offset + 1, pos + offset + 4) = id  BY <1>1, IdThere
<1> QED BY <1>2 DEF HasTag
-----------------------------------------------------------------------------
(* The writer's files. *)

Complete == Len(file) = 44 + 2 * Len(source.ints)

AsWritten ==
  result = [num_channels |-> Channels, sample_rate |-> SampleRate,
            bits_per_sample |-> BitsPerSample]

\* A file of the writer's, its beginning at least, and how far the reader is in it.
Rereading ==
  /\ source.ints \in Recordings
  /\ Len(file) \in 0 .. (44 + 2 * Len(source.ints))
  /\ file = SubSeq(WavBytes(SampleRate, source.ints), 1, Len(file))
  /\ outcome = "opened" => pos = 0 /\ ~have_fmt /\ ~have_data
  /\ outcome = "reading" =>
       \/ pos = 12 /\ ~have_fmt /\ ~have_data
       \/ pos = 36 /\ have_fmt /\ ~have_data /\ AsWritten
       \/ have_fmt /\ have_data /\ AsWritten /\ Complete /\ samples = source.ints
  /\ outcome = "read" => AsWritten /\ Complete /\ samples = source.ints
  /\ outcome = "refused" => ~Complete

RereadInv ==
  /\ outcome \in {"absent", "opened", "reading", "read", "refused"}
  /\ outcome = "absent" => ~source.written /\ pos = 0 /\ ~have_fmt /\ ~have_data
  /\ source.written => outcome # "absent" /\ Rereading

LEMMA WrittenFile ==
  ASSUME SizesFit, Rereading
  PROVE  LET n == Len(source.ints)
         IN  /\ source.ints \in Seq(Samples) /\ n \in Nat /\ 2 * n \in 0 .. (SizeMod - 1)
             /\ file \in Seq(Nat) /\ Len(file) \in Nat /\ Len(file) <= 44 + 2 * n
             /\ Len(file) >= 12 => At(file, 0, Riff) /\ At(file, 8, Wave)
             /\ Len(file) >= 20 => At(file, 12, FmtId) /\ At(file, 16, U32(16))
             /\ Len(file) >= 36 => At(file, 20, Fmt(1, Channels, SampleRate, BitsPerSample))
             /\ Len(file) >= 44 => At(file, 36, DataId) /\ At(file, 40, U32(2 * n))
             /\ Complete => At(file, 44, Words(source.ints))
<1> DEFINE ints == source.ints
           n == Len(ints)
           w == WavBytes(SampleRate, ints)
           length == Len(file)
<1>1. /\ ints \in Seq(Samples) /\ n \in Nat /\ 2 * n < SizeMod
      /\ SampleRate \in 0 .. (SizeMod - 1)
  <2>1. ints \in Recordings /\ Recordings \subseteq Seq(Samples)
        /\ SampleRate \in 0 .. (SizeMod - 1)
    BY WavAssumption DEF Rereading
  <2>2. ints \in Seq(Samples) /\ 2 * n < SizeMod  BY <2>1 DEF SizesFit
  <2> QED BY <2>1, <2>2
<1>2. length \in 0 .. (44 + 2 * n) /\ file = SubSeq(w, 1, length)  BY DEF Rereading
<1>3. /\ w \in Seq(Nat) /\ Len(w) = 44 + 2 * n
      /\ At(w, 0, Riff) /\ At(w, 8, Wave) /\ At(w, 12, FmtId)
      /\ At(w, 16, U32(16)) /\ At(w, 20, Fmt(1, Channels, SampleRate, BitsPerSample))
      /\ At(w, 36, DataId) /\ At(w, 40, U32(2 * n)) /\ At(w, 44, Words(ints))
  BY <1>1, WavHeader
<1> HIDE DEF w
<1>4. 2 * n \in 0 .. (SizeMod - 1)
  <2>1. 2 * n \in Nat  BY <1>1
  <2> QED BY <1>1, <2>1, Moduli
<1>5. /\ Riff \in Seq(Nat) /\ Len(Riff) = 4
      /\ Wave \in Seq(Nat) /\ Len(Wave) = 4
      /\ FmtId \in Seq(Nat) /\ Len(FmtId) = 4
      /\ DataId \in Seq(Nat) /\ Len(DataId) = 4
  BY IdBytes
<1>6. /\ U32(16) \in Seq(Nat) /\ Len(U32(16)) = 4
      /\ U32(2 * n) \in Seq(Nat) /\ Len(U32(2 * n)) = 4
  <2>1. 16 \in 0 .. (SizeMod - 1)  BY Moduli
  <2> QED BY <1>4, <2>1, Long
<1>7. /\ Fmt(1, Channels, SampleRate, BitsPerSample) \in Seq(Nat)
      /\ Len(Fmt(1, Channels, SampleRate, BitsPerSample)) = 16
  <2>1. 1 \in 0 .. (WordMod - 1) /\ Channels \in 0 .. (WordMod - 1)
        /\ BitsPerSample \in 0 .. (WordMod - 1)
    BY Moduli DEF Channels, BitsPerSample
  <2> QED BY <1>1, <2>1, FmtBytes
<1>8. Words(ints) \in Seq(Nat) /\ Len(Words(ints)) = 2 * n  BY <1>1, SampleWords
<1>9. /\ file \in Seq(Nat)
      /\ \A off \in Nat, p \in Seq(Nat) :
           At(w, off, p) /\ off + Len(p) <= length => At(file, off, p)
  <2> HIDE DEF length, n
  <2>1. length \in 0 .. Len(w)  BY <1>2, <1>3
  <2> QED BY <1>2, <1>3, <2>1, AtCut
<1>10. length \in Nat /\ length <= 44 + 2 * n  BY <1>1, <1>2
<1> HIDE DEF length, n
<1>11. length >= 12 => At(file, 0, Riff) /\ At(file, 8, Wave)
  <2> SUFFICES ASSUME length >= 12 PROVE At(file, 0, Riff) /\ At(file, 8, Wave)
    OBVIOUS
  <2>1. 0 + 4 <= length /\ 8 + 4 <= length  BY <1>10
  <2> QED BY <1>3, <1>5, <1>9, <2>1
<1>12. length >= 20 => At(file, 12, FmtId) /\ At(file, 16, U32(16))
  <2> SUFFICES ASSUME length >= 20 PROVE At(file, 12, FmtId) /\ At(file, 16, U32(16))
    OBVIOUS
  <2>1. 12 + 4 <= length /\ 16 + 4 <= length  BY <1>10
  <2> QED BY <1>3, <1>5, <1>6, <1>9, <2>1
<1>13. length >= 36 => At(file, 20, Fmt(1, Channels, SampleRate, BitsPerSample))
  <2> SUFFICES ASSUME length >= 36
               PROVE  At(file, 20, Fmt(1, Channels, SampleRate, BitsPerSample))
    OBVIOUS
  <2>1. 20 + 16 <= length  BY <1>10
  <2> QED BY <1>3, <1>7, <1>9, <2>1
<1>14. length >= 44 => At(file, 36, DataId) /\ At(file, 40, U32(2 * n))
  <2> SUFFICES ASSUME length >= 44
               PROVE  At(file, 36, DataId) /\ At(file, 40, U32(2 * n))
    OBVIOUS
  <2>1. 36 + 4 <= length /\ 40 + 4 <= length  BY <1>10
  <2> QED BY <1>3, <1>5, <1>6, <1>9, <2>1
<1>15. Complete => At(file, 44, Words(ints))
  <2> SUFFICES ASSUME Complete PROVE At(file, 44, Words(ints))
    OBVIOUS
  <2>1. 44 + Len(Words(ints)) <= length  BY <1>8, <1>10 DEF Complete, length, n
  <2> QED BY <1>3, <1>8, <1>9, <2>1
<1> QED BY <1>1, <1>4, <1>9, <1>10, <1>11, <1>12, <1>13, <1>14, <1>15 DEF length, n

LEMMA RereadRiff ==
  ASSUME SizesFit, RereadInv, source.written, ReadRiff
  PROVE  RereadInv'
<1>1. /\ Rereading /\ pos = 0 /\ ~have_fmt /\ ~have_data
      /\ UNCHANGED <<source, file>>
  BY DEF RereadInv, ReadRiff, Rereading
<1>2. file \in Seq(Nat) /\ Len(file) \in Nat /\ 2 * Len(source.ints) \in Nat
  BY <1>1, WrittenFile
<1>3. Len(file) >= 12 => HasTag(0, Riff) /\ HasTag(8, Wave)
  <2> SUFFICES ASSUME Len(file) >= 12 PROVE HasTag(0, Riff) /\ HasTag(8, Wave)
    OBVIOUS
  <2>1. At(file, pos + 0, Riff) /\ At(file, pos + 8, Wave)
    <3>1. pos + 0 = 0 /\ pos + 8 = 8  BY <1>1
    <3> QED BY <1>1, <3>1, WrittenFile
  <2>2. pos \in Nat  BY <1>1
  <2> QED BY <1>2, <2>1, <2>2, IdBytes, ReadsTag
<1>4. CASE Len(file) >= 12
  <2>1. /\ pos' = 12 /\ outcome' = "reading" /\ UNCHANGED <<have_fmt, have_data>>
    BY <1>3, <1>4 DEF ReadRiff
  <2> QED BY <1>1, <2>1 DEF RereadInv, Rereading, Complete, AsWritten
<1>5. CASE ~(Len(file) >= 12)
  <2>1. outcome' = "refused"  BY <1>5 DEF ReadRiff, Refuse
  <2>2. ~Complete  BY <1>2, <1>5 DEF Complete
  <2> QED BY <1>1, <2>1, <2>2 DEF RereadInv, Rereading, Complete, AsWritten
<1> QED BY <1>4, <1>5

\* The two chunks of such a file, as NextChunk finds them.
LEMMA WrittenChunks ==
  ASSUME SizesFit, Rereading, NextChunk
  PROVE  /\ file \in Seq(Nat) /\ Len(file) \in Nat /\ 2 * Len(source.ints) \in Nat
         /\ Len(file) <= 44 + 2 * Len(source.ints)
         /\ \/ /\ pos = 12 /\ ~have_fmt /\ ChunkSize = 16
               /\ HasTag(0, FmtId) /\ ~HasTag(0, DataId)
            \/ /\ pos = 36 /\ have_fmt /\ ChunkSize = 2 * Len(source.ints) /\ AsWritten
               /\ HasTag(0, DataId) /\ ~HasTag(0, FmtId)
<1> DEFINE n == Len(source.ints)
<1>1. /\ file \in Seq(Nat) /\ Len(file) \in Nat /\ 2 * n \in 0 .. (SizeMod - 1)
      /\ Len(file) <= 44 + 2 * n
      /\ Len(file) >= 20 => At(file, 12, FmtId) /\ At(file, 16, U32(16))
      /\ Len(file) >= 44 => At(file, 36, DataId) /\ At(file, 40, U32(2 * n))
  BY WrittenFile
<1>2. pos + 8 <= Len(file)  BY DEF NextChunk, ChunkThere
<1>3. \/ pos = 12 /\ ~have_fmt
      \/ pos = 36 /\ have_fmt /\ AsWritten
  BY DEF NextChunk, Rereading
<1> HIDE DEF n
<1>4. CASE pos = 12 /\ ~have_fmt
  <2>1. At(file, pos + 0, FmtId) /\ At(file, pos + 4, U32(16)) /\ pos \in Nat
    <3>1. pos + 0 = 12 /\ pos + 4 = 16 /\ Len(file) >= 20  BY <1>1, <1>2, <1>4
    <3> QED BY <1>1, <1>4, <3>1
  <2>2. 16 \in 0 .. (SizeMod - 1)  BY Moduli
  <2>3. ChunkSize = 16  BY <1>1, <2>1, <2>2, ReadsLong DEF ChunkSize
  <2>4. HasTag(0, FmtId) /\ ~HasTag(0, DataId)  BY <1>1, <2>1, IdBytes, ReadsTag
  <2> QED BY <1>1, <1>4, <2>3, <2>4 DEF n
<1>5. CASE pos = 36 /\ have_fmt /\ AsWritten
  <2>1. At(file, pos + 0, DataId) /\ At(file, pos + 4, U32(2 * n)) /\ pos \in Nat
    <3>1. pos + 0 = 36 /\ pos + 4 = 40 /\ Len(file) >= 44  BY <1>1, <1>2, <1>5
    <3> QED BY <1>1, <1>5, <3>1
  <2>3. ChunkSize = 2 * n  BY <1>1, <2>1, ReadsLong DEF ChunkSize
  <2>4. HasTag(0, DataId) /\ ~HasTag(0, FmtId)  BY <1>1, <2>1, IdBytes, ReadsTag
  <2> QED BY <1>1, <1>5, <2>3, <2>4 DEF n
<1> QED BY <1>3, <1>4, <1>5

LEMMA RereadFmt ==
  ASSUME SizesFit, RereadInv, source.written, ReadFmt
  PROVE  RereadInv'
<1>1. /\ Rereading /\ NextChunk /\ HasTag(0, FmtId) /\ outcome = "reading" /\ ~have_data
      /\ UNCHANGED <<source, file>>
  BY DEF RereadInv, ReadFmt, NextChunk
<1>2. /\ file \in Seq(Nat) /\ Len(file) \in Nat /\ 2 * Len(source.ints) \in Nat
      /\ pos = 12 /\ ChunkSize = 16
  BY <1>1, WrittenChunks
<1>3. Whole <=> Len(file) >= 36  BY <1>2 DEF Whole
<1>4. CASE Len(file) >= 36
  <2>1. At(file, 20, Fmt(1, Channels, SampleRate, BitsPerSample))
    BY <1>1, <1>4, WrittenFile
  <2>2. /\ 1 \in 0 .. (WordMod - 1) /\ Channels \in 0 .. (WordMod - 1)
        /\ BitsPerSample \in 0 .. (WordMod - 1) /\ SampleRate \in 0 .. (SizeMod - 1)
    BY Moduli, WavAssumption DEF Channels, BitsPerSample
  <2> DEFINE f == Fmt(1, Channels, SampleRate, BitsPerSample)
  <2>3. /\ f \in Seq(Nat) /\ At(f, 0, U16(1)) /\ At(f, 2, U16(Channels))
        /\ At(f, 4, U32(SampleRate)) /\ At(f, 14, U16(BitsPerSample))
    BY <2>2, FmtBytes
  <2>4. /\ U16(1) \in Seq(Nat) /\ U16(Channels) \in Seq(Nat) /\ U16(BitsPerSample) \in Seq(Nat)
        /\ U32(SampleRate) \in Seq(Nat)
    BY <2>2, Word, Long
  <2> HIDE DEF f
  <2>5. /\ At(file, 20 + 0, U16(1)) /\ At(file, 20 + 2, U16(Channels))
        /\ At(file, 20 + 4, U32(SampleRate)) /\ At(file, 20 + 14, U16(BitsPerSample))
    BY <1>2, <2>1, <2>3, <2>4, AtWithin DEF f
  <2>6. /\ 20 + 0 = pos + 8 /\ 20 + 2 = pos + 10 /\ 20 + 4 = pos + 12 /\ 20 + 14 = pos + 22
        /\ pos \in Nat
    BY <1>2
  <2>7. /\ At(file, pos + 8, U16(1)) /\ At(file, pos + 10, U16(Channels))
        /\ At(file, pos + 12, U32(SampleRate)) /\ At(file, pos + 22, U16(BitsPerSample))
    BY <2>5, <2>6
  <2>8. /\ ReadU16(8) = 1 /\ ReadU16(10) = Channels /\ ReadU16(22) = BitsPerSample
    BY <1>2, <2>2, <2>6, <2>7, ReadsWord
  <2>9. ReadU32(12) = SampleRate  BY <1>2, <2>2, <2>6, <2>7, ReadsLong
  <2>10. /\ AsWritten' /\ have_fmt' = TRUE /\ pos' = pos + 8 + ChunkSize
         /\ UNCHANGED <<have_data, samples, outcome>>
    BY <1>2, <1>3, <1>4, <2>8, <2>9 DEF ReadFmt, AsWritten
  <2>11. pos' = 36  BY <1>2, <2>10
  <2> QED BY <1>1, <2>10, <2>11 DEF RereadInv, Rereading, Complete
<1>5. CASE ~(Len(file) >= 36)
  <2>1. outcome' = "refused"  BY <1>3, <1>5 DEF ReadFmt, Refuse
  <2>2. ~Complete  BY <1>2, <1>5 DEF Complete
  <2> QED BY <1>1, <2>1, <2>2 DEF RereadInv, Rereading, Complete, AsWritten
<1> QED BY <1>4, <1>5

LEMMA RereadData ==
  ASSUME SizesFit, RereadInv, source.written, ReadData
  PROVE  RereadInv'
<1> DEFINE ints == source.ints
           n == Len(ints)
<1>1. /\ Rereading /\ NextChunk /\ HasTag(0, DataId) /\ outcome = "reading" /\ ~have_data
      /\ UNCHANGED <<source, file>>
  BY DEF RereadInv, ReadData, NextChunk
<1>2. /\ file \in Seq(Nat) /\ Len(file) \in Nat /\ 2 * n \in Nat /\ Len(file) <= 44 + 2 * n
      /\ pos = 36 /\ have_fmt /\ ChunkSize = 2 * n /\ AsWritten
  BY <1>1, WrittenChunks
<1>3. Whole <=> Complete  BY <1>2 DEF Whole, Complete
<1>4. CASE Complete
  <2>1. At(file, 44, Words(ints)) /\ ints \in Seq(Samples) /\ n \in Nat
    BY <1>1, <1>4, WrittenFile
  <2>2. /\ Len(Words(ints)) = 2 * n
        /\ \A i \in 1 .. n :
             Words(ints)[2 * i - 1] + FieldBase * Words(ints)[2 * i] = ints[i] % WordMod
    BY <2>1, SampleWords
  <2> DEFINE w == Words(ints)
  <2> HIDE DEF w
  <2>3. \A i \in 1 .. n : ToSample(ReadU16(6 + 2 * i)) = ints[i]
    <3> TAKE i \in 1 .. n
    <3> HIDE DEF n
    <3>1. 2 * i - 1 \in 1 .. 2 * n /\ 2 * i \in 1 .. 2 * n  BY <2>1
    <3>2. file[44 + (2 * i - 1)] = w[2 * i - 1] /\ file[44 + 2 * i] = w[2 * i]
      BY <2>1, <2>2, <3>1 DEF At, w
    <3>3. 44 + (2 * i - 1) = pos + (6 + 2 * i) + 1 /\ 44 + 2 * i = pos + (6 + 2 * i) + 2
      BY <1>2, <2>1
    <3>4. ReadU16(6 + 2 * i) = w[2 * i - 1] + FieldBase * w[2 * i]
      BY <3>2, <3>3 DEF ReadU16
    <3>5. ReadU16(6 + 2 * i) = ints[i] % WordMod  BY <2>2, <3>4 DEF w
    <3>6. ints[i] \in Samples  BY <2>1 DEF n
    <3> QED BY <3>5, <3>6, SampleBack
  <2>4. ChunkSize \div 2 = n
    <3>1. \A m \in Nat : (2 * m) \div 2 = m  OBVIOUS
    <3> QED BY <1>2, <2>1, <3>1
  <2>5. ints = [i \in 1 .. n |-> ints[i]]  BY <2>1
  <2>6. /\ samples' = [i \in 1 .. ChunkSize \div 2 |-> ToSample(ReadU16(6 + 2 * i))]
        /\ have_data' = TRUE /\ UNCHANGED <<have_fmt, result, outcome>>
    BY <1>2, <1>3, <1>4 DEF ReadData
  <2>7. samples' = ints  BY <2>3, <2>4, <2>5, <2>6
  <2> QED BY <1>1, <1>2, <1>4, <2>6, <2>7 DEF RereadInv, Rereading, Complete, AsWritten
<1>5. CASE ~Complete
  <2>1. outcome' = "refused"  BY <1>3, <1>5 DEF ReadData, Refuse
  <2> QED BY <1>1, <1>5, <2>1 DEF RereadInv, Rereading, Complete, AsWritten
<1> QED BY <1>4, <1>5

LEMMA RereadEnd ==
  ASSUME SizesFit, RereadInv, source.written, EndOfChunks
  PROVE  RereadInv'
<1>1. /\ Rereading /\ outcome = "reading" /\ (have_data \/ ~ChunkThere)
      /\ UNCHANGED <<source, file, result, samples>>
  BY DEF RereadInv, EndOfChunks
<1>2. Len(file) \in Nat /\ 2 * Len(source.ints) \in Nat  BY <1>1, WrittenFile
<1>3. CASE have_data
  <2>1. have_fmt /\ AsWritten /\ Complete /\ samples = source.ints
    BY <1>1, <1>3 DEF Rereading
  <2>2. result.num_channels = Channels /\ result.bits_per_sample = BitsPerSample
    BY <2>1 DEF AsWritten
  <2>3. outcome' = "read"  BY <1>3, <2>1, <2>2 DEF EndOfChunks
  <2> QED BY <1>1, <2>1, <2>3 DEF RereadInv, Rereading, Complete, AsWritten
<1>4. CASE ~have_data
  <2>1. outcome' = "refused"  BY <1>4 DEF EndOfChunks
  <2>2. ~Complete
    <3>1. pos \in {12, 36} /\ ~(pos + 8 <= Len(file))
      BY <1>1, <1>4 DEF Rereading, ChunkThere
    <3> QED BY <1>2, <3>1 DEF Complete
  <2> QED BY <1>1, <2>1, <2>2 DEF RereadInv, Rereading, Complete, AsWritten
<1> QED BY <1>3, <1>4

LEMMA RereadStep ==
  ASSUME SizesFit, RereadInv, [WavNext]_vars
  PROVE  RereadInv'
<1>1. ASSUME NEW ints \in Recordings, NEW length \in 0 .. (44 + 2 * Len(ints)),
             Write(ints, length)
      PROVE  RereadInv'
  <2> DEFINE w == WavBytes(SampleRate, ints)
  <2>1. /\ outcome = "absent" /\ pos = 0 /\ ~have_fmt /\ ~have_data
        /\ UNCHANGED <<pos, have_fmt, have_data, result, samples>>
        /\ outcome' = "opened" /\ file' = SubSeq(w, 1, length)
        /\ source' = [written |-> TRUE, ints |-> ints, chunks |-> <<>>] /\ length <= Len(w)
    BY <1>1 DEF Write, RereadInv
  <2>2. ints \in Seq(Samples) /\ SampleRate \in 0 .. (SizeMod - 1) /\ 2 * Len(ints) < SizeMod
    <3>1. Recordings \subseteq Seq(Samples) /\ SampleRate \in 0 .. (SizeMod - 1)
      BY WavAssumption
    <3> QED BY <3>1 DEF SizesFit
  <2>3. w \in Seq(Nat) /\ Len(w) = 44 + 2 * Len(ints)  BY <2>2, WavHeader
  <2> HIDE DEF w
  <2>4. length \in 0 .. Len(w)  BY <2>3
  <2>5. Len(file') = length  BY <2>1, <2>3, <2>4, AtCut
  <2>6. file' = SubSeq(w, 1, Len(file'))  BY <2>1, <2>5
  <2>7. Rereading'  BY <2>1, <2>5, <2>6 DEF Rereading, w
  <2> QED BY <2>1, <2>7 DEF RereadInv
<1>2. ASSUME NEW found \in Chunks, Found(found.first, found.chunks, found.length)
      PROVE  RereadInv'
  <2>1. source'.written = FALSE /\ outcome' = "opened"  BY <1>2 DEF Found
  <2> QED BY <2>1 DEF RereadInv
<1>3. ASSUME ReadNext, ~source.written PROVE RereadInv'
  <2>1. source' = source
    BY <1>3 DEF ReadNext, ReadRiff, ReadFmt, ReadData, SkipChunk, EndOfChunks
  <2>2. outcome \in {"opened", "reading"} /\ outcome' \in {"reading", "read", "refused"}
    BY <1>3 DEF ReadNext, ReadRiff, ReadFmt, ReadData, SkipChunk, EndOfChunks, NextChunk, Refuse
  <2> QED BY <1>3, <2>1, <2>2 DEF RereadInv
<1>4. ASSUME ReadNext, source.written PROVE RereadInv'
  <2>1. ASSUME SkipChunk PROVE FALSE
    <3>1. Rereading /\ NextChunk /\ ~HasTag(0, FmtId) /\ ~HasTag(0, DataId)
      BY <1>4, <2>1 DEF RereadInv, SkipChunk
    <3> QED BY <3>1, WrittenChunks
  <2> QED BY <1>4, <2>1, RereadRiff, RereadFmt, RereadData, RereadEnd DEF ReadNext
<1>5. CASE UNCHANGED vars
  BY <1>5 DEF vars, RereadInv, Rereading, Complete, AsWritten
<1> QED BY <1>1, <1>2, <1>3, <1>4, <1>5 DEF WavNext

\* What the receiver writes the sender reads back to the sample, and of a file cut
\* short nothing, for every recording whose bytes a 32-bit size can count.
THEOREM ReadsBackCorrect == ASSUME SizesFit PROVE WavSpec => []ReadsBack
<1>1. WavInit => RereadInv  BY DEF WavInit, RereadInv
<1>2. RereadInv /\ [WavNext]_vars => RereadInv'  BY RereadStep
<1>3. RereadInv => ReadsBack
  <2> SUFFICES ASSUME RereadInv, Done, source.written
               PROVE  IF Complete
                        THEN /\ outcome = "read" /\ samples = source.ints
                             /\ result.sample_rate = SampleRate
                        ELSE outcome = "refused"
    BY DEF ReadsBack, Complete
  <2>1. Rereading /\ outcome \in {"read", "refused"}  BY DEF RereadInv, Done
  <2>2. CASE outcome = "read"
    BY <2>1, <2>2 DEF Rereading, AsWritten
  <2>3. CASE outcome = "refused"
    BY <2>1, <2>3 DEF Rereading
  <2> QED BY <2>1, <2>2, <2>3
<1> QED BY <1>1, <1>2, <1>3, PTL DEF WavSpec
-----------------------------------------------------------------------------
(* Iteration. *)

LEMMA LeastNumber ==
  ASSUME NEW T \in SUBSET Nat, T # {}
  PROVE  \E x \in T : \A y \in T : ~(y < x)
<1>1. \E x \in T : \A y \in T : ~(<<y, x>> \in OpToRel(<, Nat))
  BY NatLessThanWellFounded, WFMin
<1> QED BY <1>1 DEF OpToRel

\* G[1], ..., G[n] are steps within S; f takes them one after the other from x.
Steps(G, n, S) == \A i \in 1 .. n, s \in S : G[i][s] \in S
Run(f, x, G, n, S) ==
  f \in [0 .. n -> S] /\ f[0] = x /\ \A i \in 1 .. n : f[i] = G[i][f[i - 1]]

LEMMA Iteration ==
  ASSUME NEW S, NEW x \in S, NEW n \in Nat, NEW G, Steps(G, n, S)
  PROVE  \E f : Run(f, x, G, n, S)
<1>0. \A i \in 1 .. n, s \in S : G[i][s] \in S  BY DEF Steps
<1> DEFINE Reached(k) ==
             \E f \in [0 .. k -> S] :
               f[0] = x /\ \A i \in 1 .. k : f[i] = G[i][f[i - 1]]
           T == {k \in 0 .. n : ~Reached(k)}
<1>1. Reached(0)
  <2> DEFINE f == [i \in 0 .. 0 |-> x]
  <2>1. f \in [0 .. 0 -> S] /\ f[0] = x  OBVIOUS
  <2>2. \A i : ~(i \in 1 .. 0)  OBVIOUS
  <2> QED BY <2>1, <2>2
<1>2. ASSUME NEW k \in 1 .. n, Reached(k - 1)  PROVE Reached(k)
  <2>1. PICK f \in [0 .. (k - 1) -> S] :
          f[0] = x /\ \A i \in 1 .. (k - 1) : f[i] = G[i][f[i - 1]]
    BY <1>2
  <2> DEFINE g == [i \in 0 .. k |-> IF i = k THEN G[k][f[k - 1]] ELSE f[i]]
  <2>2. f[k - 1] \in S /\ G[k][f[k - 1]] \in S  BY <1>0, <2>1
  <2>3. g \in [0 .. k -> S]
    <3>1. \A i \in 0 .. k : i # k => f[i] \in S  BY <2>1
    <3> QED BY <2>2, <3>1
  <2>4. g[0] = x  BY <2>1
  <2>5. ASSUME NEW i \in 1 .. k  PROVE g[i] = G[i][g[i - 1]]
    <3>1. i - 1 \in 0 .. k /\ i - 1 # k /\ i \in 0 .. k  OBVIOUS
    <3>2. g[i - 1] = f[i - 1]  BY <3>1
    <3>3. CASE i = k  BY <3>1, <3>2, <3>3
    <3>4. CASE i # k
      <4>1. i \in 1 .. (k - 1)  BY <3>4
      <4>2. g[i] = f[i] /\ f[i] = G[i][f[i - 1]]  BY <2>1, <3>1, <3>4, <4>1
      <4> QED BY <3>2, <4>2
    <3> QED BY <3>3, <3>4
  <2> HIDE DEF g
  <2> QED BY <2>3, <2>4, <2>5
<1>3. T = {}
  <2> SUFFICES ASSUME T # {}  PROVE FALSE
    OBVIOUS
  <2> HIDE DEF Reached
  <2>1. T \in SUBSET Nat  OBVIOUS
  <2>2. PICK k \in T : \A j \in T : ~(j < k)
    <3> HIDE DEF T
    <3> QED BY <2>1, LeastNumber
  <2>3. k # 0 /\ k \in 0 .. n  BY <1>1
  <2>4. k \in 1 .. n /\ k - 1 \in 0 .. n /\ k - 1 < k  BY <2>3
  <2>5. Reached(k - 1)  BY <2>2, <2>4
  <2> QED BY <1>2, <2>4, <2>5
<1>4. n \in 0 .. n  OBVIOUS
<1>5. Reached(n)
  <2> HIDE DEF Reached
  <2> QED BY <1>3, <1>4
<1> QED BY <1>5 DEF Run
-----------------------------------------------------------------------------
(* Files of other programs: where their chunks are. *)

ChunkType == [id : Ids, size : 0 .. (SizeMod - 1), body : Seq(Bytes)]

LEMMA PaddedBody ==
  ASSUME NEW body \in Seq(Bytes)
  PROVE  /\ PadTo2(body) \in Seq(Bytes) /\ Len(PadTo2(body)) = Len(body) + (Len(body) % 2)
         /\ At(PadTo2(body), 0, body)
<1>1. Len(body) \in Nat  OBVIOUS
<1>2. CASE Len(body) % 2 = 0
  <2>1. PadTo2(body) = body  BY <1>2 DEF PadTo2
  <2> QED BY <1>1, <1>2, <2>1 DEF At
<1>3. CASE Len(body) % 2 # 0
  <2>1. PadTo2(body) = Append(body, 0) /\ 0 \in Bytes  BY <1>3, BytesAreNumbers DEF PadTo2
  <2>2. /\ Append(body, 0) \in Seq(Bytes) /\ Len(Append(body, 0)) = Len(body) + 1
        /\ \A i \in 1 .. Len(body) : Append(body, 0)[i] = body[i]
    BY <2>1, AppendProperties
  <2>3. Len(body) % 2 = 1  BY <1>1, <1>3
  <2>4. 0 + Len(body) <= Len(body) + 1 /\ \A k \in 1 .. Len(body) : 0 + k = k  BY <1>1
  <2> QED BY <2>1, <2>2, <2>3, <2>4 DEF At
<1> QED BY <1>2, <1>3

LEMMA ChunkBytes ==
  ASSUME NEW c \in ChunkType
  PROVE  LET l == Laid(c)
         IN  /\ l \in Seq(Nat) /\ Len(l) = 8 + Len(c.body) + (Len(c.body) % 2)
             /\ Len(c.body) \in Nat /\ Len(c.body) % 2 \in 0 .. 1
             /\ At(l, 0, c.id) /\ At(l, 4, U32(c.size)) /\ At(l, 8, c.body)
<1> DEFINE t == c.id
           u == U32(c.size)
           p == PadTo2(c.body)
           m == Len(c.body) + (Len(c.body) % 2)
<1>1. c.id \in Ids /\ c.size \in 0 .. (SizeMod - 1) /\ c.body \in Seq(Bytes)
  BY DEF ChunkType
<1>2. t \in Seq(Nat) /\ Len(t) = 4  BY <1>1, IdBytes
<1>3. u \in Seq(Nat) /\ u \in Seq(Bytes) /\ Len(u) = 4  BY <1>1, Long
<1>4. /\ p \in Seq(Bytes) /\ p \in Seq(Nat) /\ Len(p) = m /\ At(p, 0, c.body)
      /\ c.body \in Seq(Nat)
  BY <1>1, PaddedBody, BytesAreNumbers, SeqMonotonic
<1>5. Len(c.body) \in Nat /\ Len(c.body) % 2 \in 0 .. 1 /\ m \in Nat
  <2>1. \A n \in Nat : n % 2 \in 0 .. 1 /\ n + (n % 2) \in Nat  OBVIOUS
  <2>2. Len(c.body) \in Nat  BY <1>1
  <2> QED BY <2>1, <2>2
<1>6. Laid(c) = (t \o u) \o p  BY DEF Laid
<1> HIDE DEF t, u, p, m
<1>7. At(t, 0, t)  BY <1>2 DEF At
<1>8. t \o u \in Seq(Nat) /\ Len(t \o u) = 8 /\ At(t \o u, 0, t) /\ At(t \o u, 4, u)
  <2>1. Len(t) + Len(u) = 8  BY <1>2, <1>3
  <2> QED BY <1>2, <1>3, <1>7, <2>1, Chain
<1> DEFINE h == t \o u
           l == h \o p
<1> HIDE DEF h
<1>9. h \in Seq(Nat) /\ Len(h) = 8 /\ At(h, 0, t) /\ At(h, 4, u)  BY <1>8 DEF h
<1>10. /\ l \in Seq(Nat) /\ Len(l) = 8 + m /\ At(l, 0, t) /\ At(l, 4, u) /\ At(l, 8, p)
       /\ At(l, 8 + 0, c.body)
  <2>1. Len(h) + Len(p) = 8 + m  BY <1>4, <1>9
  <2> QED BY <1>2, <1>3, <1>4, <1>9, <2>1, Chain
<1> HIDE DEF l
<1>11. 8 + m = 8 + Len(c.body) + (Len(c.body) % 2)
  <2>1. \A a, b \in Nat : 8 + (a + b) = 8 + a + b  OBVIOUS
  <2>2. \A b \in 0 .. 1 : b \in Nat  OBVIOUS
  <2> QED BY <1>5, <2>1, <2>2 DEF m
<1>12. At(l, 8, c.body)  BY <1>10
<1>13. Laid(c) = l  BY <1>6 DEF l, h
<1>14. At(l, 0, c.id) /\ At(l, 4, U32(c.size))  BY <1>10 DEF t, u
<1>15. l \in Seq(Nat) /\ Len(l) = 8 + Len(c.body) + (Len(c.body) % 2)  BY <1>10, <1>11
<1> QED BY <1>5, <1>12, <1>13, <1>14, <1>15

LEMMA HeadBytes ==
  ASSUME NEW first \in Ids
  PROVE  LET r == RiffHead(first)
         IN  /\ r \in Seq(Nat) /\ Len(r) = 12 /\ At(r, 0, first) /\ At(r, 8, Wave)
<1> DEFINE t == first
           u == U32(0)
           w == Wave
<1>1. t \in Seq(Nat) /\ Len(t) = 4 /\ w \in Seq(Nat) /\ Len(w) = 4  BY IdBytes
<1>2. u \in Seq(Nat) /\ u \in Seq(Bytes) /\ Len(u) = 4
  <2>1. 0 \in 0 .. (SizeMod - 1)  BY Moduli
  <2> QED BY <2>1, Long
<1>3. RiffHead(first) = (t \o u) \o w  BY DEF RiffHead
<1> HIDE DEF t, u, w
<1>4. At(t, 0, t)  BY <1>1 DEF At
<1>5. t \o u \in Seq(Nat) /\ Len(t \o u) = 8 /\ At(t \o u, 0, t) /\ At(t \o u, 4, u)
  <2>1. Len(t) + Len(u) = 8  BY <1>1, <1>2
  <2> QED BY <1>1, <1>2, <1>4, <2>1, Chain
<1> DEFINE h == t \o u
           r == h \o w
<1> HIDE DEF h
<1>6. h \in Seq(Nat) /\ Len(h) = 8 /\ At(h, 0, t) /\ At(h, 4, u)  BY <1>5 DEF h
<1>7. r \in Seq(Nat) /\ Len(r) = 12 /\ At(r, 0, t) /\ At(r, 4, u) /\ At(r, 8, w)
  <2>1. Len(h) + Len(w) = 12  BY <1>1, <1>6
  <2> QED BY <1>1, <1>2, <1>6, <2>1, Chain
<1> HIDE DEF r
<1> QED BY <1>3, <1>7 DEF r, h, t, w

LEMMA LayoutRuns ==
  ASSUME NEW first \in Ids, NEW chunks \in Seq(ChunkType)
  PROVE  LET L == Layouts(first, chunks)
         IN  /\ L \in [0 .. Len(chunks) -> Seq(Nat)] /\ L[0] = RiffHead(first)
             /\ \A k \in 1 .. Len(chunks) : L[k] = L[k - 1] \o Laid(chunks[k])
<1> DEFINE n == Len(chunks)
           S == Seq(Nat)
           G == [i \in 1 .. n |-> [s \in S |-> s \o Laid(chunks[i])]]
           Runs(f) == f = [k \in 0 .. n |->
                             IF k = 0 THEN RiffHead(first) ELSE f[k - 1] \o Laid(chunks[k])]
<1>1. n \in Nat  OBVIOUS
<1>2. \A i \in 1 .. n, s \in S : G[i][s] \in S /\ G[i][s] = s \o Laid(chunks[i])
  <2> TAKE i \in 1 .. n, s \in S
  <2>1. chunks[i] \in ChunkType  BY ElementOfSeq
  <2>2. s \o Laid(chunks[i]) \in S  BY <2>1, ChunkBytes, Chain
  <2>3. G[i][s] = s \o Laid(chunks[i])  OBVIOUS
  <2> QED BY <2>2, <2>3
<1> HIDE DEF G, n
<1>3. PICK f : Run(f, RiffHead(first), G, n, S)
  <2>1. RiffHead(first) \in S  BY HeadBytes
  <2> HIDE DEF S
  <2>2. Steps(G, n, S)  BY <1>2 DEF Steps
  <2> QED BY <1>1, <2>1, <2>2, Iteration
<1>4. \A i \in 1 .. n : f[i] = f[i - 1] \o Laid(chunks[i])
  <2> TAKE i \in 1 .. n
  <2>1. i - 1 \in 0 .. n  BY <1>1
  <2>2. f[i] = G[i][f[i - 1]] /\ f[i - 1] \in S  BY <1>3, <2>1 DEF Run
  <2> QED BY <1>2, <2>2
<1>5. Runs(f)
  <2>1. \A k \in 0 .. n :
          f[k] = IF k = 0 THEN RiffHead(first) ELSE f[k - 1] \o Laid(chunks[k])
    <3> TAKE k \in 0 .. n
    <3>1. k # 0 => k \in 1 .. n  BY <1>1
    <3>2. f[0] = RiffHead(first)  BY <1>3 DEF Run
    <3> QED BY <1>4, <3>1, <3>2
  <2>2. f = [k \in 0 .. n |-> f[k]]  BY <1>3 DEF Run
  <2> QED BY <2>1, <2>2
<1> DEFINE L == Layouts(first, chunks)
<1>6. L = CHOOSE g : Runs(g)  BY DEF Layouts, n
<1> HIDE DEF Runs, L
<1>7. Runs(L)  BY <1>5, <1>6
<1>8. \A k \in 0 .. n :
        L[k] = IF k = 0 THEN RiffHead(first) ELSE L[k - 1] \o Laid(chunks[k])
  <2> DEFINE val(k) == IF k = 0 THEN RiffHead(first) ELSE L[k - 1] \o Laid(chunks[k])
  <2>1. L = [k \in 0 .. n |-> val(k)]  BY <1>7 DEF Runs
  <2> HIDE DEF val
  <2>2. \A k \in 0 .. n : L[k] = val(k)  BY <2>1
  <2> QED BY <2>2 DEF val
<1>9. L[0] = RiffHead(first) /\ \A k \in 1 .. n : L[k] = L[k - 1] \o Laid(chunks[k])
  <2>1. 0 \in 0 .. n /\ \A k \in 1 .. n : k \in 0 .. n /\ k # 0  BY <1>1
  <2> QED BY <1>8, <2>1
<1> DEFINE T == {k \in 0 .. n : L[k] \notin S}
<1>10. T = {}
  <2> SUFFICES ASSUME T # {}  PROVE FALSE
    OBVIOUS
  <2>1. T \in SUBSET Nat  OBVIOUS
  <2>2. PICK k \in T : \A j \in T : ~(j < k)
    <3> HIDE DEF T
    <3> QED BY <2>1, LeastNumber
  <2>3. L[0] = RiffHead(first) /\ RiffHead(first) \in S  BY <1>9, HeadBytes
  <2>4. k \in 1 .. n /\ k - 1 \in 0 .. n /\ k - 1 < k  BY <1>1, <2>2, <2>3
  <2>5. L[k - 1] \in S  BY <2>2, <2>4
  <2>6. L[k] = L[k - 1] \o Laid(chunks[k])  BY <1>9, <2>4
  <2>7. chunks[k] \in ChunkType  BY <2>4, ElementOfSeq DEF n
  <2>8. L[k] \in S  BY <2>5, <2>6, <2>7, ChunkBytes, Chain
  <2> QED BY <2>2, <2>8
<1>11. L \in [0 .. n -> S]
  <2>1. L = [k \in 0 .. n |-> L[k]]
    <3> DEFINE val(k) == IF k = 0 THEN RiffHead(first) ELSE L[k - 1] \o Laid(chunks[k])
    <3>1. L = [k \in 0 .. n |-> val(k)]  BY <1>7 DEF Runs
    <3> HIDE DEF val
    <3> QED BY <3>1
  <2> QED BY <1>10, <2>1
<1> QED BY <1>9, <1>11 DEF L, n

\* Where the first k chunks end.
Ends(first, chunks, k) == Len(Layouts(first, chunks)[k])

LEMMA Prefix ==
  ASSUME NEW first \in Ids, NEW chunks \in Seq(ChunkType),
         NEW j \in 0 .. Len(chunks), NEW k \in j .. Len(chunks)
  PROVE  /\ Ends(first, chunks, j) \in Nat /\ Ends(first, chunks, k) \in Nat
         /\ Ends(first, chunks, j) <= Ends(first, chunks, k)
         /\ \A off \in Nat, p \in Seq(Nat) :
              At(Layouts(first, chunks)[j], off, p) => At(Layouts(first, chunks)[k], off, p)
<1> DEFINE L == Layouts(first, chunks)
           n == Len(chunks)
           Keeps(i) == /\ Len(L[j]) <= Len(L[i])
                       /\ \A off \in Nat, p \in Seq(Nat) : At(L[j], off, p) => At(L[i], off, p)
           T == {i \in j .. n : ~Keeps(i)}
<1>1. n \in Nat  OBVIOUS
<1>2. /\ L \in [0 .. n -> Seq(Nat)]
      /\ \A i \in 1 .. n : L[i] = L[i - 1] \o Laid(chunks[i])
  BY LayoutRuns
<1>3. \A i \in 0 .. n : L[i] \in Seq(Nat) /\ Len(L[i]) \in Nat  BY <1>2
<1> HIDE DEF L
<1>4. Keeps(j)  BY <1>1, <1>3
<1>5. T = {}
  <2> SUFFICES ASSUME T # {}  PROVE FALSE
    OBVIOUS
  <2>1. T \in SUBSET Nat  BY <1>1
  <2> HIDE DEF Keeps
  <2>2. PICK i \in T : \A m \in T : ~(m < i)
    <3> HIDE DEF T
    <3> QED BY <2>1, LeastNumber
  <2>3. i \in (j + 1) .. n /\ i \in 1 .. n /\ i - 1 \in j .. n /\ i - 1 \in 0 .. n /\ i - 1 < i
    <3>1. i \in j .. n /\ i # j  BY <1>4, <2>2
    <3> QED BY <1>1, <3>1
  <2>4. Keeps(i - 1)  BY <2>2, <2>3
  <2>5. L[i] = L[i - 1] \o Laid(chunks[i])  BY <1>2, <2>3
  <2>6. chunks[i] \in ChunkType  BY <2>3, ElementOfSeq DEF n
  <2>7. Laid(chunks[i]) \in Seq(Nat)  BY <2>6, ChunkBytes
  <2> DEFINE s == L[i - 1]
             t == Laid(chunks[i])
  <2>8. s \in Seq(Nat) /\ t \in Seq(Nat)  BY <1>3, <2>3, <2>7
  <2> HIDE DEF s, t
  <2>9. /\ Len(s \o t) = Len(s) + Len(t)
        /\ \A off \in Nat, p \in Seq(Nat) : At(s, off, p) => At(s \o t, off, p)
    BY <2>8, Chain
  <2>10. L[i] = s \o t  BY <2>5 DEF s, t
  <2>11. Len(L[j]) <= Len(s)
         /\ \A off \in Nat, p \in Seq(Nat) : At(L[j], off, p) => At(s, off, p)
    BY <2>4 DEF Keeps, s
  <2>12. Len(s) \in Nat /\ Len(t) \in Nat /\ Len(L[j]) \in Nat  BY <1>3, <2>8
  <2>13. Keeps(i)  BY <2>9, <2>10, <2>11, <2>12 DEF Keeps
  <2> QED BY <2>2, <2>13
<1>6. Keeps(k)
  <2> HIDE DEF Keeps
  <2> QED BY <1>1, <1>5
<1>7. j \in 0 .. n /\ k \in 0 .. n  BY <1>1
<1> QED BY <1>3, <1>6, <1>7 DEF Ends, L

LEMMA ChunkIn ==
  ASSUME NEW first \in Ids, NEW chunks \in Seq(ChunkType),
         NEW k \in 1 .. Len(chunks)
  PROVE  LET b == Ends(first, chunks, k - 1)
             f == Layout(first, chunks)
             c == chunks[k]
         IN  /\ c \in ChunkType /\ f \in Seq(Nat) /\ b \in Nat /\ Len(c.body) \in Nat
             /\ Ends(first, chunks, k) = b + 8 + Len(c.body) + (Len(c.body) % 2)
             /\ Ends(first, chunks, k) <= Len(f)
             /\ At(f, b, Laid(c)) /\ At(f, b + 4, U32(c.size)) /\ At(f, b + 8, c.body)
             /\ At(f, b, c.id)
<1> DEFINE n == Len(chunks)
           L == Layouts(first, chunks)
           c == chunks[k]
           s == L[k - 1]
           l == Laid(c)
           m == Len(c.body)
<1>1. n \in Nat /\ k \in 0 .. n /\ k - 1 \in 0 .. n /\ n \in k .. n  OBVIOUS
<1>2. L \in [0 .. n -> Seq(Nat)] /\ L[k] = s \o l  BY LayoutRuns
<1>3. c \in ChunkType  BY ElementOfSeq
<1>4. c.id \in Ids /\ c.size \in 0 .. (SizeMod - 1) /\ c.body \in Seq(Bytes)
  BY <1>3 DEF ChunkType
<1>5. /\ l \in Seq(Nat) /\ Len(l) = 8 + m + (m % 2) /\ m \in Nat /\ m % 2 \in 0 .. 1
      /\ At(l, 0, c.id) /\ At(l, 4, U32(c.size)) /\ At(l, 8, c.body)
  BY <1>3, ChunkBytes
<1>6. c.id \in Seq(Nat) /\ U32(c.size) \in Seq(Nat) /\ c.body \in Seq(Nat)
  BY <1>4, IdBytes, Long, BytesAreNumbers, SeqMonotonic
<1>7. s \in Seq(Nat) /\ Len(s) \in Nat /\ L[n] \in Seq(Nat) /\ Len(L[n]) \in Nat
  <2> HIDE DEF L, n
  <2>1. L[k - 1] \in Seq(Nat) /\ L[n] \in Seq(Nat)  BY <1>1, <1>2
  <2> QED BY <2>1
<1> HIDE DEF L, c, s, l, m, n
<1>8. /\ s \o l \in Seq(Nat) /\ Len(s \o l) = Len(s) + Len(l) /\ At(s \o l, Len(s), l)
  BY <1>5, <1>7, Chain
<1>9. /\ Len(L[k]) <= Len(L[n])
      /\ \A off \in Nat, p \in Seq(Nat) : At(L[k], off, p) => At(L[n], off, p)
  BY <1>1, Prefix DEF Ends, L, n
<1>10. At(L[n], Len(s), l)  BY <1>2, <1>5, <1>7, <1>8, <1>9
<1>11. /\ At(L[n], Len(s) + 0, c.id) /\ At(L[n], Len(s) + 4, U32(c.size))
       /\ At(L[n], Len(s) + 8, c.body)
  BY <1>5, <1>6, <1>7, <1>10, AtWithin
<1>12. Len(s) + 0 = Len(s)  BY <1>7
<1>13. Len(L[k]) = Len(s) + 8 + m + (m % 2)
  <2>1. \A a, x, y \in Nat : a + (8 + x + y) = a + 8 + x + y  OBVIOUS
  <2>2. \A y \in 0 .. 1 : y \in Nat  OBVIOUS
  <2>3. Len(L[k]) = Len(s) + (8 + m + (m % 2))  BY <1>2, <1>5, <1>8
  <2> QED BY <1>5, <1>7, <2>1, <2>2, <2>3
<1>14. Layout(first, chunks) = L[n] /\ Ends(first, chunks, k - 1) = Len(s)
       /\ Ends(first, chunks, k) = Len(L[k])
  BY DEF Layout, Ends, L, n, s
<1> QED BY <1>3, <1>5, <1>7, <1>9, <1>10, <1>11, <1>12, <1>13, <1>14 DEF c, l, m
-----------------------------------------------------------------------------
(* Two bytes and their number. *)

LEMMA Pair ==
  ASSUME NEW lo \in Bytes, NEW hi \in Bytes
  PROVE  lo + FieldBase * hi \in 0 .. (WordMod - 1) /\ U16(lo + FieldBase * hi) = <<lo, hi>>
<1> DEFINE F == FieldBase
           v == lo + F * hi
           r == v % F
           d == v \div F
<1>1. F \in Nat \ {0} /\ WordMod = F * F  BY Moduli
<1>2. lo \in 0 .. (F - 1) /\ hi \in 0 .. (F - 1)  BY DEF Bytes
<1> HIDE DEF F
<1>3. v \in 0 .. (F * F - 1)
  <2>1. F * hi \in Nat /\ F * hi <= F * (F - 1) /\ F * (F - 1) = F * F - F
    <3>1. \A h \in 0 .. (F - 1) : F * h >= 0 /\ F * ((F - 1) - h) >= 0  BY <1>1
    <3>2. \A h \in 0 .. (F - 1) : F * ((F - 1) - h) = F * (F - 1) - F * h  BY <1>1
    <3> QED BY <1>1, <1>2, <3>1, <3>2
  <2> QED BY <1>1, <1>2, <2>1
<1>4. /\ r \in 0 .. (F - 1) /\ d \in Nat /\ v = r + F * d
  <2>1. v \in Nat /\ v < F * F /\ F \in Nat  BY <1>1, <1>3
  <2>2. F \in Nat \ {0}  BY <1>1
  <2> HIDE DEF v
  <2>3. v % F \in 0 .. (F - 1) /\ v \div F \in 0 .. (F - 1) /\ v = (v % F) + F * (v \div F)
    BY <2>1, <2>2, Division
  <2> HIDE DEF r, d
  <2>4. r \in 0 .. (F - 1) /\ d \in 0 .. (F - 1) /\ v = r + F * d  BY <2>3 DEF r, d
  <2> QED BY <2>2, <2>4
<1> HIDE DEF r, d
<1>5. d = hi
  <2>1. CASE d > hi
    <3>1. PICK e \in Nat : d = hi + 1 + e
      <4>1. d - hi - 1 \in Nat /\ d = hi + 1 + (d - hi - 1)  BY <1>2, <1>4, <2>1
      <4> QED BY <4>1
    <3>2. F * d = F * hi + F + F * e /\ F * e >= 0  BY <1>1, <1>2, <3>1
    <3> QED BY <1>1, <1>2, <1>4, <3>2
  <2>2. CASE d < hi
    <3>1. PICK e \in Nat : hi = d + 1 + e
      <4>1. hi - d - 1 \in Nat /\ hi = d + 1 + (hi - d - 1)  BY <1>2, <1>4, <2>2
      <4> QED BY <4>1
    <3>2. F * hi = F * d + F + F * e /\ F * e >= 0  BY <1>1, <1>4, <3>1
    <3> QED BY <1>1, <1>2, <1>4, <3>2
  <2> QED BY <1>2, <1>4, <2>1, <2>2
<1>6. r = lo  BY <1>1, <1>2, <1>4, <1>5
<1>7. U16(v) = <<r, d>>  BY DEF U16, r, d, F
<1> QED BY <1>1, <1>3, <1>5, <1>6, <1>7 DEF F

WordAt(body, i) == body[i] + FieldBase * body[i + 1]

LEMMA FieldThere ==
  ASSUME NEW body \in Seq(Bytes), NEW i \in Nat \ {0}, i + 1 <= Len(body),
         NEW v \in 0 .. (WordMod - 1)
  PROVE  SubSeq(body, i, i + 1) = U16(v) <=> WordAt(body, i) = v
<1> DEFINE e == i + 1
           s == SubSeq(body, i, e)
<1>1. i \in Int /\ e \in Int /\ i <= e /\ e - i + 1 = 2 /\ i \in 1 .. Len(body)
      /\ e \in 1 .. Len(body) /\ i + 1 - 1 = i /\ i + 2 - 1 = e
  OBVIOUS
<1>2. \A k \in i .. e : body[k] \in Bytes
  <2> TAKE k \in i .. e
  <2>1. k \in 1 .. Len(body)  BY <1>1
  <2> QED BY <2>1, ElementOfSeq
<1> HIDE DEF e
<1>3. /\ s \in Seq(Bytes) /\ Len(s) = IF i <= e THEN e - i + 1 ELSE 0
      /\ \A k \in 1 .. e - i + 1 : s[k] = body[i + k - 1]
  BY <1>1, <1>2, SubSeqProperties
<1> HIDE DEF s
<1>4. Len(s) = 2 /\ s[1] = body[i] /\ s[2] = body[e]
  <2>1. 1 \in 1 .. e - i + 1 /\ 2 \in 1 .. e - i + 1  BY <1>1
  <2>2. s[1] = body[i + 1 - 1] /\ s[2] = body[i + 2 - 1]  BY <1>3, <2>1
  <2> QED BY <1>1, <1>3, <2>2
<1>5. body[i] \in Bytes /\ body[e] \in Bytes
  <2>1. i \in i .. e /\ e \in i .. e  BY <1>1
  <2> QED BY <1>2, <2>1
<1>6. s = <<body[i], body[e]>>
  <2> DEFINE t == <<body[i], body[e]>>
  <2>1. t \in Seq(Bytes) /\ Len(t) = 2 /\ t[1] = body[i] /\ t[2] = body[e]  BY <1>5
  <2> HIDE DEF t
  <2>2. \A k \in 1 .. Len(s) : s[k] = t[k]
    <3> TAKE k \in 1 .. Len(s)
    <3>1. k = 1 \/ k = 2  BY <1>4
    <3> QED BY <1>4, <2>1, <3>1
  <2>3. s = t  BY <1>3, <1>4, <2>1, <2>2, SeqEqual
  <2> QED BY <2>3 DEF t
<1>7. WordAt(body, i) = body[i] + FieldBase * body[e]  BY DEF WordAt, e
<1>8. WordAt(body, i) = v => s = U16(v)  BY <1>5, <1>6, <1>7, Pair
<1>9. s = U16(v) => WordAt(body, i) = v
  <2> SUFFICES ASSUME s = U16(v) PROVE WordAt(body, i) = v
    OBVIOUS
  <2>1. s[1] + FieldBase * s[2] = v  BY Word
  <2> QED BY <1>4, <1>7, <2>1
<1> QED BY <1>8, <1>9 DEF s, e

LEMMA ReadsField ==
  ASSUME pos \in Nat, NEW body \in Seq(Bytes), NEW i \in Nat \ {0}, i + 1 <= Len(body),
         At(file, pos + 8, body)
  PROVE  ReadU16(7 + i) = WordAt(body, i)
<1>1. i \in 1 .. Len(body) /\ i + 1 \in 1 .. Len(body)  OBVIOUS
<1>2. file[(pos + 8) + i] = body[i] /\ file[(pos + 8) + (i + 1)] = body[i + 1]
  BY <1>1 DEF At
<1>3. pos + (7 + i) + 1 = (pos + 8) + i /\ pos + (7 + i) + 2 = (pos + 8) + (i + 1)
  OBVIOUS
<1> QED BY <1>2, <1>3 DEF ReadU16, WordAt

LEMMA SampleThere ==
  ASSUME NEW word \in 0 .. (WordMod - 1)
  PROVE  ToSample(word) \in Int /\ ToSample(word) % WordMod = word
<1>1. WordMod \in Nat \ {0}  BY Moduli
<1>2. CASE word < WordMod \div 2
  <2>1. ToSample(word) = word  BY <1>2 DEF ToSample
  <2> QED BY <1>1, <2>1
<1>3. CASE ~(word < WordMod \div 2)
  <2>1. ToSample(word) = word - WordMod  BY <1>3 DEF ToSample
  <2>2. word - WordMod \in Int /\ word - WordMod = WordMod * (-1) + word  BY <1>1
  <2>3. (word - WordMod) % WordMod = word  BY <1>1, <2>2
  <2> QED BY <2>1, <2>2, <2>3
<1> QED BY <1>2, <1>3

\* The samples of a body are its bytes, two by two.
LEMMA WholeBody ==
  ASSUME pos \in Nat, NEW body \in Seq(Bytes), At(file, pos + 8, body), NEW s,
         s = [i \in 1 .. Len(body) \div 2 |-> ToSample(ReadU16(6 + 2 * i))]
  PROVE  Len(s) = Len(body) \div 2 /\ Words(s) = SubSeq(body, 1, 2 * Len(s))
<1> DEFINE n == Len(body) \div 2
           m == 2 * n
<1>1. Len(body) \in Nat /\ n \in Nat /\ m \in Nat /\ m <= Len(body)
  <2>1. \A k \in Nat : k \div 2 \in Nat /\ 2 * (k \div 2) <= k  OBVIOUS
  <2>2. Len(body) \in Nat  OBVIOUS
  <2> QED BY <2>1, <2>2
<1>2. s = [i \in 1 .. n |-> ToSample(ReadU16(6 + 2 * i))]  OBVIOUS
<1> HIDE DEF n
<1>3. \A i \in 1 .. n : /\ s[i] \in Int
                        /\ body[2 * i - 1] \in Bytes /\ body[2 * i] \in Bytes
                        /\ U16(s[i] % WordMod) = <<body[2 * i - 1], body[2 * i]>>
  <2> TAKE i \in 1 .. n
  <2> DEFINE j == 2 * i - 1
  <2>1. j \in Nat \ {0} /\ j + 1 = 2 * i /\ j + 1 <= Len(body) /\ 7 + j = 6 + 2 * i
        /\ j \in 1 .. Len(body) /\ 2 * i \in 1 .. Len(body)
    BY <1>1
  <2>2. body[j] \in Bytes /\ body[2 * i] \in Bytes  BY <2>1, ElementOfSeq
  <2> HIDE DEF j
  <2>3. ReadU16(7 + j) = body[j] + FieldBase * body[j + 1]  BY <2>1, ReadsField DEF WordAt
  <2> DEFINE w == body[j] + FieldBase * body[2 * i]
  <2>4. w \in 0 .. (WordMod - 1) /\ U16(w) = <<body[j], body[2 * i]>>  BY <2>2, Pair
  <2>5. s[i] = ToSample(w)  BY <1>2, <2>1, <2>3
  <2> HIDE DEF w
  <2>6. s[i] \in Int /\ s[i] % WordMod = w  BY <2>4, <2>5, SampleThere
  <2> QED BY <2>2, <2>4, <2>6 DEF j
<1>4. s \in Seq(Int) /\ Len(s) = n
  <2> DEFINE val(i) == ToSample(ReadU16(6 + 2 * i))
  <2>1. s = [i \in 1 .. n |-> val(i)]  BY <1>2
  <2> HIDE DEF val
  <2>2. \A i \in 1 .. n : val(i) \in Int  BY <1>3, <2>1
  <2> QED BY <1>1, <2>1, <2>2
<1>5. Words(s) = [k \in 1 .. m |-> U16(s[(k + 1) \div 2] % WordMod)[2 - (k % 2)]]
  BY <1>4 DEF Words
<1>6. ASSUME NEW k \in 1 .. m
      PROVE  U16(s[(k + 1) \div 2] % WordMod)[2 - (k % 2)] = body[k]
  <2> DEFINE i == (k + 1) \div 2
  <2>1. /\ i \in 1 .. n
        /\ \/ k = 2 * i - 1 /\ 2 - (k % 2) = 1
           \/ k = 2 * i /\ 2 - (k % 2) = 2
    BY <1>1
  <2> HIDE DEF i
  <2>2. U16(s[i] % WordMod) = <<body[2 * i - 1], body[2 * i]>>  BY <1>3, <2>1
  <2> DEFINE b == 2 - (k % 2)
             u == U16(s[i] % WordMod)
  <2>3. u[1] = body[2 * i - 1] /\ u[2] = body[2 * i]  BY <2>2
  <2>4. \/ k = 2 * i - 1 /\ b = 1
        \/ k = 2 * i /\ b = 2
    BY <2>1
  <2> HIDE DEF b, u
  <2>5. u[b] = body[k]  BY <2>3, <2>4
  <2> QED BY <2>5 DEF b, u, i
<1> DEFINE t == SubSeq(body, 1, m)
<1>7. t \in Seq(Bytes) /\ Len(t) = m /\ \A k \in 1 .. m : t[k] = body[k]
  <2> HIDE DEF m
  <2>1. \A i \in 1 .. m : body[i] \in Bytes
    <3> TAKE i \in 1 .. m
    <3>1. i \in 1 .. Len(body)  BY <1>1
    <3> QED BY <3>1, ElementOfSeq
  <2> DEFINE one == 1
  <2>2. one \in Int /\ m \in Int  BY <1>1
  <2> HIDE DEF one
  <2>3. /\ SubSeq(body, one, m) \in Seq(Bytes)
        /\ Len(SubSeq(body, one, m)) = IF one <= m THEN m - one + 1 ELSE 0
        /\ \A k \in 1 .. m - one + 1 : SubSeq(body, one, m)[k] = body[one + k - 1]
    BY <2>1, <2>2, SubSeqProperties DEF one
  <2>4. m - one + 1 = m /\ \A k \in 1 .. m : one + k - 1 = k  BY <1>1 DEF one
  <2>5. Len(SubSeq(body, one, m)) = m  BY <1>1, <2>3, <2>4 DEF one
  <2> QED BY <2>3, <2>4, <2>5 DEF one
<1>8. Words(s) = [k \in 1 .. m |-> body[k]]
  <2> HIDE DEF m
  <2> DEFINE val(k) == U16(s[(k + 1) \div 2] % WordMod)[2 - (k % 2)]
  <2>1. Words(s) = [k \in 1 .. m |-> val(k)]  BY <1>5
  <2>2. \A k \in 1 .. m : val(k) = body[k]  BY <1>6
  <2> HIDE DEF val
  <2> QED BY <2>1, <2>2
<1>9. t = [k \in 1 .. m |-> body[k]]
  <2> HIDE DEF m, t
  <2>1. t = [k \in 1 .. m |-> t[k]]  BY <1>7
  <2> QED BY <1>7, <2>1
<1> QED BY <1>4, <1>8, <1>9 DEF n
-----------------------------------------------------------------------------
(* What the reader has made of the chunks so far. *)

Count == Len(source.chunks)
Start(k) == Ends(Riff, source.chunks, k - 1)
IsFmt(k) == source.chunks[k].id = FmtId

\* The file is the beginning of one laid out from these chunks.
Begins(first) ==
  /\ Len(file) <= Len(Layout(first, source.chunks))
  /\ file = SubSeq(Layout(first, source.chunks), 1, Len(file))

\* All chunks before k have been walked through: no data among them, good descriptions
\* only, and the last of those is the one remembered.
Walked(k) ==
  /\ \A j \in 1 .. (k - 1) :
       /\ ~IsData(j)
       /\ IsFmt(j) => source.chunks[j].size >= 16 /\ WordAt(source.chunks[j].body, 1) = 1
  /\ ~have_fmt => \A j \in 1 .. (k - 1) : ~IsFmt(j)
  /\ have_fmt =>
       \E m \in 1 .. (k - 1) :
         /\ IsFmt(m) /\ \A j \in (m + 1) .. (k - 1) : ~IsFmt(j)
         /\ result.num_channels = WordAt(source.chunks[m].body, 3)
         /\ result.bits_per_sample = WordAt(source.chunks[m].body, 15)

\* In an ordinary file the reader is at a chunk, or has read its first data chunk.
InStep ==
  /\ outcome = "reading" /\ ~have_data =>
       \E k \in 1 .. (Count + 1) : pos = Start(k) /\ Walked(k)
  /\ outcome = "reading" /\ have_data =>
       \E k \in 1 .. Count : IsData(k) /\ InFile(k) /\ Walked(k) /\ SamplesOf(k)
  /\ outcome = "read" => Playable /\ \E k \in 1 .. Count : FirstData(k) /\ SamplesOf(k)
  /\ outcome = "refused" => ~Playable

Walking ==
  /\ \E f \in Chunks : source.chunks = f.chunks
  /\ pos \in Nat
  /\ \/ Begins(Riff)
     \/ /\ outcome \in {"opened", "refused"} /\ ~have_data
        /\ \E first \in Ids : Begins(first)
  /\ outcome = "opened" => pos = 0 /\ ~have_fmt /\ ~have_data
  /\ outcome = "reading" => Len(file) >= 12
  /\ Ordinary => InStep

WalkInv ==
  /\ outcome \in {"absent", "opened", "reading", "read", "refused"}
  /\ outcome = "absent" => pos = 0 /\ ~have_fmt /\ ~have_data /\ ~source.written
  /\ outcome # "absent" /\ ~source.written => Walking

LEMMA SourceChunks ==
  ASSUME NEW f \in Chunks, source.chunks = f.chunks
  PROVE  /\ source.chunks \in Seq(ChunkType) /\ Count \in Nat
         /\ \A k \in 1 .. Count :
              /\ source.chunks[k].id \in Ids
              /\ source.chunks[k].size \in 0 .. (SizeMod - 1)
              /\ source.chunks[k].body \in Seq(Bytes) /\ Len(source.chunks[k].body) \in Nat
              /\ BodiesFit => Len(source.chunks[k].body) + 1 < SizeMod
<1>1. source.chunks \in Seq(ChunkType)
  BY WavAssumption DEF ChunkType
<1>2. Count \in Nat /\ DOMAIN f.chunks = 1 .. Count  BY <1>1 DEF Count
<1>3. ASSUME NEW k \in 1 .. Count
      PROVE  /\ source.chunks[k].id \in Ids
             /\ source.chunks[k].size \in 0 .. (SizeMod - 1)
             /\ source.chunks[k].body \in Seq(Bytes) /\ Len(source.chunks[k].body) \in Nat
             /\ BodiesFit => Len(source.chunks[k].body) + 1 < SizeMod
  <2>1. source.chunks[k] \in ChunkType  BY <1>1, ElementOfSeq DEF Count
  <2>2. /\ source.chunks[k].id \in Ids
        /\ source.chunks[k].size \in 0 .. (SizeMod - 1)
        /\ source.chunks[k].body \in Seq(Bytes) /\ Len(source.chunks[k].body) \in Nat
    BY <2>1 DEF ChunkType
  <2>3. BodiesFit => Len(source.chunks[k].body) + 1 < SizeMod
    BY <1>2 DEF BodiesFit
  <2> QED BY <2>2, <2>3
<1> QED BY <1>1, <1>2, <1>3

LEMMA FileBytes ==
  ASSUME NEW first \in Ids, source.chunks \in Seq(ChunkType), Begins(first)
  PROVE  LET f == Layout(first, source.chunks)
         IN  /\ file \in Seq(Nat) /\ Len(file) \in Nat /\ f \in Seq(Nat) /\ Len(f) \in Nat
             /\ Len(file) <= Len(f)
             /\ \A k \in 1 .. Len(file) : file[k] = f[k]
             /\ \A off \in Nat, p \in Seq(Nat) :
                  At(f, off, p) /\ off + Len(p) <= Len(file) => At(file, off, p)
<1> DEFINE f == Layout(first, source.chunks)
           n == Len(source.chunks)
<1>1. f \in Seq(Nat)
  <2>1. n \in 0 .. n  OBVIOUS
  <2>2. Layouts(first, source.chunks) \in [0 .. n -> Seq(Nat)]  BY LayoutRuns
  <2> QED BY <2>1, <2>2 DEF Layout
<1>2. Len(file) <= Len(f) /\ file = SubSeq(f, 1, Len(file))  BY DEF Begins
<1> HIDE DEF f
<1>3. Len(file) \in Nat  BY <1>1, <1>2
<1>4. Len(file) \in 0 .. Len(f)  BY <1>1, <1>2, <1>3
<1> DEFINE e == Len(file)
<1>5. e \in 0 .. Len(f) /\ file = SubSeq(f, 1, e)  BY <1>2, <1>4
<1> HIDE DEF e
<1>6. /\ SubSeq(f, 1, e) \in Seq(Nat)
      /\ \A k \in 1 .. e : SubSeq(f, 1, e)[k] = f[k]
      /\ \A off \in Nat, p \in Seq(Nat) :
           At(f, off, p) /\ off + Len(p) <= e => At(SubSeq(f, 1, e), off, p)
  BY <1>1, <1>5, AtCut
<1>7. /\ file \in Seq(Nat) /\ \A k \in 1 .. e : file[k] = f[k]
      /\ \A off \in Nat, p \in Seq(Nat) : At(f, off, p) /\ off + Len(p) <= e => At(file, off, p)
  BY <1>5, <1>6
<1> QED BY <1>1, <1>2, <1>3, <1>7 DEF f, e

LEMMA StartsUp ==
  ASSUME source.chunks \in Seq(ChunkType), NEW j \in 1 .. (Count + 1), NEW k \in j .. (Count + 1)
  PROVE  Start(j) \in Nat /\ Start(k) \in Nat /\ Start(j) <= Start(k)
<1>1. Count \in Nat  BY DEF Count
<1>2. j - 1 \in 0 .. Count /\ k - 1 \in (j - 1) .. Count  BY <1>1
<1> QED BY <1>2, IdBytes, Prefix DEF Start, Count

LEMMA NotPastEnd ==
  ASSUME source.chunks \in Seq(ChunkType), Begins(Riff), NEW k \in 1 .. (Count + 1),
         pos = Start(k), ChunkThere
  PROVE  k \in 1 .. Count
<1>1. Count \in Nat /\ Len(file) \in Nat  BY FileBytes DEF Count
<1>2. Len(file) <= Start(Count + 1)
  <2>1. Count + 1 - 1 = Count  BY <1>1
  <2>2. Start(Count + 1) = Len(Layout(Riff, source.chunks))
    BY <2>1 DEF Start, Ends, Layout, Count
  <2> QED BY <2>2, IdBytes, FileBytes
<1>3. Start(k) \in Nat /\ Start(k) + 8 <= Len(file)  BY StartsUp DEF ChunkThere
<1>4. k # Count + 1  BY <1>1, <1>2, <1>3
<1> QED BY <1>1, <1>4

\* The reader at a chunk's head reads that chunk.
LEMMA ChunkHere ==
  ASSUME source.chunks \in Seq(ChunkType), Begins(Riff), NEW k \in 1 .. Count,
         pos = Start(k), ChunkThere
  PROVE  LET body == source.chunks[k].body
         IN  /\ pos \in Nat /\ ChunkSize = source.chunks[k].size
             /\ \A id : HasTag(0, id) <=> id = source.chunks[k].id
             /\ Start(k + 1) = pos + 8 + Len(body) + (Len(body) % 2)
             /\ pos + 8 + Len(body) <= Len(file) => At(file, pos + 8, body)
<1> DEFINE f == Layout(Riff, source.chunks)
           c == source.chunks[k]
           body == c.body
<1>1. k \in 1 .. Len(source.chunks)  BY DEF Count
<1>2. /\ c \in ChunkType /\ f \in Seq(Nat) /\ pos \in Nat /\ Len(body) \in Nat
      /\ Ends(Riff, source.chunks, k) = pos + 8 + Len(body) + (Len(body) % 2)
      /\ At(f, pos, c.id) /\ At(f, pos + 4, U32(c.size)) /\ At(f, pos + 8, body)
  BY <1>1, IdBytes, ChunkIn DEF Start
<1>3. c.id \in Ids /\ c.size \in 0 .. (SizeMod - 1) /\ body \in Seq(Nat)
  BY <1>2, BytesAreNumbers, SeqMonotonic DEF ChunkType
<1>4. /\ c.id \in Seq(Nat) /\ Len(c.id) = 4
      /\ U32(c.size) \in Seq(Nat) /\ Len(U32(c.size)) = 4
  BY <1>3, IdBytes, Long
<1>5. /\ file \in Seq(Nat) /\ Len(file) \in Nat
      /\ \A off \in Nat, p \in Seq(Nat) :
           At(f, off, p) /\ off + Len(p) <= Len(file) => At(file, off, p)
  BY IdBytes, FileBytes
<1>6. pos + 8 <= Len(file) /\ pos \in Nat /\ Len(file) \in Nat
  BY <1>2, <1>5 DEF ChunkThere
<1> HIDE DEF f, c, body
<1>7. pos + 4 <= Len(file) /\ (pos + 4) + 4 <= Len(file) /\ pos + 4 \in Nat /\ pos + 8 \in Nat
  BY <1>6
<1>8. At(file, pos, c.id) /\ At(file, pos + 4, U32(c.size))
  BY <1>2, <1>4, <1>5, <1>7
<1>9. ChunkSize = c.size
  BY <1>2, <1>3, <1>5, <1>8, ReadsLong DEF ChunkSize
<1>10. \A id : HasTag(0, id) <=> id = c.id
  <2>1. pos + 0 = pos /\ 0 \in Nat  BY <1>2
  <2>2. At(file, pos + 0, c.id)  BY <1>8, <2>1
  <2> QED BY <1>2, <1>3, <1>5, <2>1, <2>2, ReadsTag
<1>11. pos + 8 + Len(body) <= Len(file) => At(file, pos + 8, body)
  BY <1>2, <1>3, <1>5, <1>7
<1>12. Start(k + 1) = pos + 8 + Len(body) + (Len(body) % 2)
  <2>1. k + 1 - 1 = k  OBVIOUS
  <2> QED BY <1>2, <2>1 DEF Start
<1> QED BY <1>2, <1>9, <1>10, <1>11, <1>12 DEF c, body

LEMMA SizesAreNumbers ==
  ASSUME file \in Seq(Nat), pos \in Nat, ChunkThere
  PROVE  ChunkSize \in Nat
<1>1. Len(file) \in Nat /\ pos + 8 <= Len(file)  BY DEF ChunkThere
<1>2. \A k \in 5 .. 8 : pos + k \in 1 .. Len(file)  BY <1>1
<1>3. \A k \in 5 .. 8 : file[pos + k] \in Nat  BY <1>2, ElementOfSeq
<1> DEFINE a == file[pos + 5]
           b == file[pos + 6]
           c == file[pos + 7]
           d == file[pos + 8]
<1>4. a \in Nat /\ b \in Nat /\ c \in Nat /\ d \in Nat  BY <1>3
<1>5. pos + 4 + 1 = pos + 5 /\ pos + 4 + 2 = pos + 6
      /\ pos + (4 + 2) + 1 = pos + 7 /\ pos + (4 + 2) + 2 = pos + 8
  OBVIOUS
<1>6. ChunkSize = (a + FieldBase * b) + WordMod * (c + FieldBase * d)
  BY <1>5 DEF ChunkSize, ReadU32, ReadU16
<1> HIDE DEF a, b, c, d
<1> DEFINE l == a + FieldBase * b
           h == c + FieldBase * d
<1>7. \A x, y, z \in Nat : x + y * z \in Nat  OBVIOUS
<1>8. FieldBase \in Nat /\ WordMod \in Nat  BY Moduli
<1>9. l \in Nat /\ h \in Nat  BY <1>4, <1>7, <1>8
<1>10. ChunkSize = l + WordMod * h  BY <1>6
<1> HIDE DEF l, h
<1> QED BY <1>7, <1>8, <1>9, <1>10

\* A playable file's first data chunk is not among those walked through.
LEMMA PlayableAhead ==
  ASSUME source.chunks \in Seq(ChunkType), NEW k \in 1 .. (Count + 1), Walked(k), Playable
  PROVE  \E j \in k .. Count : FirstData(j) /\ InFile(j) /\ Described(j)
<1>1. Count \in Nat /\ DOMAIN source.chunks = 1 .. Count  BY DEF Count
<1>2. PICK j \in 1 .. Count : FirstData(j) /\ InFile(j) /\ Described(j)
  BY <1>1 DEF Playable
<1>3. ~(j < k)
  <2> SUFFICES ASSUME j < k PROVE FALSE
    OBVIOUS
  <2>1. j \in 1 .. (k - 1)  BY <1>1
  <2> QED BY <1>2, <2>1 DEF Walked, FirstData
<1>4. j \in k .. Count  BY <1>1, <1>3
<1> QED BY <1>2, <1>4

\* What is remembered of the descriptions before a chunk is what Described asks.
LEMMA Description ==
  ASSUME NEW f \in Chunks, source.chunks = f.chunks, Ordinary,
         NEW k \in 1 .. Count, Walked(k)
  PROVE  Described(k) <=> /\ have_fmt /\ result.num_channels = Channels
                          /\ result.bits_per_sample = BitsPerSample
<1> DEFINE fmts == {j \in 1 .. (k - 1) : source.chunks[j].id = FmtId}
           body(j) == source.chunks[j].body
<1>1. /\ Count \in Nat /\ DOMAIN source.chunks = 1 .. Count
      /\ \A j \in 1 .. Count : body(j) \in Seq(Bytes) /\ Len(body(j)) \in Nat
  BY SourceChunks DEF Count
<1>2. \A j \in 1 .. (k - 1) : j \in 1 .. Count /\ j \in Nat  BY <1>1
<1>3. \A j \in fmts : /\ source.chunks[j].size >= 16 /\ Len(body(j)) >= 16
                      /\ WordAt(body(j), 1) = 1 /\ body(j) \in Seq(Bytes) /\ Len(body(j)) \in Nat
  <2> TAKE j \in fmts
  <2>1. j \in 1 .. (k - 1) /\ IsFmt(j) /\ j \in 1 .. Count  BY <1>2 DEF IsFmt
  <2>2. source.chunks[j].size >= 16 /\ WordAt(body(j), 1) = 1  BY <2>1 DEF Walked
  <2>3. source.chunks[j].size = Len(body(j))  BY <1>1, <2>1 DEF Ordinary
  <2> QED BY <1>1, <2>1, <2>2, <2>3
<1>4. /\ 1 \in 0 .. (WordMod - 1) /\ Channels \in 0 .. (WordMod - 1)
      /\ BitsPerSample \in 0 .. (WordMod - 1)
  BY Moduli DEF Channels, BitsPerSample
<1>5. \A j \in fmts :
        /\ SubSeq(body(j), 1, 2) = U16(1)
        /\ SubSeq(body(j), 3, 4) = U16(Channels) <=> WordAt(body(j), 3) = Channels
        /\ SubSeq(body(j), 15, 16) = U16(BitsPerSample) <=> WordAt(body(j), 15) = BitsPerSample
  <2> TAKE j \in fmts
  <2> DEFINE b == body(j)
  <2>1. b \in Seq(Bytes) /\ Len(b) \in Nat /\ Len(b) >= 16 /\ WordAt(b, 1) = 1  BY <1>3
  <2> HIDE DEF b
  <2>2. /\ 1 + 1 = 2 /\ 3 + 1 = 4 /\ 15 + 1 = 16
        /\ 1 + 1 <= Len(b) /\ 3 + 1 <= Len(b) /\ 15 + 1 <= Len(b)
        /\ 1 \in Nat \ {0} /\ 3 \in Nat \ {0} /\ 15 \in Nat \ {0}
    BY <2>1
  <2>3. SubSeq(b, 1, 1 + 1) = U16(1) <=> WordAt(b, 1) = 1
    BY <1>4, <2>1, <2>2, FieldThere
  <2>4. SubSeq(b, 3, 3 + 1) = U16(Channels) <=> WordAt(b, 3) = Channels
    BY <1>4, <2>1, <2>2, FieldThere
  <2>5. SubSeq(b, 15, 15 + 1) = U16(BitsPerSample) <=> WordAt(b, 15) = BitsPerSample
    BY <1>4, <2>1, <2>2, FieldThere
  <2> QED BY <2>1, <2>2, <2>3, <2>4, <2>5 DEF b
<1>6. CASE ~have_fmt
  <2>1. fmts = {}  BY <1>6 DEF Walked, IsFmt
  <2> QED BY <1>6, <2>1 DEF Described
<1>7. CASE have_fmt
  <2>1. PICK m \in 1 .. (k - 1) :
          /\ IsFmt(m) /\ \A j \in (m + 1) .. (k - 1) : ~IsFmt(j)
          /\ result.num_channels = WordAt(body(m), 3)
          /\ result.bits_per_sample = WordAt(body(m), 15)
    BY <1>7 DEF Walked
  <2>2. m \in fmts  BY <2>1 DEF IsFmt
  <2>3. \A j \in fmts : j \in Nat /\ j <= m
    <3> TAKE j \in fmts
    <3>1. j \in 1 .. (k - 1) /\ IsFmt(j) /\ j \in Nat /\ m \in Nat  BY <1>2, <2>1 DEF IsFmt
    <3>2. ~(j > m)
      <4> SUFFICES ASSUME j > m PROVE FALSE
        OBVIOUS
      <4>1. j \in (m + 1) .. (k - 1)  BY <1>1, <3>1
      <4> QED BY <2>1, <3>1, <4>1
    <3> QED BY <3>1, <3>2
  <2>4. Max(fmts) = m
    <3> HIDE DEF fmts
    <3>1. \A x \in fmts : (\A y \in fmts : x >= y) => x = m  BY <2>2, <2>3
    <3>2. \A y \in fmts : m >= y  BY <2>2, <2>3
    <3> QED BY <2>2, <3>1, <3>2 DEF Max
  <2>5. Described(k) <=> /\ SubSeq(body(m), 3, 4) = U16(Channels)
                         /\ SubSeq(body(m), 15, 16) = U16(BitsPerSample)
    <3>1. /\ fmts # {}
          /\ \A j \in fmts : source.chunks[j].size >= 16 /\ SubSeq(body(j), 1, 2) = U16(1)
      BY <1>3, <1>5, <2>2
    <3>2. Described(k) <=>
            /\ fmts # {}
            /\ \A j \in fmts : source.chunks[j].size >= 16 /\ SubSeq(body(j), 1, 2) = U16(1)
            /\ SubSeq(body(Max(fmts)), 3, 4) = U16(Channels)
            /\ SubSeq(body(Max(fmts)), 15, 16) = U16(BitsPerSample)
      BY DEF Described
    <3> QED BY <2>4, <3>1, <3>2
  <2> QED BY <1>5, <1>7, <2>1, <2>2, <2>5
<1> QED BY <1>6, <1>7

\* The reader looks at a file and leaves it.
LEMMA Unmoved ==
  ASSUME UNCHANGED <<source, file>>
  PROVE  /\ (Ordinary' <=> Ordinary) /\ (Playable' <=> Playable) /\ Count' = Count
         /\ \A first : Begins(first)' <=> Begins(first)
         /\ \A k : /\ Start(k)' = Start(k) /\ (InFile(k)' <=> InFile(k))
                   /\ (IsData(k)' <=> IsData(k)) /\ (IsFmt(k)' <=> IsFmt(k))
  BY DEF Ordinary, Playable, Count, Begins, Start, InFile, IsData, IsFmt, FirstData, Described

LEMMA HeadThere ==
  ASSUME source.chunks \in Seq(ChunkType), NEW first \in Ids
  PROVE  /\ At(Layout(first, source.chunks), 0, first)
         /\ At(Layout(first, source.chunks), 8, Wave) /\ Start(1) = 12
<1> DEFINE L == Layouts(first, source.chunks)
           n == Len(source.chunks)
<1>1. 0 \in 0 .. n /\ n \in 0 .. n  OBVIOUS
<1>2. L[0] = RiffHead(first)  BY LayoutRuns
<1>3. At(L[0], 0, first) /\ At(L[0], 8, Wave)  BY <1>2, HeadBytes
<1>4. first \in Seq(Nat) /\ Wave \in Seq(Nat)  BY IdBytes
<1>5. \A off \in Nat, p \in Seq(Nat) : At(L[0], off, p) => At(L[n], off, p)
  BY <1>1, Prefix
<1> HIDE DEF L, n
<1>6. At(L[n], 0, first) /\ At(L[n], 8, Wave)  BY <1>3, <1>4, <1>5
<1>7. Layouts(Riff, source.chunks)[0] = RiffHead(Riff)  BY IdBytes, LayoutRuns
<1>8. Len(RiffHead(Riff)) = 12  BY IdBytes, HeadBytes
<1>9. Start(1) = 12  BY <1>7, <1>8 DEF Start, Ends
<1> QED BY <1>6, <1>9 DEF L, n, Layout

LEMMA FirstId ==
  ASSUME source.chunks \in Seq(ChunkType), NEW first \in Ids, Begins(first), Len(file) >= 12
  PROVE  SubSeq(file, 1, 4) = first
<1> DEFINE l == Layout(first, source.chunks)
<1>1. /\ file \in Seq(Nat) /\ Len(file) \in Nat
      /\ \A off \in Nat, p \in Seq(Nat) :
           At(l, off, p) /\ off + Len(p) <= Len(file) => At(file, off, p)
  BY FileBytes
<1>2. At(l, 0, first)  BY HeadThere
<1>3. first \in Seq(Nat) /\ Len(first) = 4 /\ 0 + 4 <= Len(file) /\ 0 \in Nat  BY <1>1, IdBytes
<1> HIDE DEF l
<1>4. At(file, 0, first)  BY <1>1, <1>2, <1>3
<1>5. SubSeq(file, 0 + 1, 0 + 4) = first  BY <1>1, <1>3, <1>4, IdThere
<1> QED BY <1>5

LEMMA WalkRiff ==
  ASSUME Walking, ReadRiff
  PROVE  Walking'
<1>1. /\ outcome = "opened" /\ pos = 0 /\ ~have_fmt /\ ~have_data
      /\ UNCHANGED <<source, file, have_fmt, have_data, result, samples>>
  BY DEF Walking, ReadRiff, Refuse
<1>2. PICK f \in Chunks : source.chunks = f.chunks  BY DEF Walking
<1>3. source.chunks \in Seq(ChunkType) /\ Count \in Nat  BY <1>2, SourceChunks
<1>4. PICK first \in Ids : Begins(first)  BY IdBytes DEF Walking
<1> DEFINE l == Layout(first, source.chunks)
<1>5. /\ file \in Seq(Nat) /\ Len(file) \in Nat /\ \A k \in 1 .. Len(file) : file[k] = l[k]
      /\ \A off \in Nat, p \in Seq(Nat) :
           At(l, off, p) /\ off + Len(p) <= Len(file) => At(file, off, p)
  BY <1>3, <1>4, FileBytes
<1>6. At(l, 0, first) /\ At(l, 8, Wave) /\ Start(1) = 12  BY <1>3, HeadThere
<1> HIDE DEF l
<1>7. Len(file) >= 12 => (HasTag(0, Riff) <=> first = Riff) /\ HasTag(8, Wave)
  <2> SUFFICES ASSUME Len(file) >= 12
               PROVE  (HasTag(0, Riff) <=> first = Riff) /\ HasTag(8, Wave)
    OBVIOUS
  <2>1. /\ first \in Seq(Nat) /\ Len(first) = 4
        /\ Wave \in Seq(Nat) /\ Len(Wave) = 4
    BY IdBytes
  <2>2. 0 + 4 <= Len(file) /\ 8 + 4 <= Len(file)  BY <1>5
  <2>3. At(file, 0, first) /\ At(file, 8, Wave)  BY <1>5, <1>6, <2>1, <2>2
  <2>4. pos + 0 = 0 /\ pos + 8 = 8 /\ pos \in Nat  BY <1>1
  <2>5. At(file, pos + 0, first) /\ At(file, pos + 8, Wave)  BY <2>3, <2>4
  <2>6. file \in Seq(Nat) /\ Riff \in Ids /\ Wave \in Ids /\ 0 \in Nat /\ 8 \in Nat
    BY <1>5, IdBytes
  <2>7. \A other : HasTag(0, other) <=> other = first
    BY ONLY <1>4, <2>4, <2>5, <2>6, ReadsTag
  <2>8. \A other : HasTag(8, other) <=> other = Wave
    BY ONLY <2>4, <2>5, <2>6, ReadsTag
  <2>9. HasTag(0, Riff) <=> first = Riff  BY ONLY <2>7
  <2> QED BY ONLY <2>8, <2>9
<1>8. ~(Len(file) >= 12 /\ first = Riff) => ~Playable
  <2> SUFFICES ASSUME Playable PROVE Len(file) >= 12 /\ first = Riff
    OBVIOUS
  <2>1. Len(file) >= 12 /\ SubSeq(file, 1, 4) = Riff  BY DEF Playable
  <2> QED BY <1>3, <1>4, <2>1, FirstId
<1>9. CASE Len(file) >= 12 /\ first = Riff
  <2>1. pos' = 12 /\ outcome' = "reading"  BY <1>7, <1>9 DEF ReadRiff
  <2>2. Walked(1)'
    <3>1. \A j : j \notin 1 .. (1 - 1)  OBVIOUS
    <3> QED BY <1>1, <3>1 DEF Walked
  <2>3. 1 \in 1 .. (Count' + 1) /\ pos' = Start(1)'  BY <1>1, <1>3, <1>6, <2>1, Unmoved
  <2>4. InStep'  BY <1>1, <2>1, <2>2, <2>3 DEF InStep
  <2>5. Begins(Riff)'  BY <1>1, <1>4, <1>9, Unmoved
  <2> QED BY <1>1, <1>2, <1>9, <2>1, <2>4, <2>5 DEF Walking
<1>10. CASE ~(Len(file) >= 12 /\ first = Riff)
  <2>1. pos' = pos /\ outcome' = "refused"  BY <1>5, <1>7, <1>10 DEF ReadRiff, Refuse
  <2>2. ~Playable'  BY <1>1, <1>8, <1>10, Unmoved
  <2>3. InStep'  BY <2>1, <2>2 DEF InStep
  <2>4. Begins(first)'  BY <1>1, <1>4, Unmoved
  <2> QED BY <1>1, <1>2, <2>1, <2>3, <2>4 DEF Walking
<1> QED BY <1>9, <1>10

\* What NextChunk tells in the middle of a walk.
LEMMA InMidst ==
  ASSUME Walking, NextChunk
  PROVE  /\ Begins(Riff) /\ pos \in Nat /\ ~have_data /\ outcome = "reading" /\ ChunkThere
         /\ source.chunks \in Seq(ChunkType) /\ Count \in Nat /\ file \in Seq(Nat)
         /\ Len(file) \in Nat /\ Len(file) >= 12 /\ ChunkSize \in Nat
         /\ Ordinary =>
              \E k \in 1 .. Count :
                /\ pos = Start(k) /\ Walked(k) /\ ChunkSize = Len(source.chunks[k].body)
                /\ ChunkSize = source.chunks[k].size
<1>1. /\ Begins(Riff) /\ pos \in Nat /\ ~have_data /\ outcome = "reading" /\ ChunkThere
      /\ Len(file) >= 12
  BY DEF Walking, NextChunk
<1>2. source.chunks \in Seq(ChunkType) /\ Count \in Nat /\ DOMAIN source.chunks = 1 .. Count
  BY SourceChunks DEF Walking, Count
<1>3. file \in Seq(Nat) /\ Len(file) \in Nat  BY <1>1, <1>2, IdBytes, FileBytes
<1>4. ChunkSize \in Nat  BY <1>1, <1>3, SizesAreNumbers
<1>5. ASSUME Ordinary
      PROVE  \E k \in 1 .. Count :
               /\ pos = Start(k) /\ Walked(k) /\ ChunkSize = Len(source.chunks[k].body)
               /\ ChunkSize = source.chunks[k].size
  <2>1. PICK k \in 1 .. (Count + 1) : pos = Start(k) /\ Walked(k)
    BY <1>1, <1>5 DEF Walking, InStep
  <2>2. k \in 1 .. Count  BY <1>1, <1>2, <2>1, NotPastEnd
  <2>3. ChunkSize = source.chunks[k].size  BY <1>1, <1>2, <2>1, <2>2, ChunkHere
  <2>4. source.chunks[k].size = Len(source.chunks[k].body)  BY <1>2, <1>5, <2>2 DEF Ordinary
  <2> QED BY <2>1, <2>2, <2>3, <2>4
<1> QED BY <1>1, <1>2, <1>3, <1>4, <1>5

LEMMA WalkFmt ==
  ASSUME Walking, ReadFmt
  PROVE  Walking'
<1>1. /\ NextChunk /\ HasTag(0, FmtId)
      /\ UNCHANGED <<source, file, have_data, samples>>
  BY DEF ReadFmt, Refuse
<1>2. /\ Begins(Riff) /\ pos \in Nat /\ ~have_data /\ outcome = "reading" /\ ChunkThere
      /\ source.chunks \in Seq(ChunkType) /\ Count \in Nat /\ file \in Seq(Nat)
      /\ Len(file) \in Nat /\ Len(file) >= 12 /\ ChunkSize \in Nat
  BY <1>1, InMidst
<1>3. PICK f \in Chunks : source.chunks = f.chunks  BY DEF Walking
<1> DEFINE Good == ChunkSize >= 16 /\ Whole /\ ReadU16(8) = 1
<1>4. CASE Good
  <2>1. /\ have_fmt' = TRUE /\ pos' = pos + 8 + ChunkSize /\ outcome' = outcome
        /\ result'.num_channels = ReadU16(10) /\ result'.bits_per_sample = ReadU16(22)
    BY <1>4 DEF ReadFmt
  <2>2. ASSUME Ordinary PROVE InStep'
    <3>1. PICK k \in 1 .. Count :
            /\ pos = Start(k) /\ Walked(k) /\ ChunkSize = Len(source.chunks[k].body)
            /\ ChunkSize = source.chunks[k].size
      BY <1>1, <2>2, InMidst
    <3> DEFINE body == source.chunks[k].body
    <3>2. /\ HasTag(0, FmtId) <=> FmtId = source.chunks[k].id
          /\ Start(k + 1) = pos + 8 + Len(body) + (Len(body) % 2)
          /\ pos + 8 + Len(body) <= Len(file) => At(file, pos + 8, body)
      BY <1>2, <3>1, ChunkHere
    <3>3. IsFmt(k) /\ ~IsData(k)  BY <1>1, <3>2, IdBytes DEF IsFmt, IsData
    <3>4. body \in Seq(Bytes) /\ Len(body) \in Nat  BY <1>3, SourceChunks
    <3>5. Len(body) % 2 = 0
      <4>1. k \in DOMAIN source.chunks  BY <1>2 DEF Count
      <4> QED BY <2>2, <3>1, <3>3, <4>1 DEF Ordinary, IsFmt
    <3> HIDE DEF body
    <3>6. pos' = Start(k + 1)  BY <1>2, <2>1, <3>1, <3>2, <3>4, <3>5 DEF body
    <3>7. At(file, pos + 8, body) /\ Len(body) >= 16  BY <1>4, <3>1, <3>2 DEF Whole, body
    <3>8. /\ ReadU16(8) = WordAt(body, 1) /\ ReadU16(10) = WordAt(body, 3)
          /\ ReadU16(22) = WordAt(body, 15)
      <4>1. /\ 1 \in Nat \ {0} /\ 3 \in Nat \ {0} /\ 15 \in Nat \ {0}
            /\ 1 + 1 <= Len(body) /\ 3 + 1 <= Len(body) /\ 15 + 1 <= Len(body)
            /\ 7 + 1 = 8 /\ 7 + 3 = 10 /\ 7 + 15 = 22
        BY <3>4, <3>7
      <4>2. /\ ReadU16(7 + 1) = WordAt(body, 1) /\ ReadU16(7 + 3) = WordAt(body, 3)
            /\ ReadU16(7 + 15) = WordAt(body, 15)
        BY <1>2, <3>4, <3>7, <4>1, ReadsField
      <4> QED BY <4>1, <4>2
    <3>9. Walked(k + 1)'
      <4>1. \A j \in 1 .. (k + 1 - 1) : j = k \/ j \in 1 .. (k - 1)  BY <1>2
      <4>2. k \in 1 .. (k + 1 - 1) /\ \A j : j \notin (k + 1) .. (k + 1 - 1)  BY <1>2
      <4>3. source' = source  BY <1>1
      <4>4. \A j \in 1 .. (k + 1 - 1) :
              /\ ~IsData(j)'
              /\ IsFmt(j)' => /\ source'.chunks[j].size >= 16
                              /\ WordAt(source'.chunks[j].body, 1) = 1
        <5> TAKE j \in 1 .. (k + 1 - 1)
        <5>1. CASE j = k
          BY <1>1, <1>4, <3>1, <3>3, <3>8, <4>3, <5>1, Unmoved DEF body
        <5>2. CASE j \in 1 .. (k - 1)
          BY <1>1, <3>1, <4>3, <5>2, Unmoved DEF Walked
        <5> QED BY <4>1, <5>1, <5>2
      <4>5. IsFmt(k)'  BY <1>1, <3>3, Unmoved
      <4>6. /\ result'.num_channels = WordAt(source'.chunks[k].body, 3)
            /\ result'.bits_per_sample = WordAt(source'.chunks[k].body, 15)
        BY <2>1, <3>8, <4>3 DEF body
      <4> QED BY <2>1, <4>2, <4>4, <4>5, <4>6 DEF Walked
    <3>10. k + 1 \in 1 .. (Count' + 1) /\ pos' = Start(k + 1)'
      BY <1>1, <1>2, <3>6, Unmoved
    <3> QED BY <1>1, <1>2, <2>1, <3>9, <3>10 DEF InStep
  <2>3. pos' \in Nat  BY <1>2, <2>1
  <2>4. Begins(Riff)' /\ (Ordinary' => InStep')  BY <1>1, <1>2, <2>2, Unmoved
  <2> QED BY <1>1, <1>2, <1>3, <2>1, <2>3, <2>4 DEF Walking
<1>5. CASE ~Good
  <2>1. pos' = pos /\ outcome' = "refused" /\ UNCHANGED <<have_fmt, result>>
    BY <1>5 DEF ReadFmt, Refuse
  <2>2. ASSUME Ordinary, Playable PROVE FALSE
    <3>1. PICK k \in 1 .. Count :
            /\ pos = Start(k) /\ Walked(k) /\ ChunkSize = Len(source.chunks[k].body)
            /\ ChunkSize = source.chunks[k].size
      BY <1>1, <2>2, InMidst
    <3> DEFINE body == source.chunks[k].body
    <3>2. /\ HasTag(0, FmtId) <=> FmtId = source.chunks[k].id
          /\ Start(k + 1) = pos + 8 + Len(body) + (Len(body) % 2)
          /\ pos + 8 + Len(body) <= Len(file) => At(file, pos + 8, body)
      BY <1>2, <3>1, ChunkHere
    <3>3. IsFmt(k) /\ ~IsData(k)  BY <1>1, <3>2, IdBytes DEF IsFmt, IsData
    <3>4. body \in Seq(Bytes) /\ Len(body) \in Nat  BY <1>3, SourceChunks
    <3>5. k \in 1 .. (Count + 1)  BY <1>2
    <3>6. PICK j \in k .. Count : FirstData(j) /\ InFile(j) /\ Described(j)
      BY <1>2, <2>2, <3>1, <3>5, PlayableAhead
    <3>7. j # k  BY <3>3, <3>6 DEF FirstData
    <3>8. j \in (k + 1) .. Count /\ k \in 1 .. (j - 1)  BY <1>2, <3>7
    <3>9. source.chunks[k].size >= 16 /\ SubSeq(body, 1, 2) = U16(1)
      BY <3>3, <3>6, <3>8 DEF Described, IsFmt
    <3>10. Whole
      <4>1. k + 1 \in 1 .. (Count + 1) /\ j \in (k + 1) .. (Count + 1)  BY <1>2, <3>8
      <4>2. Start(k + 1) \in Nat /\ Start(j) \in Nat /\ Start(k + 1) <= Start(j)
        BY <1>2, <4>1, StartsUp
      <4>3. source.chunks[j].size \in Nat
        <5>1. j \in 1 .. Count  BY <1>2, <3>8
        <5> QED BY <1>3, <5>1, SourceChunks, Moduli
      <4>4. Start(j) + 8 + source.chunks[j].size <= Len(file)
        BY <3>6 DEF InFile, Start, Ends
      <4>5. Len(body) % 2 \in 0 .. 1
        <5>1. \A n \in Nat : n % 2 \in 0 .. 1  OBVIOUS
        <5> QED BY <3>4, <5>1
      <4> HIDE DEF body
      <4>6. pos + 8 + Len(body) <= Start(k + 1)  BY <1>2, <3>2, <3>4, <4>5
      <4>7. pos \in Nat /\ Len(file) \in Nat /\ Len(body) \in Nat  BY <1>2, <3>4
      <4>8. Start(k + 1) <= Len(file)  BY <4>2, <4>3, <4>4, <4>7
      <4>9. pos + 8 + Len(body) <= Len(file)  BY <4>2, <4>6, <4>7, <4>8
      <4> QED BY <3>1, <4>9 DEF Whole, body
    <3> HIDE DEF body
    <3>11. At(file, pos + 8, body) /\ Len(body) >= 16  BY <3>1, <3>2, <3>9, <3>10 DEF Whole, body
    <3>12. 1 \in Nat \ {0} /\ 1 + 1 <= Len(body) /\ 1 + 1 = 2 /\ 7 + 1 = 8
           /\ 1 \in 0 .. (WordMod - 1)
      BY <3>4, <3>11, Moduli
    <3>13. WordAt(body, 1) = 1
      <4>1. SubSeq(body, 1, 1 + 1) = U16(1)  BY <3>9, <3>12 DEF body
      <4> QED BY <3>4, <3>12, <4>1, FieldThere
    <3>14. ReadU16(7 + 1) = WordAt(body, 1)  BY <1>2, <3>4, <3>11, <3>12, ReadsField
    <3> QED BY <1>5, <3>1, <3>9, <3>10, <3>12, <3>13, <3>14
  <2>3. Ordinary' => InStep'  BY <1>1, <2>1, <2>2, Unmoved DEF InStep
  <2>4. Begins(Riff)'  BY <1>1, <1>2, Unmoved
  <2> QED BY <1>1, <1>2, <1>3, <2>1, <2>3, <2>4 DEF Walking
<1> QED BY <1>4, <1>5

LEMMA WalkData ==
  ASSUME Walking, ReadData
  PROVE  Walking'
<1>1. NextChunk /\ HasTag(0, DataId) /\ UNCHANGED <<source, file, have_fmt, result>>
  BY DEF ReadData, Refuse
<1>2. /\ Begins(Riff) /\ pos \in Nat /\ ~have_data /\ outcome = "reading" /\ ChunkThere
      /\ source.chunks \in Seq(ChunkType) /\ Count \in Nat /\ file \in Seq(Nat)
      /\ Len(file) \in Nat /\ Len(file) >= 12 /\ ChunkSize \in Nat
  BY <1>1, InMidst
<1>3. PICK f \in Chunks : source.chunks = f.chunks  BY DEF Walking
<1>4. ASSUME Ordinary
      PROVE  \E k \in 1 .. Count :
               /\ IsData(k) /\ Walked(k) /\ (InFile(k) <=> Whole)
               /\ ChunkSize = Len(source.chunks[k].body)
               /\ Whole => At(file, pos + 8, source.chunks[k].body)
  <2>1. PICK k \in 1 .. Count :
          /\ pos = Start(k) /\ Walked(k) /\ ChunkSize = Len(source.chunks[k].body)
          /\ ChunkSize = source.chunks[k].size
    BY <1>1, <1>4, InMidst
  <2>2. /\ HasTag(0, DataId) <=> DataId = source.chunks[k].id
        /\ pos + 8 + ChunkSize <= Len(file) => At(file, pos + 8, source.chunks[k].body)
    BY <1>2, <2>1, ChunkHere
  <2>3. IsData(k)  BY <1>1, <2>2 DEF IsData
  <2>4. InFile(k) <=> Whole  BY <2>1 DEF InFile, Whole, Start, Ends
  <2>5. Whole => At(file, pos + 8, source.chunks[k].body)  BY <2>2 DEF Whole
  <2> QED BY <2>1, <2>3, <2>4, <2>5
<1>5. CASE have_fmt /\ Whole
  <2>1. /\ samples' = [i \in 1 .. ChunkSize \div 2 |-> ToSample(ReadU16(6 + 2 * i))]
        /\ have_data' = TRUE /\ pos' = pos + 8 + ChunkSize /\ outcome' = outcome
    BY <1>5 DEF ReadData
  <2>2. ASSUME Ordinary PROVE InStep'
    <3>1. PICK k \in 1 .. Count :
            /\ IsData(k) /\ Walked(k) /\ InFile(k) /\ ChunkSize = Len(source.chunks[k].body)
            /\ At(file, pos + 8, source.chunks[k].body)
      BY <1>4, <1>5, <2>2
    <3> DEFINE body == source.chunks[k].body
    <3>2. body \in Seq(Bytes)  BY <1>3, SourceChunks
    <3>3. samples' = [i \in 1 .. Len(body) \div 2 |-> ToSample(ReadU16(6 + 2 * i))]
      BY <2>1, <3>1
    <3>4. At(file, pos + 8, body)  BY <3>1
    <3> HIDE DEF body
    <3>5. /\ Len(samples') = Len(body) \div 2
          /\ Words(samples') = SubSeq(body, 1, 2 * Len(samples'))
      BY <1>2, <3>2, <3>3, <3>4, WholeBody
    <3>6. SamplesOf(k)'  BY <1>1, <3>5 DEF SamplesOf, body
    <3>7. Walked(k)'  BY <1>1, <3>1 DEF Walked, IsData, IsFmt
    <3>8. k \in 1 .. Count' /\ IsData(k)' /\ InFile(k)'  BY <1>1, <3>1, Unmoved
    <3> QED BY <1>2, <2>1, <3>6, <3>7, <3>8 DEF InStep
  <2>3. pos' \in Nat  BY <1>2, <2>1
  <2>4. Begins(Riff)' /\ (Ordinary' => InStep')  BY <1>1, <1>2, <2>2, Unmoved
  <2> QED BY <1>1, <1>2, <1>3, <2>1, <2>3, <2>4 DEF Walking
<1>6. CASE ~(have_fmt /\ Whole)
  <2>1. /\ outcome' = "refused" /\ UNCHANGED <<pos, have_data, samples>>
    BY <1>6 DEF ReadData, Refuse
  <2>2. ASSUME Ordinary, Playable PROVE FALSE
    <3>1. PICK j \in 1 .. Count : IsData(j) /\ Walked(j) /\ (InFile(j) <=> Whole)
      BY <1>4, <2>2
    <3>2. j \in 1 .. (Count + 1)  BY <1>2
    <3>3. PICK i \in j .. Count : FirstData(i) /\ InFile(i) /\ Described(i)
      BY <1>2, <2>2, <3>1, <3>2, PlayableAhead
    <3>4. i = j
      <4>1. CASE i # j
        <5>1. j \in 1 .. (i - 1)  BY <1>2, <4>1
        <5> QED BY <3>1, <3>3, <5>1 DEF FirstData
      <4> QED BY <4>1
    <3>5. have_fmt  BY <1>3, <2>2, <3>1, <3>3, <3>4, Description
    <3> QED BY <1>6, <3>1, <3>3, <3>4, <3>5
  <2>3. Ordinary' => InStep'  BY <1>1, <2>1, <2>2, Unmoved DEF InStep
  <2>4. Begins(Riff)'  BY <1>1, <1>2, Unmoved
  <2> QED BY <1>1, <1>2, <1>3, <2>1, <2>3, <2>4 DEF Walking
<1> QED BY <1>5, <1>6

LEMMA WalkSkip ==
  ASSUME BodiesFit, Walking, SkipChunk
  PROVE  Walking'
<1>1. /\ NextChunk /\ ~HasTag(0, FmtId) /\ ~HasTag(0, DataId)
      /\ UNCHANGED <<source, file, have_fmt, have_data, result, samples>>
  BY DEF SkipChunk, Refuse
<1>2. /\ Begins(Riff) /\ pos \in Nat /\ ~have_data /\ outcome = "reading" /\ ChunkThere
      /\ source.chunks \in Seq(ChunkType) /\ Count \in Nat /\ file \in Seq(Nat)
      /\ Len(file) \in Nat /\ Len(file) >= 12 /\ ChunkSize \in Nat
  BY <1>1, InMidst
<1>3. PICK f \in Chunks : source.chunks = f.chunks  BY DEF Walking
<1>4. Skip(ChunkSize) \in Nat
  <2>1. \A n \in Nat : n + (n % 2) \in Nat  OBVIOUS
  <2>2. ChunkSize + (ChunkSize % 2) \in Nat  BY <1>2, <2>1
  <2>3. \A n, m \in Nat : m > 0 => n % m \in Nat  OBVIOUS
  <2> QED BY <2>2, <2>3, Moduli DEF Skip
<1>5. pos' = pos + 8 + Skip(ChunkSize) /\ outcome' = outcome
  <2>1. ~(pos + 8 + Skip(ChunkSize) < 0)  BY <1>2, <1>4
  <2> QED BY <2>1 DEF SkipChunk
<1>6. ASSUME Ordinary PROVE InStep'
  <2>1. PICK k \in 1 .. Count :
          /\ pos = Start(k) /\ Walked(k) /\ ChunkSize = Len(source.chunks[k].body)
    BY <1>1, <1>6, InMidst
  <2> DEFINE n == Len(source.chunks[k].body)
  <2>2. /\ HasTag(0, FmtId) <=> FmtId = source.chunks[k].id
        /\ HasTag(0, DataId) <=> DataId = source.chunks[k].id
        /\ Start(k + 1) = pos + 8 + n + (n % 2)
    BY <1>2, <2>1, ChunkHere
  <2>3. ~IsFmt(k) /\ ~IsData(k)  BY <1>1, <2>2 DEF IsFmt, IsData
  <2>4. n \in Nat /\ n + 1 < SizeMod  BY <1>3, SourceChunks
  <2> HIDE DEF n
  <2>5. Skip(n) = n + (n % 2)
    <3>1. n % 2 \in 0 .. 1 /\ n + (n % 2) \in 0 .. (SizeMod - 1)  BY <2>4, Moduli
    <3>2. \A m \in 0 .. (SizeMod - 1) : m % SizeMod = m  BY Moduli
    <3> QED BY <3>1, <3>2 DEF Skip
  <2>6. pos' = Start(k + 1)
    <3>1. n % 2 \in Nat  BY <2>4
    <3>2. pos' = pos + 8 + (n + (n % 2))  BY <1>5, <2>1, <2>5 DEF n
    <3> QED BY <1>2, <2>2, <2>4, <3>1, <3>2
  <2>7. Walked(k + 1)'
    <3>1. \A j \in 1 .. (k + 1 - 1) : j = k \/ j \in 1 .. (k - 1)  BY <1>2
    <3>2. /\ source' = source /\ have_fmt' = have_fmt /\ result' = result
          /\ \A j : (IsData(j)' <=> IsData(j)) /\ (IsFmt(j)' <=> IsFmt(j))
      BY <1>1, Unmoved
    <3>3. \A j \in 1 .. (k + 1 - 1) :
            /\ ~IsData(j)'
            /\ IsFmt(j)' => /\ source'.chunks[j].size >= 16
                            /\ WordAt(source'.chunks[j].body, 1) = 1
      BY <2>1, <2>3, <3>1, <3>2 DEF Walked
    <3>4. ~have_fmt' => \A j \in 1 .. (k + 1 - 1) : ~IsFmt(j)'
      BY <2>1, <2>3, <3>1, <3>2 DEF Walked
    <3>5. ASSUME have_fmt
          PROVE  \E m \in 1 .. (k + 1 - 1) :
                   /\ IsFmt(m)' /\ \A j \in (m + 1) .. (k + 1 - 1) : ~IsFmt(j)'
                   /\ result'.num_channels = WordAt(source'.chunks[m].body, 3)
                   /\ result'.bits_per_sample = WordAt(source'.chunks[m].body, 15)
      <4>1. PICK m \in 1 .. (k - 1) :
              /\ IsFmt(m) /\ \A j \in (m + 1) .. (k - 1) : ~IsFmt(j)
              /\ result.num_channels = WordAt(source.chunks[m].body, 3)
              /\ result.bits_per_sample = WordAt(source.chunks[m].body, 15)
        BY <2>1, <3>5 DEF Walked
      <4>2. m \in 1 .. (k + 1 - 1)
            /\ \A j \in (m + 1) .. (k + 1 - 1) : j = k \/ j \in (m + 1) .. (k - 1)
        BY <1>2
      <4>3. \A j \in (m + 1) .. (k + 1 - 1) : ~IsFmt(j)'  BY <2>3, <3>2, <4>1, <4>2
      <4> QED BY <3>2, <4>1, <4>2, <4>3
    <3> QED BY <3>2, <3>3, <3>4, <3>5 DEF Walked
  <2>8. k + 1 \in 1 .. (Count' + 1) /\ pos' = Start(k + 1)'
    BY <1>1, <1>2, <2>6, Unmoved
  <2> QED BY <1>1, <1>2, <1>5, <2>7, <2>8 DEF InStep
<1>7. pos' \in Nat  BY <1>2, <1>4, <1>5
<1>8. Begins(Riff)' /\ (Ordinary' => InStep')  BY <1>1, <1>2, <1>6, Unmoved
<1> QED BY <1>1, <1>2, <1>3, <1>5, <1>7, <1>8 DEF Walking

LEMMA WalkEnd ==
  ASSUME Walking, EndOfChunks
  PROVE  Walking'
<1>1. /\ outcome = "reading" /\ (have_data \/ ~ChunkThere)
      /\ outcome' \in {"read", "refused"}
      /\ outcome' = "read" <=> /\ have_fmt /\ have_data /\ result.num_channels = Channels
                               /\ result.bits_per_sample = BitsPerSample
      /\ UNCHANGED <<source, file, pos, have_fmt, have_data, result, samples>>
  BY DEF EndOfChunks
<1>2. Begins(Riff) /\ pos \in Nat  BY <1>1 DEF Walking
<1>3. PICK f \in Chunks : source.chunks = f.chunks  BY DEF Walking
<1>4. /\ source.chunks \in Seq(ChunkType) /\ Count \in Nat /\ DOMAIN source.chunks = 1 .. Count
      /\ Len(file) \in Nat
  BY <1>2, <1>3, SourceChunks, FileBytes DEF Count
<1>5. ASSUME Ordinary
      PROVE  /\ outcome' = "read" <=> Playable
             /\ outcome' = "read" => \E k \in 1 .. Count : FirstData(k) /\ SamplesOf(k)
  <2>1. CASE have_data
    <3>1. PICK k \in 1 .. Count : IsData(k) /\ InFile(k) /\ Walked(k) /\ SamplesOf(k)
      BY <1>1, <1>5, <2>1 DEF Walking, InStep
    <3>2. Described(k) <=> outcome' = "read"  BY <1>1, <1>3, <1>5, <2>1, <3>1, Description
    <3>3. FirstData(k)  BY <3>1 DEF FirstData, Walked
    <3>4. ASSUME Described(k) PROVE Playable
      <4>1. Len(file) >= 12 /\ SubSeq(file, 1, 4) = Riff
        <5>1. Len(file) >= 12  BY <1>1 DEF Walking
        <5>2. SubSeq(file, 1, 4) = Riff  BY <1>2, <1>4, <5>1, IdBytes, FirstId
        <5> QED BY <5>1, <5>2
      <4> QED BY <1>4, <3>1, <3>3, <3>4, <4>1 DEF Playable
    <3>5. ASSUME Playable PROVE Described(k)
      <4>1. k \in 1 .. (Count + 1)  BY <1>4
      <4>2. PICK j \in k .. Count : FirstData(j) /\ Described(j)
        BY <1>4, <3>1, <3>5, <4>1, PlayableAhead
      <4>3. j = k
        <5>1. CASE j # k
          <6>1. k \in 1 .. (j - 1)  BY <1>4, <5>1
          <6> QED BY <3>1, <4>2, <6>1 DEF FirstData
        <5> QED BY <5>1
      <4> QED BY <4>2, <4>3
    <3> QED BY <3>1, <3>2, <3>3, <3>4, <3>5
  <2>2. CASE ~have_data
    <3>1. outcome' # "read"  BY <1>1, <2>2
    <3>2. ASSUME Playable PROVE FALSE
      <4>1. PICK k \in 1 .. (Count + 1) : pos = Start(k) /\ Walked(k)
        BY <1>1, <1>5, <2>2 DEF Walking, InStep
      <4>2. PICK j \in k .. Count : InFile(j)  BY <1>4, <3>2, <4>1, PlayableAhead
      <4>3. j \in 1 .. Count /\ j \in k .. (Count + 1)  BY <1>4
      <4>4. Start(k) \in Nat /\ Start(j) \in Nat /\ Start(k) <= Start(j)
        BY <1>4, <4>3, StartsUp
      <4>5. source.chunks[j].size \in Nat  BY <1>3, <4>3, SourceChunks, Moduli
      <4>6. Start(j) + 8 + source.chunks[j].size <= Len(file)
        BY <4>2 DEF InFile, Start, Ends
      <4>7. pos + 8 <= Len(file)  BY <1>4, <4>1, <4>4, <4>5, <4>6
      <4> QED BY <1>1, <2>2, <4>7 DEF ChunkThere
    <3> QED BY <3>1, <3>2
  <2> QED BY <2>1, <2>2
<1>6. ASSUME Ordinary PROVE InStep'
  <2>1. \A k : (FirstData(k)' <=> FirstData(k)) /\ (SamplesOf(k)' <=> SamplesOf(k))
    BY <1>1 DEF FirstData, IsData, SamplesOf
  <2> QED BY <1>1, <1>5, <1>6, <2>1, Unmoved DEF InStep
<1>7. Begins(Riff)'  BY <1>1, <1>2, Unmoved
<1>8. Ordinary' => InStep'  BY <1>1, <1>6, Unmoved
<1> QED BY <1>1, <1>2, <1>3, <1>7, <1>8 DEF Walking

LEMMA WalkStep ==
  ASSUME BodiesFit, WalkInv, [WavNext]_vars
  PROVE  WalkInv'
<1>1. ASSUME NEW ints \in Recordings, NEW length \in 0 .. (44 + 2 * Len(ints)),
             Write(ints, length)
      PROVE  WalkInv'
  <2>1. source'.written /\ outcome' = "opened"  BY <1>1 DEF Write
  <2> QED BY <2>1 DEF WalkInv
<1>2. ASSUME NEW found \in Chunks, Found(found.first, found.chunks, found.length)
      PROVE  WalkInv'
  <2> DEFINE l == Layout(found.first, found.chunks)
             length == found.length
  <2>1. /\ outcome = "absent" /\ UNCHANGED <<pos, have_fmt, have_data, result, samples>>
        /\ outcome' = "opened" /\ file' = SubSeq(l, 1, length) /\ length <= Len(l)
        /\ source' = [written |-> FALSE, ints |-> <<>>, chunks |-> found.chunks]
    BY <1>2 DEF Found
  <2>2. found.first \in Ids /\ length \in Nat /\ found.chunks \in Seq(ChunkType)
    BY WavAssumption DEF ChunkType
  <2>3. l \in Seq(Nat)
    <3> DEFINE n == Len(found.chunks)
    <3>1. n \in 0 .. n  BY <2>2
    <3>2. Layouts(found.first, found.chunks) \in [0 .. n -> Seq(Nat)]  BY <2>2, LayoutRuns
    <3> QED BY <3>1, <3>2 DEF Layout
  <2>4. source'.chunks = found.chunks  BY <2>1
  <2>5. Begins(found.first)'
    <3>1. l = Layout(found.first, source'.chunks)  BY <2>4
    <3> HIDE DEF l, length
    <3>2. length \in 0 .. Len(l)  BY <2>1, <2>2, <2>3
    <3>3. Len(file') = length  BY <2>1, <2>3, <3>2, AtCut
    <3>4. Len(file') <= Len(l) /\ file' = SubSeq(l, 1, Len(file'))  BY <2>1, <3>3
    <3> QED BY <3>1, <3>4 DEF Begins
  <2>6. \E first \in Ids : Begins(first)'  BY <2>2, <2>5
  <2>7. pos = 0 /\ ~have_fmt /\ ~have_data  BY <2>1 DEF WalkInv
  <2>8. InStep'  BY <2>1, <2>7 DEF InStep
  <2>9. Walking'  BY <2>1, <2>4, <2>6, <2>7, <2>8 DEF Walking
  <2> QED BY <2>1, <2>9 DEF WalkInv
<1>3. ASSUME ReadNext PROVE WalkInv'
  <2>1. source' = source
    BY <1>3 DEF ReadNext, ReadRiff, ReadFmt, ReadData, SkipChunk, EndOfChunks
  <2>2. outcome \in {"opened", "reading"} /\ outcome' \in {"reading", "read", "refused"}
    BY <1>3 DEF ReadNext, ReadRiff, ReadFmt, ReadData, SkipChunk, EndOfChunks, NextChunk, Refuse
  <2>3. CASE source.written  BY <2>1, <2>2, <2>3 DEF WalkInv
  <2>4. CASE ~source.written
    <3>1. Walking  BY <2>2, <2>4 DEF WalkInv
    <3>2. Walking'
      BY <1>3, <3>1, WalkRiff, WalkFmt, WalkData, WalkSkip, WalkEnd DEF ReadNext
    <3> QED BY <2>1, <2>2, <3>2 DEF WalkInv
  <2> QED BY <2>3, <2>4
<1>4. CASE UNCHANGED vars
  <2>1. /\ UNCHANGED <<source, file>>
        /\ UNCHANGED <<pos, have_fmt, have_data, result, samples, outcome>>
    BY <1>4 DEF vars
  <2>2. Walking => Walking'
    <3>1. \A k : /\ Walked(k)' <=> Walked(k)
                 /\ FirstData(k)' <=> FirstData(k)
                 /\ SamplesOf(k)' <=> SamplesOf(k)
      BY <2>1 DEF Walked, FirstData, SamplesOf, IsData, IsFmt
    <3>2. InStep' <=> InStep  BY <2>1, <3>1, Unmoved DEF InStep
    <3> QED BY <2>1, <3>1, <3>2, Unmoved DEF Walking
  <2> QED BY <2>1, <2>2 DEF WalkInv
<1> QED BY <1>1, <1>2, <1>3, <1>4 DEF WavNext

\* An ordinary file, whatever its bodies spell, is read exactly when its first data chunk
\* is whole and comes after a 16-bit mono PCM description, and what is read are that
\* chunk's samples: for any number of chunks of any length.
THEOREM AcceptsCorrect == ASSUME BodiesFit PROVE WavSpec => []AcceptsExactly
<1>1. WavInit => WalkInv  BY DEF WavInit, WalkInv
<1>2. WalkInv /\ [WavNext]_vars => WalkInv'  BY WalkStep
<1>3. WalkInv => AcceptsExactly
  <2> SUFFICES ASSUME WalkInv, Done, ~source.written, Ordinary
               PROVE  /\ outcome = "read" <=> Playable
                      /\ outcome = "read" =>
                           \E k \in DOMAIN source.chunks : FirstData(k) /\ SamplesOf(k)
    BY DEF AcceptsExactly
  <2>1. outcome \in {"read", "refused"} /\ Walking /\ InStep
    BY DEF WalkInv, Done, Walking
  <2>2. source.chunks \in Seq(ChunkType)  BY <2>1, SourceChunks DEF Walking
  <2>3. DOMAIN source.chunks = 1 .. Count  BY <2>2 DEF Count
  <2> QED BY <2>1, <2>3 DEF InStep
<1> QED BY <1>1, <1>2, <1>3, PTL DEF WavSpec
=============================================================================
