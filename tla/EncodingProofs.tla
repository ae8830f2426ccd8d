-------------------------- MODULE EncodingProofs --------------------------
(***************************************************************************)
(* What is read from the bytes of a chunk, for any size of a byte and any code *)
(* that compile.c emits.  The pieces of the instructions lie one behind the    *)
(* other, each at its address (LaidOut), and patching a jump does not move     *)
(* them (SameAddresses); a word is read from its two bytes as it was written,   *)
(* and a distance as it was meant exactly if it is an int16_t; so each kind of *)
(* instruction is read as it was compiled exactly if its operands fit.         *)
(***************************************************************************)
EXTENDS Encoding, SequenceTheorems, FiniteSetTheorems, WellFoundedInduction, TLAPS

-----------------------------------------------------------------------------
(* Numbers *)

\* Division and remainder, for a positive divisor.
LEMMA DivMod ==
    ASSUME NEW n \in Int, NEW m \in Nat \ {0}
    PROVE  /\ n \div m \in Int /\ n % m \in 0 .. m - 1
           /\ n = m * (n \div m) + (n % m)
  OBVIOUS

\* The product of a positive number with one that is not 0 is no smaller.
LEMMA Multiples ==
    ASSUME NEW m \in Nat \ {0}, NEW k \in Int
    PROVE  /\ m * k \in Int
           /\ k >= 1 => m * k >= m
           /\ k <= -1 => m * k <= -m
           /\ k = 0 => m * k = 0
  OBVIOUS

\* What is below the divisor is its own remainder.
LEMMA SmallMod ==
    ASSUME NEW m \in Nat \ {0}, NEW n \in 0 .. m - 1
    PROVE  n % m = n
<1>1. n = m * (n \div m) + (n % m) /\ n % m \in 0 .. m - 1 /\ n \div m \in Int
  BY DivMod
<1>2. n \div m = 0
  BY <1>1, Multiples
<1> QED
  BY <1>1, <1>2, Multiples

\* The size of a word, which has two halves.
LEMMA WordIsEven ==
    /\ Word \in Nat \ {0}
    /\ Word \div 2 \in Nat \ {0}
    /\ Word = 2 * (Word \div 2)
<1>1. Byte = 2 * (Byte \div 2) /\ Byte \div 2 \in Nat \ {0}
  BY ByteIsEven, DivMod
<1>2. PICK h \in Nat \ {0} : Byte = 2 * h
  BY <1>1
<1>3. h * Byte \in Nat \ {0} /\ Word = 2 * (h * Byte)
  BY <1>2, ByteIsEven DEF Word
<1> QED
  BY <1>3

\* A uint16_t is what is read from the two bytes it was written to
\* (chunk_emit_u16, chunk_patch_u16 and the reads of vm.c).
THEOREM WordReadsBack ==
    ASSUME NEW u \in 0 .. Word - 1
    PROVE  Joined(Halves(u)[1], Halves(u)[2]) = u
<1> DEFINE q == u \div Byte
<1>1. u = Byte * q + (u % Byte) /\ q \in Int /\ u % Byte \in 0 .. Byte - 1
  BY ByteIsEven, WordIsEven, DivMod
<1>2. q \in 0 .. Byte - 1
  <2>1. q >= 0
    BY <1>1, WordIsEven, Multiples, ByteIsEven
  <2>2. q < Byte
    <3> SUFFICES ASSUME q >= Byte PROVE FALSE
      BY <1>1, ByteIsEven
    <3>1. Byte * q >= Byte * Byte
      BY <1>1, ByteIsEven
    <3> QED
      BY <1>1, <3>1, ByteIsEven, WordIsEven DEF Word
  <2> HIDE DEF q
  <2> QED
    BY <2>1, <2>2, <1>1, ByteIsEven
<1>3. q % Byte = q
  BY <1>2, SmallMod, ByteIsEven
<1>4. Halves(u) = <<u % Byte, q>>
  BY <1>3 DEF Halves, U8
<1> HIDE DEF q
<1>5. Byte * q \in Int
  BY <1>1, ByteIsEven, Multiples
<1>6. Joined(Halves(u)[1], Halves(u)[2]) = (u % Byte) + Byte * q
  BY <1>4 DEF Joined
<1> QED
  BY <1>1, <1>5, <1>6

\* A distance that was cast to uint16_t, written, read and cast to int16_t is
\* the distance exactly if it is an int16_t (the jumps of compile.c and vm.c).
THEOREM DistanceReadsBack ==
    ASSUME NEW d \in Int
    PROVE  LET u == U16(d)
           IN Signed(Joined(Halves(u)[1], Halves(u)[2])) = d
                  <=> d \in -(Word \div 2) .. Word \div 2 - 1
<1> DEFINE k == d \div Word
           u == U16(d)
           h == Word \div 2
<1>1. d = Word * k + u /\ k \in Int /\ u \in 0 .. Word - 1
  BY WordIsEven, DivMod DEF U16
<1>2. Joined(Halves(u)[1], Halves(u)[2]) = u
  BY <1>1, WordReadsBack
<1>3. h \in Nat \ {0} /\ Word = 2 * h
  BY WordIsEven
<1>4. /\ Word * k \in Int
      /\ k >= 1 => Word * k >= Word
      /\ k <= -1 => Word * k <= -Word
      /\ k = 0 => Word * k = 0
  BY <1>1, WordIsEven, Multiples
<1>5. k = -1 => Word * k = -Word
  BY WordIsEven
<1>6. k <= -2 => Word * k <= -2 * Word
  BY <1>1, WordIsEven
<1>7. Signed(u) = IF u < h THEN u ELSE u - Word
  BY DEF Signed
<1> HIDE DEF k, u, h
<1>8. Signed(u) = d <=> d \in -h .. h - 1
  BY <1>1, <1>3, <1>4, <1>5, <1>6, <1>7
<1> QED
  BY <1>2, <1>8 DEF u, h

-----------------------------------------------------------------------------
(* Sequences laid out one behind the other *)

Below == {ss \in Nat \X Nat : ss[1] < ss[2]}

\* Induction, with a set for what is to be shown.
LEMMA AllNumbers ==
    ASSUME NEW S \in SUBSET Nat, 0 \in S, \A n \in S : n + 1 \in S
    PROVE  S = Nat
<1> SUFFICES ASSUME Nat \ S # {} PROVE FALSE
  OBVIOUS
<1>1. IsWellFoundedOn(Below, Nat)
  BY NatLessThanWellFounded DEF Below, OpToRel
<1>2. PICK m \in Nat \ S : \A n \in Nat \ S : ~(<<n, m>> \in Below)
  BY <1>1, WFMin
<1>3. m # 0 /\ m - 1 \in Nat
  BY <1>2
<1>4. m - 1 \in S
  <2> DEFINE k == m - 1
  <2>1. k \in Nat /\ k < m /\ m \in Nat
    BY <1>2, <1>3
  <2> HIDE DEF k
  <2>2. <<k, m>> \in Below
    BY <2>1 DEF Below
  <2>3. k \in S
    BY <1>2, <2>1, <2>2
  <2> QED
    BY <2>3 DEF k
<1>5. (m - 1) + 1 = m
  BY <1>3
<1> QED
  BY <1>2, <1>4, <1>5

\* The same up to a number.
LEMMA AllUpTo ==
    ASSUME NEW n \in Nat, NEW S \in SUBSET 0 .. n, 0 \in S,
           \A i \in S : i < n => i + 1 \in S
    PROVE  S = 0 .. n
<1> DEFINE R == {i \in Nat : i <= n => i \in S}
<1>1. 0 \in R
  OBVIOUS
<1>2. \A i \in R : i + 1 \in R
  OBVIOUS
<1> HIDE DEF R
<1>3. R = Nat
  BY <1>1, <1>2, AllNumbers DEF R
<1>4. \A i \in Nat : i <= n => i \in S
  BY <1>3 DEF R
<1>5. ASSUME NEW i \in 0 .. n
      PROVE  i \in S
  BY <1>4
<1> QED
  BY <1>5

\* g[n] is what the first n pieces of s make.
Pasted(s, n, T, g) ==
    /\ g \in [0 .. n -> Seq(T)]
    /\ g[0] = <<>>
    /\ \A i \in 1 .. n : g[i] = g[i - 1] \o s[i]

LEMMA PastedExists ==
    ASSUME NEW T, NEW s \in Seq(Seq(T))
    PROVE  \E g : Pasted(s, Len(s), T, g)
<1> DEFINE S == {k \in 0 .. Len(s) : \E g : Pasted(s, k, T, g)}
<1>0. Len(s) \in Nat
  OBVIOUS
<1>1. 0 \in S
  <2> DEFINE g == [i \in 0 .. 0 |-> <<>>]
  <2>1. <<>> \in Seq(T)
    OBVIOUS
  <2>2. Pasted(s, 0, T, g)
    BY <2>1 DEF Pasted
  <2> HIDE DEF g
  <2> QED
    BY <2>2, <1>0
<1>2. ASSUME NEW k \in S, k < Len(s)
      PROVE  k + 1 \in S
  <2>1. PICK g : Pasted(s, k, T, g)
    OBVIOUS
  <2> DEFINE x == g[k] \o s[k + 1]
             h == [i \in 0 .. k + 1 |-> IF i = k + 1 THEN x ELSE g[i]]
  <2>2. k \in Nat /\ k + 1 \in 1 .. Len(s)
    BY <1>0, <1>2
  <2>3. g \in [0 .. k -> Seq(T)] /\ g[k] \in Seq(T) /\ s[k + 1] \in Seq(T)
    BY <2>1, <2>2, ElementOfSeq DEF Pasted
  <2>4. x \in Seq(T)
    BY <2>3, ConcatProperties
  <2> HIDE DEF x
  <2>5. h \in [0 .. k + 1 -> Seq(T)] /\ h[k + 1] = x /\ \A i \in 0 .. k : h[i] = g[i]
    BY <2>2, <2>3, <2>4
  <2> HIDE DEF h
  <2>6. h[0] = <<>>
    BY <2>1, <2>2, <2>5 DEF Pasted
  <2>7. ASSUME NEW i \in 1 .. k + 1
        PROVE  h[i] = h[i - 1] \o s[i]
    <3>1. CASE i = k + 1
      <4>1. i - 1 = k /\ k \in 0 .. k
        BY <2>2, <3>1
      <4>2. h[i - 1] = g[k]
        BY <2>5, <4>1
      <4> QED
        BY <2>5, <3>1, <4>2 DEF x
    <3>2. CASE i # k + 1
      <4>1. i \in 1 .. k /\ i \in 0 .. k /\ i - 1 \in 0 .. k
        BY <2>2, <3>2
      <4>2. g[i] = g[i - 1] \o s[i]
        BY <2>1, <4>1 DEF Pasted
      <4> QED
        BY <2>5, <4>1, <4>2
    <3> QED
      BY <3>1, <3>2
  <2>8. Pasted(s, k + 1, T, h)
    BY <2>5, <2>6, <2>7 DEF Pasted
  <2> QED
    BY <2>2, <2>8
<1> HIDE DEF S
<1>3. S = 0 .. Len(s)
  BY <1>0, <1>1, <1>2, AllUpTo DEF S
<1>4. Len(s) \in S
  BY <1>0, <1>3
<1> QED
  BY <1>4 DEF S

LEMMA FlattenIsPasted ==
    ASSUME NEW T, NEW s \in Seq(Seq(T)), NEW g, Pasted(s, Len(s), T, g)
    PROVE  FlattenSeq(s) = g[Len(s)]
<1> DEFINE n == Len(s)
           Rec(f) == [i \in 1 .. n |-> IF i = 1 THEN s[i] ELSE f[i - 1] \o s[i]]
           r == CHOOSE f : f = Rec(f)
<1>0. n \in Nat /\ \A i \in 1 .. n : s[i] \in Seq(T)
  BY ElementOfSeq
<1>1. CASE n = 0
  <2>1. s = <<>>
    BY <1>1, EmptySeq
  <2> QED
    BY <1>1, <2>1 DEF FlattenSeq, Pasted
<1>2. CASE n # 0
  <2>1. FlattenSeq(s) = r[n]
    BY <1>2 DEF FlattenSeq
  <2> HIDE DEF n
  <2>2. \A i \in 1 .. n : g[i] = IF i = 1 THEN s[i] ELSE g[i - 1] \o s[i]
    <3> SUFFICES ASSUME NEW i \in 1 .. n PROVE g[i] = IF i = 1 THEN s[i] ELSE g[i - 1] \o s[i]
      OBVIOUS
    <3>1. g[i] = g[i - 1] \o s[i]
      BY DEF Pasted, n
    <3>2. CASE i = 1
      <4>1. g[i - 1] = <<>>
        BY <3>2 DEF Pasted
      <4>2. <<>> \o s[i] = s[i]
        BY <1>0
      <4> QED
        BY <3>1, <3>2, <4>1, <4>2
    <3> QED
      BY <3>1, <3>2
  <2>3. \E f : f = Rec(f)
    <3> DEFINE f == [i \in 1 .. n |-> g[i]]
    <3>1. \A i \in 1 .. n : f[i] = IF i = 1 THEN s[i] ELSE f[i - 1] \o s[i]
      <4> SUFFICES ASSUME NEW i \in 1 .. n
                   PROVE  f[i] = IF i = 1 THEN s[i] ELSE f[i - 1] \o s[i]
        OBVIOUS
      <4>1. i # 1 => i - 1 \in 1 .. n
        BY <1>0
      <4> QED
        BY <2>2, <4>1
    <3>2. f = Rec(f)
      BY <3>1
    <3> HIDE DEF f
    <3> QED
      BY <3>2
  <2>4. r = Rec(r)
    BY <2>3
  <2> HIDE DEF r
  <2>5. \A i \in 1 .. n : r[i] = IF i = 1 THEN s[i] ELSE r[i - 1] \o s[i]
    BY <2>4
  <2> DEFINE S == {i \in 0 .. n : i > 0 => r[i] = g[i]}
  <2>6. 0 \in S
    BY <1>0
  <2>7. ASSUME NEW i \in S, i < n
        PROVE  i + 1 \in S
    <3> DEFINE j == i + 1
    <3>1. j \in 1 .. n /\ j \in 0 .. n /\ (j # 1 => j - 1 \in S /\ j - 1 > 0)
      BY <1>0, <2>7
    <3> HIDE DEF j
    <3>2. r[j] = g[j]
      BY <2>2, <2>5, <3>1
    <3> QED
      BY <3>1, <3>2 DEF j
  <2> HIDE DEF S
  <2>8. S = 0 .. n
    BY <1>0, <2>6, <2>7, AllUpTo DEF S
  <2>9. r[n] = g[n]
    <3>1. n \in S /\ n > 0
      BY <1>0, <1>2, <2>8
    <3> QED
      BY <3>1 DEF S
  <2> QED
    BY <2>1, <2>9 DEF n
<1> QED
  BY <1>1, <1>2

LEMMA AddressesOfPasted ==
    ASSUME NEW T, NEW s \in Seq(Seq(T)), NEW g, Pasted(s, Len(s), T, g)
    PROVE  Addresses(s) = [i \in 1 .. Len(s) + 1 |-> Len(g[i - 1]) + 1]
<1> DEFINE n == Len(s)
           Next1(x, i) == Append(x, x[i] + Len(s[i]))
           Rec(f) == [i \in 0 .. n |-> IF i = 0 THEN <<1>> ELSE Next1(f[i - 1], i)]
           r == CHOOSE f : f = Rec(f)
           at(m) == [i \in 1 .. m + 1 |-> Len(g[i - 1]) + 1]
<1>0. n \in Nat /\ \A i \in 1 .. n : s[i] \in Seq(T) /\ Len(s[i]) \in Nat
  BY ElementOfSeq, LenProperties
<1>1. Addresses(s) = r[n]
  BY DEF Addresses
<1> HIDE DEF n
<1>2. g[0] = <<>> /\ \A i \in 0 .. n : g[i] \in Seq(T) /\ Len(g[i]) \in Nat
  <2>1. \A i \in 0 .. n : g[i] \in Seq(T)
    BY DEF Pasted, n
  <2> QED
    BY <2>1, LenProperties DEF Pasted
<1>3. \A i \in 1 .. n : Len(g[i]) = Len(g[i - 1]) + Len(s[i])
  <2> SUFFICES ASSUME NEW i \in 1 .. n PROVE Len(g[i]) = Len(g[i - 1]) + Len(s[i])
    OBVIOUS
  <2>1. g[i] = g[i - 1] \o s[i]
    BY DEF Pasted, n
  <2>2. g[i - 1] \in Seq(T) /\ s[i] \in Seq(T)
    BY <1>0, <1>2
  <2> QED
    BY <2>1, <2>2, ConcatProperties
<1>4. at(0) = <<1>>
  <2>1. Len(g[0]) = 0
    BY <1>2, EmptySeq
  <2>2. at(0) = [i \in 1 .. 1 |-> 1]
    BY <2>1
  <2> QED
    BY <2>2
<1>5. ASSUME NEW i \in 1 .. n
      PROVE  at(i) = Next1(at(i - 1), i)
  <2> DEFINE x == at(i - 1)
             c == Len(g[i]) + 1
  <2>1. i \in Nat /\ i - 1 \in Nat /\ \A j \in 1 .. i : j - 1 \in 0 .. n
    BY <1>0
  <2>2. DOMAIN x = 1 .. i /\ \A j \in 1 .. i : x[j] = Len(g[j - 1]) + 1
    <3>1. (i - 1) + 1 = i
      BY <2>1
    <3> QED
      BY <3>1
  <2>3. x \in Seq(Nat) /\ Len(x) = i
    <3>1. \A j \in 1 .. i : x[j] \in Nat
      BY <1>2, <2>1, <2>2
    <3>2. x \in [1 .. i -> Nat]
      BY <2>2, <3>1
    <3> HIDE DEF x
    <3> QED
      BY <2>1, <3>2, SeqDef, LenProperties
  <2>4. x[i] + Len(s[i]) = c /\ c \in Nat
    <3>1. i \in 1 .. i /\ i - 1 \in 0 .. n /\ i \in 0 .. n
      BY <1>0, <2>1
    <3>2. x[i] = Len(g[i - 1]) + 1
      BY <2>2, <3>1
    <3>3. Len(g[i - 1]) \in Nat /\ Len(g[i]) \in Nat /\ Len(s[i]) \in Nat
      BY <1>0, <1>2, <3>1
    <3>4. Len(g[i]) = Len(g[i - 1]) + Len(s[i])
      BY <1>3
    <3> DEFINE u == Len(g[i - 1])
               v == Len(s[i])
               w == Len(g[i])
    <3>5. x[i] = u + 1 /\ w = u + v /\ u \in Nat /\ v \in Nat
      BY <3>2, <3>3, <3>4
    <3>6. c = w + 1
      OBVIOUS
    <3> HIDE DEF x, c, u, v, w
    <3>7. x[i] + v = c /\ c \in Nat
      BY <3>5, <3>6
    <3> QED
      BY <3>7 DEF v
  <2>5. at(i) = [j \in 1 .. i + 1 |-> IF j = i + 1 THEN c ELSE x[j]]
    <3>1. ASSUME NEW j \in 1 .. i + 1
          PROVE  Len(g[j - 1]) + 1 = IF j = i + 1 THEN c ELSE x[j]
      <4>1. j = i + 1 => j - 1 = i
        BY <2>1
      <4>2. j # i + 1 => j \in 1 .. i
        BY <2>1
      <4> QED
        BY <2>2, <4>1, <4>2
    <3> QED
      BY <3>1
  <2> HIDE DEF x, c
  <2>6. Append(x, c) = [j \in 1 .. i + 1 |-> IF j = i + 1 THEN c ELSE x[j]]
    <3>1. /\ Append(x, c) \in Seq(Nat) /\ Len(Append(x, c)) = i + 1
          /\ \A j \in 1 .. i : Append(x, c)[j] = x[j]
          /\ Append(x, c)[i + 1] = c
      BY <2>3, <2>4, AppendProperties
    <3>2. Append(x, c) \in [1 .. i + 1 -> Nat]
      BY <3>1, LenProperties
    <3>3. \A j \in 1 .. i + 1 : j \in 1 .. i \/ j = i + 1
      BY <2>1
    <3>4. i + 1 \notin 1 .. i
      BY <2>1
    <3> QED
      BY <3>1, <3>2, <3>3, <3>4
  <2>7. Next1(x, i) = Append(x, c)
    BY <2>4
  <2> QED
    BY <2>5, <2>6, <2>7 DEF x
<1> DEFINE F == [i \in 0 .. n |-> at(i)]
<1> HIDE DEF Next1
<1>6. F = Rec(F)
  <2>1. \A i \in 0 .. n : i # 0 => i \in 1 .. n /\ i - 1 \in 0 .. n
    BY <1>0
  <2>2. ASSUME NEW i \in 0 .. n
        PROVE  F[i] = IF i = 0 THEN <<1>> ELSE Next1(F[i - 1], i)
    <3>1. CASE i = 0
      BY <1>4, <3>1
    <3>2. CASE i # 0
      <4>1. i \in 1 .. n /\ F[i - 1] = at(i - 1)
        BY <2>1, <3>2
      <4>2. F[i] = at(i)
        OBVIOUS
      <4> HIDE DEF F, at
      <4> QED
        BY <1>5, <3>2, <4>1, <4>2
    <3> QED
      BY <3>1, <3>2
  <2>3. DOMAIN F = 0 .. n
    OBVIOUS
  <2>4. F = [i \in 0 .. n |-> F[i]]
    OBVIOUS
  <2> HIDE DEF F
  <2> QED
    BY <2>2, <2>4
<1>7. r = Rec(r)
  <2> HIDE DEF F
  <2> QED
    BY <1>6
<1> HIDE DEF r
<1>8. \A i \in 0 .. n : r[i] = IF i = 0 THEN <<1>> ELSE Next1(r[i - 1], i)
  BY <1>7
<1> DEFINE S == {i \in 0 .. n : r[i] = at(i)}
<1> HIDE DEF at, F
<1>9. 0 \in S
  BY <1>0, <1>4, <1>8
<1>10. ASSUME NEW i \in S, i < n
       PROVE  i + 1 \in S
  <2> DEFINE j == i + 1
  <2>1. j \in 1 .. n /\ j \in 0 .. n /\ j # 0 /\ j - 1 = i /\ r[i] = at(i)
    BY <1>0, <1>10
  <2> HIDE DEF j
  <2>2. r[j] = at(j)
    BY <1>5, <1>8, <2>1
  <2> QED
    BY <2>1, <2>2 DEF j
<1> HIDE DEF S
<1>11. S = 0 .. n
  BY <1>0, <1>9, <1>10, AllUpTo DEF S
<1>12. n \in S
  BY <1>0, <1>11
<1>13. r[n] = at(n)
  BY <1>12 DEF S
<1> QED
  BY <1>1, <1>13 DEF at, n

\* Every piece is in the whole at its address, and what follows it behind it.
LEMMA LaidOut ==
    ASSUME NEW T, NEW s \in Seq(Seq(T))
    PROVE  /\ FlattenSeq(s) \in Seq(T)
           /\ Addresses(s) \in [1 .. Len(s) + 1 -> Nat \ {0}]
           /\ Addresses(s)[1] = 1
           /\ Addresses(s)[Len(s) + 1] = Len(FlattenSeq(s)) + 1
           /\ \A i \in 1 .. Len(s) :
                 /\ Addresses(s)[i + 1] = Addresses(s)[i] + Len(s[i])
                 /\ \A k \in 1 .. Len(s[i]) :
                       /\ Addresses(s)[i] + k - 1 \in 1 .. Len(FlattenSeq(s))
                       /\ FlattenSeq(s)[Addresses(s)[i] + k - 1] = s[i][k]
<1>1. PICK g : Pasted(s, Len(s), T, g)
  BY PastedExists
<1> DEFINE n == Len(s)
           at == Addresses(s)
           f == FlattenSeq(s)
<1>2. at = [i \in 1 .. n + 1 |-> Len(g[i - 1]) + 1] /\ f = g[n]
  BY <1>1, AddressesOfPasted, FlattenIsPasted
<1>3. n \in Nat /\ \A i \in 1 .. n : s[i] \in Seq(T) /\ Len(s[i]) \in Nat
  BY ElementOfSeq, LenProperties
<1> HIDE DEF n, at, f
<1>4. /\ g[0] = <<>> /\ \A i \in 0 .. n : g[i] \in Seq(T) /\ Len(g[i]) \in Nat
      /\ \A i \in 1 .. n : g[i] = g[i - 1] \o s[i]
  <2>1. \A i \in 0 .. n : g[i] \in Seq(T)
    BY <1>1 DEF Pasted, n
  <2> QED
    BY <1>1, <2>1, LenProperties DEF Pasted, n
<1>5. ASSUME NEW i \in 1 .. n
      PROVE  /\ i \in 0 .. n /\ i - 1 \in 0 .. n
             /\ Len(g[i]) = Len(g[i - 1]) + Len(s[i])
             /\ \A j \in 1 .. Len(g[i]) : g[i][j] = IF j <= Len(g[i - 1]) THEN g[i - 1][j]
                                                    ELSE s[i][j - Len(g[i - 1])]
  <2>1. i - 1 \in 0 .. n /\ i \in 0 .. n
    BY <1>3
  <2>2. g[i] = g[i - 1] \o s[i]
    BY <1>4
  <2>3. g[i - 1] \in Seq(T) /\ s[i] \in Seq(T)
    BY <1>3, <1>4, <2>1
  <2>4. Len(g[i]) = Len(g[i - 1]) + Len(s[i])
    BY <2>2, <2>3, ConcatProperties
  <2>5. \A j \in 1 .. Len(g[i]) : g[i][j] = IF j <= Len(g[i - 1]) THEN g[i - 1][j]
                                             ELSE s[i][j - Len(g[i - 1])]
    <3> DEFINE x == g[i - 1]
               y == s[i]
    <3>1. x \in Seq(T) /\ y \in Seq(T) /\ g[i] = x \o y
      BY <2>2, <2>3
    <3> HIDE DEF x, y
    <3>2. Len(x \o y) = Len(x) + Len(y)
      BY <3>1, ConcatProperties
    <3>3. \A j \in 1 .. Len(x) + Len(y) : (x \o y)[j] = IF j <= Len(x) THEN x[j] ELSE y[j - Len(x)]
      BY <3>1, ConcatProperties
    <3>4. \A j \in 1 .. Len(g[i]) : g[i][j] = IF j <= Len(x) THEN x[j] ELSE y[j - Len(x)]
      BY <3>1, <3>2, <3>3
    <3> QED
      BY <3>4 DEF x, y
  <2> QED
    BY <2>1, <2>4, <2>5
<1> DEFINE In(m, i, k) == /\ Len(g[i - 1]) + k \in 1 .. Len(g[m])
                          /\ g[m][Len(g[i - 1]) + k] = s[i][k]
           S == {m \in 0 .. n : \A i \in 1 .. m : \A k \in 1 .. Len(s[i]) : In(m, i, k)}
<1>6. 0 \in S
  BY <1>3
<1>7. ASSUME NEW m \in S, m < n
      PROVE  m + 1 \in S
  <2> DEFINE o == m + 1
  <2>1. o \in 1 .. n /\ o \in 0 .. n /\ o - 1 = m /\ m \in 0 .. n
    BY <1>3, <1>7
  <2>2. \A i \in 1 .. m : \A k \in 1 .. Len(s[i]) : In(m, i, k)
    BY <1>7
  <2>3. \A i \in 1 .. o : i \in 1 .. m \/ i = o
    BY <2>1
  <2>4. \A i \in 1 .. m : i \in 1 .. n
    BY <1>3, <2>1
  <2> HIDE DEF o, S, In
  <2>5. ASSUME NEW i \in 1 .. o, NEW k \in 1 .. Len(s[i])
        PROVE  In(o, i, k)
    <3> DEFINE u == Len(g[m])
               v == Len(s[o])
               w == Len(g[o])
    <3>1. u \in Nat /\ v \in Nat /\ w \in Nat /\ w = u + v
      BY <1>3, <1>4, <1>5, <2>1
    <3>2. \A j \in 1 .. w : g[o][j] = IF j <= u THEN g[m][j] ELSE s[o][j - u]
      BY <1>5, <2>1
    <3>3. CASE i \in 1 .. m
      <4> DEFINE j == Len(g[i - 1]) + k
      <4>1. j \in 1 .. u /\ g[m][j] = s[i][k]
        BY <2>2, <3>3 DEF In
      <4> HIDE DEF j, u, v, w
      <4>2. j \in 1 .. w /\ j <= u
        BY <3>1, <4>1
      <4>3. g[o][j] = s[i][k]
        BY <3>2, <4>1, <4>2
      <4> QED
        BY <4>2, <4>3 DEF In, j, w
    <3>4. CASE i = o
      <4> DEFINE j == u + k
      <4>1. k \in 1 .. v /\ i - 1 = m
        BY <2>1, <3>4
      <4> HIDE DEF u, v, w
      <4>2. j \in 1 .. w /\ ~(j <= u) /\ j - u = k
        BY <3>1, <4>1
      <4>3. g[o][j] = s[o][k]
        BY <3>2, <4>2
      <4> QED
        BY <3>4, <4>1, <4>2, <4>3 DEF In, u, w
    <3> QED
      BY <2>3, <3>3, <3>4
  <2> QED
    BY <2>1, <2>5 DEF S, o
<1> HIDE DEF S
<1>8. S = 0 .. n
  BY <1>3, <1>6, <1>7, AllUpTo DEF S
<1>9. \A i \in 1 .. n : \A k \in 1 .. Len(s[i]) : In(n, i, k)
  <2>1. n \in S
    BY <1>3, <1>8
  <2> QED
    BY <2>1 DEF S
<1>10. /\ DOMAIN at = 1 .. n + 1
       /\ \A i \in 1 .. n + 1 : at[i] = Len(g[i - 1]) + 1 /\ i - 1 \in 0 .. n
  BY <1>2, <1>3
<1>11. at \in [1 .. n + 1 -> Nat \ {0}]
  <2>1. \A i \in 1 .. n + 1 : at[i] \in Nat \ {0}
    BY <1>4, <1>10
  <2>2. at = [i \in 1 .. n + 1 |-> at[i]]
    BY <1>2
  <2> QED
    BY <2>1, <2>2
<1>12. at[1] = 1 /\ at[n + 1] = Len(f) + 1
  <2>1. 1 \in 1 .. n + 1 /\ n + 1 \in 1 .. n + 1 /\ (n + 1) - 1 = n
    BY <1>3
  <2>2. Len(g[0]) = 0
    BY <1>4, EmptySeq
  <2> QED
    BY <1>2, <1>10, <2>1, <2>2
<1>13. ASSUME NEW i \in 1 .. n
       PROVE  /\ at[i + 1] = at[i] + Len(s[i])
              /\ \A k \in 1 .. Len(s[i]) :
                    at[i] + k - 1 \in 1 .. Len(f) /\ f[at[i] + k - 1] = s[i][k]
  <2> DEFINE u == Len(g[i - 1])
             v == Len(s[i])
             w == Len(g[i])
  <2>1. i \in 1 .. n + 1 /\ i + 1 \in 1 .. n + 1 /\ (i + 1) - 1 = i
    BY <1>3
  <2>2. at[i] = u + 1 /\ at[i + 1] = w + 1
    BY <1>10, <2>1
  <2>3. w = u + v /\ u \in Nat /\ v \in Nat
    BY <1>3, <1>4, <1>5
  <2>4. ASSUME NEW k \in 1 .. v
        PROVE  at[i] + k - 1 \in 1 .. Len(f) /\ f[at[i] + k - 1] = s[i][k]
    <3>1. u + k \in 1 .. Len(f) /\ f[u + k] = s[i][k]
      BY <1>2, <1>9
    <3> HIDE DEF u, v, w
    <3>2. at[i] + k - 1 = u + k
      BY <2>2, <2>3
    <3> QED
      BY <3>1, <3>2
  <2> HIDE DEF u, w
  <2>5. at[i + 1] = at[i] + v
    <3> HIDE DEF v
    <3> QED
      BY <2>2, <2>3
  <2> QED
    BY <2>4, <2>5
<1>14. f \in Seq(T)
  BY <1>2, <1>3, <1>4
<1> QED
  BY <1>11, <1>12, <1>13, <1>14 DEF n, at, f

\* The addresses are those of any pieces of the same lengths.
LEMMA SameAddresses ==
    ASSUME NEW T, NEW s \in Seq(Seq(T)), NEW t \in Seq(Seq(T)), Len(s) = Len(t),
           \A i \in 1 .. Len(s) : Len(s[i]) = Len(t[i])
    PROVE  Addresses(s) = Addresses(t)
<1> DEFINE n == Len(s)
           a == Addresses(s)
           b == Addresses(t)
           S == {i \in 0 .. n : a[i + 1] = b[i + 1]}
<1>0. n \in Nat
  OBVIOUS
<1>1. /\ a \in [1 .. n + 1 -> Nat \ {0}] /\ b \in [1 .. n + 1 -> Nat \ {0}]
      /\ a[1] = 1 /\ b[1] = 1
      /\ \A i \in 1 .. n : a[i + 1] = a[i] + Len(s[i]) /\ b[i + 1] = b[i] + Len(s[i])
  <2>1. /\ a \in [1 .. n + 1 -> Nat \ {0}] /\ a[1] = 1
        /\ \A i \in 1 .. n : a[i + 1] = a[i] + Len(s[i])
    BY LaidOut
  <2>2. /\ b \in [1 .. Len(t) + 1 -> Nat \ {0}] /\ b[1] = 1
        /\ \A i \in 1 .. Len(t) : b[i + 1] = b[i] + Len(t[i])
    BY LaidOut
  <2> HIDE DEF a, b
  <2> QED
    BY <2>1, <2>2
<1> HIDE DEF n, a, b
<1>2. 0 \in S
  BY <1>0, <1>1
<1>3. ASSUME NEW i \in S, i < n
      PROVE  i + 1 \in S
  <2> DEFINE j == i + 1
  <2>1. j \in 1 .. n /\ a[j] = b[j] /\ j \in 0 .. n
    BY <1>0, <1>3
  <2> HIDE DEF j
  <2>2. a[j + 1] = b[j + 1]
    BY <1>1, <2>1
  <2> QED
    BY <2>1, <2>2 DEF j
<1> HIDE DEF S
<1>4. S = 0 .. n
  BY <1>0, <1>2, <1>3, AllUpTo DEF S
<1>5. ASSUME NEW i \in 1 .. n + 1
      PROVE  a[i] = b[i]
  <2> DEFINE j == i - 1
  <2>1. j \in 0 .. n /\ j + 1 = i
    BY <1>0
  <2> HIDE DEF j
  <2>2. a[j + 1] = b[j + 1]
    BY <1>4, <2>1 DEF S
  <2> QED
    BY <2>1, <2>2
<1>6. a = b
  <2>1. a = [i \in 1 .. n + 1 |-> a[i]] /\ b = [i \in 1 .. n + 1 |-> b[i]]
    BY <1>1
  <2>2. [i \in 1 .. n + 1 |-> a[i]] = [i \in 1 .. n + 1 |-> b[i]]
    BY <1>5
  <2> QED
    BY <2>1, <2>2
<1> QED
  BY <1>6 DEF a, b

\* Pairs, one behind the other.
LEMMA PairsLaidOut ==
    ASSUME NEW T, NEW s \in Seq(Seq(T)), \A i \in 1 .. Len(s) : Len(s[i]) = 2
    PROVE  /\ FlattenSeq(s) \in Seq(T)
           /\ Len(FlattenSeq(s)) = 2 * Len(s)
           /\ \A i \in 1 .. Len(s) : /\ FlattenSeq(s)[2 * i - 1] = s[i][1]
                                     /\ FlattenSeq(s)[2 * i] = s[i][2]
<1> DEFINE n == Len(s)
           f == FlattenSeq(s)
           a == Addresses(s)
<1>1. n \in Nat
  OBVIOUS
<1>2. \A i \in 1 .. n : Len(s[i]) = 2
  OBVIOUS
<1>3. /\ f \in Seq(T) /\ a \in [1 .. n + 1 -> Nat \ {0}] /\ a[1] = 1 /\ a[n + 1] = Len(f) + 1
      /\ \A i \in 1 .. n :
            /\ a[i + 1] = a[i] + 2
            /\ \A k \in 1 .. 2 : f[a[i] + k - 1] = s[i][k]
  <2>1. /\ f \in Seq(T) /\ a \in [1 .. Len(s) + 1 -> Nat \ {0}]
        /\ a[1] = 1 /\ a[Len(s) + 1] = Len(f) + 1
        /\ \A i \in 1 .. Len(s) :
              /\ a[i + 1] = a[i] + Len(s[i])
              /\ \A k \in 1 .. Len(s[i]) : f[a[i] + k - 1] = s[i][k]
    BY LaidOut
  <2> HIDE DEF f, a
  <2> QED
    BY <1>1, <1>2, <2>1
<1> HIDE DEF f, a, n
<1> DEFINE S == {i \in 0 .. n : a[i + 1] = 2 * i + 1}
<1>4. 0 \in S
  BY <1>1, <1>3
<1>5. ASSUME NEW i \in S, i < n
      PROVE  i + 1 \in S
  <2> DEFINE j == i + 1
  <2>1. j \in 1 .. n /\ j \in 0 .. n /\ a[j] = 2 * j - 1
    BY <1>1, <1>5
  <2> HIDE DEF j
  <2>2. a[j + 1] = 2 * j + 1
    BY <1>3, <2>1
  <2> QED
    BY <2>1, <2>2 DEF j
<1> HIDE DEF S
<1>6. S = 0 .. n
  BY <1>1, <1>4, <1>5, AllUpTo DEF S
<1>7. ASSUME NEW i \in 1 .. n
      PROVE  f[2 * i - 1] = s[i][1] /\ f[2 * i] = s[i][2]
  <2> DEFINE j == i - 1
  <2>1. j \in 0 .. n /\ j + 1 = i
    BY <1>1
  <2> HIDE DEF j
  <2>2. a[i] = 2 * i - 1
    <3>1. a[j + 1] = 2 * j + 1
      BY <1>6, <2>1 DEF S
    <3>2. a[i] = 2 * j + 1
      BY <2>1, <3>1
    <3> QED
      BY <2>1, <3>2
  <2>3. f[a[i] + 1 - 1] = s[i][1] /\ f[a[i] + 2 - 1] = s[i][2]
    BY <1>3
  <2>4. a[i] + 1 - 1 = 2 * i - 1 /\ a[i] + 2 - 1 = 2 * i
    BY <2>2
  <2> QED
    BY <2>3, <2>4
<1>8. Len(f) = 2 * n
  <2>1. a[n + 1] = 2 * n + 1
    <3>1. n \in S
      BY <1>1, <1>6
    <3> QED
      BY <3>1 DEF S
  <2>2. Len(f) \in Nat
    BY <1>3, LenProperties
  <2> QED
    BY <1>1, <1>3, <2>1, <2>2
<1> QED
  BY <1>3, <1>7, <1>8 DEF f, n

-----------------------------------------------------------------------------
(* The pieces of a chunk *)

\* What a byte and a word hold.
LEMMA ByteHolds ==
    ASSUME NEW n \in Nat
    PROVE  U8(n) \in 0 .. Byte - 1 /\ (U8(n) = n <=> n < Byte)
<1>1. n % Byte \in 0 .. Byte - 1
  BY DivMod, ByteIsEven
<1>2. n < Byte => n % Byte = n
  BY SmallMod, ByteIsEven
<1> QED
  BY <1>1, <1>2, ByteIsEven DEF U8

LEMMA WordHolds ==
    ASSUME NEW n \in Nat
    PROVE  /\ Halves(n)[1] \in Nat /\ Halves(n)[2] \in Nat
           /\ Joined(Halves(n)[1], Halves(n)[2]) = n <=> n < Word
<1> DEFINE x == U8(n)
           y == U8(n \div Byte)
<1>1. n \div Byte \in Nat
  <2>1. n = Byte * (n \div Byte) + (n % Byte) /\ n % Byte \in 0 .. Byte - 1 /\ n \div Byte \in Int
    BY DivMod, ByteIsEven
  <2> DEFINE q == n \div Byte
  <2> HIDE DEF q
  <2>2. q <= -1 => Byte * q <= -Byte
    BY <2>1, Multiples, ByteIsEven DEF q
  <2>3. q >= 0
    BY <2>1, <2>2, ByteIsEven DEF q
  <2> QED
    BY <2>1, <2>3 DEF q
<1>2. x \in 0 .. Byte - 1 /\ y \in 0 .. Byte - 1
  BY <1>1, ByteHolds
<1>3. Halves(n) = <<x, y>>
  BY DEF Halves
<1> HIDE DEF x, y
<1>4. n < Word => Joined(Halves(n)[1], Halves(n)[2]) = n
  BY WordReadsBack, WordIsEven
<1>5. Byte * y \in Nat /\ Byte * y <= Word - Byte
  <2>1. Byte * y <= Byte * (Byte - 1)
    BY <1>2, ByteIsEven
  <2>2. Byte * (Byte - 1) = Word - Byte
    BY ByteIsEven DEF Word
  <2> QED
    BY <1>2, <2>1, <2>2, ByteIsEven
<1>6. Joined(x, y) < Word
  BY <1>2, <1>5, WordIsEven, ByteIsEven DEF Joined
<1> QED
  BY <1>2, <1>3, <1>4, <1>6

\* The bytes, the opcodes and the kinds of EXN_IS_PRIM.
CodeBytes(chunk) ==
    Nat \cup STRING \cup {Opcode(chunk.constants, chunk.code[i]) : i \in DOMAIN chunk.code}

\* Instruction i of the chunk is in the bytes at its address.
Placed(chunk, e, i) ==
    LET piece == Patched(chunk.code, Emitted(chunk), e.at)[i]
    IN /\ Compilable(chunk) /\ i \in DOMAIN chunk.code
       /\ e.bytes \in Seq(CodeBytes(chunk))
       /\ e.at[i] \in Nat \ {0}
       /\ e.at[i + 1] = e.at[i] + Len(piece)
       /\ \A k \in 1 .. Len(piece) : /\ e.at[i] + k - 1 \in 1 .. Len(e.bytes)
                                     /\ e.bytes[e.at[i] + k - 1] = piece[k]
       /\ chunk.code[i].op \in Jumps => e.at[chunk.code[i].a] \in Nat

\* An instruction of the chunk.
LEMMA Compiled ==
    ASSUME NEW chunk, Compilable(chunk), NEW i \in DOMAIN chunk.code
    PROVE  LET ins == chunk.code[i]
           IN /\ i \in Nat \ {0} /\ i + 1 \in 1 .. Len(chunk.code) + 1
              /\ ins.op \in STRING /\ ins.kind \in STRING /\ ins.a \in Nat /\ ins.b \in Nat
              /\ ins.caps \in Seq([isLocal : BOOLEAN, idx : Nat \ {0}])
              /\ ins.op \in Jumps => ins.a \in 1 .. Len(chunk.code) + 1
              /\ ins.op \in SlotOps \cup {"CALL", "CLOSURE", "STRUCT_NEW"} => ins.a - 1 \in Nat
              /\ ins.op # "CLOSURE" \/ ins.kind = "void" => ins.caps = <<>>
<1>1. chunk.code \in Seq(Emission)
  BY DEF Compilable
<1>2. chunk.code[i] \in Emission /\ i \in 1 .. Len(chunk.code) /\ Len(chunk.code) \in Nat
  BY <1>1, ElementOfSeq, LenProperties
<1> DEFINE ins == chunk.code[i]
<1>3. /\ ins.op \in STRING /\ ins.kind \in STRING /\ ins.a \in Nat /\ ins.b \in Nat
      /\ ins.caps \in Seq([isLocal : BOOLEAN, idx : Nat \ {0}])
  BY <1>2 DEF Emission
<1>4. /\ ins.op \in Jumps => ins.a \in 1 .. Len(chunk.code) + 1
      /\ ins.op \in SlotOps \cup {"CALL", "CLOSURE", "STRUCT_NEW"} => ins.a > 0
      /\ ins.caps # <<>> => ins.op = "CLOSURE" /\ ins.kind # "void"
  BY DEF Compilable
<1> HIDE DEF ins
<1>5. ins.a > 0 => ins.a - 1 \in Nat
  BY <1>3
<1>6. i \in Nat \ {0} /\ i + 1 \in 1 .. Len(chunk.code) + 1
  BY <1>2
<1> QED
  BY <1>3, <1>4, <1>5, <1>6 DEF ins

LEMMA PoolIndexIsNat ==
    ASSUME NEW constants, NEW a \in Nat
    PROVE  PoolIndex(constants, a) \in Nat
<1>1. IsFiniteSet(1 .. a - 1)
  BY FS_Interval
<1>2. {j \in 1 .. a - 1 : ~IsBool(constants[j])} \subseteq 1 .. a - 1
  OBVIOUS
<1> QED
  BY <1>1, <1>2, FS_Subset, FS_CardinalityType DEF PoolIndex

\* Pieces of one to four bytes.
LEMMA Short ==
    ASSUME NEW c, NEW x, NEW y, NEW z
    PROVE  /\ <<c>> \o <<>> = <<c>> /\ <<c>> \o <<x>> = <<c, x>>
           /\ <<c>> \o <<x, y>> = <<c, x, y>>
           /\ <<c>> \o (<<x, y>> \o <<z>>) = <<c, x, y, z>>
<1> DEFINE T == {c, x, y, z}
<1>1. <<c>> \o <<>> = <<c>>
  OBVIOUS
<1>2. <<c>> \o <<x>> = <<c, x>>
  <2>1. <<c>> \o <<x>> \in Seq(T) /\ <<c, x>> \in Seq(T)
    OBVIOUS
  <2>2. Len(<<c>> \o <<x>>) = 2 /\ Len(<<c, x>>) = 2
    OBVIOUS
  <2>3. \A k \in 1 .. 2 : (<<c>> \o <<x>>)[k] = <<c, x>>[k]
    OBVIOUS
  <2> QED
    BY <2>1, <2>2, <2>3, SeqEqual
<1>3. \A a, b : <<c>> \o <<a, b>> = <<c, a, b>>
  <2> SUFFICES ASSUME NEW a, NEW b PROVE <<c>> \o <<a, b>> = <<c, a, b>>
    OBVIOUS
  <2> DEFINE U == {a, b, c}
  <2>1. <<c>> \o <<a, b>> \in Seq(U) /\ <<c, a, b>> \in Seq(U)
    OBVIOUS
  <2>2. Len(<<c>> \o <<a, b>>) = 3 /\ Len(<<c, a, b>>) = 3
    OBVIOUS
  <2>3. \A k \in 1 .. 3 : (<<c>> \o <<a, b>>)[k] = <<c, a, b>>[k]
    OBVIOUS
  <2> QED
    BY <2>1, <2>2, <2>3, SeqEqual
<1>4. <<c>> \o (<<x, y>> \o <<z>>) = <<c, x, y, z>>
  <2> DEFINE s == <<x, y>> \o <<z>>
  <2>1. s \in Seq(T) /\ Len(s) = 3 /\ s[1] = x /\ s[2] = y /\ s[3] = z
    OBVIOUS
  <2> HIDE DEF s
  <2>2. <<c>> \o s \in Seq(T) /\ <<c, x, y, z>> \in Seq(T)
    BY <2>1
  <2>3. /\ Len(<<c>> \o s) = 4 /\ Len(<<c, x, y, z>>) = 4
        /\ \A k \in 1 .. 4 : (<<c>> \o s)[k] = IF k <= 1 THEN <<c>>[k] ELSE s[k - 1]
    <3> DEFINE r == <<c>>
    <3>1. r \in Seq(T) /\ Len(r) = 1
      OBVIOUS
    <3> HIDE DEF r, T
    <3>2. Len(r \o s) = Len(r) + Len(s)
          /\ \A k \in 1 .. Len(r) + Len(s) : (r \o s)[k] = IF k <= Len(r) THEN r[k] ELSE s[k - Len(r)]
      BY <2>1, <3>1, ConcatProperties
    <3>3. Len(r \o s) = 4 /\ \A k \in 1 .. 4 : (r \o s)[k] = IF k <= 1 THEN r[k] ELSE s[k - 1]
      BY <2>1, <3>1, <3>2
    <3> QED
      BY <3>3 DEF r
  <2>4. \A k \in 1 .. 4 : (<<c>> \o s)[k] = <<c, x, y, z>>[k]
    <3>1. /\ (<<c>> \o s)[1] = c /\ (<<c>> \o s)[2] = x
          /\ (<<c>> \o s)[3] = y /\ (<<c>> \o s)[4] = z
      BY <2>1, <2>3
    <3> DEFINE f == <<c>> \o s
               g == <<c, x, y, z>>
    <3>2. /\ f[1] = c /\ f[2] = x /\ f[3] = y /\ f[4] = z
          /\ g[1] = c /\ g[2] = x /\ g[3] = y /\ g[4] = z
      BY <3>1
    <3> HIDE DEF f, g
    <3>3. \A k \in 1 .. 4 : f[k] = g[k]
      BY <3>2
    <3> QED
      BY <3>3 DEF f, g
  <2>5. <<c>> \o s = <<c, x, y, z>>
    BY <2>2, <2>3, <2>4, SeqEqual
  <2> QED
    BY <2>5 DEF s
<1> QED
  BY <1>1, <1>2, <1>3, <1>4

LEMMA ShortOfFour ==
    ASSUME NEW c, NEW x, NEW y, NEW z
    PROVE  <<c>> \o (<<x, y>> \o <<z>>) = <<c, x, y, z>>
  BY Short, Zenon

\* The piece of an instruction that is no jump is as it was emitted.
LEMMA Piece ==
    ASSUME NEW chunk, NEW at, NEW i \in DOMAIN chunk.code
    PROVE  LET ins == chunk.code[i]
               piece == Patched(chunk.code, Emitted(chunk), at)[i]
           IN /\ ins.op \notin Jumps =>
                    piece = <<Opcode(chunk.constants, ins)>> \o Operands(chunk.constants, ins)
              /\ ins.op \in Jumps =>
                    piece = <<Opcode(chunk.constants, ins)>>
                               \o Halves(U16(Displacement(at, i, ins.a)))
<1> DEFINE ins == chunk.code[i]
<1>1. Emitted(chunk)[i] = <<Opcode(chunk.constants, ins)>> \o Operands(chunk.constants, ins)
  BY DEF Emitted
<1>2. ins.op \in Jumps => Emitted(chunk)[i] = <<Opcode(chunk.constants, ins), 0, 0>>
  <2> SUFFICES ASSUME ins.op \in Jumps
               PROVE  Emitted(chunk)[i] = <<Opcode(chunk.constants, ins), 0, 0>>
    OBVIOUS
  <2>1. Operands(chunk.constants, ins) = <<0, 0>>
    BY DEF Operands, Jumps, SlotOps
  <2> DEFINE c == Opcode(chunk.constants, ins)
  <2>2. Emitted(chunk)[i] = <<c>> \o <<0, 0>>
    BY <1>1, <2>1
  <2> HIDE DEF c
  <2>3. <<c>> \o <<0, 0>> = <<c, 0, 0>>
    BY Short
  <2> QED
    BY <2>2, <2>3 DEF c
<1> DEFINE em == Emitted(chunk)
           c == Opcode(chunk.constants, ins)
           o == Operands(chunk.constants, ins)
           u == Halves(U16(Displacement(at, i, ins.a)))
<1> HIDE DEF em, c, o, u
<1>3. Patched(chunk.code, em, at)[i] = IF ins.op \in Jumps THEN <<em[i][1]>> \o u ELSE em[i]
  BY DEF Patched, u
<1>4. em[i] = <<c>> \o o /\ (ins.op \in Jumps => em[i] = <<c, 0, 0>>)
  BY <1>1, <1>2 DEF em, c, o
<1>5. ins.op \in Jumps => em[i][1] = c
  BY <1>4
<1> QED
  BY <1>3, <1>4, <1>5 DEF em, c, o, u

\* The piece of an instruction that is no jump.
LEMMA StraightPiece ==
    ASSUME NEW chunk, NEW at, NEW i \in DOMAIN chunk.code, chunk.code[i].op \notin Jumps
    PROVE  Patched(chunk.code, Emitted(chunk), at)[i]
              = <<Opcode(chunk.constants, chunk.code[i])>> \o Operands(chunk.constants, chunk.code[i])
  BY Piece

\* Where the bytes of a short piece are.
LEMMA PieceRead ==
    ASSUME NEW chunk, NEW e, NEW i, Placed(chunk, e, i)
    PROVE  LET piece == Patched(chunk.code, Emitted(chunk), e.at)[i]
               p == e.at[i]
           IN /\ 1 \in 1 .. Len(piece) => e.bytes[p] = piece[1]
              /\ 2 \in 1 .. Len(piece) => e.bytes[p + 1] = piece[2]
              /\ 3 \in 1 .. Len(piece) => e.bytes[p + 2] = piece[3]
              /\ 4 \in 1 .. Len(piece) => e.bytes[p + 3] = piece[4]
<1> DEFINE piece == Patched(chunk.code, Emitted(chunk), e.at)[i]
           p == e.at[i]
<1>1. p \in Nat \ {0} /\ \A k \in 1 .. Len(piece) : e.bytes[p + k - 1] = piece[k]
  BY DEF Placed
<1> HIDE DEF p, piece
<1>2. p + 1 - 1 = p /\ p + 2 - 1 = p + 1 /\ p + 3 - 1 = p + 2 /\ p + 4 - 1 = p + 3
  BY <1>1
<1>3. /\ 1 \in 1 .. Len(piece) => e.bytes[p + 1 - 1] = piece[1]
      /\ 2 \in 1 .. Len(piece) => e.bytes[p + 2 - 1] = piece[2]
      /\ 3 \in 1 .. Len(piece) => e.bytes[p + 3 - 1] = piece[3]
      /\ 4 \in 1 .. Len(piece) => e.bytes[p + 4 - 1] = piece[4]
  BY <1>1
<1> QED
  BY <1>2, <1>3 DEF p, piece

-----------------------------------------------------------------------------
(* The instructions, by their operands *)

\* What is read is what was compiled when its parts are.
LEMMA SameReading ==
    ASSUME NEW c, NEW s, NEW t, NEW m, NEW n
    PROVE  [opcode |-> c, operands |-> s, next |-> m] = [opcode |-> c, operands |-> t, next |-> n]
              <=> s = t /\ m = n
<1>1. ASSUME [opcode |-> c, operands |-> s, next |-> m] = [opcode |-> c, operands |-> t, next |-> n]
      PROVE  s = t /\ m = n
  <2>1. /\ [opcode |-> c, operands |-> s, next |-> m].operands = s
        /\ [opcode |-> c, operands |-> s, next |-> m].next = m
        /\ [opcode |-> c, operands |-> t, next |-> n].operands = t
        /\ [opcode |-> c, operands |-> t, next |-> n].next = n
    OBVIOUS
  <2> QED
    BY <1>1, <2>1
<1> QED
  BY <1>1

\* An instruction that is no jump.
LEMMA Straight ==
    ASSUME NEW chunk, NEW e, NEW i, Placed(chunk, e, i), chunk.code[i].op \notin Jumps,
           NEW values, values = OperandValues(chunk.constants, chunk.code[i]),
           NEW operands, NEW next,
           Fetch(e.bytes, e.at[i]) = [opcode |-> Opcode(chunk.constants, chunk.code[i]),
                                      operands |-> operands, next |-> <<next>>]
    PROVE  /\ ReadAsCompiled(chunk, e, i) <=> operands = values /\ next = e.at[i + 1]
           /\ FitsIn(chunk, e.at, i) <=>
                 /\ \A k \in DOMAIN Limits(chunk.code[i]) \cap DOMAIN values :
                       values[k] < Limits(chunk.code[i])[k]
                 /\ Len(chunk.code[i].caps) < Byte
<1>1. ReadAsCompiled(chunk, e, i) <=> operands = values /\ <<next>> = <<e.at[i + 1]>>
  BY SameReading DEF ReadAsCompiled
<1>2. <<next>> = <<e.at[i + 1]>> <=> next = e.at[i + 1]
  OBVIOUS
<1> QED
  BY <1>1, <1>2 DEF FitsIn

\* The opcode is that of the instruction, but for a boolean literal.
LEMMA OpcodeIs ==
    ASSUME NEW constants, NEW ins
    PROVE  /\ ins.op # "PUSH_CONST" \/ ~IsBool(constants[ins.a]) =>
                 /\ Opcode(constants, ins).op = ins.op
                 /\ ins.op # "EXN_IS_PRIM" => Opcode(constants, ins).kind = ins.kind
           /\ ins.op = "PUSH_CONST" /\ IsBool(constants[ins.a]) =>
                 Opcode(constants, ins).op \in {"PUSH_TRUE", "PUSH_FALSE"}
  BY DEF Opcode

\* One byte: a slot, a field or the number of arguments.
LEMMA ByteOperand ==
    ASSUME NEW chunk, NEW e, NEW i, Placed(chunk, e, i),
           chunk.code[i].op \in SlotOps \cup {"CALL_CLOSURE"}
    PROVE  ReadAsCompiled(chunk, e, i) <=> FitsIn(chunk, e.at, i)
<1> DEFINE ins == chunk.code[i]
           c == Opcode(chunk.constants, ins)
           v == IF ins.op = "CALL_CLOSURE" THEN ins.b ELSE ins.a - 1
           piece == Patched(chunk.code, Emitted(chunk), e.at)[i]
           p == e.at[i]
<1>1. Compilable(chunk) /\ i \in DOMAIN chunk.code /\ p \in Nat \ {0} /\ e.at[i + 1] = p + Len(piece)
  BY DEF Placed
<1>2. /\ v \in Nat /\ ins.caps = <<>>
  BY <1>1, Compiled DEF SlotOps
<1>3. /\ ins.op \notin Jumps /\ c.op = ins.op
      /\ Operands(chunk.constants, ins) = <<U8(v)>>
      /\ OperandValues(chunk.constants, ins) = <<v>>
      /\ Limits(ins) = <<Byte>>
  <2>1. ins.op \notin Jumps
    BY DEF Jumps, SlotOps
  <2>2. c.op = ins.op
    BY OpcodeIs DEF SlotOps
  <2>3. Operands(chunk.constants, ins) = <<U8(v)>>
    BY <2>1 DEF Operands, SlotOps
  <2>4. OperandValues(chunk.constants, ins) = <<v>>
    BY DEF OperandValues, SlotOps
  <2>5. Limits(ins) = <<Byte>>
    BY DEF Limits, SlotOps
  <2> QED
    BY <2>1, <2>2, <2>3, <2>4, <2>5
<1>4. piece = <<c, U8(v)>>
  <2>1. piece = <<c>> \o <<U8(v)>>
    <3>1. piece = <<c>> \o Operands(chunk.constants, ins)
      BY <1>1, <1>3, Piece
    <3> HIDE DEF piece, c, v
    <3> QED
      BY <1>3, <3>1
  <2> HIDE DEF piece, c, v
  <2> QED
    BY <2>1, Short
<1>5. e.bytes[p] = c /\ e.bytes[p + 1] = U8(v) /\ e.at[i + 1] = p + 2
  <2>1. Len(piece) = 2 /\ piece[1] = c /\ piece[2] = U8(v)
    BY <1>4
  <2>2. /\ 1 \in 1 .. Len(piece) => e.bytes[p] = piece[1]
        /\ 2 \in 1 .. Len(piece) => e.bytes[p + 1] = piece[2]
    BY PieceRead
  <2> HIDE DEF piece, c, v, p
  <2> QED
    BY <1>1, <2>1, <2>2
<1>6. Fetch(e.bytes, p) = [opcode |-> c, operands |-> <<U8(v)>>, next |-> <<p + 1 + 1>>]
  <2> HIDE DEF v, p, c
  <2>1. c.op \notin Jumps /\ c.op \in SlotOps \cup {"CALL_CLOSURE", "EXN_IS_PRIM"}
    BY <1>3
  <2> QED
    BY <1>5, <2>1 DEF Fetch, Jumps, SlotOps
<1>7. /\ ReadAsCompiled(chunk, e, i) <=> <<U8(v)>> = <<v>> /\ p + 1 + 1 = e.at[i + 1]
      /\ FitsIn(chunk, e.at, i) <=>
            (\A k \in DOMAIN <<Byte>> \cap DOMAIN <<v>> : <<v>>[k] < <<Byte>>[k]) /\ Len(ins.caps) < Byte
  <2> HIDE DEF v
  <2> QED
    BY <1>3, <1>6, Straight
<1>8. ReadAsCompiled(chunk, e, i) <=> U8(v) = v
  <2> HIDE DEF v, p
  <2> QED
    BY <1>1, <1>5, <1>7
<1>9. FitsIn(chunk, e.at, i) <=> v < Byte
  <2> HIDE DEF v
  <2>1. Len(ins.caps) = 0
    BY <1>2
  <2> QED
    BY <1>7, <2>1, ByteIsEven
<1> HIDE DEF v
<1> QED
  BY <1>2, <1>8, <1>9, ByteHolds

\* The instructions with a word for an operand.
IsWordOp(constants, ins) ==
    \/ ins.op = "PUSH_CONST" /\ ~IsBool(constants[ins.a])
    \/ ins.op \in {"STRUCT_NEW", "SEQ_NEW", "GET_FIELD_NAMED"}
    \/ ins.op = "CLOSURE" /\ ins.kind = "void"

\* One word: an index into a table or a number of operands.
LEMMA WordOperand ==
    ASSUME NEW chunk, NEW e, NEW i, Placed(chunk, e, i),
           IsWordOp(chunk.constants, chunk.code[i])
    PROVE  ReadAsCompiled(chunk, e, i) <=> FitsIn(chunk, e.at, i)
<1> DEFINE ins == chunk.code[i]
           c == Opcode(chunk.constants, ins)
           v == IF ins.op = "PUSH_CONST" THEN PoolIndex(chunk.constants, ins.a)
                ELSE IF ins.op \in {"STRUCT_NEW", "CLOSURE"} THEN ins.a - 1 ELSE ins.a
           h == Halves(v)
           r == Joined(h[1], h[2])
           piece == Patched(chunk.code, Emitted(chunk), e.at)[i]
           p == e.at[i]
<1>1. Compilable(chunk) /\ i \in DOMAIN chunk.code /\ p \in Nat \ {0} /\ e.at[i + 1] = p + Len(piece)
  BY DEF Placed
<1>2. v \in Nat /\ ins.caps = <<>>
  <2>1. ins.a \in Nat /\ (ins.op \in {"STRUCT_NEW", "CLOSURE"} => ins.a - 1 \in Nat) /\ ins.caps = <<>>
    BY <1>1, Compiled DEF IsWordOp
  <2> QED
    BY <2>1, PoolIndexIsNat
<1>3. h = <<h[1], h[2]>>
  BY DEF Halves
<1>4. /\ ins.op \notin Jumps /\ c.op = ins.op /\ (ins.op = "CLOSURE" => c.kind = "void")
      /\ Operands(chunk.constants, ins) = h
      /\ OperandValues(chunk.constants, ins) = <<v>>
      /\ Limits(ins) = <<Word>>
  <2>1. ins.op \notin Jumps /\ ins.op \notin SlotOps
    BY DEF Jumps, SlotOps, IsWordOp
  <2>2. c.op = ins.op /\ (ins.op = "CLOSURE" => c.kind = "void")
    BY OpcodeIs DEF IsWordOp
  <2>3. Operands(chunk.constants, ins) = h
    BY <2>1 DEF Operands, SlotOps, Jumps, IsWordOp
  <2>4. ins.op # "CLOSURE" => OperandValues(chunk.constants, ins) = <<v>> /\ Limits(ins) = <<Word>>
    BY <2>1 DEF OperandValues, Limits, SlotOps, IsWordOp
  <2>5. ASSUME ins.op = "CLOSURE"
        PROVE  OperandValues(chunk.constants, ins) = <<v>> /\ Limits(ins) = <<Word>>
    <3>1. /\ OperandValues(chunk.constants, ins) =
                <<ins.a - 1>> \o FlattenSeq([k \in DOMAIN ins.caps |->
                    <<IF ins.caps[k].isLocal THEN 1 ELSE 0, ins.caps[k].idx - 1>>])
          /\ Limits(ins) = <<Word>> \o [k \in 1 .. 2 * Len(ins.caps) |-> Byte]
      BY <2>1, <2>5 DEF OperandValues, Limits, SlotOps
    <3>2. /\ [k \in DOMAIN ins.caps |->
                 <<IF ins.caps[k].isLocal THEN 1 ELSE 0, ins.caps[k].idx - 1>>] = <<>>
          /\ [k \in 1 .. 2 * Len(ins.caps) |-> Byte] = <<>>
      BY <1>2
    <3>3. FlattenSeq(<<>>) = <<>>
      BY DEF FlattenSeq
    <3>4. v = ins.a - 1
      BY <2>5
    <3> DEFINE x == ins.a - 1
    <3>5. OperandValues(chunk.constants, ins) = <<x>> \o <<>> /\ Limits(ins) = <<Word>> \o <<>>
      BY <3>1, <3>2, <3>3
    <3> HIDE DEF x, v
    <3> QED
      BY <3>4, <3>5, Short DEF x
  <2> QED
    BY <2>1, <2>2, <2>3, <2>4, <2>5
<1> HIDE DEF v
<1>5. piece = <<c, h[1], h[2]>>
  <2>1. piece = <<c>> \o Operands(chunk.constants, ins)
    BY <1>1, <1>4, Piece
  <2>2. piece = <<c>> \o <<h[1], h[2]>>
    <3> HIDE DEF piece, c, h
    <3> QED
      BY <1>3, <1>4, <2>1
  <2> HIDE DEF piece, c, h
  <2> QED
    BY <2>2, Short
<1>6. e.bytes[p] = c /\ e.bytes[p + 1] = h[1] /\ e.bytes[p + 1 + 1] = h[2] /\ e.at[i + 1] = p + 3
  <2>1. Len(piece) = 3 /\ piece[1] = c /\ piece[2] = h[1] /\ piece[3] = h[2]
    <3> HIDE DEF piece, c, h
    <3> QED
      BY <1>5
  <2>2. /\ 1 \in 1 .. Len(piece) => e.bytes[p] = piece[1]
        /\ 2 \in 1 .. Len(piece) => e.bytes[p + 1] = piece[2]
        /\ 3 \in 1 .. Len(piece) => e.bytes[p + 2] = piece[3]
    BY PieceRead
  <2> HIDE DEF piece, c, h, p
  <2>3. p + 1 + 1 = p + 2
    BY <1>1
  <2> QED
    BY <1>1, <2>1, <2>2, <2>3
<1>7. Fetch(e.bytes, p) = [opcode |-> c, operands |-> <<r>>, next |-> <<p + 1 + 2>>]
  <2>1. \/ c.op \in {"PUSH_CONST", "STRUCT_NEW", "SEQ_NEW", "GET_FIELD_NAMED"}
        \/ c.op = "CLOSURE" /\ c.kind = "void"
    BY <1>4 DEF IsWordOp
  <2> HIDE DEF p, c, h
  <2> QED
    BY <1>6, <2>1 DEF Fetch, Jumps, SlotOps
<1>8. /\ ReadAsCompiled(chunk, e, i) <=> <<r>> = <<v>> /\ p + 1 + 2 = e.at[i + 1]
      /\ FitsIn(chunk, e.at, i) <=>
            (\A k \in DOMAIN <<Word>> \cap DOMAIN <<v>> : <<v>>[k] < <<Word>>[k]) /\ Len(ins.caps) < Byte
  <2> DEFINE s == <<r>>
             t == <<v>>
             n == p + 1 + 2
  <2>1. /\ Fetch(e.bytes, e.at[i]) = [opcode |-> Opcode(chunk.constants, chunk.code[i]),
                                      operands |-> s, next |-> <<n>>]
        /\ t = OperandValues(chunk.constants, chunk.code[i]) /\ chunk.code[i].op \notin Jumps
    BY <1>4, <1>7
  <2> HIDE DEF s, t, n
  <2>2. /\ ReadAsCompiled(chunk, e, i) <=> s = t /\ n = e.at[i + 1]
        /\ FitsIn(chunk, e.at, i) <=>
              /\ \A k \in DOMAIN Limits(chunk.code[i]) \cap DOMAIN t : t[k] < Limits(chunk.code[i])[k]
              /\ Len(chunk.code[i].caps) < Byte
    BY <2>1, Straight
  <2> QED
    BY <1>4, <2>2 DEF s, t, n
<1>9. ReadAsCompiled(chunk, e, i) <=> r = v
  <2> HIDE DEF p, r
  <2> QED
    BY <1>1, <1>6, <1>8
<1>10. FitsIn(chunk, e.at, i) <=> v < Word
  <2>1. Len(ins.caps) = 0
    BY <1>2
  <2> QED
    BY <1>8, <2>1, ByteIsEven
<1> QED
  BY <1>2, <1>9, <1>10, WordHolds

\* A call: the chunk and the number of arguments.
LEMMA CallOperands ==
    ASSUME NEW chunk, NEW e, NEW i, Placed(chunk, e, i), chunk.code[i].op = "CALL"
    PROVE  ReadAsCompiled(chunk, e, i) <=> FitsIn(chunk, e.at, i)
<1> DEFINE ins == chunk.code[i]
           c == Opcode(chunk.constants, ins)
           v == ins.a - 1
           w == ins.b
           h == Halves(v)
           r == Joined(h[1], h[2])
           piece == Patched(chunk.code, Emitted(chunk), e.at)[i]
           p == e.at[i]
<1>1. Compilable(chunk) /\ i \in DOMAIN chunk.code /\ p \in Nat \ {0} /\ e.at[i + 1] = p + Len(piece)
  BY DEF Placed
<1>2. v \in Nat /\ w \in Nat /\ ins.caps = <<>>
  BY <1>1, Compiled
<1>3. h = <<h[1], h[2]>>
  BY DEF Halves
<1>4. /\ ins.op \notin Jumps /\ c.op = ins.op
      /\ Operands(chunk.constants, ins) = h \o <<U8(w)>>
      /\ OperandValues(chunk.constants, ins) = <<v, w>>
      /\ Limits(ins) = <<Word, Byte>>
  <2>1. ins.op \notin Jumps /\ ins.op \notin SlotOps
    BY DEF Jumps, SlotOps
  <2>2. c.op = ins.op
    BY OpcodeIs
  <2>3. Operands(chunk.constants, ins) = h \o <<U8(w)>>
    BY <2>1 DEF Operands, SlotOps, Jumps
  <2>4. OperandValues(chunk.constants, ins) = <<v, w>> /\ Limits(ins) = <<Word, Byte>>
    BY <2>1 DEF OperandValues, Limits, SlotOps
  <2> QED
    BY <2>1, <2>2, <2>3, <2>4
<1> HIDE DEF v, w
<1>5. piece = <<c, h[1], h[2], U8(w)>>
  <2>1. piece = <<c>> \o Operands(chunk.constants, ins)
    BY <1>1, <1>4, Piece
  <2>2. piece = <<c>> \o (<<h[1], h[2]>> \o <<U8(w)>>)
    <3> HIDE DEF piece, c, h
    <3> QED
      BY <1>3, <1>4, <2>1
  <2> DEFINE x == h[1]
             y == h[2]
             z == U8(w)
  <2> HIDE DEF piece, c, h, x, y, z
  <2>3. <<c>> \o (<<x, y>> \o <<z>>) = <<c, x, y, z>>
    BY ShortOfFour, Zenon
  <2> QED
    BY <2>2, <2>3, Zenon DEF x, y, z
<1>6. /\ e.bytes[p] = c /\ e.bytes[p + 1] = h[1] /\ e.bytes[p + 1 + 1] = h[2]
      /\ e.bytes[p + 3] = U8(w) /\ e.at[i + 1] = p + 4
  <2>1. Len(piece) = 4 /\ piece[1] = c /\ piece[2] = h[1] /\ piece[3] = h[2] /\ piece[4] = U8(w)
    <3> HIDE DEF piece, c, h
    <3> QED
      BY <1>5
  <2>2. /\ 1 \in 1 .. Len(piece) => e.bytes[p] = piece[1]
        /\ 2 \in 1 .. Len(piece) => e.bytes[p + 1] = piece[2]
        /\ 3 \in 1 .. Len(piece) => e.bytes[p + 2] = piece[3]
        /\ 4 \in 1 .. Len(piece) => e.bytes[p + 3] = piece[4]
    BY PieceRead
  <2> HIDE DEF piece, c, h, p
  <2>3. p + 1 + 1 = p + 2
    BY <1>1
  <2> QED
    BY <1>1, <2>1, <2>2, <2>3
<1>7. Fetch(e.bytes, p) = [opcode |-> c, operands |-> <<r, U8(w)>>, next |-> <<p + 1 + 3>>]
  <2> HIDE DEF p, c, h
  <2> QED
    BY <1>4, <1>6 DEF Fetch, Jumps, SlotOps
<1>8. /\ ReadAsCompiled(chunk, e, i) <=> <<r, U8(w)>> = <<v, w>> /\ p + 1 + 3 = e.at[i + 1]
      /\ FitsIn(chunk, e.at, i) <=>
            /\ \A k \in DOMAIN <<Word, Byte>> \cap DOMAIN <<v, w>> : <<v, w>>[k] < <<Word, Byte>>[k]
            /\ Len(ins.caps) < Byte
  <2> DEFINE s == <<r, U8(w)>>
             t == <<v, w>>
             n == p + 1 + 3
  <2>1. /\ Fetch(e.bytes, e.at[i]) = [opcode |-> Opcode(chunk.constants, chunk.code[i]),
                                      operands |-> s, next |-> <<n>>]
        /\ t = OperandValues(chunk.constants, chunk.code[i]) /\ chunk.code[i].op \notin Jumps
    BY <1>4, <1>7
  <2> HIDE DEF s, t, n
  <2>2. /\ ReadAsCompiled(chunk, e, i) <=> s = t /\ n = e.at[i + 1]
        /\ FitsIn(chunk, e.at, i) <=>
              /\ \A k \in DOMAIN Limits(chunk.code[i]) \cap DOMAIN t : t[k] < Limits(chunk.code[i])[k]
              /\ Len(chunk.code[i].caps) < Byte
    BY <2>1, Straight
  <2> QED
    BY <1>4, <2>2 DEF s, t, n
<1>9. ReadAsCompiled(chunk, e, i) <=> r = v /\ U8(w) = w
  <2> HIDE DEF p, r
  <2> QED
    BY <1>1, <1>6, <1>8
<1>10. FitsIn(chunk, e.at, i) <=> v < Word /\ w < Byte
  <2>1. Len(ins.caps) = 0
    BY <1>2
  <2>2. (\A k \in DOMAIN <<Word, Byte>> \cap DOMAIN <<v, w>> : <<v, w>>[k] < <<Word, Byte>>[k])
           <=> v < Word /\ w < Byte
    <3> DEFINE x == <<v, w>>
               y == <<Word, Byte>>
    <3>1. DOMAIN y \cap DOMAIN x = {1, 2} /\ x[1] = v /\ x[2] = w /\ y[1] = Word /\ y[2] = Byte
      OBVIOUS
    <3> HIDE DEF x, y
    <3>2. (\A k \in DOMAIN y \cap DOMAIN x : x[k] < y[k]) <=> v < Word /\ w < Byte
      BY <3>1
    <3> QED
      BY <3>2 DEF x, y
  <2> QED
    BY <1>8, <2>1, <2>2, ByteIsEven
<1> QED
  BY <1>2, <1>9, <1>10, WordHolds, ByteHolds

\* The tag of a kind.
LEMMA TagOperand ==
    ASSUME NEW chunk, NEW e, NEW i, Placed(chunk, e, i), chunk.code[i].op = "EXN_IS_PRIM"
    PROVE  ReadAsCompiled(chunk, e, i) /\ FitsIn(chunk, e.at, i)
<1> DEFINE ins == chunk.code[i]
           c == Opcode(chunk.constants, ins)
           v == ins.kind
           piece == Patched(chunk.code, Emitted(chunk), e.at)[i]
           p == e.at[i]
<1>1. Compilable(chunk) /\ i \in DOMAIN chunk.code /\ p \in Nat \ {0} /\ e.at[i + 1] = p + Len(piece)
  BY DEF Placed
<1>2. ins.caps = <<>>
  BY <1>1, Compiled
<1>3. /\ ins.op \notin Jumps /\ c.op = ins.op
      /\ Operands(chunk.constants, ins) = <<v>>
      /\ OperandValues(chunk.constants, ins) = <<v>>
      /\ Limits(ins) = <<>>
  <2>1. ins.op \notin Jumps /\ ins.op \notin SlotOps
    BY DEF Jumps, SlotOps
  <2>2. c.op = ins.op
    BY OpcodeIs
  <2>3. Operands(chunk.constants, ins) = <<v>>
    BY <2>1 DEF Operands, SlotOps, Jumps
  <2>4. OperandValues(chunk.constants, ins) = <<v>>
    BY <2>1 DEF OperandValues, SlotOps
  <2>5. Limits(ins) = <<>>
    BY <2>1 DEF Limits, SlotOps
  <2> QED
    BY <2>1, <2>2, <2>3, <2>4, <2>5
<1>4. piece = <<c, v>>
  <2>1. piece = <<c>> \o Operands(chunk.constants, ins)
    BY <1>1, <1>3, Piece
  <2> HIDE DEF piece, c, v
  <2> QED
    BY <1>3, <2>1, Short
<1>5. e.bytes[p] = c /\ e.bytes[p + 1] = v /\ e.at[i + 1] = p + 2
  <2>1. Len(piece) = 2 /\ piece[1] = c /\ piece[2] = v
    BY <1>4
  <2>2. /\ 1 \in 1 .. Len(piece) => e.bytes[p] = piece[1]
        /\ 2 \in 1 .. Len(piece) => e.bytes[p + 1] = piece[2]
    BY PieceRead
  <2> HIDE DEF piece, c, v, p
  <2> QED
    BY <1>1, <2>1, <2>2
<1>6. Fetch(e.bytes, p) = [opcode |-> c, operands |-> <<v>>, next |-> <<p + 1 + 1>>]
  <2> HIDE DEF v, p, c
  <2> QED
    BY <1>3, <1>5 DEF Fetch, Jumps, SlotOps
<1> DEFINE t == <<v>>
           n == p + 1 + 1
<1>7. n = e.at[i + 1]
  <2> HIDE DEF p
  <2> QED
    BY <1>1, <1>5
<1>8. /\ Fetch(e.bytes, e.at[i]) = [opcode |-> Opcode(chunk.constants, chunk.code[i]),
                                    operands |-> t, next |-> <<n>>]
      /\ t = OperandValues(chunk.constants, chunk.code[i]) /\ chunk.code[i].op \notin Jumps
  BY <1>3, <1>6
<1> HIDE DEF t, n
<1>9. /\ ReadAsCompiled(chunk, e, i) <=> t = t /\ n = e.at[i + 1]
      /\ FitsIn(chunk, e.at, i) <=>
            /\ \A k \in DOMAIN Limits(chunk.code[i]) \cap DOMAIN t : t[k] < Limits(chunk.code[i])[k]
            /\ Len(chunk.code[i].caps) < Byte
  BY <1>8, Straight
<1>10. Len(ins.caps) = 0 /\ DOMAIN Limits(ins) = {}
  BY <1>2, <1>3
<1> QED
  BY <1>7, <1>9, <1>10, ByteIsEven

\* The instructions without operands.
NoOperand(constants, ins) ==
    /\ ins.op \notin Jumps \cup SlotOps
                   \cup {"CALL", "CALL_CLOSURE", "CLOSURE", "STRUCT_NEW", "SEQ_NEW",
                         "GET_FIELD_NAMED", "EXN_IS_PRIM"}
    /\ ins.op = "PUSH_CONST" => IsBool(constants[ins.a])

LEMMA NoOperands ==
    ASSUME NEW chunk, NEW e, NEW i, Placed(chunk, e, i), NoOperand(chunk.constants, chunk.code[i])
    PROVE  ReadAsCompiled(chunk, e, i) /\ FitsIn(chunk, e.at, i)
<1> DEFINE ins == chunk.code[i]
           c == Opcode(chunk.constants, ins)
           piece == Patched(chunk.code, Emitted(chunk), e.at)[i]
           p == e.at[i]
<1>1. Compilable(chunk) /\ i \in DOMAIN chunk.code /\ p \in Nat \ {0} /\ e.at[i + 1] = p + Len(piece)
  BY DEF Placed
<1>2. ins.caps = <<>>
  BY <1>1, Compiled DEF NoOperand
<1>3. /\ ins.op \notin Jumps
      /\ c.op \notin Jumps \cup SlotOps
                   \cup {"CALL", "CALL_CLOSURE", "CLOSURE", "STRUCT_NEW", "SEQ_NEW",
                         "GET_FIELD_NAMED", "EXN_IS_PRIM", "PUSH_CONST"}
      /\ Operands(chunk.constants, ins) = <<>>
      /\ OperandValues(chunk.constants, ins) = <<>>
  <2>1. ins.op \notin Jumps
    BY DEF NoOperand
  <2>2. (c.op = ins.op /\ ins.op # "PUSH_CONST") \/ c.op \in {"PUSH_TRUE", "PUSH_FALSE"}
    BY OpcodeIs DEF NoOperand
  <2>3. /\ c.op \notin Jumps \cup SlotOps
                   \cup {"CALL", "CALL_CLOSURE", "CLOSURE", "STRUCT_NEW", "SEQ_NEW",
                         "GET_FIELD_NAMED", "EXN_IS_PRIM", "PUSH_CONST"}
    <3> HIDE DEF c
    <3> QED
      BY <2>2 DEF NoOperand, Jumps, SlotOps
  <2>4. Operands(chunk.constants, ins) = <<>>
    BY DEF Operands, NoOperand, Jumps, SlotOps
  <2>5. OperandValues(chunk.constants, ins) = <<>>
    BY DEF OperandValues, NoOperand, Jumps, SlotOps
  <2> QED
    BY <2>1, <2>3, <2>4, <2>5
<1>4. piece = <<c>>
  <2>1. piece = <<c>> \o Operands(chunk.constants, ins)
    BY <1>1, <1>3, Piece
  <2> HIDE DEF piece, c
  <2> QED
    BY <1>3, <2>1, Short
<1>5. e.bytes[p] = c /\ e.at[i + 1] = p + 1
  <2>1. Len(piece) = 1 /\ piece[1] = c
    BY <1>4
  <2>2. 1 \in 1 .. Len(piece) => e.bytes[p] = piece[1]
    BY PieceRead
  <2> HIDE DEF piece, c, p
  <2> QED
    BY <1>1, <2>1, <2>2
<1>6. Fetch(e.bytes, p) = [opcode |-> c, operands |-> <<>>, next |-> <<p + 1 + 0>>]
  <2> HIDE DEF p, c
  <2> QED
    BY <1>3, <1>5 DEF Fetch
<1> DEFINE t == <<>>
           n == p + 1 + 0
<1>7. n = e.at[i + 1]
  <2> HIDE DEF p
  <2> QED
    BY <1>1, <1>5
<1>8. /\ Fetch(e.bytes, e.at[i]) = [opcode |-> Opcode(chunk.constants, chunk.code[i]),
                                    operands |-> t, next |-> <<n>>]
      /\ t = OperandValues(chunk.constants, chunk.code[i]) /\ chunk.code[i].op \notin Jumps
  BY <1>3, <1>6
<1>9. DOMAIN t = {}
  OBVIOUS
<1> HIDE DEF t, n
<1>10. /\ ReadAsCompiled(chunk, e, i) <=> t = t /\ n = e.at[i + 1]
       /\ FitsIn(chunk, e.at, i) <=>
             /\ \A k \in DOMAIN Limits(chunk.code[i]) \cap DOMAIN t : t[k] < Limits(chunk.code[i])[k]
             /\ Len(chunk.code[i].caps) < Byte
  BY <1>8, Straight
<1>11. Len(ins.caps) = 0
  BY <1>2
<1> QED
  BY <1>7, <1>9, <1>10, <1>11, ByteIsEven

\* A jump: the distance.
LEMMA JumpDistance ==
    ASSUME NEW chunk, NEW e, NEW i, Placed(chunk, e, i), chunk.code[i].op \in Jumps
    PROVE  ReadAsCompiled(chunk, e, i) <=> FitsIn(chunk, e.at, i)
<1> DEFINE ins == chunk.code[i]
           c == Opcode(chunk.constants, ins)
           d == Displacement(e.at, i, ins.a)
           h == Halves(U16(d))
           r == Signed(Joined(h[1], h[2]))
           piece == Patched(chunk.code, Emitted(chunk), e.at)[i]
           p == e.at[i]
           q == e.at[ins.a]
<1>1. /\ Compilable(chunk) /\ i \in DOMAIN chunk.code /\ p \in Nat \ {0} /\ e.at[i + 1] = p + Len(piece)
      /\ q \in Nat
  BY DEF Placed
<1>2. ins.caps = <<>>
  BY <1>1, Compiled DEF Jumps
<1>3. h = <<h[1], h[2]>>
  BY DEF Halves
<1>4. c.op = ins.op /\ OperandValues(chunk.constants, ins) = <<>>
  <2>1. c.op = ins.op
    BY OpcodeIs DEF Jumps
  <2>2. OperandValues(chunk.constants, ins) = <<>>
    BY DEF OperandValues, Jumps, SlotOps
  <2> QED
    BY <2>1, <2>2
<1>5. piece = <<c, h[1], h[2]>>
  <2>1. piece = <<c>> \o h
    BY <1>1, Piece
  <2>2. piece = <<c>> \o <<h[1], h[2]>>
    <3> HIDE DEF piece, c, h
    <3> QED
      BY <1>3, <2>1
  <2> HIDE DEF piece, c, h
  <2> QED
    BY <2>2, Short
<1>6. e.bytes[p] = c /\ e.bytes[p + 1] = h[1] /\ e.bytes[p + 1 + 1] = h[2] /\ e.at[i + 1] = p + 3
  <2>1. Len(piece) = 3 /\ piece[1] = c /\ piece[2] = h[1] /\ piece[3] = h[2]
    <3> HIDE DEF piece, c, h
    <3> QED
      BY <1>5
  <2>2. /\ 1 \in 1 .. Len(piece) => e.bytes[p] = piece[1]
        /\ 2 \in 1 .. Len(piece) => e.bytes[p + 1] = piece[2]
        /\ 3 \in 1 .. Len(piece) => e.bytes[p + 2] = piece[3]
    BY PieceRead
  <2> HIDE DEF piece, c, h, p
  <2>3. p + 1 + 1 = p + 2
    BY <1>1
  <2> QED
    BY <1>1, <2>1, <2>2, <2>3
<1>7. Fetch(e.bytes, p) = [opcode |-> c, operands |-> <<>>, next |-> <<p + 3, p + 3 + r>>]
  <2>1. c.op \in Jumps
    BY <1>4
  <2> HIDE DEF p, c, h
  <2> QED
    BY <1>6, <2>1 DEF Fetch, Jumps, SlotOps
<1>8. d = q - (p + 3) /\ d \in Int
  BY <1>1 DEF Displacement
<1>9. r = d <=> d \in -(Word \div 2) .. Word \div 2 - 1
  <2> HIDE DEF d
  <2> QED
    BY <1>8, DistanceReadsBack
<1>10. ReadAsCompiled(chunk, e, i) <=> <<p + 3, p + 3 + r>> = <<e.at[i + 1], q>>
  <2> DEFINE m == <<p + 3, p + 3 + r>>
             t == <<>>
             n == <<e.at[i + 1], q>>
  <2>1. /\ Fetch(e.bytes, e.at[i]) = [opcode |-> c, operands |-> t, next |-> m]
        /\ ReadAsCompiled(chunk, e, i) <=>
              Fetch(e.bytes, e.at[i]) = [opcode |-> c, operands |-> OperandValues(chunk.constants, ins),
                                         next |-> n]
        /\ OperandValues(chunk.constants, ins) = t
    BY <1>4, <1>7 DEF ReadAsCompiled
  <2> HIDE DEF m, n, t, c
  <2>2. ReadAsCompiled(chunk, e, i) <=>
           [opcode |-> c, operands |-> t, next |-> m] = [opcode |-> c, operands |-> t, next |-> n]
    BY <2>1
  <2>3. ReadAsCompiled(chunk, e, i) <=> m = n
    BY <2>2, SameReading
  <2> QED
    BY <2>3 DEF m, n
<1>11. ReadAsCompiled(chunk, e, i) <=> r = d
  <2>1. ReadAsCompiled(chunk, e, i) <=> p + 3 = e.at[i + 1] /\ p + 3 + r = q
    <3> HIDE DEF r, p, q
    <3> QED
      BY <1>10
  <2>2. r \in Int
    <3>1. d % Word \in 0 .. Word - 1
      BY <1>8, WordIsEven, DivMod
    <3>2. Joined(h[1], h[2]) \in 0 .. Word - 1
      <4> DEFINE u == U16(d)
      <4>1. u \in 0 .. Word - 1
        BY <3>1 DEF U16
      <4> HIDE DEF u
      <4>2. Joined(Halves(u)[1], Halves(u)[2]) = u
        BY <4>1, WordReadsBack
      <4> QED
        BY <4>1, <4>2 DEF u
    <3> DEFINE j == Joined(h[1], h[2])
    <3> HIDE DEF j
    <3>3. Signed(j) \in Int
      BY <3>2, WordIsEven DEF Signed, j
    <3> QED
      BY <3>3 DEF j
  <2> HIDE DEF r, p, q, d
  <2> QED
    BY <1>1, <1>6, <1>8, <2>1, <2>2
<1>12. FitsIn(chunk, e.at, i) <=> d \in -(Word \div 2) .. Word \div 2 - 1
  <2>1. Len(ins.caps) = 0 /\ DOMAIN OperandValues(chunk.constants, ins) = {}
    BY <1>2, <1>4
  <2> HIDE DEF d
  <2>2. FitsIn(chunk, e.at, i) <=>
           /\ d \in -(Word \div 2) .. Word \div 2 - 1
           /\ \A k \in DOMAIN Limits(ins) \cap DOMAIN OperandValues(chunk.constants, ins) :
                 OperandValues(chunk.constants, ins)[k] < Limits(ins)[k]
           /\ Len(ins.caps) < Byte
    BY DEF FitsIn, d
  <2> QED
    BY <2>1, <2>2, ByteIsEven
<1> QED
  BY <1>9, <1>11, <1>12

\* A number is at an odd place or at an even one.
LEMMA Places ==
    ASSUME NEW n \in Nat, NEW j \in 1 .. 2 * n
    PROVE  \E i \in 1 .. n : j = 2 * i - 1 \/ j = 2 * i
<1> DEFINE i == (j + 1) \div 2
<1>1. i \in 1 .. n /\ (j = 2 * i - 1 \/ j = 2 * i)
  OBVIOUS
<1> QED
  BY <1>1

\* The captures of a closure: whether each is a local, and its index.
Bit(cap) == IF cap.isLocal THEN 1 ELSE 0
WrittenCaps(caps) == FlattenSeq([i \in DOMAIN caps |-> <<Bit(caps[i]), U8(caps[i].idx - 1)>>])
MeantCaps(caps) == FlattenSeq([i \in DOMAIN caps |-> <<Bit(caps[i]), caps[i].idx - 1>>])

\* Each number of the captures is written in a byte.
LEMMA Captures ==
    ASSUME NEW caps \in Seq([isLocal : BOOLEAN, idx : Nat \ {0}])
    PROVE  /\ WrittenCaps(caps) \in Seq(Nat) /\ Len(WrittenCaps(caps)) = 2 * Len(caps)
           /\ MeantCaps(caps) \in Seq(Nat) /\ Len(MeantCaps(caps)) = 2 * Len(caps)
           /\ \A j \in 1 .. 2 * Len(caps) : WrittenCaps(caps)[j] = U8(MeantCaps(caps)[j])
<1> DEFINE n == Len(caps)
           s == [i \in 1 .. n |-> <<Bit(caps[i]), U8(caps[i].idx - 1)>>]
           t == [i \in 1 .. n |-> <<Bit(caps[i]), caps[i].idx - 1>>]
           f == FlattenSeq(s)
           g == FlattenSeq(t)
<1>1. n \in Nat /\ DOMAIN caps = 1 .. n
  BY LenProperties
<1>2. ASSUME NEW i \in 1 .. n
      PROVE  /\ Bit(caps[i]) \in {0, 1} /\ caps[i].idx - 1 \in Nat
             /\ U8(Bit(caps[i])) = Bit(caps[i]) /\ U8(caps[i].idx - 1) \in Nat
  <2>1. caps[i] \in [isLocal : BOOLEAN, idx : Nat \ {0}]
    BY ElementOfSeq
  <2>2. Bit(caps[i]) \in {0, 1} /\ caps[i].idx \in Nat \ {0}
    BY <2>1 DEF Bit
  <2>3. caps[i].idx - 1 \in Nat
    BY <2>2
  <2>4. Bit(caps[i]) < Byte
    BY <2>2, ByteIsEven
  <2> DEFINE b == Bit(caps[i])
             x == caps[i].idx - 1
  <2>5. b \in {0, 1} /\ b \in Nat /\ x \in Nat /\ b < Byte
    BY <2>2, <2>3, <2>4
  <2> HIDE DEF b, x
  <2>6. U8(b) = b /\ U8(x) \in 0 .. Byte - 1
    BY <2>5, ByteHolds
  <2>7. U8(x) \in Nat
    BY <2>6, ByteIsEven
  <2> QED
    BY <2>5, <2>6, <2>7 DEF b, x
<1>3. f = WrittenCaps(caps) /\ g = MeantCaps(caps)
  BY <1>1 DEF WrittenCaps, MeantCaps
<1> HIDE DEF n
<1>4. s \in [1 .. n -> Nat \X Nat] /\ t \in [1 .. n -> Nat \X Nat]
  BY <1>2
<1>5. /\ f \in Seq(Nat) /\ Len(f) = 2 * n
      /\ \A i \in 1 .. n : f[2 * i - 1] = s[i][1] /\ f[2 * i] = s[i][2]
  <2>1. \A i \in 1 .. n : s[i] \in Seq(Nat) /\ Len(s[i]) = 2
    <3> SUFFICES ASSUME NEW i \in 1 .. n PROVE s[i] \in Seq(Nat) /\ Len(s[i]) = 2
      OBVIOUS
    <3>1. s[i] \in Nat \X Nat
      BY <1>4
    <3>2. PICK x \in Nat, y \in Nat : s[i] = <<x, y>>
      BY <3>1
    <3> QED
      BY <3>2
  <2> HIDE DEF s
  <2>2. s \in Seq(Seq(Nat)) /\ Len(s) = n
    <3>1. s \in [1 .. n -> Seq(Nat)]
      BY <1>4, <2>1
    <3> QED
      BY <1>1, <3>1, SeqDef, LenProperties
  <2> QED
    BY <2>1, <2>2, PairsLaidOut
<1>6. /\ g \in Seq(Nat) /\ Len(g) = 2 * n
      /\ \A i \in 1 .. n : g[2 * i - 1] = t[i][1] /\ g[2 * i] = t[i][2]
  <2>1. \A i \in 1 .. n : t[i] \in Seq(Nat) /\ Len(t[i]) = 2
    <3> SUFFICES ASSUME NEW i \in 1 .. n PROVE t[i] \in Seq(Nat) /\ Len(t[i]) = 2
      OBVIOUS
    <3>1. t[i] \in Nat \X Nat
      BY <1>4
    <3>2. PICK x \in Nat, y \in Nat : t[i] = <<x, y>>
      BY <3>1
    <3> QED
      BY <3>2
  <2> HIDE DEF t
  <2>2. t \in Seq(Seq(Nat)) /\ Len(t) = n
    <3>1. t \in [1 .. n -> Seq(Nat)]
      BY <1>4, <2>1
    <3> QED
      BY <1>1, <3>1, SeqDef, LenProperties
  <2> QED
    BY <2>1, <2>2, PairsLaidOut
<1>7. \A i \in 1 .. n : s[i][1] = U8(t[i][1]) /\ s[i][2] = U8(t[i][2])
  BY <1>2
<1> HIDE DEF s, t, f, g
<1>8. ASSUME NEW j \in 1 .. 2 * n
      PROVE  f[j] = U8(g[j])
  <2>1. \E i \in 1 .. n : j = 2 * i - 1 \/ j = 2 * i
    BY <1>1, Places
  <2>2. PICK i \in 1 .. n : j = 2 * i - 1 \/ j = 2 * i
    BY <2>1
  <2>3. CASE j = 2 * i - 1
    BY <1>5, <1>6, <1>7, <2>3
  <2>4. CASE j = 2 * i
    BY <1>5, <1>6, <1>7, <2>4
  <2> QED
    BY <2>2, <2>3, <2>4
<1> QED
  BY <1>3, <1>5, <1>6, <1>8 DEF n

\* Elements behind the first one.
LEMMA Behind ==
    ASSUME NEW T, NEW x \in T, NEW s \in Seq(T)
    PROVE  /\ <<x>> \o s \in Seq(T) /\ Len(<<x>> \o s) = Len(s) + 1
           /\ (<<x>> \o s)[1] = x
           /\ \A j \in 1 .. Len(s) : (<<x>> \o s)[j + 1] = s[j]
<1> DEFINE r == <<x>>
<1>1. r \in Seq(T) /\ Len(r) = 1 /\ r[1] = x /\ Len(s) \in Nat
  BY LenProperties
<1> HIDE DEF r
<1>2. r \o s \in Seq(T) /\ Len(r \o s) = 1 + Len(s)
      /\ \A k \in 1 .. 1 + Len(s) : (r \o s)[k] = IF k <= 1 THEN r[k] ELSE s[k - 1]
  <2>1. /\ r \o s \in Seq(T) /\ Len(r \o s) = Len(r) + Len(s)
        /\ \A k \in 1 .. Len(r) + Len(s) : (r \o s)[k] = IF k <= Len(r) THEN r[k] ELSE s[k - Len(r)]
    BY <1>1, ConcatProperties
  <2> QED
    BY <1>1, <2>1
<1>3. \A j \in 1 .. Len(s) : (r \o s)[j + 1] = s[j]
  <2> TAKE j \in 1 .. Len(s)
  <2> DEFINE k == j + 1
  <2>1. k \in 1 .. 1 + Len(s) /\ ~(k <= 1) /\ k - 1 = j
    BY <1>1
  <2> HIDE DEF k
  <2>2. (r \o s)[k] = s[j]
    BY <1>2, <2>1
  <2> QED
    BY <2>2 DEF k
<1> QED
  BY <1>1, <1>2, <1>3 DEF r

\* A part of a sequence that is another sequence.
LEMMA PartIs ==
    ASSUME NEW T, NEW s \in Seq(T), NEW f \in Seq(T), NEW a \in Nat \ {0},
           \A j \in 1 .. Len(f) : a + j - 1 \in 1 .. Len(s) /\ s[a + j - 1] = f[j]
    PROVE  SubSeq(s, a, a + Len(f) - 1) = f
<1> DEFINE n == Len(f)
           b == a + n - 1
           u == SubSeq(s, a, b)
<1>1. n \in Nat /\ Len(s) \in Nat
  BY LenProperties
<1>2. CASE n = 0
  <2>1. f = <<>>
    BY <1>2, EmptySeq
  <2>2. u = <<>>
    BY <1>2, SubSeqProperties
  <2> QED
    BY <2>1, <2>2
<1>3. CASE n # 0
  <2> HIDE DEF n
  <2>1. n \in 1 .. n /\ 1 \in 1 .. n
    BY <1>1, <1>3
  <2>2. a + n - 1 \in 1 .. Len(s) /\ a + 1 - 1 \in 1 .. Len(s)
    BY <2>1 DEF n
  <2>3. b \in 1 .. Len(s) /\ a \in 1 .. Len(s) /\ a <= b + 1 /\ b - a + 1 = n
    BY <1>1, <1>3, <2>2
  <2> HIDE DEF b
  <2>4. u \in Seq(T) /\ Len(u) = n /\ \A j \in 1 .. n : u[j] = s[a + j - 1]
    <3>1. \A i \in a .. b : i \in 1 .. Len(s)
      BY <1>1, <2>3
    <3>2. u \in Seq(T) /\ Len(u) = b - a + 1
      BY <1>1, <2>3, <3>1, SubSeqProperties
    <3>3. \A j \in 1 .. b - a + 1 : u[j] = s[a + j - 1]
      BY <1>1, <2>3, <3>1, SubSeqProperties
    <3> QED
      BY <2>3, <3>2, <3>3
  <2>5. \A j \in 1 .. n : u[j] = f[j]
    BY <2>4 DEF n
  <2> HIDE DEF u
  <2>6. u = f
    BY <2>4, <2>5, SeqEqual DEF n
  <2> QED
    BY <2>6 DEF u, b, n
<1> QED
  BY <1>2, <1>3

\* A closure with captures: the chunk, how many there are, and each.
LEMMA ClosureOperands ==
    ASSUME NEW chunk, NEW e, NEW i, Placed(chunk, e, i),
           chunk.code[i].op = "CLOSURE", chunk.code[i].kind # "void"
    PROVE  ReadAsCompiled(chunk, e, i) <=> FitsIn(chunk, e.at, i)
<1> DEFINE ins == chunk.code[i]
           c == Opcode(chunk.constants, ins)
           v == ins.a - 1
           h == Halves(v)
           r == Joined(h[1], h[2])
           len == Len(ins.caps)
           f == WrittenCaps(ins.caps)
           g == MeantCaps(ins.caps)
           T == CodeBytes(chunk)
           piece == Patched(chunk.code, Emitted(chunk), e.at)[i]
           p == e.at[i]
           nup == U8(len)
           part == SubSeq(e.bytes, p + 4, p + 3 + 2 * nup)
<1>1. /\ Compilable(chunk) /\ i \in DOMAIN chunk.code /\ p \in Nat \ {0} /\ e.at[i + 1] = p + Len(piece)
      /\ e.bytes \in Seq(T)
      /\ \A k \in 1 .. Len(piece) : p + k - 1 \in 1 .. Len(e.bytes) /\ e.bytes[p + k - 1] = piece[k]
  BY DEF Placed
<1>2. v \in Nat /\ ins.caps \in Seq([isLocal : BOOLEAN, idx : Nat \ {0}]) /\ len \in Nat
  BY <1>1, Compiled, LenProperties
<1>3. /\ f \in Seq(Nat) /\ Len(f) = 2 * len /\ g \in Seq(Nat) /\ Len(g) = 2 * len
      /\ \A j \in 1 .. 2 * len : f[j] = U8(g[j])
  BY <1>2, Captures
<1>4. Nat \subseteq T /\ c \in T
  BY <1>1 DEF CodeBytes
<1>5. h = <<h[1], h[2]>> /\ h[1] \in Nat /\ h[2] \in Nat /\ nup \in Nat /\ (nup = len <=> len < Byte)
  BY <1>2, WordHolds, ByteHolds, ByteIsEven DEF Halves
<1>6. /\ ins.op \notin Jumps /\ c.op = "CLOSURE" /\ c.kind # "void"
      /\ Operands(chunk.constants, ins) = (h \o <<nup>>) \o f
      /\ OperandValues(chunk.constants, ins) = <<v>> \o g
      /\ Limits(ins) = <<Word>> \o [k \in 1 .. 2 * len |-> Byte]
  <2>1. ins.op \notin Jumps /\ ins.op \notin SlotOps
    BY DEF Jumps, SlotOps
  <2>2. c.op = "CLOSURE" /\ c.kind # "void"
    BY OpcodeIs
  <2>3. Operands(chunk.constants, ins) = (h \o <<nup>>) \o f
    BY <2>1 DEF Operands, SlotOps, Jumps, WrittenCaps, Bit
  <2>4. OperandValues(chunk.constants, ins) = <<v>> \o g
    BY <2>1 DEF OperandValues, SlotOps, MeantCaps, Bit
  <2>5. Limits(ins) = <<Word>> \o [k \in 1 .. 2 * len |-> Byte]
    BY <2>1 DEF Limits, SlotOps
  <2> HIDE DEF v, h, f, g, c, ins, nup, len
  <2> QED
    BY <2>1, <2>2, <2>3, <2>4, <2>5
<1> HIDE DEF v
<1>7. /\ Len(piece) = 4 + 2 * len
      /\ piece[1] = c /\ piece[2] = h[1] /\ piece[3] = h[2] /\ piece[4] = nup
      /\ \A j \in 1 .. 2 * len : piece[4 + j] = f[j]
  <2>1. piece = <<c>> \o Operands(chunk.constants, ins)
    BY <1>1, <1>6, StraightPiece
  <2> DEFINE s == h \o <<nup>>
             o == s \o f
  <2>2. s \in Seq(Nat) /\ Len(s) = 3 /\ s[1] = h[1] /\ s[2] = h[2] /\ s[3] = nup
    <3> DEFINE x == h[1]
               y == h[2]
    <3>1. h = <<x, y>> /\ x \in Nat /\ y \in Nat
      BY <1>5
    <3> HIDE DEF x, y, h, nup
    <3>2. s = <<x, y>> \o <<nup>>
      BY <3>1
    <3>3. <<x, y>> \o <<nup>> \in Seq(Nat) /\ Len(<<x, y>> \o <<nup>>) = 3
          /\ (<<x, y>> \o <<nup>>)[1] = x /\ (<<x, y>> \o <<nup>>)[2] = y
          /\ (<<x, y>> \o <<nup>>)[3] = nup
      BY <1>5, <3>1
    <3> QED
      BY <3>2, <3>3 DEF x, y
  <2> HIDE DEF s, f, h, nup, len
  <2>3. /\ o \in Seq(Nat) /\ Len(o) = 3 + 2 * len
        /\ \A k \in 1 .. 3 + 2 * len : o[k] = IF k <= 3 THEN s[k] ELSE f[k - 3]
    <3>1. /\ o \in Seq(Nat) /\ Len(o) = Len(s) + Len(f)
          /\ \A k \in 1 .. Len(s) + Len(f) : o[k] = IF k <= Len(s) THEN s[k] ELSE f[k - Len(s)]
      BY <1>3, <2>2, ConcatProperties
    <3> HIDE DEF o
    <3> QED
      BY <1>3, <2>2, <3>1
  <2>4. piece = <<c>> \o o
    BY <1>6, <2>1 DEF s
  <2> HIDE DEF o, c, piece, T
  <2>5. o \in Seq(T)
    BY <1>4, <2>3, SeqMonotonic
  <2>6. Len(<<c>> \o o) = Len(o) + 1 /\ (<<c>> \o o)[1] = c
        /\ \A k \in 1 .. Len(o) : (<<c>> \o o)[k + 1] = o[k]
    BY <1>4, <2>5, Behind
  <2>7. Len(piece) = Len(o) + 1 /\ piece[1] = c /\ \A k \in 1 .. Len(o) : piece[k + 1] = o[k]
    BY <2>4, <2>6
  <2>8. piece[1 + 1] = h[1] /\ piece[2 + 1] = h[2] /\ piece[3 + 1] = nup
    BY <1>2, <2>2, <2>3, <2>7
  <2>9. ASSUME NEW j \in 1 .. 2 * len
        PROVE  piece[4 + j] = f[j]
    <3> DEFINE k == 3 + j
    <3>1. k \in 1 .. 3 + 2 * len /\ ~(k <= 3) /\ k - 3 = j /\ k + 1 = 4 + j
      BY <1>2
    <3> HIDE DEF k
    <3>2. o[k] = f[j] /\ piece[k + 1] = o[k]
      BY <2>3, <2>7, <3>1
    <3> QED
      BY <3>1, <3>2
  <2>10. Len(piece) = 4 + 2 * len
    BY <1>2, <2>3, <2>7
  <2> QED
    BY <2>7, <2>8, <2>9, <2>10
<1>8. /\ e.bytes[p] = c /\ e.bytes[p + 1] = h[1] /\ e.bytes[p + 1 + 1] = h[2]
      /\ e.bytes[p + 3] = nup /\ e.at[i + 1] = p + 4 + 2 * len
      /\ \A j \in 1 .. 2 * len : p + 4 + j - 1 \in 1 .. Len(e.bytes) /\ e.bytes[p + 4 + j - 1] = f[j]
  <2>1. /\ 1 \in 1 .. Len(piece) => e.bytes[p] = piece[1]
        /\ 2 \in 1 .. Len(piece) => e.bytes[p + 1] = piece[2]
        /\ 3 \in 1 .. Len(piece) => e.bytes[p + 2] = piece[3]
        /\ 4 \in 1 .. Len(piece) => e.bytes[p + 3] = piece[4]
    BY PieceRead
  <2> HIDE DEF piece, c, h, p, nup, len, f, T
  <2>2. p + 1 + 1 = p + 2
    BY <1>1
  <2>3. ASSUME NEW j \in 1 .. 2 * len
        PROVE  p + 4 + j - 1 \in 1 .. Len(e.bytes) /\ e.bytes[p + 4 + j - 1] = f[j]
    <3> DEFINE k == 4 + j
    <3>1. k \in 1 .. Len(piece) /\ p + k - 1 = p + 4 + j - 1
      BY <1>1, <1>2, <1>7
    <3>2. piece[k] = f[j]
      BY <1>7
    <3> HIDE DEF k
    <3> QED
      BY <1>1, <3>1, <3>2
  <2>4. 1 \in 1 .. Len(piece) /\ 2 \in 1 .. Len(piece) /\ 3 \in 1 .. Len(piece) /\ 4 \in 1 .. Len(piece)
    BY <1>2, <1>7
  <2>5. e.at[i + 1] = p + 4 + 2 * len
    BY <1>1, <1>2, <1>7
  <2> QED
    BY <1>7, <2>1, <2>2, <2>3, <2>4, <2>5
<1>9. Fetch(e.bytes, p) = [opcode |-> c, operands |-> <<r>> \o part, next |-> <<p + 1 + (3 + 2 * nup)>>]
  <2> HIDE DEF p, c, h, nup
  <2> QED
    BY <1>6, <1>8 DEF Fetch, Jumps, SlotOps
<1>10. /\ ReadAsCompiled(chunk, e, i) <=>
             <<r>> \o part = <<v>> \o g /\ p + 1 + (3 + 2 * nup) = e.at[i + 1]
       /\ FitsIn(chunk, e.at, i) <=>
             /\ \A k \in DOMAIN Limits(ins) \cap DOMAIN (<<v>> \o g) : (<<v>> \o g)[k] < Limits(ins)[k]
             /\ len < Byte
  <2> DEFINE s == <<r>> \o part
             t == <<v>> \o g
             n == p + 1 + (3 + 2 * nup)
  <2>1. /\ Fetch(e.bytes, e.at[i]) = [opcode |-> Opcode(chunk.constants, chunk.code[i]),
                                      operands |-> s, next |-> <<n>>]
        /\ t = OperandValues(chunk.constants, chunk.code[i]) /\ chunk.code[i].op \notin Jumps
    BY <1>6, <1>9
  <2> HIDE DEF s, t, n
  <2>2. /\ ReadAsCompiled(chunk, e, i) <=> s = t /\ n = e.at[i + 1]
        /\ FitsIn(chunk, e.at, i) <=>
              /\ \A k \in DOMAIN Limits(chunk.code[i]) \cap DOMAIN t : t[k] < Limits(chunk.code[i])[k]
              /\ Len(chunk.code[i].caps) < Byte
    BY <2>1, Straight
  <2> QED
    BY <2>2 DEF s, t, n
<1>11. CASE ~(len < Byte)
  <2>1. nup # len
    BY <1>5, <1>11
  <2>2. p + 1 + (3 + 2 * nup) # e.at[i + 1]
    <3> HIDE DEF p, nup, len
    <3> QED
      BY <1>1, <1>2, <1>5, <1>8, <2>1
  <2> QED
    BY <1>10, <1>11, <2>2
<1>12. CASE len < Byte
  <2>1. nup = len
    BY <1>5, <1>12
  <2>2. p + 1 + (3 + 2 * nup) = e.at[i + 1]
    <3> HIDE DEF p, nup, len
    <3> QED
      BY <1>1, <1>2, <1>5, <1>8, <2>1
  <2>3. part = f
    <3> DEFINE a == p + 4
    <3>1. a \in Nat \ {0}
      BY <1>1
    <3>2. f \in Seq(T)
      <4> HIDE DEF f, T
      <4> QED
        BY <1>3, <1>4, SeqMonotonic
    <3>3. \A j \in 1 .. Len(f) : a + j - 1 \in 1 .. Len(e.bytes) /\ e.bytes[a + j - 1] = f[j]
      <4> HIDE DEF f, len, p
      <4> QED
        BY <1>3, <1>8
    <3>4. a + Len(f) - 1 = p + 3 + 2 * nup
      <4> HIDE DEF f, len, p, nup
      <4> QED
        BY <1>1, <1>2, <1>3, <2>1
    <3> HIDE DEF a, f, T
    <3>5. SubSeq(e.bytes, a, a + Len(f) - 1) = f
      BY <1>1, <3>1, <3>2, <3>3, PartIs
    <3> HIDE DEF p, nup
    <3> QED
      BY <3>4, <3>5 DEF a
  <2>4. ReadAsCompiled(chunk, e, i) <=> r = v /\ \A j \in 1 .. 2 * len : f[j] = g[j]
    <3>1. r \in Nat
      <4> DEFINE x == h[1]
                 y == h[2]
      <4>1. x \in Nat /\ y \in Nat
        BY <1>5
      <4> HIDE DEF x, y
      <4>2. Joined(x, y) \in Nat
        BY <4>1, ByteIsEven DEF Joined
      <4> QED
        BY <4>2 DEF x, y
    <3>2. ReadAsCompiled(chunk, e, i) <=> <<r>> \o f = <<v>> \o g
      BY <1>10, <2>2, <2>3
    <3> HIDE DEF r, f, g, len
    <3>3. <<r>> \o f = <<v>> \o g <=> r = v /\ \A j \in 1 .. Len(f) : f[j] = g[j]
      <4> DEFINE N == Nat
      <4>1. r \in N /\ v \in N /\ f \in Seq(N) /\ g \in Seq(N) /\ Len(f) = Len(g)
        BY <1>2, <1>3, <3>1
      <4> DEFINE A == <<r>> \o f
                 B == <<v>> \o g
      <4> HIDE DEF N
      <4>2. /\ A[1] = r /\ \A j \in 1 .. Len(f) : A[j + 1] = f[j]
            /\ B[1] = v /\ \A j \in 1 .. Len(g) : B[j + 1] = g[j]
        BY <4>1, Behind
      <4>3. (\A j \in 1 .. Len(f) : f[j] = g[j]) => f = g
        BY <4>1, SeqEqual
      <4>4. r = v /\ f = g => A = B
        OBVIOUS
      <4> HIDE DEF A, B
      <4>5. A = B <=> r = v /\ \A j \in 1 .. Len(f) : f[j] = g[j]
        BY <4>1, <4>2, <4>3, <4>4
      <4> QED
        BY <4>5 DEF A, B
    <3> QED
      BY <1>3, <3>2, <3>3
  <2>5. FitsIn(chunk, e.at, i) <=> v < Word /\ \A j \in 1 .. 2 * len : g[j] < Byte
    <3> DEFINE s == <<v>> \o g
               b == [k \in 1 .. 2 * len |-> Byte]
               t == <<Word>> \o b
               m == 2 * len
    <3>1. b \in Seq(Nat) /\ Len(b) = m /\ \A j \in 1 .. m : b[j] = Byte
      <4>1. b \in [1 .. m -> Nat] /\ m \in Nat
        BY <1>2, ByteIsEven
      <4> HIDE DEF m, b
      <4>2. b \in Seq(Nat) /\ Len(b) = m
        BY <4>1, SeqDef, LenProperties
      <4>3. \A j \in 1 .. m : b[j] = Byte
        BY DEF m, b
      <4> QED
        BY <4>2, <4>3
    <3> HIDE DEF g, b, len
    <3>2. s \in Seq(Nat) /\ Len(s) = m + 1 /\ s[1] = v /\ \A j \in 1 .. m : s[j + 1] = g[j]
      <4>1. v \in Nat /\ g \in Seq(Nat) /\ Len(g) = m
        BY <1>2, <1>3
      <4> HIDE DEF m
      <4>2. Len(s) = Len(g) + 1 /\ s \in Seq(Nat) /\ s[1] = v
            /\ \A j \in 1 .. Len(g) : s[j + 1] = g[j]
        BY <4>1, Behind
      <4> HIDE DEF s
      <4> QED
        BY <4>1, <4>2
    <3>3. t \in Seq(Nat) /\ Len(t) = m + 1 /\ t[1] = Word /\ \A j \in 1 .. m : t[j + 1] = Byte
      <4>1. Len(t) = Len(b) + 1 /\ t \in Seq(Nat) /\ t[1] = Word
            /\ \A j \in 1 .. Len(b) : t[j + 1] = b[j]
        BY <3>1, WordIsEven, Behind
      <4> HIDE DEF t
      <4> QED
        BY <3>1, <4>1
    <3>4. FitsIn(chunk, e.at, i) <=> \A k \in DOMAIN t \cap DOMAIN s : s[k] < t[k]
      BY <1>6, <1>10, <1>12 DEF b
    <3> HIDE DEF s, t
    <3>5. DOMAIN s = 1 .. m + 1 /\ DOMAIN t = 1 .. m + 1 /\ m \in Nat
      BY <1>2, <3>2, <3>3, LenProperties
    <3> HIDE DEF m
    <3>6. (\A k \in 1 .. m + 1 : s[k] < t[k]) <=> v < Word /\ \A j \in 1 .. m : g[j] < Byte
      <4>1. ASSUME \A k \in 1 .. m + 1 : s[k] < t[k]
            PROVE  v < Word /\ \A j \in 1 .. m : g[j] < Byte
        <5>1. 1 \in 1 .. m + 1 /\ \A j \in 1 .. m : j + 1 \in 1 .. m + 1
          BY <3>5
        <5> QED
          BY <3>2, <3>3, <4>1, <5>1
      <4>2. ASSUME v < Word, \A j \in 1 .. m : g[j] < Byte, NEW k \in 1 .. m + 1
            PROVE  s[k] < t[k]
        <5>1. CASE k = 1
          BY <3>2, <3>3, <4>2, <5>1
        <5>2. CASE k # 1
          <6> DEFINE j == k - 1
          <6>1. j \in 1 .. m /\ j + 1 = k
            BY <3>5, <5>2
          <6> HIDE DEF j
          <6>2. s[j + 1] = g[j] /\ t[j + 1] = Byte /\ g[j] < Byte
            BY <3>2, <3>3, <4>2, <6>1
          <6> QED
            BY <6>1, <6>2
        <5> QED
          BY <5>1, <5>2
      <4> QED
        BY <4>1, <4>2
    <3> QED
      BY <3>4, <3>5, <3>6 DEF m
  <2>6. \A j \in 1 .. 2 * len : f[j] = g[j] <=> g[j] < Byte
    <3> HIDE DEF f, g, len
    <3>1. \A j \in 1 .. 2 * len : g[j] \in Nat
      BY <1>2, <1>3, ElementOfSeq
    <3> QED
      BY <1>3, <3>1, ByteHolds
  <2>7. r = v <=> v < Word
    BY <1>2, WordHolds
  <2> HIDE DEF r, f, g, len
  <2> QED
    BY <2>4, <2>5, <2>6, <2>7
<1> QED
  BY <1>11, <1>12

\* Each kind of instruction.
LEMMA InstructionReadsBack ==
    ASSUME NEW chunk, NEW e, NEW i, Placed(chunk, e, i)
    PROVE  ReadAsCompiled(chunk, e, i) <=> FitsIn(chunk, e.at, i)
<1> DEFINE ins == chunk.code[i]
<1>1. CASE ins.op \in Jumps
  BY <1>1, JumpDistance
<1>2. CASE ins.op \in SlotOps \cup {"CALL_CLOSURE"}
  BY <1>2, ByteOperand
<1>3. CASE IsWordOp(chunk.constants, ins)
  BY <1>3, WordOperand
<1>4. CASE ins.op = "CALL"
  BY <1>4, CallOperands
<1>5. CASE ins.op = "EXN_IS_PRIM"
  BY <1>5, TagOperand
<1>6. CASE ins.op = "CLOSURE" /\ ins.kind # "void"
  BY <1>6, ClosureOperands
<1>7. CASE NoOperand(chunk.constants, ins)
  BY <1>7, NoOperands
<1>8. \/ ins.op \in Jumps \/ ins.op \in SlotOps \cup {"CALL_CLOSURE"}
      \/ IsWordOp(chunk.constants, ins) \/ ins.op = "CALL" \/ ins.op = "EXN_IS_PRIM"
      \/ (ins.op = "CLOSURE" /\ ins.kind # "void") \/ NoOperand(chunk.constants, ins)
  BY DEF IsWordOp, NoOperand
<1> QED
  BY <1>1, <1>2, <1>3, <1>4, <1>5, <1>6, <1>7, <1>8

-----------------------------------------------------------------------------
(* The code of a chunk *)

\* The operands of an instruction are bytes.
LEMMA OperandsType ==
    ASSUME NEW chunk, Compilable(chunk), NEW i \in DOMAIN chunk.code
    PROVE  Operands(chunk.constants, chunk.code[i]) \in Seq(Nat \cup STRING)
<1> DEFINE ins == chunk.code[i]
           o == Operands(chunk.constants, ins)
           N == Nat \cup STRING
<1>0. /\ ins.kind \in STRING /\ ins.a \in Nat /\ ins.b \in Nat
      /\ ins.caps \in Seq([isLocal : BOOLEAN, idx : Nat \ {0}])
      /\ ins.op \in SlotOps \cup {"CALL", "CLOSURE", "STRUCT_NEW"} => ins.a - 1 \in Nat
  BY Compiled
<1>1. \A n \in Nat : U8(n) \in Nat /\ Halves(n) \in Seq(Nat)
  <2> SUFFICES ASSUME NEW n \in Nat PROVE U8(n) \in Nat /\ Halves(n) \in Seq(Nat)
    OBVIOUS
  <2>1. U8(n) \in 0 .. Byte - 1
    BY ByteHolds
  <2>2. Halves(n)[1] \in Nat /\ Halves(n)[2] \in Nat /\ Halves(n) = <<Halves(n)[1], Halves(n)[2]>>
    BY WordHolds DEF Halves
  <2> DEFINE x == Halves(n)[1]
             y == Halves(n)[2]
  <2>3. Halves(n) = <<x, y>> /\ x \in Nat /\ y \in Nat
    BY <2>2
  <2> HIDE DEF x, y
  <2> QED
    BY <2>1, <2>3, ByteIsEven
<1> SUFFICES o \in Seq(N)
  OBVIOUS
<1> HIDE DEF ins
<1>2. CASE ins.op \in Jumps
  <2>1. o = <<0, 0>>
    BY <1>2 DEF Operands, Jumps, SlotOps
  <2> QED
    BY <2>1
<1>3. CASE ins.op \in SlotOps
  <2>1. o = <<U8(ins.a - 1)>> /\ U8(ins.a - 1) \in Nat
    BY <1>0, <1>1, <1>3 DEF Operands, Jumps, SlotOps
  <2> QED
    BY <2>1
<1>4. CASE IsWordOp(chunk.constants, ins)
  <2>1. \/ o = Halves(PoolIndex(chunk.constants, ins.a)) \/ o = Halves(ins.a)
        \/ (o = Halves(ins.a - 1) /\ ins.op \in {"STRUCT_NEW", "CLOSURE"})
    BY <1>4 DEF Operands, Jumps, SlotOps, IsWordOp
  <2>2. PoolIndex(chunk.constants, ins.a) \in Nat
    BY <1>0, PoolIndexIsNat
  <2>3. o \in Seq(Nat)
    BY <1>0, <1>1, <2>1, <2>2
  <2>4. Nat \subseteq N
    OBVIOUS
  <2> HIDE DEF o, N
  <2> QED
    BY <2>3, <2>4, SeqMonotonic
<1>5. CASE ins.op = "CALL"
  <2>1. o = Halves(ins.a - 1) \o <<U8(ins.b)>>
    BY <1>5 DEF Operands, Jumps, SlotOps
  <2> DEFINE h == Halves(ins.a - 1)
             u == U8(ins.b)
  <2>2. h \in Seq(Nat) /\ u \in Nat
    BY <1>0, <1>1, <1>5
  <2> HIDE DEF h, u
  <2>3. h \in Seq(N) /\ u \in N
    <3>1. Nat \subseteq N
      OBVIOUS
    <3> HIDE DEF N
    <3> QED
      BY <2>2, <3>1, SeqMonotonic
  <2>4. h \o <<u>> \in Seq(N)
    BY <2>3
  <2> QED
    BY <2>1, <2>4 DEF h, u
<1>6. CASE ins.op = "EXN_IS_PRIM"
  <2>1. o = <<ins.kind>>
    BY <1>6 DEF Operands, Jumps, SlotOps
  <2> QED
    BY <1>0, <2>1
<1>7. CASE ins.op = "CALL_CLOSURE"
  <2>1. o = <<U8(ins.b)>> /\ U8(ins.b) \in Nat
    BY <1>0, <1>1, <1>7 DEF Operands, Jumps, SlotOps
  <2> QED
    BY <2>1
<1>8. CASE ins.op = "CLOSURE" /\ ins.kind # "void"
  <2> DEFINE h == Halves(ins.a - 1)
             u == U8(Len(ins.caps))
             f == WrittenCaps(ins.caps)
  <2>1. o = (h \o <<u>>) \o f
    BY <1>8 DEF Operands, Jumps, SlotOps, WrittenCaps, Bit
  <2>2. h \in Seq(Nat) /\ u \in Nat /\ f \in Seq(Nat)
    BY <1>0, <1>1, <1>8, Captures, LenProperties
  <2> HIDE DEF h, u, f
  <2>3. (h \o <<u>>) \o f \in Seq(Nat)
    BY <2>2
  <2>4. o \in Seq(Nat) /\ Nat \subseteq N
    BY <2>1, <2>3
  <2> HIDE DEF o, N
  <2> QED
    BY <2>4, SeqMonotonic
<1>9. CASE NoOperand(chunk.constants, ins)
  <2>1. o = <<>>
    BY <1>9 DEF Operands, NoOperand, Jumps, SlotOps
  <2> QED
    BY <2>1
<1>10. \/ ins.op \in Jumps \/ ins.op \in SlotOps \/ ins.op = "CALL_CLOSURE"
       \/ IsWordOp(chunk.constants, ins) \/ ins.op = "CALL" \/ ins.op = "EXN_IS_PRIM"
       \/ (ins.op = "CLOSURE" /\ ins.kind # "void") \/ NoOperand(chunk.constants, ins)
  BY DEF IsWordOp, NoOperand
<1> QED
  BY <1>2, <1>3, <1>4, <1>5, <1>6, <1>7, <1>8, <1>9, <1>10

\* What is emitted for an instruction.
LEMMA EmittedType ==
    ASSUME NEW chunk, Compilable(chunk)
    PROVE  /\ Emitted(chunk) \in Seq(Seq(CodeBytes(chunk)))
           /\ Len(Emitted(chunk)) = Len(chunk.code)
<1> DEFINE T == CodeBytes(chunk)
           em == Emitted(chunk)
           n == Len(chunk.code)
<1>1. n \in Nat /\ DOMAIN chunk.code = 1 .. n
  BY LenProperties DEF Compilable
<1>2. ASSUME NEW i \in 1 .. n
      PROVE  em[i] \in Seq(T)
  <2> DEFINE ins == chunk.code[i]
             c == Opcode(chunk.constants, ins)
             o == Operands(chunk.constants, ins)
             N == Nat \cup STRING
  <2>1. em[i] = <<c>> \o o
    BY <1>1 DEF Emitted
  <2>2. c \in T
    BY <1>1 DEF CodeBytes
  <2>3. o \in Seq(N)
    BY <1>1, OperandsType
  <2>4. N \subseteq T
    BY DEF CodeBytes
  <2>5. o \in Seq(T)
    <3> HIDE DEF N, T, o
    <3> QED
      BY <2>3, <2>4, SeqMonotonic
  <2> HIDE DEF em, c, o, T
  <2> QED
    BY <2>1, <2>2, <2>5, Behind
<1>3. em = [i \in 1 .. n |-> em[i]]
  BY <1>1 DEF Emitted
<1> HIDE DEF em, T, n
<1>4. em \in [1 .. n -> Seq(T)]
  BY <1>2, <1>3
<1>5. em \in Seq(Seq(T)) /\ Len(em) = n
  BY <1>1, <1>4, SeqDef, LenProperties
<1> QED
  BY <1>5 DEF em, T, n

\* Patching keeps the lengths.
LEMMA PatchedType ==
    ASSUME NEW chunk, Compilable(chunk), NEW at \in [1 .. Len(chunk.code) + 1 -> Nat \ {0}]
    PROVE  LET em == Emitted(chunk)
               pa == Patched(chunk.code, em, at)
           IN /\ pa \in Seq(Seq(CodeBytes(chunk))) /\ Len(pa) = Len(em)
              /\ \A i \in 1 .. Len(em) : Len(em[i]) = Len(pa[i])
<1> DEFINE T == CodeBytes(chunk)
           em == Emitted(chunk)
           pa == Patched(chunk.code, em, at)
           n == Len(chunk.code)
<1>1. n \in Nat /\ DOMAIN chunk.code = 1 .. n
  BY LenProperties DEF Compilable
<1>2. em \in Seq(Seq(T)) /\ Len(em) = n
  BY EmittedType
<1>3. ASSUME NEW i \in 1 .. n
      PROVE  em[i] \in Seq(T) /\ pa[i] \in Seq(T) /\ Len(em[i]) = Len(pa[i])
  <2> DEFINE ins == chunk.code[i]
             c == Opcode(chunk.constants, ins)
             d == Displacement(at, i, ins.a)
             h == Halves(U16(d))
  <2>1. em[i] \in Seq(T)
    BY <1>2, ElementOfSeq
  <2>2. CASE ins.op \notin Jumps
    <3>1. pa[i] = em[i]
      BY <1>1, <2>2 DEF Patched
    <3> QED
      BY <2>1, <3>1
  <2>3. CASE ins.op \in Jumps
    <3>1. pa[i] = <<c>> \o h
      BY <1>1, <2>3, Piece
    <3>2. em[i] = <<c, 0, 0>>
      <4>1. em[i] = <<c>> \o Operands(chunk.constants, ins)
        BY <1>1 DEF Emitted
      <4>2. Operands(chunk.constants, ins) = <<0, 0>>
        BY <2>3 DEF Operands, Jumps, SlotOps
      <4>3. em[i] = <<c>> \o <<0, 0>>
        BY <4>1, <4>2
      <4> HIDE DEF em, c
      <4> QED
        BY <4>3, Short
    <3>3. c \in T /\ Nat \subseteq T
      BY <1>1 DEF CodeBytes
    <3>4. d \in Int
      <4>1. i \in 1 .. n + 1 /\ ins.a \in 1 .. n + 1
        BY <1>1, <2>3, Compiled
      <4>2. at[i] \in Nat /\ at[ins.a] \in Nat
        BY <4>1
      <4> QED
        BY <4>2 DEF Displacement
    <3>5. U16(d) \in Nat
      <4> HIDE DEF d
      <4>1. d % Word \in 0 .. Word - 1
        BY <3>4, WordIsEven, DivMod
      <4> QED
        BY <4>1, WordIsEven DEF U16
    <3> DEFINE x == h[1]
               y == h[2]
    <3>6. h = <<x, y>> /\ x \in Nat /\ y \in Nat
      <4> DEFINE u == U16(d)
      <4>1. u \in Nat
        BY <3>5
      <4> HIDE DEF u
      <4>2. Halves(u)[1] \in Nat /\ Halves(u)[2] \in Nat /\ Halves(u) = <<Halves(u)[1], Halves(u)[2]>>
        BY <4>1, WordHolds DEF Halves
      <4> QED
        BY <4>2 DEF u
    <3> HIDE DEF em, pa, c, h, T, x, y
    <3>7. pa[i] = <<c, x, y>>
      BY <3>1, <3>6, Short
    <3>8. x \in T /\ y \in T
      BY <3>3, <3>6
    <3>9. <<c, x, y>> \in Seq(T) /\ Len(<<c, x, y>>) = 3 /\ Len(<<c, 0, 0>>) = 3
      BY <3>3, <3>8
    <3> QED
      BY <2>1, <3>2, <3>7, <3>9
  <2> QED
    BY <2>2, <2>3
<1>4. pa = [i \in 1 .. n |-> pa[i]]
  BY <1>1 DEF Patched
<1> HIDE DEF em, pa, T, n
<1>5. pa \in Seq(Seq(T)) /\ Len(pa) = n
  <2>1. pa \in [1 .. n -> Seq(T)]
    BY <1>3, <1>4
  <2> QED
    BY <1>1, <2>1, SeqDef, LenProperties
<1> QED
  BY <1>2, <1>3, <1>5 DEF em, pa, T

\* Every instruction of a chunk is in its bytes.
LEMMA AllPlaced ==
    ASSUME NEW chunk, Compilable(chunk), NEW i \in DOMAIN chunk.code
    PROVE  Placed(chunk, Encode(chunk), i)
<1> DEFINE T == CodeBytes(chunk)
           em == Emitted(chunk)
           at == Addresses(em)
           pa == Patched(chunk.code, em, at)
           n == Len(chunk.code)
           e == Encode(chunk)
           a == chunk.code[i].a
<1>1. /\ n \in Nat /\ DOMAIN chunk.code = 1 .. n /\ i \in 1 .. n /\ i \in 1 .. n + 1
      /\ chunk.code[i].op \in Jumps => a \in 1 .. n + 1
  BY Compiled, LenProperties DEF Compilable
<1>2. em \in Seq(Seq(T)) /\ Len(em) = n
  BY EmittedType
<1>3. at \in [1 .. n + 1 -> Nat \ {0}]
  <2> HIDE DEF em
  <2>1. at \in [1 .. Len(em) + 1 -> Nat \ {0}]
    BY <1>2, LaidOut
  <2> QED
    BY <1>2, <2>1
<1>4. pa \in Seq(Seq(T)) /\ Len(pa) = n /\ \A j \in 1 .. n : Len(em[j]) = Len(pa[j])
  <2> HIDE DEF at
  <2> QED
    BY <1>2, <1>3, PatchedType
<1>5. e.bytes = FlattenSeq(pa) /\ e.at = at
  BY DEF Encode
<1> HIDE DEF em, pa, T, n, e
<1>6. Addresses(pa) = at
  BY <1>2, <1>4, SameAddresses
<1> HIDE DEF at
<1>7. /\ e.bytes \in Seq(T) /\ at[i + 1] = at[i] + Len(pa[i])
      /\ \A k \in 1 .. Len(pa[i]) : /\ at[i] + k - 1 \in 1 .. Len(e.bytes)
                                   /\ e.bytes[at[i] + k - 1] = pa[i][k]
  <2>1. /\ FlattenSeq(pa) \in Seq(T)
        /\ \A j \in 1 .. Len(pa) :
              /\ Addresses(pa)[j + 1] = Addresses(pa)[j] + Len(pa[j])
              /\ \A k \in 1 .. Len(pa[j]) :
                    /\ Addresses(pa)[j] + k - 1 \in 1 .. Len(FlattenSeq(pa))
                    /\ FlattenSeq(pa)[Addresses(pa)[j] + k - 1] = pa[j][k]
    BY <1>4, LaidOut
  <2> QED
    BY <1>1, <1>4, <1>5, <1>6, <2>1
<1>8. at[i] \in Nat \ {0} /\ (chunk.code[i].op \in Jumps => at[a] \in Nat)
  BY <1>1, <1>3
<1>9. Patched(chunk.code, Emitted(chunk), e.at)[i] = pa[i]
  BY <1>5 DEF pa, em
<1> QED
  BY <1>5, <1>7, <1>8, <1>9 DEF Placed, T, e

\* Whatever code compile.c emits, the machine reads it as it was compiled exactly
\* if its distances, slots, indices and numbers fit in their bytes: nothing else
\* is lost between chunk_emit_u8 .. chunk_patch_u16 and the reads of vm.c.
THEOREM CodeReadsBack ==
    ASSUME NEW chunk, Compilable(chunk)
    PROVE  ReadsBack(chunk) <=> Fits(chunk)
<1> DEFINE e == Encode(chunk)
<1>1. e.at = Addresses(Emitted(chunk))
  BY DEF Encode
<1>2. \A i \in DOMAIN chunk.code : ReadAsCompiled(chunk, e, i) <=> FitsIn(chunk, e.at, i)
  <2> SUFFICES ASSUME NEW i \in DOMAIN chunk.code
               PROVE  ReadAsCompiled(chunk, e, i) <=> FitsIn(chunk, e.at, i)
    OBVIOUS
  <2>1. Placed(chunk, e, i)
    BY AllPlaced
  <2> HIDE DEF e
  <2> QED
    BY <2>1, InstructionReadsBack
<1> HIDE DEF e
<1>3. ReadsBack(chunk) <=> \A i \in DOMAIN chunk.code : ReadAsCompiled(chunk, e, i)
  BY DEF ReadsBack, e
<1>4. Fits(chunk) <=> \A i \in DOMAIN chunk.code : FitsIn(chunk, e.at, i)
  BY <1>1 DEF Fits
<1> QED
  BY <1>2, <1>3, <1>4

=============================================================================
