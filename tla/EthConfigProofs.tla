-------------------------- MODULE EthConfigProofs --------------------------
(* What holds of discovery and configuration for any number of callers and   *)
(* devices, any calls and any loss, delay and order of the packets: that a   *)
(* configuration arrives and is reported as it was asked for, that the       *)
(* result of set_config is true, and that every entry of a list is of one    *)
(* device. First come facts about the data: the checksum, the netmask, the   *)
(* packet and the sort. Then comes the inductive invariant, in two parts:    *)
(* BaseInv /\ SetInv for set_config, ListInv for the lists on top of it.     *)
EXTENDS EthConfig, ListsProofs


-----------------------------------------------------------------------------
(* A total is the last of the sums of the first words.                       *)
LEMMA TotalIsLastSum ==
  ASSUME NEW n \in Nat, NEW words \in [1 .. n -> Nat]
  PROVE  \E g \in [0 .. n -> Nat] :
           g[0] = 0 /\ (\A i \in 1 .. n : g[i] = g[i - 1] + words[i]) /\ Total(words) = g[n]
<1> DEFINE F == [p \in Nat \X (1 .. n) |-> p[1] + words[p[2]]]
           IsSum(g) == g = [i \in 0 .. Len(words) |-> IF i = 0 THEN 0 ELSE g[i - 1] + words[i]]
           sum == CHOOSE g : IsSum(g)
<1>0. Len(words) = n
  BY FunctionIsSeq
<1>1. \A s \in Nat, i \in 1 .. n : F[<<s, i>>] = s + words[i] /\ F[<<s, i>>] \in Nat
  OBVIOUS
<1>2. PICK h \in [0 .. n -> Nat] : h[0] = 0 /\ \A i \in 1 .. n : h[i] = F[<<h[i - 1], i>>]
  <2> HIDE DEF F
  <2>1. Iterable(F, Nat, n) /\ 0 \in Nat
    BY <1>1 DEF Iterable
  <2>2. \E h \in [0 .. n -> Nat] : Iterates(h, F, 0, n)
    BY <2>1, IterationExists, Zenon
  <2> QED
    BY <2>2 DEF Iterates
<1>3. IsSum(h)
  <2> HIDE DEF F
  <2>1. \A i \in 1 .. n : h[i] = h[i - 1] + words[i]
    <3> TAKE i \in 1 .. n
    <3>1. h[i - 1] \in Nat
      BY <1>2
    <3> QED
      BY <1>1, <1>2, <3>1
  <2>2. \A i \in 0 .. n : h[i] = IF i = 0 THEN 0 ELSE h[i - 1] + words[i]
    BY <1>2, <2>1
  <2> QED
    BY <1>0, <2>2
<1>4. IsSum(sum)
  BY <1>3
<1>5. sum[0] = 0 /\ \A i \in 1 .. n : sum[i] = sum[i - 1] + words[i]
  <2>1. \A i \in 0 .. n : sum[i] = IF i = 0 THEN 0 ELSE sum[i - 1] + words[i]
    BY <1>0, <1>4
  <2> HIDE DEF sum
  <2> QED
    BY <2>1
<1>6. DOMAIN sum = 0 .. n
  BY <1>0, <1>4
<1>7. Total(words) = sum[n]
  BY <1>0, Zenon DEF Total
<1>8. sum \in [0 .. n -> Nat]
  <2> DEFINE T == {m \in Nat : m <= n => sum[m] \in Nat}
  <2> HIDE DEF sum
  <2>1. 0 \in T
    BY <1>5
  <2>2. \A m \in Nat : m \in T => m + 1 \in T
    <3> SUFFICES ASSUME NEW m \in Nat, m \in T, m + 1 <= n PROVE sum[m + 1] \in Nat
      OBVIOUS
    <3>1. m + 1 \in 1 .. n /\ m + 1 - 1 = m /\ sum[m] \in Nat
      OBVIOUS
    <3> QED
      BY <1>5, <3>1
  <2> HIDE DEF T
  <2>3. \A m \in Nat : m \in T
    BY <2>1, <2>2, NatSetInduction
  <2>4. \A m \in 0 .. n : sum[m] \in Nat
    BY <2>3 DEF T
  <2>5. sum = [i \in 0 .. n |-> sum[i]]
    BY <1>0, <1>4 DEF sum
  <2> QED
    BY <2>4, <2>5
<1> HIDE DEF sum
<1> QED
  BY <1>5, <1>7, <1>8

-----------------------------------------------------------------------------
(* What holds of a sum of no words, and of the next sum when it holds of     *)
(* one, holds of the total.                                                  *)
LEMMA TotalInduction ==
  ASSUME NEW n \in Nat, NEW T, 0 \in T, \A m \in Nat : m \in T /\ m + 1 <= n => m + 1 \in T
  PROVE  n \in T
<1> DEFINE U == {m \in Nat : m <= n => m \in T}
<1>1. 0 \in U
  OBVIOUS
<1>2. \A m \in Nat : m \in U => m + 1 \in U
  OBVIOUS
<1> HIDE DEF U
<1>3. n \in U
  BY <1>1, <1>2, NatSetInduction
<1> QED
  BY <1>3 DEF U

(* A total of natural numbers is one.                                        *)
LEMMA TotalIsNat ==
  ASSUME NEW n \in Nat, NEW words \in [1 .. n -> Nat]
  PROVE  Total(words) \in Nat
<1>1. PICK g \in [0 .. n -> Nat] : Total(words) = g[n]
  BY TotalIsLastSum
<1> QED
  BY <1>1

(* The words of z have the bytes x and y.                                    *)
Composed(n, z, x, y) == \A i \in 1 .. n : z[i] = x[i] + 256 * y[i]
Compose(t, low, high) == t = low + 256 * high

(* The total of such words is composed of the totals of their bytes.         *)
LEMMA TotalOfComposed ==
  ASSUME NEW n \in Nat, NEW x \in [1 .. n -> Nat], NEW y \in [1 .. n -> Nat], NEW z \in [1 .. n -> Nat],
         Composed(n, z, x, y)
  PROVE  Compose(Total(z), Total(x), Total(y))
<1>0. \A i \in 1 .. n : z[i] = x[i] + 256 * y[i]
  BY DEF Composed
<1>1. PICK f \in [0 .. n -> Nat] : f[0] = 0 /\ (\A i \in 1 .. n : f[i] = f[i - 1] + x[i]) /\ Total(x) = f[n]
  BY TotalIsLastSum
<1>2. PICK g \in [0 .. n -> Nat] : g[0] = 0 /\ (\A i \in 1 .. n : g[i] = g[i - 1] + y[i]) /\ Total(y) = g[n]
  BY TotalIsLastSum
<1>3. PICK h \in [0 .. n -> Nat] : h[0] = 0 /\ (\A i \in 1 .. n : h[i] = h[i - 1] + z[i]) /\ Total(z) = h[n]
  BY TotalIsLastSum
<1> DEFINE T == {m \in 0 .. n : h[m] = f[m] + 256 * g[m]}
<1>4. 0 \in T
  BY <1>1, <1>2, <1>3
<1>5. ASSUME NEW m \in Nat, m \in T, m + 1 <= n PROVE m + 1 \in T
  <2>1. m + 1 \in 1 .. n /\ m + 1 - 1 = m /\ m \in 0 .. n /\ m + 1 \in 0 .. n
    BY <1>5
  <2>2. f[m] \in Nat /\ g[m] \in Nat /\ x[m + 1] \in Nat /\ y[m + 1] \in Nat
    BY <2>1
  <2>3. f[m + 1] = f[m] + x[m + 1]
    BY <1>1, <2>1
  <2>4. g[m + 1] = g[m] + y[m + 1]
    BY <1>2, <2>1
  <2>5. h[m + 1] = h[m] + z[m + 1]
    BY <1>3, <2>1
  <2>6. z[m + 1] = x[m + 1] + 256 * y[m + 1]
    BY <1>0, <2>1
  <2>7. h[m] = f[m] + 256 * g[m]
    BY <1>5
  <2>8. h[m + 1] = f[m + 1] + 256 * g[m + 1]
    <3>1. PICK a \in Nat, b \in Nat, c \in Nat, d \in Nat :
            a = f[m] /\ b = g[m] /\ c = x[m + 1] /\ d = y[m + 1]
      BY <2>2
    <3>2. f[m + 1] = a + c /\ g[m + 1] = b + d /\ h[m + 1] = (a + 256 * b) + (c + 256 * d)
      BY <2>3, <2>4, <2>5, <2>6, <2>7, <3>1
    <3>3. (a + 256 * b) + (c + 256 * d) = (a + c) + 256 * (b + d)
      OBVIOUS
    <3> QED
      BY <3>2, <3>3
  <2> QED
    BY <2>1, <2>8
<1>6. n \in T
  <2> HIDE DEF T
  <2> QED
    BY <1>4, <1>5, TotalInduction
<1> QED
  BY <1>1, <1>2, <1>3, <1>6 DEF Compose

(* One word more adds to the total.                                          *)
LEMMA TotalOfOneMore ==
  ASSUME NEW n \in Nat, NEW x \in [1 .. n -> Nat], NEW z \in [1 .. n + 1 -> Nat],
         \A i \in 1 .. n : z[i] = x[i]
  PROVE  Total(z) = Total(x) + z[n + 1]
<1>0. n + 1 \in Nat
  OBVIOUS
<1>1. PICK f \in [0 .. n -> Nat] : f[0] = 0 /\ (\A i \in 1 .. n : f[i] = f[i - 1] + x[i]) /\ Total(x) = f[n]
  BY TotalIsLastSum
<1>2. PICK h \in [0 .. n + 1 -> Nat] :
        h[0] = 0 /\ (\A i \in 1 .. n + 1 : h[i] = h[i - 1] + z[i]) /\ Total(z) = h[n + 1]
  BY <1>0, TotalIsLastSum
<1> DEFINE T == {m \in 0 .. n : h[m] = f[m]}
<1>3. 0 \in T
  BY <1>1, <1>2
<1>4. ASSUME NEW m \in Nat, m \in T, m + 1 <= n PROVE m + 1 \in T
  <2>1. m + 1 \in 1 .. n /\ m + 1 \in 1 .. n + 1 /\ m + 1 - 1 = m /\ m + 1 \in 0 .. n
    BY <1>4
  <2>2. f[m + 1] = f[m] + x[m + 1]
    BY <1>1, <2>1
  <2>3. h[m + 1] = h[m] + z[m + 1]
    BY <1>2, <2>1
  <2>4. h[m] = f[m] /\ z[m + 1] = x[m + 1]
    BY <1>4, <2>1
  <2> QED
    BY <2>1, <2>2, <2>3, <2>4
<1>5. n \in T
  <2> HIDE DEF T
  <2> QED
    BY <1>3, <1>4, TotalInduction
<1>6. n + 1 \in 1 .. n + 1 /\ n + 1 - 1 = n
  OBVIOUS
<1>7. h[n + 1] = h[n] + z[n + 1]
  BY <1>2, <1>6
<1> QED
  BY <1>1, <1>2, <1>5, <1>7

AreBytes(n, x) == \A i \in 1 .. n : x[i] <= 255
InBounds(t, first, n) == t <= 255 * n /\ (n > 0 => first <= t)

(* A total of bytes is not below the first of them, and below 256 for each.  *)
LEMMA TotalBounds ==
  ASSUME NEW n \in Nat, NEW x \in [1 .. n -> Nat], AreBytes(n, x)
  PROVE  InBounds(Total(x), x[1], n)
<1>0. \A i \in 1 .. n : x[i] <= 255
  BY DEF AreBytes
<1>1. PICK f \in [0 .. n -> Nat] : f[0] = 0 /\ (\A i \in 1 .. n : f[i] = f[i - 1] + x[i]) /\ Total(x) = f[n]
  BY TotalIsLastSum
<1> DEFINE T == {m \in 0 .. n : f[m] <= 255 * m /\ (m > 0 => x[1] <= f[m])}
<1>2. 0 \in T
  BY <1>1
<1>3. ASSUME NEW m \in Nat, m \in T, m + 1 <= n PROVE m + 1 \in T
  <2>1. m + 1 \in 1 .. n /\ m + 1 - 1 = m /\ m \in 0 .. n /\ m + 1 \in 0 .. n
    BY <1>3
  <2>2. f[m] \in Nat /\ x[m + 1] \in Nat /\ x[m + 1] <= 255
    BY <1>0, <2>1
  <2>3. f[m + 1] = f[m] + x[m + 1]
    BY <1>1, <2>1
  <2>4. f[m] <= 255 * m
    BY <1>3
  <2>a. PICK a \in Nat, c \in Nat : a = f[m] /\ c = x[m + 1] /\ c <= 255
    BY <2>2
  <2>b. f[m + 1] = a + c
    BY <2>3, <2>a
  <2>5. f[m + 1] <= 255 * (m + 1)
    BY <2>4, <2>a, <2>b
  <2>6. x[1] <= f[m + 1]
    <3>1. CASE m = 0
      <4>1. a = 0 /\ c = x[1]
        BY <1>1, <2>a, <3>1
      <4> QED
        BY <2>a, <2>b, <4>1
    <3>2. CASE m > 0
      <4>1. 1 \in 1 .. n
        BY <2>1, <3>2
      <4>2. PICK k \in Nat : k = x[1]
        BY <4>1
      <4>3. k <= a
        BY <1>3, <2>a, <3>2, <4>2
      <4> QED
        BY <2>a, <2>b, <4>2, <4>3, SMTT(30)
    <3> QED
      BY <3>1, <3>2
  <2> QED
    BY <2>1, <2>5, <2>6
<1>4. n \in T
  <2> HIDE DEF T
  <2> QED
    BY <1>2, <1>3, TotalInduction
<1> QED
  BY <1>1, <1>4 DEF InBounds

-----------------------------------------------------------------------------
(* A sum of up to twelve words, not all of them zero.                        *)
FewWords(s) == 0 < s /\ s <= 786420

(* Folding takes a multiple of 65535 away from a sum.                        *)
FoldsTo(s, t, q) == s = 65535 * q + t /\ 65536 * q <= s /\ s < 65536 * (q + 1)
(* What one folding does.                                                    *)
LEMMA FoldOnce ==
  ASSUME NEW s \in Nat
  PROVE  \E t, q \in Nat : t = FoldCarry(s) /\ FoldsTo(s, t, q)
<1>1. PICK q \in Nat : q = s \div 65536
  BY SMT
<1>2. PICK r \in Nat : r = s % 65536
  BY SMT
<1>3. s = 65536 * q + r /\ r < 65536
  BY <1>1, <1>2, SMT
<1>4. PICK t \in Nat : t = r + q
  BY SMT
<1>5. t = FoldCarry(s)
  BY <1>1, <1>2, <1>4, SMT DEF FoldCarry
<1>6. FoldsTo(s, t, q)
  BY <1>3, <1>4, SMT DEF FoldsTo
<1> QED
  BY <1>5, <1>6, SMT

Folded(s, f, q) == 0 < f /\ f <= 65535 /\ s = 65535 * q + f
(* Two foldings bring a sum of a few words into 16 bits.                     *)
LEMMA FoldTwice ==
  ASSUME NEW s \in Nat, FewWords(s)
  PROVE  \E f, q \in Nat : f = FoldCarry(FoldCarry(s)) /\ Folded(s, f, q)
<1>1. PICK t \in Nat, q \in Nat : t = FoldCarry(s) /\ FoldsTo(s, t, q)
  BY FoldOnce, Zenon
<1>2. PICK f \in Nat, p \in Nat : f = FoldCarry(t) /\ FoldsTo(t, f, p)
  BY FoldOnce, Zenon
<1>3. q <= 11 /\ 0 < t /\ t <= 65546
  BY <1>1, SMT DEF FoldsTo, FewWords
<1>4. p <= 1 /\ 0 < f /\ f <= 65535
  BY <1>2, <1>3, SMT DEF FoldsTo
<1>5. s = 65535 * (q + p) + f
  BY <1>1, <1>2, SMT DEF FoldsTo
<1>6. Folded(s, f, q + p)
  BY <1>4, <1>5, SMT DEF Folded
<1>7. f = FoldCarry(FoldCarry(s))
  BY <1>1, <1>2, Zenon
<1>8. q + p \in Nat
  BY SMT
<1> QED
  BY <1>6, <1>7, <1>8, Zenon

(* A sum that is a multiple of 65535 folds to 65535.                         *)
LEMMA MultipleFoldsToOnes ==
  ASSUME NEW m \in Int, NEW s \in Nat, s = 65535 * m, FewWords(s)
  PROVE  FoldCarry(FoldCarry(s)) = 65535
<1>1. PICK f \in Nat, q \in Nat : f = FoldCarry(FoldCarry(s)) /\ Folded(s, f, q)
  BY FoldTwice, SMT
<1>2. m - q = 1
  BY <1>1, SMT DEF Folded, FewWords
<1>3. f = 65535
  BY <1>1, <1>2, SMT DEF Folded
<1> QED
  BY <1>1, <1>3, SMT

Accepted(s) == FoldCarry(FoldCarry(s)) = 65535
SmallSums(low, high) == 0 < low /\ low <= 2805 /\ high <= 2805
IsCheck(low, high, ck, c0, c1) ==
  /\ ck = 65535 - FoldCarry(FoldCarry(low + 256 * high))
  /\ c0 = ck % 256 /\ c1 = ck \div 256
Completes(low, high, c0, c1) ==
  c0 \in 0 .. 255 /\ c1 \in 0 .. 255 /\ Accepted(256 * (low + c0) + (high + c1))

(* The checksum of bytes that were added in one order completes them in the  *)
(* other order: 256 * 256 is 1 modulo 65535.                                 *)
LEMMA SwappedSum ==
  ASSUME NEW low \in Nat, NEW high \in Nat, NEW ck, NEW lo, NEW hi,
         SmallSums(low, high), IsCheck(low, high, ck, lo, hi)
  PROVE  Completes(low, high, lo, hi)
<1> USE DEF Accepted
<1>0. 0 < low /\ low <= 2805 /\ high <= 2805
  BY DEF SmallSums
<1>a. ck = 65535 - FoldCarry(FoldCarry(low + 256 * high)) /\ lo = ck % 256 /\ hi = ck \div 256
  BY SMT DEF IsCheck
<1>1. PICK s \in Nat : s = low + 256 * high
  BY SMT
<1>2. FewWords(s)
  BY <1>0, <1>1, SMT DEF FewWords
<1>3. PICK f \in Nat, q \in Nat : f = FoldCarry(FoldCarry(s)) /\ Folded(s, f, q)
  BY <1>2, FoldTwice, SMT
<1>4. PICK k \in Nat : k = 65535 - f
  BY <1>3, SMT DEF Folded
<1>5. ck = k
  BY <1>a, <1>1, <1>3, <1>4, SMT
<1>6. PICK c0 \in Nat : c0 = k % 256
  BY SMT
<1>7. PICK c1 \in Nat : c1 = k \div 256
  BY SMT
<1>8. k = c0 + 256 * c1 /\ c0 <= 255 /\ c1 <= 255
  <2>1. k <= 65535
    BY <1>4, SMT
  <2> QED
    BY <1>6, <1>7, <2>1, SMT
<1>9. PICK n \in Nat : n = 256 * (low + c0) + (high + c1)
  BY SMT
<1>10. PICK m \in Int : m = 256 * (1 + q) - high - c1
  BY SMT
<1>11. n = 65535 * m
  BY <1>1, <1>3, <1>4, <1>8, <1>9, <1>10, SMT DEF Folded
<1>12. FewWords(n)
  BY <1>0, <1>8, <1>9, SMT DEF FewWords
<1>13. FoldCarry(FoldCarry(n)) = 65535
  BY <1>11, <1>12, MultipleFoldsToOnes, SMT
<1>14. c0 \in 0 .. 255 /\ c1 \in 0 .. 255
  BY <1>8, SMT
<1>15. FoldCarry(FoldCarry(256 * (low + c0) + (high + c1))) = 65535
  BY <1>9, <1>13, SMT
<1>16. lo = c0 /\ hi = c1
  BY <1>a, <1>5, <1>6, <1>7, SMT
<1> QED
  BY <1>14, <1>15, <1>16, SMT DEF Completes

-----------------------------------------------------------------------------
(* Octets are the sequences of bytes.                                        *)
LEMMA OctetFacts ==
  ASSUME NEW n \in Nat, NEW f
  PROVE  f \in Octets(n) <=> f \in Seq(0 .. 255) /\ Len(f) = n
<1> DEFINE B == 0 .. 255
<1>1. f \in Octets(n) <=> f \in [1 .. n -> B]
  BY DEF Octets
<1> SUFFICES f \in [1 .. n -> B] <=> f \in Seq(B) /\ Len(f) = n
  BY <1>1
<1> HIDE DEF B
<1>2. ASSUME f \in [1 .. n -> B] PROVE f \in Seq(B) /\ Len(f) = n
  BY <1>2, FunctionIsSeq
<1>3. ASSUME f \in Seq(B), Len(f) = n PROVE f \in [1 .. n -> B]
  BY <1>3, LenProperties
<1> QED
  BY <1>2, <1>3

(* What a byte is.                                                           *)
LEMMA OctetIsNat ==
  ASSUME NEW n \in Nat, NEW f \in Octets(n), NEW i \in 1 .. n
  PROVE  f[i] \in Nat /\ f[i] <= 255 /\ f[i] \in 0 .. 255
<1>1. f[i] \in 0 .. 255
  BY DEF Octets
<1> QED
  BY <1>1

Checked(w, b, c0, c1) ==
  /\ w \in Octets(24) /\ Len(w) = 24
  /\ \A i \in 1 .. 22 : w[i] = b[i]
  /\ w[23] = c0 /\ w[24] = c1

(* A packet with two bytes more.                                             *)
LEMMA CheckedBytes ==
  ASSUME NEW b \in Octets(22), NEW c0 \in 0 .. 255, NEW c1 \in 0 .. 255
  PROVE  Checked(b \o <<c0, c1>>, b, c0, c1)
<1> DEFINE B == 0 .. 255
           t == <<c0, c1>>
           w == b \o t
<1>1. b \in Seq(B) /\ Len(b) = 22
  BY OctetFacts
<1>2. t \in Seq(B) /\ Len(t) = 2 /\ t[1] = c0 /\ t[2] = c1
  OBVIOUS
<1> HIDE DEF t
<1>3. IsJoin(B, w, b, t)
  <2> HIDE DEF B
  <2> QED
    BY <1>1, <1>2, JoinIsJoin
<1> HIDE DEF w
<1>4. Len(w) = 24 /\ w \in Seq(B)
  BY <1>1, <1>2, <1>3 DEF IsJoin
<1>5. w \in Octets(24)
  BY <1>4, OctetFacts
<1>6. \A i \in 1 .. 22 : w[i] = b[i]
  BY <1>1, <1>3 DEF IsJoin
<1>7. \A i \in 1 .. 2 : w[22 + i] = t[i]
  BY <1>1, <1>2, <1>3 DEF IsJoin
<1>8. w[23] = t[1] /\ w[24] = t[2]
  BY <1>7
<1> QED
  BY <1>2, <1>4, <1>5, <1>6, <1>8 DEF Checked, w, t

(* A packet of eleven words with its checksum is intact: a little-endian     *)
(* machine computed it, and the device adds the words in network order.      *)
LEMMA ChecksumIsAccepted ==
  ASSUME NEW b \in Octets(22), 0 < b[1]
  PROVE  /\ WithChecksum(b) \in Octets(24)
         /\ \A i \in 1 .. 22 : WithChecksum(b)[i] = b[i]
         /\ Intact(WithChecksum(b))
<1>1. ASSUME NEW i \in 1 .. 22 PROVE b[i] \in Nat /\ b[i] <= 255
  BY OctetIsNat
<1>2. Len(b) = 22
  BY OctetFacts
<1> DEFINE odd == [i \in 1 .. 11 |-> b[2 * i - 1]]
           even == [i \in 1 .. 11 |-> b[2 * i]]
<1>3. \A i \in 1 .. 11 : 2 * i - 1 \in 1 .. 22 /\ 2 * i \in 1 .. 22
  OBVIOUS
<1>4. ASSUME NEW i \in 1 .. 11
      PROVE odd[i] \in Nat /\ odd[i] <= 255 /\ even[i] \in Nat /\ even[i] <= 255
  BY <1>1, <1>3
<1>5. odd \in [1 .. 11 -> Nat] /\ even \in [1 .. 11 -> Nat]
  BY <1>4
<1>6. odd[1] = b[1]
  OBVIOUS
<1> DEFINE z == LittleEndian(b)
           low == Total(odd)
           high == Total(even)
           ck == 65535 - Checksum(z)
           c0 == ck % 256
           c1 == ck \div 256
           w == WithChecksum(b)
<1>7. z = [i \in 1 .. 11 |-> b[2 * i - 1] + 256 * b[2 * i]]
  <2>1. (Len(b) + 1) \div 2 = 11
    BY <1>2
  <2>2. \A i \in 1 .. 11 : 2 * i <= Len(b)
    BY <1>2
  <2> QED
    BY <2>1, <2>2 DEF LittleEndian
<1>8. \A i \in 1 .. 11 : z[i] = odd[i] + 256 * even[i]
  BY <1>7
<1>9. w = b \o <<c0, c1>>
  BY DEF WithChecksum
<1> HIDE DEF odd, even, z
<1>a. 11 \in Nat
  OBVIOUS
<1>10. z \in [1 .. 11 -> Nat]
  <2>1. \A i \in 1 .. 11 : z[i] \in Nat
    BY <1>4, <1>8
  <2>2. DOMAIN z = 1 .. 11 /\ z = [i \in DOMAIN z |-> z[i]]
    BY <1>7
  <2> QED
    BY <2>1, <2>2
<1>11. Compose(Total(z), low, high)
  <2>1. Composed(11, z, odd, even)
    BY <1>8 DEF Composed
  <2> QED
    BY <1>5, <1>10, <1>a, <2>1, TotalOfComposed
<1>12. low \in Nat /\ high \in Nat
  BY <1>5, TotalIsNat
<1>13. 0 < low /\ low <= 2805 /\ high <= 2805
  <2>1. AreBytes(11, odd) /\ AreBytes(11, even)
    BY <1>4 DEF AreBytes
  <2>2. InBounds(low, odd[1], 11)
    BY <1>5, <1>a, <2>1, TotalBounds
  <2>3. InBounds(high, even[1], 11)
    BY <1>5, <1>a, <2>1, TotalBounds
  <2>5. odd[1] \in Nat /\ 0 < odd[1]
    <3>1. 1 \in 1 .. 11
      OBVIOUS
    <3> QED
      BY <1>4, <1>6, <3>1
  <2> HIDE DEF low, high
  <2> QED
    BY <1>12, <2>2, <2>3, <2>5 DEF InBounds
<1>14. IsCheck(low, high, ck, c0, c1)
  BY <1>11 DEF Checksum, Compose, IsCheck
<1> HIDE DEF ck, low, high, c0, c1
<1>d. SmallSums(low, high)
  BY <1>13 DEF SmallSums
<1>f. Completes(low, high, c0, c1)
  BY <1>12, <1>14, <1>d, SwappedSum
<1>15. c0 \in 0 .. 255 /\ c1 \in 0 .. 255
  BY <1>f DEF Completes
<1>b. Accepted(256 * (low + c0) + (high + c1))
  BY <1>f DEF Completes
<1>e. Checked(w, b, c0, c1)
  BY <1>9, <1>15, CheckedBytes
<1>16. /\ w \in Octets(24) /\ Len(w) = 24
       /\ \A i \in 1 .. 22 : w[i] = b[i]
       /\ w[23] = c0 /\ w[24] = c1
  BY <1>e DEF Checked
<1> HIDE DEF w
<1> DEFINE v == NetworkOrder(w)
           u == [i \in 1 .. 11 |-> even[i] + 256 * odd[i]]
<1>18. v = [i \in 1 .. 12 |-> 256 * w[2 * i - 1] + w[2 * i]]
  <2>1. Len(w) \div 2 = 12
    BY <1>16
  <2> QED
    BY <2>1 DEF NetworkOrder
<1>19. ASSUME NEW i \in 1 .. 11 PROVE u[i] = even[i] + 256 * odd[i] /\ u[i] \in Nat
  BY <1>4
<1>20. u \in [1 .. 11 -> Nat]
  BY <1>19
<1>21. \A i \in 1 .. 11 : v[i] = u[i]
  <2> TAKE i \in 1 .. 11
  <2>1. v[i] = 256 * w[2 * i - 1] + w[2 * i]
    BY <1>18
  <2>2. w[2 * i - 1] = odd[i] /\ w[2 * i] = even[i]
    BY <1>3, <1>16 DEF odd, even
  <2> QED
    BY <1>4, <1>19, <2>1, <2>2
<1>22. v[12] = 256 * c0 + c1
  BY <1>16, <1>18
<1> HIDE DEF u
<1>c. v[12] \in Nat
  BY <1>15, <1>22
<1>23. v \in [1 .. 11 + 1 -> Nat]
  <2>1. DOMAIN v = 1 .. 12 /\ v = [i \in DOMAIN v |-> v[i]]
    BY <1>18
  <2> HIDE DEF v
  <2>3. \A i \in 1 .. 11 : v[i] \in Nat
    BY <1>19, <1>21
  <2>4. \A i \in 1 .. 12 : i \in 1 .. 11 \/ i = 12
    OBVIOUS
  <2>5. \A i \in 1 .. 12 : v[i] \in Nat
    BY <1>c, <2>3, <2>4
  <2> QED
    BY <2>1, <2>5
<1> HIDE DEF v
<1>24. Compose(Total(u), high, low)
  <2>1. Composed(11, u, even, odd)
    BY <1>19 DEF Composed
  <2> QED
    BY <1>5, <1>20, <1>a, <2>1, TotalOfComposed DEF high, low
<1>25. Total(v) = Total(u) + v[11 + 1]
  BY <1>20, <1>21, <1>23, <1>a, TotalOfOneMore
<1>26. Total(v) = 256 * (low + c0) + (high + c1)
  <2>1. PICK x \in Nat, y \in Nat, p \in Nat, q \in Nat : x = c0 /\ y = c1 /\ p = low /\ q = high
    BY <1>12, <1>15
  <2>2. Total(v) = (q + 256 * p) + (256 * x + y)
    BY <1>22, <1>24, <1>25, <2>1 DEF Compose
  <2>3. (q + 256 * p) + (256 * x + y) = 256 * (p + x) + (q + y)
    OBVIOUS
  <2> QED
    BY <2>1, <2>2, <2>3
<1>27. Intact(w)
  BY <1>b, <1>26 DEF Intact, v, Accepted
<1> QED
  BY <1>16, <1>27 DEF w

-----------------------------------------------------------------------------
SetData == [mac : Octets(6), serial : Octets(4), ip : Octets(4), gateway : Octets(4),
            netmask : Octets(4), dhcp : 0..255]

(* The netmask of a call, taken apart.                                       *)
Ones(mask) == {k \in 0..4 : \A i \in 1..k : mask[i] = 255}

(* As many bytes of a netmask are all ones as WholeBytes says.               *)
LEMMA WholeBytesFacts ==
  ASSUME NEW mask
  PROVE  /\ WholeBytes(mask) \in 0 .. 4
         /\ \A i \in 1 .. WholeBytes(mask) : mask[i] = 255
<1> DEFINE S == Ones(mask)
<1>1. S \subseteq 0 .. 4 /\ 0 \in S /\ \A k \in S : \A i \in 1 .. k : mask[i] = 255
  BY DEF Ones
<1>2. WholeBytes(mask) = CHOOSE m \in S : \A k \in S : m >= k
  BY DEF WholeBytes, Max, Ones
<1> HIDE DEF S
<1>3. \E m \in S : \A k \in S : m >= k
  <2>1. CASE 4 \in S
    BY <1>1, <2>1
  <2>2. CASE 4 \notin S /\ 3 \in S
    BY <1>1, <2>2
  <2>3. CASE 4 \notin S /\ 3 \notin S /\ 2 \in S
    BY <1>1, <2>3
  <2>4. CASE 4 \notin S /\ 3 \notin S /\ 2 \notin S /\ 1 \in S
    BY <1>1, <2>4
  <2>5. CASE 4 \notin S /\ 3 \notin S /\ 2 \notin S /\ 1 \notin S
    BY <1>1, <2>5
  <2> QED
    BY <2>1, <2>2, <2>3, <2>4, <2>5
<1> DEFINE m == WholeBytes(mask)
<1>4. m \in S
  BY <1>2, <1>3
<1> HIDE DEF m
<1>5. m \in 0 .. 4 /\ \A i \in 1 .. m : mask[i] = 255
  BY <1>1, <1>4
<1> QED
  BY <1>5 DEF m

(* What is left of a netmask fits a byte.                                    *)
LEMMA LeftoverIsByte ==
  ASSUME NEW mask \in Octets(4)
  PROVE  Leftover(mask) \in 0 .. 255
<1>1. CASE WholeBytes(mask) = 4
  BY <1>1 DEF Leftover
<1>2. CASE WholeBytes(mask) # 4
  <2>1. WholeBytes(mask) + 1 \in 1 .. 4
    BY <1>2, WholeBytesFacts
  <2>2. mask[WholeBytes(mask) + 1] \in 0 .. 255
    BY <2>1, OctetIsNat
  <2> QED
    BY <1>2, <2>2 DEF Leftover
<1> QED
  BY <1>1, <1>2

(* A netmask without a gap survives being taken apart and put together.      *)
LEMMA NetmaskSurvives ==
  ASSUME NEW mask \in Octets(4), ValidNetmask(mask)
  PROVE  Netmask(Min({WholeBytes(mask), 4}), Leftover(mask)) = mask
<1> DEFINE n == WholeBytes(mask)
<1>1. n \in 0 .. 4 /\ \A i \in 1 .. n : mask[i] = 255
  BY WholeBytesFacts
<1>2. Min({n, 4}) = n
  <2>1. n \in {n, 4} /\ \A y \in {n, 4} : n <= y
    BY <1>1
  <2>2. \A x \in {n, 4} : (\A y \in {n, 4} : x <= y) => x = n
    BY <1>1
  <2> HIDE DEF n
  <2> QED
    BY <2>1, <2>2 DEF Min
<1>3. Leftover(mask) = IF n = 4 THEN 0 ELSE mask[n + 1]
  BY DEF Leftover
<1>4. \A i \in n + 2 .. 4 : mask[i] = 0
  BY DEF ValidNetmask
<1> HIDE DEF n
<1>5. ASSUME NEW i \in 1 .. 4
      PROVE  mask[i] = IF i <= n THEN 255 ELSE IF i = n + 1 THEN Leftover(mask) ELSE 0
  <2>1. CASE i <= n
    BY <1>1, <2>1
  <2>2. CASE i = n + 1
    BY <1>1, <1>3, <2>2
  <2>3. CASE i > n + 1
    <3>1. i \in n + 2 .. 4
      BY <1>1, <2>3
    <3> QED
      BY <1>1, <1>4, <2>3, <3>1
  <2> QED
    BY <1>1, <2>1, <2>2, <2>3
<1>6. mask = [i \in 1 .. 4 |-> mask[i]]
  BY DEF Octets
<1> QED
  BY <1>2, <1>5, <1>6 DEF Netmask, n

-----------------------------------------------------------------------------
(* The bytes of a set_config packet.                                         *)
Holds(b, data) ==
  /\ b[1] = 3
  /\ \A i \in 1 .. 6 : b[1 + i] = data.mac[i]
  /\ \A i \in 1 .. 4 : b[11 + i] = data.ip[i]
  /\ \A i \in 1 .. 4 : b[15 + i] = data.gateway[i]
  /\ b[20] = WholeBytes(data.netmask)
  /\ b[21] = Leftover(data.netmask)
  /\ b[22] = data.dhcp

(* A set_config packet has 22 bytes before its checksum, each in its place.  *)
LEMMA SetConfigBytesFacts ==
  ASSUME NEW data \in SetData
  PROVE  SetConfigBytes(data) \in Octets(22) /\ Holds(SetConfigBytes(data), data)
<1> DEFINE B == 0 .. 255
           h == <<CMD_SET_CONFIG>>
           m == data.mac
           s == data.serial
           p == data.ip
           g == data.gateway
           t == <<WholeBytes(data.netmask), Leftover(data.netmask), data.dhcp>>
           b1 == h \o m
           b2 == b1 \o s
           b3 == b2 \o p
           b4 == b3 \o g
           b5 == b4 \o t
<1>1. SetConfigBytes(data) = b5
  BY DEF SetConfigBytes
<1>2. h \in Seq(B) /\ Len(h) = 1 /\ h[1] = 3
  BY DEF CMD_SET_CONFIG
<1>3. m \in Octets(6) /\ s \in Octets(4) /\ p \in Octets(4) /\ g \in Octets(4)
      /\ data.netmask \in Octets(4) /\ data.dhcp \in B
  BY DEF SetData
<1>4. m \in Seq(B) /\ Len(m) = 6 /\ s \in Seq(B) /\ Len(s) = 4
  <2> HIDE DEF m, s
  <2>1. m \in Seq(B) /\ Len(m) = 6
    BY <1>3, OctetFacts
  <2>2. s \in Seq(B) /\ Len(s) = 4
    BY <1>3, OctetFacts
  <2> QED
    BY <2>1, <2>2
<1>5. p \in Seq(B) /\ Len(p) = 4 /\ g \in Seq(B) /\ Len(g) = 4
  BY <1>3, OctetFacts
<1>6. t \in Seq(B) /\ Len(t) = 3
      /\ t[1] = WholeBytes(data.netmask) /\ t[2] = Leftover(data.netmask) /\ t[3] = data.dhcp
  <2>1. WholeBytes(data.netmask) \in B
    BY WholeBytesFacts
  <2>2. Leftover(data.netmask) \in B
    BY <1>3, LeftoverIsByte
  <2> HIDE DEF B
  <2> QED
    BY <1>3, <2>1, <2>2
<1> HIDE DEF h, m, s, p, g, t, B
<1>7. IsJoin(B, b1, h, m)
  BY <1>2, <1>4, JoinIsJoin
<1> HIDE DEF b1
<1>8. b1 \in Seq(B) /\ Len(b1) = 7
  BY <1>2, <1>4, <1>7 DEF IsJoin
<1>9. IsJoin(B, b2, b1, s)
  BY <1>8, <1>4, JoinIsJoin
<1> HIDE DEF b2
<1>10. b2 \in Seq(B) /\ Len(b2) = 11
  BY <1>8, <1>4, <1>9 DEF IsJoin
<1>11. IsJoin(B, b3, b2, p)
  BY <1>10, <1>5, JoinIsJoin
<1> HIDE DEF b3
<1>12. b3 \in Seq(B) /\ Len(b3) = 15
  BY <1>10, <1>5, <1>11 DEF IsJoin
<1>13. IsJoin(B, b4, b3, g)
  BY <1>12, <1>5, JoinIsJoin
<1> HIDE DEF b4
<1>14. b4 \in Seq(B) /\ Len(b4) = 19
  BY <1>12, <1>5, <1>13 DEF IsJoin
<1>15. IsJoin(B, b5, b4, t)
  BY <1>14, <1>6, JoinIsJoin
<1> HIDE DEF b5
<1>16. b5 \in Seq(B) /\ Len(b5) = 22
  BY <1>14, <1>6, <1>15 DEF IsJoin
<1>17. \A i \in 1 .. 7 : b5[i] = b1[i]
  <2>1. \A i \in 1 .. 7 : b2[i] = b1[i]
    BY <1>8, <1>9 DEF IsJoin
  <2>2. \A i \in 1 .. 11 : b3[i] = b2[i]
    BY <1>10, <1>11 DEF IsJoin
  <2>3. \A i \in 1 .. 15 : b4[i] = b3[i]
    BY <1>12, <1>13 DEF IsJoin
  <2>4. \A i \in 1 .. 19 : b5[i] = b4[i]
    BY <1>14, <1>15 DEF IsJoin
  <2>5. \A i \in 1 .. 7 : i \in 1 .. 11 /\ i \in 1 .. 15 /\ i \in 1 .. 19
    OBVIOUS
  <2> QED
    BY <2>1, <2>2, <2>3, <2>4, <2>5
<1>18. b5[1] = 3 /\ \A i \in 1 .. 6 : b5[1 + i] = m[i]
  <2>1. 1 \in 1 .. 7 /\ \A i \in 1 .. 6 : 1 + i \in 1 .. 7
    OBVIOUS
  <2>2. b1[1] = h[1] /\ \A i \in 1 .. 6 : b1[1 + i] = m[i]
    BY <1>2, <1>4, <1>7 DEF IsJoin
  <2> QED
    BY <1>2, <1>17, <2>1, <2>2
<1>19. \A i \in 1 .. 4 : b5[11 + i] = p[i]
  <2>1. \A i \in 1 .. 4 : 11 + i \in 1 .. 15 /\ 11 + i \in 1 .. 19
    OBVIOUS
  <2>2. \A i \in 1 .. 4 : b3[11 + i] = p[i]
    BY <1>10, <1>5, <1>11 DEF IsJoin
  <2>3. \A i \in 1 .. 15 : b4[i] = b3[i]
    BY <1>12, <1>13 DEF IsJoin
  <2>4. \A i \in 1 .. 19 : b5[i] = b4[i]
    BY <1>14, <1>15 DEF IsJoin
  <2> QED
    BY <2>1, <2>2, <2>3, <2>4
<1>20. \A i \in 1 .. 4 : b5[15 + i] = g[i]
  <2>1. \A i \in 1 .. 4 : 15 + i \in 1 .. 19
    OBVIOUS
  <2>2. \A i \in 1 .. 4 : b4[15 + i] = g[i]
    BY <1>12, <1>5, <1>13 DEF IsJoin
  <2>4. \A i \in 1 .. 19 : b5[i] = b4[i]
    BY <1>14, <1>15 DEF IsJoin
  <2> QED
    BY <2>1, <2>2, <2>4
<1>21. b5[20] = t[1] /\ b5[21] = t[2] /\ b5[22] = t[3]
  <2>1. \A i \in 1 .. 3 : b5[19 + i] = t[i]
    BY <1>14, <1>6, <1>15 DEF IsJoin
  <2> QED
    BY <2>1
<1>22. b5 \in Octets(22)
  BY <1>16, OctetFacts DEF B
<1>23. Holds(b5, data)
  BY <1>18, <1>19, <1>20, <1>21, <1>6 DEF Holds, m, p, g
<1> QED
  BY <1>1, <1>22, <1>23

(* What the device reads from the packet of a call.                          *)
LEMMA PacketSurvives ==
  ASSUME NEW data \in SetData, NEW w, w = WithChecksum(SetConfigBytes(data))
  PROVE  /\ Intact(w)
         /\ SubSeq(w, 2, 7) = data.mac
         /\ SubSeq(w, 12, 15) = data.ip
         /\ SubSeq(w, 16, 19) = data.gateway
         /\ w[20] = WholeBytes(data.netmask)
         /\ w[21] = Leftover(data.netmask)
         /\ w[22] = data.dhcp
<1> DEFINE b == SetConfigBytes(data)
           B == 0 .. 255
<1>1. b \in Octets(22) /\ Holds(b, data)
  BY SetConfigBytesFacts
<1> HIDE DEF b
<1>2. w \in Octets(24) /\ (\A i \in 1 .. 22 : w[i] = b[i]) /\ Intact(w)
  <2>1. 0 < b[1]
    BY <1>1 DEF Holds
  <2> QED
    BY <1>1, <2>1, ChecksumIsAccepted DEF b
<1>3. Holds(w, data)
  <2>1. \A i \in 1 .. 6 : 1 + i \in 1 .. 22
    OBVIOUS
  <2>2. \A i \in 1 .. 4 : 11 + i \in 1 .. 22 /\ 15 + i \in 1 .. 22
    OBVIOUS
  <2>3. 1 \in 1 .. 22 /\ 20 \in 1 .. 22 /\ 21 \in 1 .. 22 /\ 22 \in 1 .. 22
    OBVIOUS
  <2> QED
    BY <1>1, <1>2, <2>1, <2>2, <2>3 DEF Holds
<1>4. w \in Seq(B) /\ Len(w) = 24
  BY <1>2, OctetFacts, ZenonT(30)
<1>5. data.mac \in Seq(B) /\ Len(data.mac) = 6
  BY OctetFacts DEF SetData
<1>6. data.ip \in Seq(B) /\ Len(data.ip) = 4 /\ data.gateway \in Seq(B) /\ Len(data.gateway) = 4
  BY OctetFacts DEF SetData
<1>7. \A i \in 1 .. 24 : w[i] \in B
  BY <1>4, ElementOfSeq
<1> HIDE DEF B
<1>8. /\ SubSeq(w, 2, 7) \in Seq(B) /\ Len(SubSeq(w, 2, 7)) = 6
      /\ \A i \in 1 .. 6 : SubSeq(w, 2, 7)[i] = w[1 + i]
  BY <1>7, SubSeqProperties
<1>9. /\ SubSeq(w, 12, 15) \in Seq(B) /\ Len(SubSeq(w, 12, 15)) = 4
      /\ \A i \in 1 .. 4 : SubSeq(w, 12, 15)[i] = w[11 + i]
  BY <1>7, SubSeqProperties
<1>10. /\ SubSeq(w, 16, 19) \in Seq(B) /\ Len(SubSeq(w, 16, 19)) = 4
       /\ \A i \in 1 .. 4 : SubSeq(w, 16, 19)[i] = w[15 + i]
  BY <1>7, SubSeqProperties
<1>11. SubSeq(w, 2, 7) = data.mac
  <2>1. \A i \in 1 .. 6 : w[1 + i] = data.mac[i]
    BY <1>3 DEF Holds
  <2>2. PICK x, y : x = SubSeq(w, 2, 7) /\ y = data.mac
    OBVIOUS
  <2>3. x \in Seq(B) /\ y \in Seq(B) /\ Len(x) = 6 /\ Len(y) = 6 /\ \A i \in 1 .. 6 : x[i] = y[i]
    BY <1>5, <1>8, <2>1, <2>2
  <2>4. x = y
    BY <2>3, SeqEqual
  <2> QED
    BY <2>2, <2>4
<1>12. SubSeq(w, 12, 15) = data.ip
  <2>1. \A i \in 1 .. 4 : w[11 + i] = data.ip[i]
    BY <1>3 DEF Holds
  <2>2. PICK x, y : x = SubSeq(w, 12, 15) /\ y = data.ip
    OBVIOUS
  <2>3. x \in Seq(B) /\ y \in Seq(B) /\ Len(x) = 4 /\ Len(y) = 4 /\ \A i \in 1 .. 4 : x[i] = y[i]
    BY <1>6, <1>9, <2>1, <2>2
  <2>4. x = y
    BY <2>3, SeqEqual
  <2> QED
    BY <2>2, <2>4
<1>13. SubSeq(w, 16, 19) = data.gateway
  <2>1. \A i \in 1 .. 4 : w[15 + i] = data.gateway[i]
    BY <1>3 DEF Holds
  <2>2. PICK x, y : x = SubSeq(w, 16, 19) /\ y = data.gateway
    OBVIOUS
  <2>3. x \in Seq(B) /\ y \in Seq(B) /\ Len(x) = 4 /\ Len(y) = 4 /\ \A i \in 1 .. 4 : x[i] = y[i]
    BY <1>6, <1>10, <2>1, <2>2
  <2>4. x = y
    BY <2>3, SeqEqual
  <2> QED
    BY <2>2, <2>4
<1> QED
  BY <1>2, <1>3, <1>11, <1>12, <1>13 DEF Holds

-----------------------------------------------------------------------------
(* Addresses are ordered by their first byte that differs.                   *)
LEMMA GreaterIsTotal ==
  ASSUME NEW a \in Octets(6), NEW b \in Octets(6), a # b
  PROVE  Greater(a, b) \/ Greater(b, a)
<1>1. DOMAIN a = 1 .. 6 /\ DOMAIN b = 1 .. 6
  BY DEF Octets
<1>2. \A k \in 1 .. 6 : a[k] \in Nat /\ b[k] \in Nat
  BY OctetIsNat
<1> DEFINE D == {k \in 1 .. 6 : a[k] # b[k]}
<1>3. D # {}
  BY DEF Octets
<1>4. D \in SUBSET Nat
  OBVIOUS
<1>5. PICK k \in D : \A j \in D : k <= j
  <2> HIDE DEF D
  <2> QED
    BY <1>3, <1>4, NatMinimum
<1>6. \A i \in 1 .. k - 1 : a[i] = b[i]
  BY <1>5
<1>7. k \in 1 .. 6 /\ a[k] # b[k]
  OBVIOUS
<1>8. a[k] > b[k] \/ b[k] > a[k]
  BY <1>2, <1>7
<1> QED
  BY <1>1, <1>6, <1>7, <1>8 DEF Greater

(* The order is transitive: the first difference of the two pairs decides.   *)
LEMMA GreaterIsTransitive ==
  ASSUME NEW a \in Octets(6), NEW b \in Octets(6), NEW c \in Octets(6), Greater(a, b), Greater(b, c)
  PROVE  Greater(a, c)
<1>1. DOMAIN a = 1 .. 6 /\ DOMAIN b = 1 .. 6
  BY DEF Octets
<1>2. \A k \in 1 .. 6 : a[k] \in Nat /\ b[k] \in Nat /\ c[k] \in Nat
  BY OctetIsNat
<1>3. PICK k \in 1 .. 6 : a[k] > b[k] /\ \A i \in 1 .. k - 1 : a[i] = b[i]
  BY <1>1 DEF Greater
<1>4. PICK l \in 1 .. 6 : b[l] > c[l] /\ \A i \in 1 .. l - 1 : b[i] = c[i]
  BY <1>1 DEF Greater
<1>5. CASE k < l
  <2>1. k \in 1 .. l - 1 /\ \A i \in 1 .. k - 1 : i \in 1 .. l - 1
    BY <1>5
  <2>2. a[k] > c[k] /\ \A i \in 1 .. k - 1 : a[i] = c[i]
    BY <1>3, <1>4, <2>1
  <2> QED
    BY <1>1, <2>2 DEF Greater
<1>6. CASE k = l
  <2>1. a[k] > c[k] /\ \A i \in 1 .. k - 1 : a[i] = c[i]
    BY <1>2, <1>3, <1>4, <1>6
  <2> QED
    BY <1>1, <2>1 DEF Greater
<1>7. CASE k > l
  <2>1. l \in 1 .. k - 1 /\ \A i \in 1 .. l - 1 : i \in 1 .. k - 1
    BY <1>7
  <2>2. a[l] > c[l] /\ \A i \in 1 .. l - 1 : a[i] = c[i]
    BY <1>3, <1>4, <2>1
  <2> QED
    BY <1>1, <2>2 DEF Greater
<1> QED
  BY <1>5, <1>6, <1>7

-----------------------------------------------------------------------------
(* The entries of a list, each of an address of its own, arranged.           *)
Above(e, f) == Greater(e.mac, f.mac)
Addressed(U) == (\A u \in U : u.mac \in Octets(6)) /\ \A u, v \in U : u.mac = v.mac => u = v
Arranged(U, n) == {l \in [1 .. n -> U] : \A i, j \in 1 .. n : l[i] = l[j] => i = j}

(* Entries with different addresses are ordered by them.                     *)
LEMMA AboveFacts ==
  ASSUME NEW U, Addressed(U)
  PROVE  /\ \A u, v \in U : u # v => Above(u, v) \/ Above(v, u)
         /\ \A u, v, w \in U : Above(u, v) /\ Above(v, w) => Above(u, w)
BY GreaterIsTotal, GreaterIsTransitive DEF Addressed, Above

(* A comparison orders two neighbours and leaves the other entries alone.    *)
LEMMA SwapFacts ==
  ASSUME NEW U, Addressed(U), NEW n \in Nat, NEW l \in Arranged(U, n), NEW j \in 1 .. n - 1
  PROVE  LET m == SwapIfGreater(l, j)
         IN /\ m \in Arranged(U, n)
            /\ \A i \in 1 .. n : i # j /\ i # j + 1 => m[i] = l[i]
            /\ (m[j] = l[j] /\ m[j + 1] = l[j + 1]) \/ (m[j] = l[j + 1] /\ m[j + 1] = l[j])
            /\ Above(m[j + 1], m[j])
<1> DEFINE m == SwapIfGreater(l, j)
<1>1. l \in [1 .. n -> U] /\ \A i, k \in 1 .. n : l[i] = l[k] => i = k
  BY DEF Arranged
<1>2. j \in 1 .. n /\ j + 1 \in 1 .. n /\ j # j + 1
  OBVIOUS
<1>3. CASE Greater(l[j].mac, l[j + 1].mac)
  <2>1. m = [l EXCEPT ![j] = l[j + 1], ![j + 1] = l[j]]
    BY <1>3 DEF SwapIfGreater
  <2> HIDE DEF m
  <2>2. m \in [1 .. n -> U]
    BY <1>1, <1>2, <2>1
  <2>3. m[j] = l[j + 1] /\ m[j + 1] = l[j] /\ \A i \in 1 .. n : i # j /\ i # j + 1 => m[i] = l[i]
    BY <1>1, <1>2, <2>1
  <2>4. ASSUME NEW i \in 1 .. n, NEW k \in 1 .. n, m[i] = m[k] PROVE i = k
    BY <1>1, <1>2, <2>3, <2>4
  <2>5. m \in Arranged(U, n)
    BY <2>2, <2>4 DEF Arranged
  <2> QED
    BY <1>3, <2>3, <2>5 DEF Above, m
<1>4. CASE ~Greater(l[j].mac, l[j + 1].mac)
  <2>1. m = l
    BY <1>4 DEF SwapIfGreater
  <2>2. l[j] \in U /\ l[j + 1] \in U /\ l[j] # l[j + 1]
    BY <1>1, <1>2
  <2>3. Above(l[j + 1], l[j])
    BY <1>4, <2>2, AboveFacts DEF Above
  <2> QED
    BY <2>1, <2>3
<1> QED
  BY <1>3, <1>4

(* The entries after the last of those still to be sorted are in their place.*)
Settled(l, n, last) == \A i, j \in 1 .. n : i < j /\ last < j => Above(l[j], l[i])

(* A pass carries the greatest entry so far along, and moves no settled one. *)
LEMMA SwapKeepsSettled ==
  ASSUME NEW U, Addressed(U), NEW n \in Nat, NEW l \in Arranged(U, n), NEW j \in 1 .. n - 1,
         NEW last \in 1 .. n, j < last, Settled(l, n, last),
         \A i \in 1 .. j - 1 : Above(l[j], l[i])
  PROVE  LET m == SwapIfGreater(l, j)
         IN /\ m \in Arranged(U, n) /\ Settled(m, n, last)
            /\ \A i \in 1 .. j : Above(m[j + 1], m[i])
<1> DEFINE m == SwapIfGreater(l, j)
<1>1. /\ m \in Arranged(U, n)
      /\ \A i \in 1 .. n : i # j /\ i # j + 1 => m[i] = l[i]
      /\ (m[j] = l[j] /\ m[j + 1] = l[j + 1]) \/ (m[j] = l[j + 1] /\ m[j + 1] = l[j])
      /\ Above(m[j + 1], m[j])
  BY SwapFacts
<1>2. \A i \in 1 .. n : l[i] \in U
  BY DEF Arranged
<1> HIDE DEF m
<1>3. j \in 1 .. n /\ j + 1 \in 1 .. n
  OBVIOUS
<1>4. Settled(m, n, last)
  <2> SUFFICES ASSUME NEW i \in 1 .. n, NEW k \in 1 .. n, i < k, last < k PROVE Above(m[k], m[i])
    BY DEF Settled
  <2>1. m[k] = l[k]
    BY <1>1
  <2>2. \A h \in 1 .. n : h < k => Above(l[k], l[h])
    BY DEF Settled
  <2>3. m[i] = l[i] \/ m[i] = l[j] \/ m[i] = l[j + 1]
    BY <1>1
  <2>4. j < k /\ j + 1 < k
    OBVIOUS
  <2> QED
    BY <1>3, <2>1, <2>2, <2>3, <2>4
<1>5. ASSUME NEW i \in 1 .. j PROVE Above(m[j + 1], m[i])
  <2>1. CASE i = j
    BY <1>1, <2>1
  <2>2. CASE i # j
    <3>1. i \in 1 .. j - 1 /\ i \in 1 .. n /\ i # j + 1
      BY <2>2
    <3>2. m[i] = l[i] /\ Above(l[j], l[i])
      BY <1>1, <2>2, <3>1
    <3>3. CASE m[j + 1] = l[j]
      BY <3>2, <3>3
    <3>4. CASE m[j] = l[j] /\ m[j + 1] = l[j + 1]
      <4>1. Above(l[j + 1], l[j])
        BY <1>1, <3>4
      <4> QED
        BY <1>2, <1>3, <3>1, <3>2, <3>4, <4>1, AboveFacts
    <3> QED
      BY <1>1, <3>3, <3>4
  <2> QED
    BY <2>1, <2>2
<1> QED
  BY <1>1, <1>4, <1>5 DEF m

-----------------------------------------------------------------------------
(* One pass puts the greatest of the first entries last.                     *)
LEMMA PassFacts ==
  ASSUME NEW U, Addressed(U), NEW n \in Nat, NEW l \in Arranged(U, n), NEW last \in 1 .. n,
         Settled(l, n, last)
  PROVE  Pass(l, last) \in Arranged(U, n) /\ Settled(Pass(l, last), n, last - 1)
<1> DEFINE A == Arranged(U, n)
           m == last - 1
           F == [p \in A \X (1 .. m) |-> SwapIfGreater(p[1], p[2])]
           IsPass(g) == g = [j \in 0 .. last - 1 |-> IF j = 0 THEN l ELSE SwapIfGreater(g[j - 1], j)]
           pass == CHOOSE g : IsPass(g)
<1>0. m \in Nat /\ m <= n - 1
  OBVIOUS
<1>1. \A s \in A, j \in 1 .. m : F[<<s, j>>] = SwapIfGreater(s, j)
  OBVIOUS
<1>2. Iterable(F, A, m)
  <2> SUFFICES ASSUME NEW s \in A, NEW j \in 1 .. m PROVE F[<<s, j>>] \in A
    BY DEF Iterable
  <2>1. j \in 1 .. n - 1
    BY <1>0
  <2>2. SwapIfGreater(s, j) \in A
    BY <2>1, SwapFacts
  <2> QED
    BY <1>1, <2>2
<1> HIDE DEF F
<1>3. PICK h \in [0 .. m -> A] : Iterates(h, F, l, m)
  <2> HIDE DEF A, m
  <2>1. l \in A
    BY DEF A
  <2> QED
    BY <1>0, <1>2, <2>1, IterationExists
<1>4. IsPass(h)
  <2>1. h[0] = l /\ \A j \in 1 .. m : h[j] = F[<<h[j - 1], j>>]
    BY <1>3 DEF Iterates
  <2>2. ASSUME NEW j \in 0 .. m PROVE h[j] = IF j = 0 THEN l ELSE SwapIfGreater(h[j - 1], j)
    <3>1. CASE j = 0
      BY <2>1, <3>1
    <3>2. CASE j # 0
      <4>1. j \in 1 .. m /\ j - 1 \in 0 .. m
        BY <3>2
      <4>2. h[j - 1] \in A
        BY <1>3, <4>1
      <4> QED
        BY <1>1, <2>1, <3>2, <4>1, <4>2
    <3> QED
      BY <3>1, <3>2
  <2>3. h = [j \in 0 .. m |-> h[j]]
    OBVIOUS
  <2> QED
    BY <2>2, <2>3
<1>5. IsPass(pass)
  BY <1>4
<1>6. pass[0] = l /\ \A j \in 1 .. m : pass[j] = SwapIfGreater(pass[j - 1], j)
  <2>1. \A j \in 0 .. m : pass[j] = IF j = 0 THEN l ELSE SwapIfGreater(pass[j - 1], j)
    BY <1>5
  <2> HIDE DEF pass
  <2> QED
    BY <1>0, <2>1
<1>7. Pass(l, last) = pass[m]
  BY Zenon DEF Pass
<1> HIDE DEF pass, A
<1> DEFINE T == {j \in 0 .. m : /\ pass[j] \in A /\ Settled(pass[j], n, last)
                                /\ \A i \in 1 .. j : Above(pass[j][j + 1], pass[j][i])}
<1>8. 0 \in T
  <2>1. l \in A
    BY DEF A
  <2> QED
    BY <1>0, <1>6, <2>1
<1>9. ASSUME NEW j \in Nat, j \in T, j + 1 <= m PROVE j + 1 \in T
  <2>1. /\ pass[j] \in A /\ Settled(pass[j], n, last)
        /\ \A i \in 1 .. j : Above(pass[j][j + 1], pass[j][i])
    BY <1>9
  <2>2. j + 1 \in 1 .. m /\ j + 1 - 1 = j /\ j + 1 \in 1 .. n - 1 /\ j + 1 < last
    BY <1>0, <1>9
  <2>3. pass[j + 1] = SwapIfGreater(pass[j], j + 1)
    BY <1>6, <2>2
  <2> DEFINE k == j + 1
             q == pass[j]
  <2>4. \A i \in 1 .. k - 1 : Above(q[k], q[i])
    BY <2>1
  <2>5. k \in 1 .. n - 1 /\ k < last /\ q \in A /\ Settled(q, n, last)
    BY <2>1, <2>2
  <2>6. LET s == SwapIfGreater(q, k)
        IN /\ s \in A /\ Settled(s, n, last)
           /\ \A i \in 1 .. k : Above(s[k + 1], s[i])
    <3> HIDE DEF k, q
    <3> QED
      BY <2>4, <2>5, SwapKeepsSettled DEF A
  <2>7. /\ pass[k] \in A /\ Settled(pass[k], n, last)
        /\ \A i \in 1 .. k : Above(pass[k][k + 1], pass[k][i])
    BY <2>3, <2>6
  <2>8. k \in 0 .. m
    BY <2>2
  <2> QED
    BY <2>7, <2>8
<1>10. m \in T
  <2> HIDE DEF T, m
  <2> QED
    BY <1>0, <1>8, <1>9, TotalInduction
<1> DEFINE r == pass[m]
<1>11. /\ r \in A /\ Settled(r, n, last)
       /\ \A i \in 1 .. m : Above(r[m + 1], r[i])
  BY <1>10
<1> HIDE DEF r
<1>12. Settled(r, n, last - 1)
  <2> SUFFICES ASSUME NEW i \in 1 .. n, NEW j \in 1 .. n, i < j, last - 1 < j PROVE Above(r[j], r[i])
    BY DEF Settled
  <2>1. CASE last < j
    BY <1>11, <2>1 DEF Settled
  <2>2. CASE j = last
    <3>1. j = m + 1 /\ i \in 1 .. m
      BY <2>2
    <3> QED
      BY <1>11, <3>1
  <2> QED
    BY <2>1, <2>2
<1> QED
  BY <1>7, <1>11, <1>12 DEF r, A

(* Sorting arranges the entries by their addresses.                          *)
LEMMA SortedFacts ==
  ASSUME NEW U, Addressed(U), NEW n \in Nat, NEW l \in Arranged(U, n)
  PROVE  Sorted(l) \in Arranged(U, n) /\ Settled(Sorted(l), n, 0)
<1> DEFINE A == Arranged(U, n)
           B == {p \in A \X (0 .. n) : Settled(p[1], n, n - p[2])}
           IsSorting(g) == g = [k \in 0 .. Len(l) |-> IF k = 0 THEN l ELSE Pass(g[k - 1], Len(l) + 1 - k)]
           sorted == CHOOSE g : IsSorting(g)
           F == [q \in B \X (1 .. n) |->
                   IF q[1][2] + 1 = q[2] THEN <<Pass(q[1][1], n + 1 - q[2]), q[2]>> ELSE q[1]]
<1>0. Len(l) = n
  BY FunctionIsSeq DEF Arranged
<1>1. ASSUME NEW s \in A, NEW k \in 1 .. n, Settled(s, n, n - (k - 1))
      PROVE  Pass(s, n + 1 - k) \in A /\ Settled(Pass(s, n + 1 - k), n, n - k)
  <2> DEFINE last == n + 1 - k
  <2>1. last \in 1 .. n /\ n - (k - 1) = last /\ n - k = last - 1
    OBVIOUS
  <2> HIDE DEF last
  <2>2. Pass(s, last) \in A /\ Settled(Pass(s, last), n, last - 1)
    BY <1>1, <2>1, PassFacts
  <2> QED
    BY <2>1, <2>2 DEF last
<1>2. <<l, 0>> \in B
  <2>1. Settled(l, n, n - 0)
    BY DEF Settled
  <2> QED
    BY <2>1
<1>3. Iterable(F, B, n)
  <2> SUFFICES ASSUME NEW p \in B, NEW k \in 1 .. n PROVE F[<<p, k>>] \in B
    BY DEF Iterable
  <2>1. F[<<p, k>>] = IF p[2] + 1 = k THEN <<Pass(p[1], n + 1 - k), k>> ELSE p
    OBVIOUS
  <2>2. CASE p[2] + 1 = k
    <3>1. p[1] \in A /\ p[2] \in 0 .. n /\ Settled(p[1], n, n - p[2])
      OBVIOUS
    <3>2. p[2] = k - 1
      BY <2>2, <3>1
    <3>3. Pass(p[1], n + 1 - k) \in A /\ Settled(Pass(p[1], n + 1 - k), n, n - k)
      BY <1>1, <3>1, <3>2
    <3> HIDE DEF A, F
    <3> QED
      BY <2>1, <2>2, <3>3
  <2>3. CASE p[2] + 1 # k
    BY <2>1, <2>3
  <2> QED
    BY <2>2, <2>3
<1>4. PICK h \in [0 .. n -> B] : Iterates(h, F, <<l, 0>>, n)
  <2> HIDE DEF B, F
  <2> QED
    BY <1>2, <1>3, IterationExists
<1>5. \A k \in 1 .. n : h[k] = IF h[k - 1][2] + 1 = k THEN <<Pass(h[k - 1][1], n + 1 - k), k>> ELSE h[k - 1]
  <2> TAKE k \in 1 .. n
  <2>1. h[k] = F[<<h[k - 1], k>>]
    BY <1>4 DEF Iterates
  <2> HIDE DEF B
  <2>2. h[k - 1] \in B
    <3>1. k - 1 \in 0 .. n
      OBVIOUS
    <3> QED
      BY <1>4, <3>1
  <2> QED
    BY <2>1, <2>2
<1>6. h[0] = <<l, 0>>
  BY <1>4 DEF Iterates
<1>7. \A k \in 0 .. n : h[k][2] = k
  <2> DEFINE T == {k \in Nat : k <= n => h[k][2] = k}
  <2>1. 0 \in T
    BY <1>6
  <2>2. \A k \in Nat : k \in T => k + 1 \in T
    <3> SUFFICES ASSUME NEW k \in Nat, k \in T, k + 1 <= n PROVE h[k + 1][2] = k + 1
      OBVIOUS
    <3>1. h[k][2] = k /\ k + 1 \in 1 .. n /\ k + 1 - 1 = k
      OBVIOUS
    <3>2. h[k + 1] = IF h[k][2] + 1 = k + 1 THEN <<Pass(h[k][1], n + 1 - (k + 1)), k + 1>> ELSE h[k]
      <4> DEFINE j == k + 1
      <4>1. j \in 1 .. n /\ j - 1 = k
        BY <3>1
      <4>2. h[j] = IF h[j - 1][2] + 1 = j THEN <<Pass(h[j - 1][1], n + 1 - j), j>> ELSE h[j - 1]
        <5> HIDE DEF j
        <5> QED
          BY <1>5, <4>1
      <4> QED
        BY <4>1, <4>2
    <3> QED
      BY <3>1, <3>2
  <2> HIDE DEF T
  <2>3. \A k \in Nat : k \in T
    BY <2>1, <2>2, NatSetInduction
  <2> QED
    BY <2>3 DEF T
<1> DEFINE g == [k \in 0 .. n |-> h[k][1]]
<1>8. IsSorting(g)
  <2>1. ASSUME NEW k \in 0 .. n PROVE g[k] = IF k = 0 THEN l ELSE Pass(g[k - 1], n + 1 - k)
    <3>1. CASE k = 0
      BY <1>6, <3>1
    <3>2. CASE k # 0
      <4>1. k \in 1 .. n /\ k - 1 \in 0 .. n
        BY <3>2
      <4>2. h[k - 1][2] + 1 = k
        BY <1>7, <4>1
      <4>3. h[k] = <<Pass(h[k - 1][1], n + 1 - k), k>>
        BY <1>5, <4>1, <4>2
      <4> QED
        BY <3>2, <4>1, <4>3
    <3> QED
      BY <3>1, <3>2
  <2>2. g = [k \in 0 .. n |-> g[k]]
    OBVIOUS
  <2> HIDE DEF g
  <2> QED
    BY <1>0, <2>1, <2>2
<1>9. IsSorting(sorted)
  BY <1>8
<1>10. sorted[0] = l /\ \A k \in 1 .. n : sorted[k] = Pass(sorted[k - 1], n + 1 - k)
  <2>1. \A k \in 0 .. n : sorted[k] = IF k = 0 THEN l ELSE Pass(sorted[k - 1], n + 1 - k)
    BY <1>0, <1>9
  <2> HIDE DEF sorted
  <2>2. 0 \in 0 .. n /\ \A k \in 1 .. n : k \in 0 .. n /\ k # 0
    OBVIOUS
  <2> QED
    BY <2>1, <2>2
<1>11. Sorted(l) = sorted[n]
  BY <1>0, Zenon DEF Sorted
<1> HIDE DEF sorted, A, B, F, g
<1> DEFINE T == {k \in 0 .. n : sorted[k] \in A /\ Settled(sorted[k], n, n - k)}
<1>12. 0 \in T
  <2>1. Settled(l, n, n - 0)
    BY DEF Settled
  <2> QED
    BY <1>10, <2>1 DEF A
<1>13. ASSUME NEW k \in Nat, k \in T, k + 1 <= n PROVE k + 1 \in T
  <2>1. sorted[k] \in A /\ Settled(sorted[k], n, n - k)
    BY <1>13
  <2>2. k + 1 \in 1 .. n /\ (k + 1) - 1 = k /\ k + 1 \in 0 .. n
    BY <1>13
  <2>3. sorted[k + 1] = Pass(sorted[k], n + 1 - (k + 1))
    BY <1>10, <2>2
  <2>4. sorted[k + 1] \in A /\ Settled(sorted[k + 1], n, n - (k + 1))
    BY <1>1, <2>1, <2>2, <2>3
  <2> QED
    BY <2>2, <2>4
<1>14. n \in T
  <2> HIDE DEF T
  <2> QED
    BY <1>12, <1>13, TotalInduction
<1>15. sorted[n] \in A /\ Settled(sorted[n], n, n - n) /\ n - n = 0
  BY <1>14
<1> QED
  BY <1>11, <1>15 DEF A

-----------------------------------------------------------------------------
(* What a device is never changes; how it is configured does.                *)
DevicesKept ==
  /\ device = [d \in Devices |-> device[d]]
  /\ \A d \in Devices :
       device[d] = [mac |-> Factory[d].mac, serial |-> Factory[d].serial,
                    firmware |-> Factory[d].firmware, enable |-> Factory[d].enable,
                    config |-> device[d].config, active |-> device[d].active,
                    dhcp |-> device[d].dhcp, by |-> device[d].by]

CallRecord(asks, step, number, round, list) ==
  [asks |-> asks, step |-> step, number |-> number, round |-> round, list |-> list]
NoCall == [name |-> "none", filter |-> <<>>]
CallKept(c) ==
  /\ call[c] = CallRecord(call[c].asks, call[c].step, call[c].number, call[c].round, call[c].list)
  /\ call[c].number \in 0 .. Len(Script[c])
  /\ call[c].step \in {"idle", "send", "receive"}
  /\ call[c].round \in Nat
  /\ IF call[c].number = 0 THEN call[c].asks = NoCall /\ call[c].step = "idle" ELSE CallOK(call[c].asks)
  /\ call[c].asks.name = "set_config" /\ call[c].step # "idle" => ValidNetmask(call[c].asks.data.netmask)
CallsKept == call = [c \in Callers |-> call[c]] /\ \A c \in Callers : CallKept(c)

(* An identity of a call up to the one that its caller makes now.            *)
Made(id) == id \in CallIds /\ id[2] <= call[id[1]].number

Configures(c) == call[c].asks.name = "set_config"
Asked(c) == WithChecksum(SetConfigBytes(call[c].asks.data))
(* What a request is, and that set_config sends a valid netmask, once.       *)
RequestKept(r) ==
  /\ r = [cmd |-> r.cmd, from |-> r.from, at |-> r.at, bytes |-> r.bytes]
  /\ Made(r.from) /\ r.at \in Devices
  /\ r.cmd = CMD_SET_CONFIG =>
       \A c \in Callers :
         r.from = Id(c) =>
           /\ Configures(c) /\ call[c].step # "send" /\ ValidNetmask(call[c].asks.data.netmask)
           /\ r.bytes = Asked(c)
           /\ Factory[r.at].mac = call[c].asks.data.mac => fate[r.from] = "none"
RequestsKept == \A r \in requests : RequestKept(r)

(* No device has done anything with a set_config that was not sent.          *)
Unsent(c, n) ==
  n > call[c].number \/ (n = call[c].number /\ (~Configures(c) \/ call[c].step = "send"))
FatesKept ==
  /\ fate = [id \in CallIds |-> fate[id]]
  /\ \A c \in Callers : \A n \in 1 .. Len(Script[c]) : Unsent(c, n) => fate[<<c, n>>] = "none"

(* What a confirmation says is what its device did.                          *)
AnswerKept(a) ==
  /\ Made(a.to)
  /\ a.cmd = CMD_CONFIRM =>
       \A c \in Callers :
         a.to = Id(c) =>
           Configures(c) /\ fate[a.to] = IF a.status = 0 THEN "refused" ELSE "applied"
  /\ a.cmd # CMD_CONFIRM => a \in reports
AnswersKept == \A a \in answers : AnswerKept(a)

(* A locked device refused what was refused.                                 *)
RefusalsKept ==
  \A c \in Callers :
    Configures(c) /\ fate[Id(c)] = "refused" =>
      \E d \in Devices : Factory[d].mac = call[c].asks.data.mac /\ Factory[d].enable = 0

(* A device is configured as the call that configured it last asked.         *)
TakenApart(data) ==
  [ip |-> data.ip, gateway |-> data.gateway,
   nmb |-> WholeBytes(data.netmask), nmm |-> Leftover(data.netmask)]
AsAsked(d, c) ==
  /\ Configures(c) /\ call[c].step # "send" /\ ValidNetmask(call[c].asks.data.netmask)
  /\ device[d].config = TakenApart(call[c].asks.data)
DeviceKept(d) ==
  /\ device[d].by = <<>> \/ Made(device[d].by)
  /\ \A c \in Callers : device[d].by = Id(c) => AsAsked(d, c)
ConfiguredKept == \A d \in Devices : DeviceKept(d)

OutcomesKept ==
  /\ outcome = [c \in Callers |-> outcome[c]]
  /\ \A c \in Callers :
       Configures(c) =>
         /\ call[c].step = "receive" => call[c].round >= 1
         /\ call[c].step = "idle" /\ outcome[c] = "ok" => fate[Id(c)] = "applied"
         /\ call[c].step = "idle" /\ outcome[c] = "ETH_CFG_REJECT" => fate[Id(c)] = "refused"

BaseInv == DevicesKept /\ CallsKept /\ FatesKept
SetInv == RequestsKept /\ AnswersKept /\ RefusalsKept /\ ConfiguredKept /\ OutcomesKept

-----------------------------------------------------------------------------
(* A reply tells of a device.                                                *)
ReportKept(r) ==
  /\ r.cmd \in {CMD_QUERY_REPLY, CMD_IPCONF_REPLY}
  /\ \E d \in Devices :
       /\ r.mac = Factory[d].mac /\ r.serial = Factory[d].serial
       /\ r.cmd = CMD_QUERY_REPLY => r.firmware = Factory[d].firmware
ReportsKept == \A r \in reports : ReportKept(r)

Matches(c, e) == \A key \in DOMAIN call[c].asks.filter : e[key] = call[c].asks.filter[key]
EntryFields == {"mac", "serial", "query_response", "ipconfig_response", "config", "firmware",
                "enable", "dhcp", "active"}
IsEntry(e) == e = [field \in EntryFields |-> e[field]]
QueryHalf(c, e) ==
  \E r \in Reported(c, CMD_QUERY_REPLY) :
    /\ e.mac = r.mac /\ e.serial = r.serial /\ e.config = Settings(r)
    /\ e.firmware = r.firmware /\ e.enable = r.enable
IpConfHalf(c, e) ==
  \E r \in Reported(c, CMD_IPCONF_REPLY) :
    e.mac = r.mac /\ e.serial = r.serial /\ e.active = Settings(r) /\ e.dhcp = r.dhcp
(* An entry that is being filled: of one device, each half from one reply,   *)
(* or empty.                                                                 *)
EntryKept(c, e) ==
  /\ IsEntry(e)
  /\ \E d \in Devices : e.mac = Factory[d].mac /\ e.serial = Factory[d].serial
  /\ e.firmware \in Nat
  /\ Matches(c, e)
  /\ IF e.query_response THEN QueryHalf(c, e)
     ELSE e.config = NoSettings /\ e.firmware = 0 /\ e.enable = 0
  /\ IF e.ipconfig_response THEN IpConfHalf(c, e)
     ELSE e.active = NoSettings /\ e.dhcp = 0
Answered(e) == e.query_response \/ e.ipconfig_response
IsList(l) == \E S : l \in Seq(S)
OnePerDevice(l) == \A i, j \in DOMAIN l : l[i].mac = l[j].mac => i = j
ListKept(c, l) ==
  /\ IsList(l) /\ OnePerDevice(l)
  /\ \A i \in DOMAIN l : EntryKept(c, l[i]) /\ Answered(l[i])
ListsKept == \A c \in Callers : ListKept(c, call[c].list)

ListReported(c, l) ==
  /\ \A i \in DOMAIN l : EntryIsReported(c, l[i]) /\ Matches(c, l[i])
  /\ \A i, j \in DOMAIN l : i < j => Greater(l[j].mac, l[i].mac)
HandleKept(c) ==
  /\ IF handle[c].valid THEN call[c].step = "idle" ELSE handle[c].list = <<>>
  /\ ListReported(c, handle[c].list)
HandlesKept == handle = [c \in Callers |-> handle[c]] /\ \A c \in Callers : HandleKept(c)

ListInv == ReportsKept /\ ListsKept /\ HandlesKept
-----------------------------------------------------------------------------
(* How the actions change the record of a call.                              *)
Becomes(f, g, c, r) ==
  /\ g = [x \in Callers |-> g[x]]
  /\ \A x \in Callers : x # c => g[x] = f[x]
  /\ g[c] = r

(* An action that changes the step of a call.                                *)
LEMMA StepUpdate ==
  ASSUME NEW f, f = [x \in Callers |-> f[x]], NEW c \in Callers, NEW v,
         NEW a, NEW s, NEW n, NEW r, NEW l, f[c] = CallRecord(a, s, n, r, l),
         NEW g, g = [f EXCEPT ![c].step = v]
  PROVE  Becomes(f, g, c, CallRecord(a, v, n, r, l))
BY DEF Becomes, CallRecord

(* An action that changes the list of a call.                                *)
LEMMA ListUpdate ==
  ASSUME NEW f, f = [x \in Callers |-> f[x]], NEW c \in Callers, NEW v,
         NEW a, NEW s, NEW n, NEW r, NEW l, f[c] = CallRecord(a, s, n, r, l),
         NEW g, g = [f EXCEPT ![c].list = v]
  PROVE  Becomes(f, g, c, CallRecord(a, s, n, r, v))
BY DEF Becomes, CallRecord

(* An action that changes the round of a call.                               *)
LEMMA RoundUpdate ==
  ASSUME NEW f, f = [x \in Callers |-> f[x]], NEW c \in Callers, NEW v,
         NEW a, NEW s, NEW n, NEW r, NEW l, f[c] = CallRecord(a, s, n, r, l),
         NEW g, g = [f EXCEPT ![c].round = v]
  PROVE  Becomes(f, g, c, CallRecord(a, s, n, v, l))
BY DEF Becomes, CallRecord

(* An action that changes the step and the list.                             *)
LEMMA StepListUpdate ==
  ASSUME NEW f, f = [x \in Callers |-> f[x]], NEW c \in Callers, NEW v, NEW w,
         NEW a, NEW s, NEW n, NEW r, NEW l, f[c] = CallRecord(a, s, n, r, l),
         NEW g, g = [f EXCEPT ![c].step = v, ![c].list = w]
  PROVE  Becomes(f, g, c, CallRecord(a, v, n, r, w))
<1> DEFINE h == [f EXCEPT ![c].step = v]
<1>1. Becomes(f, h, c, CallRecord(a, v, n, r, l))
  BY StepUpdate
<1>2. g = [h EXCEPT ![c].list = w]
  OBVIOUS
<1> HIDE DEF h
<1>3. h = [x \in Callers |-> h[x]] /\ h[c] = CallRecord(a, v, n, r, l)
  BY <1>1 DEF Becomes
<1>4. Becomes(h, g, c, CallRecord(a, v, n, r, w))
  BY <1>2, <1>3, ListUpdate
<1> QED
  BY <1>1, <1>4 DEF Becomes

(* An action that changes the step and counts the round.                     *)
LEMMA StepRoundUpdate ==
  ASSUME NEW f, f = [x \in Callers |-> f[x]], NEW c \in Callers, NEW v,
         NEW a, NEW s, NEW n, NEW r, NEW l, f[c] = CallRecord(a, s, n, r, l),
         NEW g, g = [f EXCEPT ![c].step = v, ![c].round = @ + 1]
  PROVE  Becomes(f, g, c, CallRecord(a, v, n, r + 1, l))
<1> DEFINE h == [f EXCEPT ![c].step = v]
<1>1. Becomes(f, h, c, CallRecord(a, v, n, r, l))
  BY StepUpdate
<1>a. f[c].round = r
  BY DEF CallRecord
<1>2. g = [h EXCEPT ![c].round = r + 1]
  BY <1>a
<1> HIDE DEF h
<1>3. h = [x \in Callers |-> h[x]] /\ h[c] = CallRecord(a, v, n, r, l)
  BY <1>1 DEF Becomes
<1>4. Becomes(h, g, c, CallRecord(a, v, n, r + 1, l))
  BY <1>2, <1>3, RoundUpdate
<1> QED
  BY <1>1, <1>4 DEF Becomes

-----------------------------------------------------------------------------
(* A step that leaves every call what it is, and sends no configuration      *)
(* again, keeps what is known of requests, answers and devices.              *)
Proceeds ==
  \A x \in Callers :
    /\ call'[x].asks = call[x].asks /\ call'[x].number = call[x].number
    /\ Configures(x) /\ call'[x].step = "send" => call[x].step = "send"

(* The identity of every call, and what it asks, stay.                       *)
LEMMA ProceedsFacts ==
  ASSUME Proceeds
  PROVE  /\ \A x \in Callers : Id(x)' = Id(x) /\ Configures(x)' = Configures(x) /\ (Asked(x))' = Asked(x)
         /\ \A id : Made(id) => Made(id)'
<1>1. \A x \in Callers : Id(x)' = Id(x) /\ Configures(x)' = Configures(x) /\ (Asked(x))' = Asked(x)
  BY DEF Proceeds, Id, Configures, Asked
<1>2. ASSUME NEW id, Made(id) PROVE Made(id)'
  <2>1. id[1] \in Callers
    BY <1>2 DEF Made, CallIds
  <2> QED
    BY <1>2, <2>1 DEF Made, Proceeds
<1> QED
  BY <1>1, <1>2

(* What is known of fates, refusals, devices, requests and answers stays.    *)
LEMMA ProceedsKeeps ==
  ASSUME BaseInv, SetInv, Proceeds, UNCHANGED <<device, fate>>, reports \subseteq reports'
  PROVE  /\ FatesKept' /\ RefusalsKept' /\ ConfiguredKept'
         /\ \A r \in requests : RequestKept(r)'
         /\ \A a \in answers : AnswerKept(a)'
<1>1. /\ \A x \in Callers : Id(x)' = Id(x) /\ Configures(x)' = Configures(x) /\ (Asked(x))' = Asked(x)
      /\ \A id : Made(id) => Made(id)'
  BY ProceedsFacts
<1>2. FatesKept'
  BY DEF BaseInv, FatesKept, Unsent, Proceeds, Configures
<1>3. RefusalsKept'
  <2> SUFFICES ASSUME NEW c \in Callers, Configures(c)', fate'[Id(c)'] = "refused"
               PROVE  \E d \in Devices : Factory[d].mac = call'[c].asks.data.mac /\ Factory[d].enable = 0
    BY DEF RefusalsKept
  <2> QED
    BY <1>1 DEF SetInv, RefusalsKept, Proceeds
<1>4. ConfiguredKept'
  <2> SUFFICES ASSUME NEW d \in Devices PROVE DeviceKept(d)'
    BY DEF ConfiguredKept
  <2>1. device' = device
    OBVIOUS
  <2>2. DeviceKept(d)
    BY DEF SetInv, ConfiguredKept
  <2>3. ASSUME NEW c \in Callers, device'[d].by = Id(c)' PROVE AsAsked(d, c)'
    <3>1. AsAsked(d, c)
      BY <1>1, <2>1, <2>2, <2>3 DEF DeviceKept
    <3>2. call'[c].asks = call[c].asks /\ (Configures(c) /\ call[c].step # "send" => call'[c].step # "send")
      BY DEF Proceeds
    <3> QED
      BY <1>1, <2>1, <3>1, <3>2 DEF AsAsked
  <2> QED
    BY <1>1, <2>1, <2>2, <2>3 DEF DeviceKept
<1>5. ASSUME NEW r \in requests PROVE RequestKept(r)'
  <2>1. RequestKept(r)
    BY DEF SetInv, RequestsKept
  <2> QED
    BY <1>1, <2>1 DEF RequestKept, Proceeds
<1>6. ASSUME NEW a \in answers PROVE AnswerKept(a)'
  <2>1. AnswerKept(a)
    BY DEF SetInv, AnswersKept
  <2> QED
    BY <1>1, <2>1 DEF AnswerKept
<1> QED
  BY <1>2, <1>3, <1>4, <1>5, <1>6

-----------------------------------------------------------------------------
(* What the invariant says of one call.                                      *)
LEMMA CallFacts ==
  ASSUME BaseInv, NEW c \in Callers
  PROVE  /\ call = [x \in Callers |-> call[x]] /\ CallKept(c)
         /\ call[c] = CallRecord(call[c].asks, call[c].step, call[c].number, call[c].round, call[c].list)
BY DEF BaseInv, CallsKept, CallKept

(* A step of a call under way.                                               *)
LEMMA CallGoesOn ==
  ASSUME BaseInv, NEW c \in Callers, call[c].step # "idle",
         NEW s \in {"idle", "send", "receive"}, NEW r \in Nat, NEW l,
         Becomes(call, call', c, CallRecord(call[c].asks, s, call[c].number, r, l)),
         Configures(c) /\ s = "send" => call[c].step = "send"
  PROVE  /\ CallsKept' /\ Proceeds
         /\ call'[c].asks = call[c].asks /\ call'[c].number = call[c].number
         /\ call'[c].step = s /\ call'[c].round = r /\ call'[c].list = l
         /\ \A x \in Callers : x # c => call'[x] = call[x]
<1>1. /\ call' = [x \in Callers |-> call'[x]]
      /\ \A x \in Callers : x # c => call'[x] = call[x]
      /\ call'[c] = CallRecord(call[c].asks, s, call[c].number, r, l)
  BY DEF Becomes
<1>2. /\ call'[c].asks = call[c].asks /\ call'[c].number = call[c].number
      /\ call'[c].step = s /\ call'[c].round = r /\ call'[c].list = l
  BY <1>1 DEF CallRecord
<1>3. Proceeds
  BY <1>1, <1>2 DEF Proceeds
<1>4. CallKept(c)'
  <2>1. CallKept(c)
    BY CallFacts
  <2>2. call[c].number # 0 /\ (Configures(c) => ValidNetmask(call[c].asks.data.netmask))
    BY <2>1 DEF CallKept, Configures
  <2>3. call'[c].asks.name = "set_config" /\ call'[c].step # "idle" => ValidNetmask(call'[c].asks.data.netmask)
    BY <1>2, <2>2 DEF Configures
  <2>4. call'[c] = CallRecord(call'[c].asks, call'[c].step, call'[c].number, call'[c].round, call'[c].list)
    BY <1>1, <1>2
  <2>5. CallOK(call[c].asks) /\ call[c].number \in 0 .. Len(Script[c])
    BY <2>1, <2>2 DEF CallKept
  <2> QED
    BY <1>2, <2>2, <2>3, <2>4, <2>5 DEF CallKept
<1>5. ASSUME NEW x \in Callers, x # c PROVE CallKept(x)'
  <2>1. CallKept(x)
    BY CallFacts
  <2> QED
    BY <1>1, <1>5, <2>1 DEF CallKept
<1>6. CallsKept'
  BY <1>1, <1>4, <1>5 DEF CallsKept
<1> QED
  BY <1>1, <1>2, <1>3, <1>6

(* The result of a call that did not configure is not looked at.             *)
OutcomeKept(c) ==
  Configures(c) =>
    /\ call[c].step = "receive" => call[c].round >= 1
    /\ call[c].step = "idle" /\ outcome[c] = "ok" => fate[Id(c)] = "applied"
    /\ call[c].step = "idle" /\ outcome[c] = "ETH_CFG_REJECT" => fate[Id(c)] = "refused"

(* Only the result of the caller that takes the step is to be looked at.     *)
LEMMA OutcomesOfOthers ==
  ASSUME BaseInv, SetInv, NEW c \in Callers, \A x \in Callers : x # c => call'[x] = call[x],
         UNCHANGED fate, outcome' = [x \in Callers |-> outcome'[x]],
         \A x \in Callers : x # c => outcome'[x] = outcome[x], OutcomeKept(c)'
  PROVE  OutcomesKept'
<1>1. ASSUME NEW x \in Callers, x # c PROVE OutcomeKept(x)'
  <2>1. OutcomeKept(x)
    BY DEF SetInv, OutcomesKept, OutcomeKept
  <2>2. call'[x] = call[x] /\ outcome'[x] = outcome[x] /\ fate' = fate
    BY <1>1
  <2> QED
    BY <2>1, <2>2 DEF OutcomeKept, Configures, Id
<1>2. \A x \in Callers : OutcomeKept(x)'
  BY <1>1
<1> QED
  BY <1>2 DEF OutcomesKept, OutcomeKept

-----------------------------------------------------------------------------
(* Free touches handles only.                                                *)
LEMMA FreeKeepsSet ==
  ASSUME BaseInv, SetInv, NEW c \in Callers, Free(c)
  PROVE  BaseInv' /\ SetInv'
<1>1. UNCHANGED <<device, requests, answers, call, outcome, reports, fate>>
  BY DEF Free
<1>2. Proceeds
  BY <1>1 DEF Proceeds
<1>3. DevicesKept' /\ CallsKept' /\ OutcomesKept'
  BY <1>1 DEF BaseInv, SetInv, DevicesKept, CallsKept, CallKept, OutcomesKept, Configures, Id
<1>4. /\ FatesKept' /\ RefusalsKept' /\ ConfiguredKept'
      /\ \A r \in requests : RequestKept(r)'
      /\ \A a \in answers : AnswerKept(a)'
  BY <1>1, <1>2, ProceedsKeeps
<1> QED
  BY <1>1, <1>3, <1>4 DEF BaseInv, SetInv, RequestsKept, AnswersKept

(* A set_config is sent once, when nothing has been done with it.            *)
LEMMA SendKeepsSet ==
  ASSUME BaseInv, SetInv, NEW c \in Callers, Send(c)
  PROVE  BaseInv' /\ SetInv'
<1>1. /\ call[c].step = "send"
      /\ call' = [call EXCEPT ![c].step = "receive", ![c].round = @ + 1]
      /\ UNCHANGED <<device, answers, handle, outcome, reports, fate>>
  BY DEF Send
<1>2. CallKept(c)
  BY CallFacts
<1>3. call[c].round \in Nat
  BY <1>2 DEF CallKept
<1>4. Becomes(call, call', c, CallRecord(call[c].asks, "receive", call[c].number, call[c].round + 1, call[c].list))
  BY <1>1, CallFacts, StepRoundUpdate
<1>5. /\ CallsKept' /\ Proceeds
      /\ call'[c].asks = call[c].asks /\ call'[c].number = call[c].number
      /\ call'[c].step = "receive" /\ call'[c].round = call[c].round + 1
      /\ \A x \in Callers : x # c => call'[x] = call[x]
  <2>1. call[c].round + 1 \in Nat
    BY <1>3
  <2> QED
    BY <1>1, <1>4, <2>1, CallGoesOn
<1>6. /\ FatesKept' /\ RefusalsKept' /\ ConfiguredKept'
      /\ \A r \in requests : RequestKept(r)'
      /\ \A a \in answers : AnswerKept(a)'
  BY <1>1, <1>5, ProceedsKeeps
<1>7. DevicesKept'
  BY <1>1 DEF BaseInv, DevicesKept
<1>8. OutcomesKept'
  <2>1. OutcomeKept(c)'
    BY <1>3, <1>5 DEF OutcomeKept
  <2>2. outcome = [x \in Callers |-> outcome[x]]
    BY DEF SetInv, OutcomesKept
  <2> QED
    BY <1>1, <1>5, <2>1, <2>2, OutcomesOfOthers
<1>9. ASSUME NEW k \in Kinds(c), NEW d \in Devices, NEW r,
             r = [cmd |-> k, from |-> Id(c), at |-> d, bytes |-> Contents(c)]
      PROVE  RequestKept(r)'
  <2>1. r.cmd = k /\ r.from = Id(c) /\ r.at = d /\ r.bytes = Contents(c)
        /\ r = [cmd |-> r.cmd, from |-> r.from, at |-> r.at, bytes |-> r.bytes]
    BY <1>9
  <2>2. \A x \in Callers : Id(x)' = Id(x) /\ Configures(x)' = Configures(x) /\ (Asked(x))' = Asked(x)
    BY <1>5, ProceedsFacts
  <2>3. call[c].number \in 1 .. Len(Script[c])
    <3>1. Len(Script[c]) \in Nat
      BY ScriptAssumption
    <3>2. call[c].number \in 0 .. Len(Script[c]) /\ call[c].number # 0
      BY <1>1, <1>2 DEF CallKept
    <3> QED
      BY <3>1, <3>2
  <2>4. Made(Id(c))'
    <3>1. Id(c) \in CallIds
      BY <2>3 DEF CallIds, Id
    <3>2. Id(c)[1] = c /\ Id(c)[2] = call[c].number
      BY DEF Id
    <3>3. Id(c)[2] <= call'[c].number
      BY <1>5, <2>3, <3>2, ScriptAssumption
    <3> QED
      BY <3>1, <3>2, <3>3, <2>2 DEF Made
  <2>5. ASSUME r.cmd = CMD_SET_CONFIG, NEW x \in Callers, r.from = Id(x)'
        PROVE  /\ Configures(x)' /\ call'[x].step # "send" /\ ValidNetmask(call'[x].asks.data.netmask)
               /\ r.bytes = Asked(x)'
               /\ fate'[r.from] = "none"
    <3>1. x = c
      BY <2>1, <2>2, <2>5 DEF Id
    <3>2. Configures(c)
      <4>1. CallOK(call[c].asks)
        BY <1>1, <1>2 DEF CallKept
      <4> QED
        BY <1>9, <2>1, <2>5, <4>1, SMTT(30) DEF Kinds, Configures, CallOK, CMD_SET_CONFIG, CMD_QUERY, CMD_IPCONF_QUERY
    <3>3. ValidNetmask(call[c].asks.data.netmask)
      BY <1>1, <1>2, <3>2 DEF CallKept, Configures
    <3>4. r.bytes = Asked(c)
      BY <2>1, <3>2 DEF Contents, Asked, Configures
    <3>5. fate[Id(c)] = "none"
      BY <1>1, <2>3 DEF BaseInv, FatesKept, Unsent, Id
    <3> QED
      BY <1>1, <1>5, <2>1, <2>2, <3>1, <3>2, <3>3, <3>4, <3>5
  <2> QED
    BY <2>1, <2>2, <2>4, <2>5 DEF RequestKept
<1>10. RequestsKept'
  <2> SUFFICES ASSUME NEW r \in requests' PROVE RequestKept(r)'
    BY DEF RequestsKept
  <2>1. r \in requests \/ \E k \in Kinds(c), d \in Devices :
          r = [cmd |-> k, from |-> Id(c), at |-> d, bytes |-> Contents(c)]
    BY DEF Send
  <2> QED
    BY <1>6, <1>9, <2>1
<1> QED
  BY <1>1, <1>5, <1>6, <1>7, <1>8, <1>10 DEF BaseInv, SetInv, AnswersKept

-----------------------------------------------------------------------------
(* The end of a call whose result, if it configures, is true.                *)
TrueCode(c, code) ==
  Configures(c) =>
    /\ code = "ok" => fate[Id(c)] = "applied"
    /\ code = "ETH_CFG_REJECT" => fate[Id(c)] = "refused"

(* Ends drops packets and gives a result that was true before.               *)
LEMMA EndKeepsSet ==
  ASSUME BaseInv, SetInv, NEW c \in Callers, call[c].step = "receive", NEW code, NEW list,
         Ends(c, code, list), TrueCode(c, code), UNCHANGED <<device, reports, fate>>
  PROVE  BaseInv' /\ SetInv'
<1>1. /\ call' = [call EXCEPT ![c].step = "idle", ![c].list = <<>>]
      /\ outcome' = [outcome EXCEPT ![c] = code]
      /\ answers' \subseteq answers /\ requests' \subseteq requests
  BY DEF Ends, Close
<1>2. CallKept(c)
  BY CallFacts
<1>3. call[c].round \in Nat
  BY <1>2 DEF CallKept
<1>4. Becomes(call, call', c, CallRecord(call[c].asks, "idle", call[c].number, call[c].round, <<>>))
  BY <1>1, CallFacts, StepListUpdate, ZenonT(30)
<1>5. /\ CallsKept' /\ Proceeds
      /\ call'[c].asks = call[c].asks /\ call'[c].number = call[c].number
      /\ call'[c].step = "idle"
      /\ \A x \in Callers : x # c => call'[x] = call[x]
  <2>1. "idle" # "send" /\ call[c].step # "idle" /\ "idle" \in {"idle", "send", "receive"}
    OBVIOUS
  <2> QED
    BY <1>3, <1>4, <2>1, CallGoesOn
<1>6. /\ FatesKept' /\ RefusalsKept' /\ ConfiguredKept'
      /\ \A r \in requests : RequestKept(r)'
      /\ \A a \in answers : AnswerKept(a)'
  BY <1>5, ProceedsKeeps
<1>7. DevicesKept'
  BY DEF BaseInv, DevicesKept
<1>8. OutcomesKept'
  <2>1. outcome = [x \in Callers |-> outcome[x]]
    BY DEF SetInv, OutcomesKept
  <2>2. outcome'[c] = code /\ outcome' = [x \in Callers |-> outcome'[x]]
        /\ \A x \in Callers : x # c => outcome'[x] = outcome[x]
    BY <1>1, <2>1
  <2>3. OutcomeKept(c)'
    <3>1. Configures(c)' = Configures(c) /\ Id(c)' = Id(c)
      BY <1>5, ProceedsFacts
    <3> QED
      BY <1>5, <2>2, <3>1 DEF OutcomeKept, TrueCode
  <2> QED
    BY <1>5, <2>2, <2>3, OutcomesOfOthers
<1> QED
  BY <1>1, <1>5, <1>6, <1>7, <1>8 DEF BaseInv, SetInv, RequestsKept, AnswersKept

(* A set_config times out once, without a result; only a query sends again.  *)
LEMMA TimeOutKeepsSet ==
  ASSUME BaseInv, SetInv, NEW c \in Callers, TimeOut(c)
  PROVE  BaseInv' /\ SetInv'
<1>1. call[c].step = "receive" /\ UNCHANGED <<device, reports, fate>>
  BY DEF TimeOut
<1>2. CASE call[c].round < Rounds(c)
  <2>1. call' = [call EXCEPT ![c].step = "send"] /\ UNCHANGED <<requests, answers, handle, outcome>>
    BY <1>2 DEF TimeOut
  <2>2. CallKept(c)
    BY CallFacts
  <2>3. call[c].round \in Nat
    BY <2>2 DEF CallKept
  <2>4. ~Configures(c)
    <3> SUFFICES ASSUME Configures(c) PROVE FALSE
      OBVIOUS
    <3>1. Rounds(c) = 1
      BY DEF Rounds, Configures
    <3>2. call[c].round >= 1
      BY <1>1 DEF SetInv, OutcomesKept
    <3> QED
      BY <1>2, <2>3, <3>1, <3>2
  <2>5. Becomes(call, call', c, CallRecord(call[c].asks, "send", call[c].number, call[c].round, call[c].list))
    BY <2>1, CallFacts, StepUpdate
  <2>6. /\ CallsKept' /\ Proceeds
        /\ call'[c].asks = call[c].asks /\ call'[c].number = call[c].number
        /\ call'[c].step = "send"
        /\ \A x \in Callers : x # c => call'[x] = call[x]
    BY <1>1, <2>3, <2>4, <2>5, CallGoesOn
  <2>7. /\ FatesKept' /\ RefusalsKept' /\ ConfiguredKept'
        /\ \A r \in requests : RequestKept(r)'
        /\ \A a \in answers : AnswerKept(a)'
    BY <1>1, <2>6, ProceedsKeeps
  <2>8. DevicesKept'
    BY <1>1 DEF BaseInv, DevicesKept
  <2>9. OutcomesKept'
    <3>1. outcome = [x \in Callers |-> outcome[x]]
      BY DEF SetInv, OutcomesKept
    <3>2. OutcomeKept(c)'
      BY <2>6 DEF OutcomeKept
    <3> QED
      BY <1>1, <2>1, <2>6, <3>1, <3>2, OutcomesOfOthers
  <2> QED
    BY <2>1, <2>6, <2>7, <2>8, <2>9 DEF BaseInv, SetInv, RequestsKept, AnswersKept
<1>3. CASE ~(call[c].round < Rounds(c))
  <2> DEFINE code == IF call[c].asks.name = "set_config" THEN "ETH_CFG_NOACK" ELSE "ok"
  <2>1. Ends(c, code, call[c].list)
    BY <1>3 DEF TimeOut
  <2>2. TrueCode(c, code)
    BY DEF TrueCode, Configures
  <2> HIDE DEF code
  <2> QED
    BY <1>1, <2>1, <2>2, EndKeepsSet
<1> QED
  BY <1>2, <1>3

(* Continue drops one answer.                                                *)
LEMMA ContinueKeepsSet ==
  ASSUME BaseInv, SetInv, NEW c \in Callers, call[c].step = "receive", NEW a, NEW list,
         Continue(c, a, list), UNCHANGED <<device, reports, fate>>
  PROVE  BaseInv' /\ SetInv'
<1>1. /\ call' = [call EXCEPT ![c].list = list]
      /\ answers' \subseteq answers
      /\ UNCHANGED <<requests, handle, outcome>>
  BY DEF Continue
<1>2. CallKept(c)
  BY CallFacts
<1>3. call[c].round \in Nat
  BY <1>2 DEF CallKept
<1>4. Becomes(call, call', c, CallRecord(call[c].asks, "receive", call[c].number, call[c].round, list))
  BY <1>1, CallFacts, ListUpdate
<1>5. /\ CallsKept' /\ Proceeds
      /\ call'[c].asks = call[c].asks /\ call'[c].number = call[c].number
      /\ call'[c].step = "receive" /\ call'[c].round = call[c].round
      /\ \A x \in Callers : x # c => call'[x] = call[x]
  BY <1>3, <1>4, CallGoesOn
<1>6. /\ FatesKept' /\ RefusalsKept' /\ ConfiguredKept'
      /\ \A r \in requests : RequestKept(r)'
      /\ \A b \in answers : AnswerKept(b)'
  BY <1>5, ProceedsKeeps
<1>7. DevicesKept'
  BY DEF BaseInv, DevicesKept
<1>8. OutcomesKept'
  <2>1. outcome = [x \in Callers |-> outcome[x]]
    BY DEF SetInv, OutcomesKept
  <2>2. Configures(c)' = Configures(c)
    BY <1>5, ProceedsFacts
  <2>3. Configures(c) => call[c].round >= 1
    BY DEF SetInv, OutcomesKept
  <2>4. OutcomeKept(c)'
    BY <1>5, <2>2, <2>3 DEF OutcomeKept
  <2> QED
    BY <1>1, <1>5, <2>1, <2>4, OutcomesOfOthers
<1> QED
  BY <1>1, <1>5, <1>6, <1>7, <1>8 DEF BaseInv, SetInv, RequestsKept, AnswersKept

(* What became of an answer, without the list that it was stored in.         *)
LEMMA ReceiveEffects ==
  ASSUME NEW c \in Callers, NEW a \in answers, Gather(c, a)
  PROVE  /\ a.cmd \in {CMD_QUERY_REPLY, CMD_IPCONF_REPLY}
         /\ \/ \E list : Continue(c, a, list)
            \/ \E list : Ends(c, "ok", list) /\ DOMAIN call[c].asks.filter # {}
            \/ \E list : Ends(c, "ETH_MALLOC_ERROR", list)
BY DEF Gather

(* A confirmation says what became of this very call; replies end no         *)
(* set_config with "ok", which has no filter.                                *)
LEMMA ReceiveKeepsSet ==
  ASSUME BaseInv, SetInv, NEW c \in Callers, Receive(c)
  PROVE  BaseInv' /\ SetInv'
<1>1. call[c].step = "receive" /\ UNCHANGED <<device, reports, fate>>
  BY DEF Receive
<1>2. PICK a \in answers : a.to = Id(c) /\ (Gather(c, a) \/ TakeConfirm(c, a))
  BY DEF Receive
<1>3. CASE TakeConfirm(c, a)
  <2> DEFINE code == IF a.status = 0 THEN "ETH_CFG_REJECT" ELSE "ok"
  <2>1. a.cmd = CMD_CONFIRM /\ Ends(c, code, <<>>)
    BY <1>3 DEF TakeConfirm
  <2>2. fate[Id(c)] = IF a.status = 0 THEN "refused" ELSE "applied"
    BY <1>2, <2>1 DEF SetInv, AnswersKept, AnswerKept
  <2>3. TrueCode(c, code)
    BY <2>2 DEF TrueCode
  <2> HIDE DEF code
  <2> QED
    BY <1>1, <2>1, <2>3, EndKeepsSet
<1>4. CASE Gather(c, a)
  <2>1. ASSUME NEW list, Continue(c, a, list) PROVE BaseInv' /\ SetInv'
    BY <1>1, <2>1, ContinueKeepsSet
  <2>2. ASSUME NEW list, Ends(c, "ok", list), DOMAIN call[c].asks.filter # {} PROVE BaseInv' /\ SetInv'
    <3>1. ~Configures(c)
      <4>1. CallKept(c)
        BY CallFacts
      <4>2. Configures(c) => CallOK(call[c].asks)
        BY <1>1, <4>1 DEF CallKept
      <4>3. Configures(c) => call[c].asks.filter = <<>>
        BY <4>2 DEF CallOK, Configures
      <4>4. DOMAIN <<>> = {}
        OBVIOUS
      <4> QED
        BY <2>2, <4>3, <4>4
    <3>2. TrueCode(c, "ok")
      BY <3>1 DEF TrueCode
    <3> QED
      BY <1>1, <2>2, <3>2, EndKeepsSet
  <2>3. ASSUME NEW list, Ends(c, "ETH_MALLOC_ERROR", list) PROVE BaseInv' /\ SetInv'
    <3>1. TrueCode(c, "ETH_MALLOC_ERROR")
      BY DEF TrueCode
    <3> QED
      BY <1>1, <2>3, <3>1, EndKeepsSet
  <2> QED
    BY <1>4, <2>1, <2>2, <2>3, ReceiveEffects
<1> QED
  BY <1>2, <1>3, <1>4

-----------------------------------------------------------------------------
(* What Begin does.                                                          *)
LEMMA BeginFacts ==
  ASSUME BaseInv, NEW c \in Callers, Begin(c)
  PROVE  /\ call[c].step = "idle" /\ ~handle[c].valid
         /\ UNCHANGED <<device, requests, answers, handle, reports, fate>>
         /\ call' = [x \in Callers |-> call'[x]]
         /\ \A x \in Callers : x # c => call'[x] = call[x]
         /\ call[c].number < Len(Script[c]) /\ call'[c].number = call[c].number + 1
         /\ CallOK(call'[c].asks) /\ call'[c].list = <<>> /\ call'[c].step \in {"idle", "send"}
         /\ CallKept(c)'
         /\ \E o : outcome' = [outcome EXCEPT ![c] = o] /\ o # "ok" /\ o # "ETH_CFG_REJECT"
<1>1. PICK x \in Calling(c) :
        \E s \in {"idle", "send"} : \E o :
          /\ call' = [call EXCEPT ![c] = Started(c, x, s)]
          /\ outcome' = [outcome EXCEPT ![c] = o] /\ o # "ok" /\ o # "ETH_CFG_REJECT"
          /\ x.name = "set_config" /\ s # "idle" => ValidNetmask(x.data.netmask)
  BY DEF Begin
<1>2. PICK s \in {"idle", "send"} : \E o :
        /\ call' = [call EXCEPT ![c] = Started(c, x, s)]
        /\ outcome' = [outcome EXCEPT ![c] = o] /\ o # "ok" /\ o # "ETH_CFG_REJECT"
        /\ x.name = "set_config" /\ s # "idle" => ValidNetmask(x.data.netmask)
  BY <1>1
<1>3. /\ call[c].step = "idle" /\ ~handle[c].valid
      /\ UNCHANGED <<device, requests, answers, handle, reports, fate>>
  BY DEF Begin
<1>4. call = [y \in Callers |-> call[y]] /\ CallKept(c)
  BY CallFacts
<1>5. call[c].number < Len(Script[c]) /\ x \in Script[c][call[c].number + 1]
  BY DEF Calling
<1>6. Len(Script[c]) \in Nat /\ call[c].number \in Nat
  BY <1>4, ScriptAssumption DEF CallKept
<1>7. CallOK(x)
  <2>1. call[c].number + 1 \in 1 .. Len(Script[c])
    BY <1>5, <1>6
  <2> QED
    BY <1>5, <2>1, ScriptAssumption
<1>8. /\ call' = [y \in Callers |-> call'[y]]
      /\ \A y \in Callers : y # c => call'[y] = call[y]
      /\ call'[c] = CallRecord(x, s, call[c].number + 1, 0, <<>>)
  <2>1. Started(c, x, s) = CallRecord(x, s, call[c].number + 1, 0, <<>>)
    BY DEF Started, NewCall, CallRecord
  <2> QED
    BY <1>2, <1>4, <2>1
<1>9. /\ call'[c].asks = x /\ call'[c].step = s /\ call'[c].number = call[c].number + 1
      /\ call'[c].round = 0 /\ call'[c].list = <<>>
  BY <1>8 DEF CallRecord
<1>10. CallKept(c)'
  <2>1. call'[c].number \in 0 .. Len(Script[c]) /\ call'[c].number # 0
    BY <1>5, <1>6, <1>9
  <2>2. call'[c] = CallRecord(call'[c].asks, call'[c].step, call'[c].number, call'[c].round, call'[c].list)
    BY <1>8, <1>9
  <2> QED
    BY <1>2, <1>7, <1>9, <2>1, <2>2 DEF CallKept
<1> QED
  BY <1>2, <1>3, <1>5, <1>7, <1>8, <1>9, <1>10

(* Nothing that was made before tells of the new call.                       *)
LEMMA NewIdFacts ==
  ASSUME BaseInv, NEW c \in Callers, Begin(c)
  PROVE  /\ \A id : Made(id) => Made(id)' /\ id # Id(c)'
         /\ \A x \in Callers : x # c => Id(x)' = Id(x) /\ Configures(x)' = Configures(x) /\ (Asked(x))' = Asked(x)
<1>1. /\ \A x \in Callers : x # c => call'[x] = call[x]
      /\ call'[c].number = call[c].number + 1
  BY BeginFacts
<1>2. \A x \in Callers : call[x].number \in Nat
  BY CallFacts, ScriptAssumption DEF CallKept
<1>3. ASSUME NEW id, Made(id) PROVE Made(id)' /\ id # Id(c)'
  <2>1. id[1] \in Callers /\ id[2] \in Nat /\ id[2] <= call[id[1]].number
    <3>1. id[1] \in Callers /\ id[2] \in 1 .. Len(Script[id[1]])
      BY <1>3 DEF Made, CallIds
    <3>2. id[2] \in Nat
      BY <3>1, ScriptAssumption
    <3> QED
      BY <1>3, <3>1, <3>2 DEF Made
  <2>2. id[2] <= call'[id[1]].number
    BY <1>1, <1>2, <2>1
  <2>3. id # Id(c)'
    <3> SUFFICES ASSUME id = <<c, call'[c].number>> PROVE FALSE
      BY DEF Id
    <3>1. id[1] = c /\ id[2] = call[c].number + 1
      BY <1>1
    <3> QED
      BY <1>2, <2>1, <3>1
  <2> QED
    BY <1>3, <2>2, <2>3 DEF Made
<1>4. \A x \in Callers : x # c => Id(x)' = Id(x) /\ Configures(x)' = Configures(x) /\ (Asked(x))' = Asked(x)
  BY <1>1 DEF Id, Configures, Asked
<1> QED
  BY <1>3, <1>4

(* The mark of a device that no call has configured is no identity.          *)
LEMMA NobodyIsNotACall ==
  ASSUME NEW c \in Callers
  PROVE  <<>> # Id(c)
<1>1. Len(<<>>) = 0 /\ Len(<<c, call[c].number>>) = 2
  OBVIOUS
<1> QED
  BY <1>1 DEF Id

(* A new call has a number that nothing under way carries.                   *)
LEMMA BeginKeepsSet ==
  ASSUME BaseInv, SetInv, NEW c \in Callers, Begin(c)
  PROVE  BaseInv' /\ SetInv'
<1>1. /\ call[c].step = "idle"
      /\ UNCHANGED <<device, requests, answers, handle, reports, fate>>
      /\ call' = [x \in Callers |-> call'[x]]
      /\ \A x \in Callers : x # c => call'[x] = call[x]
      /\ call[c].number < Len(Script[c]) /\ call'[c].number = call[c].number + 1
      /\ CallKept(c)'
      /\ call'[c].step \in {"idle", "send"}
  BY BeginFacts
<1>2. /\ \A id : Made(id) => Made(id)' /\ id # Id(c)'
      /\ \A x \in Callers : x # c => Id(x)' = Id(x) /\ Configures(x)' = Configures(x) /\ (Asked(x))' = Asked(x)
  BY NewIdFacts
<1>3. \A x \in Callers : call[x].number \in Nat /\ Len(Script[x]) \in Nat
  BY CallFacts, ScriptAssumption DEF CallKept
<1>4. DevicesKept'
  BY <1>1 DEF BaseInv, DevicesKept
<1>5. CallsKept'
  <2>1. ASSUME NEW x \in Callers, x # c PROVE CallKept(x)'
    <3>1. CallKept(x) /\ call'[x] = call[x]
      BY <1>1, <2>1, CallFacts
    <3> QED
      BY <3>1 DEF CallKept
  <2> QED
    BY <1>1, <2>1 DEF CallsKept
<1>6. FatesKept'
  <2>1. ASSUME NEW x \in Callers, NEW n \in 1 .. Len(Script[x]), Unsent(x, n)' PROVE fate'[<<x, n>>] = "none"
    <3>1. CASE x = c
      <4>1. n > call[c].number
        BY <1>1, <1>3, <2>1, <3>1 DEF Unsent
      <4> QED
        BY <1>1, <3>1, <4>1 DEF BaseInv, FatesKept, Unsent
    <3>2. CASE x # c
      <4>1. Unsent(x, n)
        BY <1>1, <2>1, <3>2 DEF Unsent, Configures
      <4> QED
        BY <1>1, <4>1 DEF BaseInv, FatesKept
    <3> QED
      BY <3>1, <3>2
  <2>2. fate' = [id \in CallIds |-> fate'[id]]
    BY <1>1 DEF BaseInv, FatesKept
  <2> QED
    BY <2>1, <2>2 DEF FatesKept
<1>7. RequestsKept'
  <2> SUFFICES ASSUME NEW r \in requests PROVE RequestKept(r)'
    BY <1>1 DEF RequestsKept
  <2>1. RequestKept(r)
    BY DEF SetInv, RequestsKept
  <2>2. \A x \in Callers : r.from = Id(x)' => x # c
    BY <1>2, <2>1 DEF RequestKept
  <2> QED
    BY <1>1, <1>2, <2>1, <2>2 DEF RequestKept
<1>8. AnswersKept'
  <2> SUFFICES ASSUME NEW a \in answers PROVE AnswerKept(a)'
    BY <1>1 DEF AnswersKept
  <2>1. AnswerKept(a)
    BY DEF SetInv, AnswersKept
  <2>2. \A x \in Callers : a.to = Id(x)' => x # c
    BY <1>2, <2>1 DEF AnswerKept
  <2> QED
    BY <1>1, <1>2, <2>1, <2>2 DEF AnswerKept
<1>9. fate'[Id(c)'] = "none"
  <2>1. Id(c)' = <<c, call[c].number + 1>>
    BY <1>1 DEF Id
  <2>2. call[c].number + 1 \in 1 .. Len(Script[c]) /\ call[c].number + 1 > call[c].number
    BY <1>1, <1>3
  <2> QED
    BY <1>1, <2>1, <2>2 DEF BaseInv, FatesKept, Unsent
<1>10. RefusalsKept'
  <2> SUFFICES ASSUME NEW x \in Callers, Configures(x)', fate'[Id(x)'] = "refused"
               PROVE  \E d \in Devices : Factory[d].mac = call'[x].asks.data.mac /\ Factory[d].enable = 0
    BY DEF RefusalsKept
  <2>1. x # c
    BY <1>9
  <2>2. call'[x] = call[x] /\ Configures(x) /\ fate[Id(x)] = "refused"
    BY <1>1, <1>2, <2>1
  <2> QED
    BY <2>2 DEF SetInv, RefusalsKept
<1>11. ConfiguredKept'
  <2> SUFFICES ASSUME NEW d \in Devices PROVE DeviceKept(d)'
    BY DEF ConfiguredKept
  <2>1. DeviceKept(d) /\ device' = device
    BY <1>1 DEF SetInv, ConfiguredKept
  <2>2. ASSUME NEW x \in Callers, device'[d].by = Id(x)' PROVE AsAsked(d, x)'
    <3>1. x # c
      <4>1. <<>> # Id(c)'
        <5>1. Len(<<>>) = 0 /\ Len(<<c, call'[c].number>>) = 2
          OBVIOUS
        <5> QED
          BY <5>1 DEF Id
      <4> QED
        BY <1>2, <2>1, <2>2, <4>1 DEF DeviceKept
    <3>2. call'[x] = call[x] /\ Id(x)' = Id(x) /\ Configures(x)' = Configures(x)
      BY <1>1, <1>2, <3>1
    <3>3. AsAsked(d, x)
      BY <2>1, <2>2, <3>2 DEF DeviceKept
    <3> QED
      BY <2>1, <3>2, <3>3 DEF AsAsked
  <2> QED
    BY <1>2, <2>1, <2>2 DEF DeviceKept
<1>12. OutcomesKept'
  <2>1. PICK o : outcome' = [outcome EXCEPT ![c] = o] /\ o # "ok" /\ o # "ETH_CFG_REJECT"
    BY BeginFacts
  <2>2. outcome = [x \in Callers |-> outcome[x]]
    BY DEF SetInv, OutcomesKept
  <2>3. outcome'[c] = o /\ outcome' = [x \in Callers |-> outcome'[x]]
        /\ \A x \in Callers : x # c => outcome'[x] = outcome[x]
    BY <2>1, <2>2
  <2>4. OutcomeKept(c)'
    BY <1>1, <2>1, <2>3 DEF OutcomeKept
  <2> QED
    BY <1>1, <2>3, <2>4, OutcomesOfOthers
<1> QED
  BY <1>4, <1>5, <1>6, <1>7, <1>8, <1>10, <1>11, <1>12 DEF BaseInv, SetInv

-----------------------------------------------------------------------------
DeviceRecord(mac, serial, firmware, enable, config, active, dhcp, by) ==
  [mac |-> mac, serial |-> serial, firmware |-> firmware, enable |-> enable,
   config |-> config, active |-> active, dhcp |-> dhcp, by |-> by]

(* What a device is never changes.                                           *)
LEMMA DeviceFacts ==
  ASSUME BaseInv, NEW d \in Devices
  PROVE  /\ device[d] = DeviceRecord(Factory[d].mac, Factory[d].serial, Factory[d].firmware, Factory[d].enable,
                                     device[d].config, device[d].active, device[d].dhcp, device[d].by)
         /\ device[d].mac = Factory[d].mac /\ device[d].serial = Factory[d].serial
         /\ device[d].firmware = Factory[d].firmware /\ device[d].enable = Factory[d].enable
<1>1. device[d] = DeviceRecord(Factory[d].mac, Factory[d].serial, Factory[d].firmware, Factory[d].enable,
                               device[d].config, device[d].active, device[d].dhcp, device[d].by)
  BY DEF BaseInv, DevicesKept, DeviceRecord
<1> QED
  BY <1>1 DEF DeviceRecord

-----------------------------------------------------------------------------
(* Hearing a query.                                                          *)
LEMMA QueryKeepsSet ==
  ASSUME BaseInv, SetInv, NEW d \in Devices, NEW r \in requests, requests' = requests \ {r},
         HearQuery(d, r) \/ HearIpConfQuery(d, r), UNCHANGED <<call, handle, outcome>>
  PROVE  BaseInv' /\ SetInv'
<1>1. Proceeds
  BY DEF Proceeds
<1>2. PICK a : a.to = r.from /\ a.cmd # CMD_CONFIRM /\ Say(a)
  <2>1. CASE HearQuery(d, r)
    <3>1. QueryReply(d, r.from).to = r.from /\ QueryReply(d, r.from).cmd # CMD_CONFIRM
      BY DEF QueryReply, CMD_QUERY_REPLY, CMD_CONFIRM
    <3> QED
      BY <2>1, <3>1 DEF HearQuery
  <2>2. CASE HearIpConfQuery(d, r)
    <3>1. IpConfReply(d, r.from).to = r.from /\ IpConfReply(d, r.from).cmd # CMD_CONFIRM
      BY DEF IpConfReply, CMD_IPCONF_REPLY, CMD_CONFIRM
    <3> QED
      BY <2>2, <3>1 DEF HearIpConfQuery
  <2> QED
    BY <2>1, <2>2
<1>3. UNCHANGED <<device, fate>>
  BY DEF HearQuery, HearIpConfQuery
<1>4. answers' \subseteq answers \cup {a} /\ reports' = reports \cup {a}
  BY <1>2 DEF Say
<1>5. /\ FatesKept' /\ RefusalsKept' /\ ConfiguredKept'
      /\ \A q \in requests : RequestKept(q)'
      /\ \A b \in answers : AnswerKept(b)'
  BY <1>1, <1>3, <1>4, ProceedsKeeps
<1>6. AnswerKept(a)'
  <2>1. Made(r.from)'
    BY <1>5 DEF RequestKept
  <2> QED
    BY <1>2, <1>4, <2>1 DEF AnswerKept
<1>7. AnswersKept'
  BY <1>4, <1>5, <1>6 DEF AnswersKept
<1>8. RequestsKept'
  BY <1>5 DEF RequestsKept
<1>9. DevicesKept' /\ CallsKept' /\ OutcomesKept'
  BY <1>3 DEF BaseInv, SetInv, DevicesKept, CallsKept, CallKept, OutcomesKept, Configures, Id
<1> QED
  BY <1>5, <1>7, <1>8, <1>9 DEF BaseInv, SetInv

(* What is known of the set_config that a device hears.                      *)
LEMMA HeardFacts ==
  ASSUME BaseInv, SetInv, NEW d \in Devices, NEW r \in requests, r.at = d,
         HearSetConfig(d, r), NEW c \in Callers, r.from = Id(c)
  PROVE  /\ Configures(c) /\ call[c].step # "send" /\ ValidNetmask(call[c].asks.data.netmask)
         /\ r.bytes = Asked(c) /\ call[c].asks.data \in SetData
         /\ Factory[d].mac = call[c].asks.data.mac /\ fate[Id(c)] = "none"
         /\ Intact(r.bytes)
<1>1. RequestKept(r) /\ r.cmd = CMD_SET_CONFIG /\ SubSeq(r.bytes, 2, 7) = device[d].mac
  BY DEF SetInv, RequestsKept, HearSetConfig
<1>2. /\ Configures(c) /\ call[c].step # "send" /\ ValidNetmask(call[c].asks.data.netmask)
      /\ r.bytes = Asked(c)
      /\ Factory[r.at].mac = call[c].asks.data.mac => fate[r.from] = "none"
  BY <1>1 DEF RequestKept
<1>3. call[c].asks.data \in SetData
  <2>1. CallKept(c)
    BY CallFacts
  <2>2. CallOK(call[c].asks)
    BY <1>2, <2>1 DEF CallKept, Configures, NoCall
  <2> QED
    BY <1>2, <2>2 DEF CallOK, Configures, SetData
<1>4. Intact(r.bytes) /\ SubSeq(r.bytes, 2, 7) = call[c].asks.data.mac
  BY <1>2, <1>3, PacketSurvives DEF Asked
<1>5. Factory[d].mac = call[c].asks.data.mac
  BY <1>1, <1>4, DeviceFacts
<1> QED
  BY <1>2, <1>3, <1>4, <1>5

(* What a device that hears a set_config does.                               *)
LEMMA SetConfigEffects ==
  ASSUME BaseInv, SetInv, NEW d \in Devices, NEW r \in requests, r.at = d, HearSetConfig(d, r)
  PROVE  LET fateNow == IF Accepts(d, r) THEN "applied" ELSE "refused"
             configNow == [ip |-> SubSeq(r.bytes, 12, 15), gateway |-> SubSeq(r.bytes, 16, 19),
                           nmb |-> r.bytes[20], nmm |-> r.bytes[21]]
         IN /\ Made(r.from) /\ DevicesKept'
            /\ fate' = [id \in CallIds |-> fate'[id]]
            /\ \A id \in CallIds : fate'[id] = IF id = r.from THEN fateNow ELSE fate[id]
            /\ \A e \in Devices : e # d => device'[e] = device[e]
            /\ ~Accepts(d, r) => device'[d] = device[d]
            /\ Accepts(d, r) => device'[d].config = configNow /\ device'[d].by = r.from
<1> DEFINE fateNow == IF Accepts(d, r) THEN "applied" ELSE "refused"
           configNow == [ip |-> SubSeq(r.bytes, 12, 15), gateway |-> SubSeq(r.bytes, 16, 19),
                         nmb |-> r.bytes[20], nmm |-> r.bytes[21]]
           h == r.bytes[22]
<1>1. Made(r.from)
  BY DEF SetInv, RequestsKept, RequestKept
<1>2. fate' = [id \in CallIds |-> fate'[id]]
      /\ \A id \in CallIds : fate'[id] = IF id = r.from THEN fateNow ELSE fate[id]
  <2>1. fate = [id \in CallIds |-> fate[id]]
    BY DEF BaseInv, FatesKept
  <2>2. fate' = [fate EXCEPT ![r.from] = fateNow]
    BY DEF HearSetConfig
  <2>3. r.from \in CallIds
    BY <1>1 DEF Made
  <2> HIDE DEF fateNow
  <2> QED
    BY <2>1, <2>2, <2>3
<1> DEFINE new == IF Accepts(d, r) THEN Configured(d, r) ELSE device[d]
<1>3. /\ device' = [e \in Devices |-> device'[e]] /\ device'[d] = new
      /\ \A e \in Devices : e # d => device'[e] = device[e]
  <2>1. device = [e \in Devices |-> device[e]]
    BY DEF BaseInv, DevicesKept
  <2>2. device' = [device EXCEPT ![d] = new]
    BY DEF HearSetConfig
  <2> HIDE DEF new
  <2> QED
    BY <2>1, <2>2
<1>4. Configured(d, r) = DeviceRecord(Factory[d].mac, Factory[d].serial, Factory[d].firmware, Factory[d].enable,
                              configNow, IF h = 0 THEN configNow ELSE device[d].active, h, r.from)
  <2>1. Configured(d, r) = [device[d] EXCEPT !.config = configNow, !.dhcp = h, !.by = r.from,
                                             !.active = IF h = 0 THEN configNow ELSE @]
    BY DEF Configured
  <2> DEFINE old == device[d]
             m == Factory[d].mac
             s == Factory[d].serial
             f == Factory[d].firmware
             e == Factory[d].enable
             x == old.config
             a == old.active
             y == old.dhcp
             b == old.by
             p == [old EXCEPT !.config = configNow]
             q == [p EXCEPT !.dhcp = h]
             t == [q EXCEPT !.by = r.from]
             aNow == IF h = 0 THEN configNow ELSE a
  <2>2. old = DeviceRecord(m, s, f, e, x, a, y, b)
    BY DeviceFacts
  <2>3. Configured(d, r) = [t EXCEPT !.active = aNow]
    BY <2>1
  <2> HIDE DEF configNow, h, m, s, f, e, x, a, y, b, old, aNow
  <2>4. p = DeviceRecord(m, s, f, e, configNow, a, y, b)
    BY <2>2 DEF DeviceRecord
  <2> HIDE DEF p
  <2>5. q = DeviceRecord(m, s, f, e, configNow, a, h, b)
    BY <2>4 DEF DeviceRecord
  <2> HIDE DEF q
  <2>6. t = DeviceRecord(m, s, f, e, configNow, a, h, r.from)
    BY <2>5 DEF DeviceRecord
  <2> HIDE DEF t
  <2>7. Configured(d, r) = DeviceRecord(m, s, f, e, configNow, aNow, h, r.from)
    BY <2>3, <2>6 DEF DeviceRecord
  <2> QED
    BY <2>7 DEF m, s, f, e, aNow, a, old
<1> HIDE DEF configNow, h
<1>5. \E a, x, y, b : /\ device'[d] = DeviceRecord(Factory[d].mac, Factory[d].serial, Factory[d].firmware,
                                                  Factory[d].enable, x, a, y, b)
                      /\ ~Accepts(d, r) => device'[d] = device[d]
                      /\ Accepts(d, r) => x = configNow /\ b = r.from
  BY <1>3, <1>4, DeviceFacts
<1>6. PICK a, x, y, b : /\ device'[d] = DeviceRecord(Factory[d].mac, Factory[d].serial, Factory[d].firmware,
                                                  Factory[d].enable, x, a, y, b)
                        /\ ~Accepts(d, r) => device'[d] = device[d]
                        /\ Accepts(d, r) => x = configNow /\ b = r.from
  BY <1>5
<1>7. device'[d].config = x /\ device'[d].active = a /\ device'[d].dhcp = y /\ device'[d].by = b
  BY <1>6 DEF DeviceRecord
<1>8. DevicesKept'
  <2>1. ASSUME NEW e \in Devices
        PROVE device'[e] = DeviceRecord(Factory[e].mac, Factory[e].serial, Factory[e].firmware, Factory[e].enable,
                                        device'[e].config, device'[e].active, device'[e].dhcp, device'[e].by)
    BY <1>3, <1>6, <1>7, DeviceFacts
  <2> QED
    BY <1>3, <2>1 DEF DevicesKept, DeviceRecord
<1>9. Accepts(d, r) => device'[d].config = configNow /\ device'[d].by = r.from
  BY <1>6, <1>7
<1> QED
  BY <1>1, <1>2, <1>3, <1>6, <1>8, <1>9 DEF configNow

-----------------------------------------------------------------------------
(* A device that accepts is configured as asked, for the packet is intact; no*)
(* other packet of the call is for a device with this address.               *)
LEMMA SetConfigKeepsSet ==
  ASSUME BaseInv, SetInv, NEW d \in Devices, NEW r \in requests, r.at = d, requests' = requests \ {r},
         HearSetConfig(d, r), UNCHANGED <<call, handle, outcome>>
  PROVE  BaseInv' /\ SetInv'
<1> DEFINE fateNow == IF Accepts(d, r) THEN "applied" ELSE "refused"
           configNow == [ip |-> SubSeq(r.bytes, 12, 15), gateway |-> SubSeq(r.bytes, 16, 19),
                         nmb |-> r.bytes[20], nmm |-> r.bytes[21]]
<1>1. /\ Made(r.from) /\ DevicesKept'
      /\ fate' = [id \in CallIds |-> fate'[id]]
      /\ \A id \in CallIds : fate'[id] = IF id = r.from THEN fateNow ELSE fate[id]
      /\ \A e \in Devices : e # d => device'[e] = device[e]
      /\ ~Accepts(d, r) => device'[d] = device[d]
      /\ Accepts(d, r) => device'[d].config = configNow /\ device'[d].by = r.from
  BY SetConfigEffects
<1>2. PICK a : answers' \subseteq answers \cup {a} /\ a.to = r.from /\ a.cmd = CMD_CONFIRM
      /\ (a.status = 0 <=> ~Accepts(d, r)) /\ reports' = reports
  <2>1. PICK a : a = Confirm(d, r.from, IF Accepts(d, r) THEN 1 ELSE 0)
    OBVIOUS
  <2>2. a.to = r.from /\ a.cmd = CMD_CONFIRM /\ (a.status = 0 <=> ~Accepts(d, r))
    BY <2>1 DEF Confirm
  <2>3. Say(a)
    BY <2>1 DEF HearSetConfig
  <2> QED
    BY <2>2, <2>3 DEF Say
<1>3. ASSUME NEW c \in Callers, r.from = Id(c)
      PROVE  /\ Configures(c) /\ call[c].step # "send" /\ ValidNetmask(call[c].asks.data.netmask)
             /\ r.bytes = Asked(c) /\ call[c].asks.data \in SetData
             /\ Factory[d].mac = call[c].asks.data.mac /\ fate[Id(c)] = "none"
             /\ Intact(r.bytes)
  BY <1>3, HeardFacts
<1>4. call' = call /\ outcome' = outcome
      /\ \A c \in Callers : Id(c)' = Id(c) /\ Configures(c)' = Configures(c) /\ (Asked(c))' = Asked(c)
  BY DEF Id, Configures, Asked
<1>5. \A id : Made(id)' <=> Made(id)
  BY <1>4 DEF Made
<1>6. \A id \in CallIds : id # r.from => fate'[id] = fate[id]
  BY <1>1
<1>7. fate'[r.from] = fateNow /\ r.from \in CallIds
  BY <1>1 DEF Made
<1>8. CallsKept'
  BY <1>4 DEF BaseInv, CallsKept, CallKept
<1>9. ASSUME NEW c \in Callers, NEW n \in 1 .. Len(Script[c]), Unsent(c, n)
      PROVE <<c, n>> # r.from /\ <<c, n>> \in CallIds
  <2>1. <<c, n>> \in CallIds
    BY DEF CallIds
  <2>2. ASSUME <<c, n>> = r.from PROVE FALSE
    <3>1. n <= call[c].number
      BY <1>1, <2>2 DEF Made
    <3>2. n = call[c].number
      <4>1. CallKept(c)
        BY CallFacts
      <4>2. call[c].number \in Nat /\ n \in Nat
        BY <4>1, ScriptAssumption DEF CallKept
      <4> QED
        BY <1>9, <3>1, <4>2 DEF Unsent
    <3>3. r.from = Id(c)
      BY <2>2, <3>2 DEF Id
    <3> QED
      BY <1>3, <1>9, <3>2, <3>3, CallFacts, ScriptAssumption DEF Unsent, CallKept
  <2> QED
    BY <2>1, <2>2
<1>10. FatesKept'
  <2>1. ASSUME NEW c \in Callers, NEW n \in 1 .. Len(Script[c]), Unsent(c, n)' PROVE fate'[<<c, n>>] = "none"
    <3>1. Unsent(c, n)
      BY <1>4, <2>1 DEF Unsent
    <3>2. fate[<<c, n>>] = "none"
      BY <3>1 DEF BaseInv, FatesKept
    <3> QED
      BY <1>6, <1>9, <3>1, <3>2
  <2> QED
    BY <1>1, <2>1 DEF FatesKept
<1>11. RequestsKept'
  <2> SUFFICES ASSUME NEW q \in requests, q # r PROVE RequestKept(q)'
    BY DEF RequestsKept
  <2>1. RequestKept(q) /\ RequestKept(r)
    BY DEF SetInv, RequestsKept
  <2>2. r.cmd = CMD_SET_CONFIG
    BY DEF HearSetConfig
  <2>3. ASSUME q.cmd = CMD_SET_CONFIG, NEW c \in Callers, q.from = Id(c), Factory[q.at].mac = call[c].asks.data.mac
        PROVE  fate'[q.from] = "none"
    <3>1. q.bytes = Asked(c) /\ fate[q.from] = "none" /\ q.at \in Devices
      BY <2>1, <2>3 DEF RequestKept
    <3>2. q.from # r.from
      <4> SUFFICES ASSUME q.from = r.from PROVE FALSE
        OBVIOUS
      <4>1. r.bytes = Asked(c) /\ Factory[d].mac = call[c].asks.data.mac
        BY <1>3, <2>3
      <4>2. q.at = d
        BY <2>3, <3>1, <4>1, FactoryAssumption
      <4>3. q = [cmd |-> q.cmd, from |-> q.from, at |-> q.at, bytes |-> q.bytes]
            /\ r = [cmd |-> r.cmd, from |-> r.from, at |-> r.at, bytes |-> r.bytes]
        BY <2>1 DEF RequestKept
      <4> QED
        BY <2>2, <2>3, <3>1, <4>1, <4>2, <4>3
    <3>3. q.from \in CallIds
      BY <2>1 DEF RequestKept, Made
    <3> QED
      BY <1>6, <3>1, <3>2, <3>3
  <2>4. ASSUME q.cmd = CMD_SET_CONFIG, NEW c \in Callers, q.from = Id(c)
        PROVE  /\ Configures(c) /\ call[c].step # "send" /\ ValidNetmask(call[c].asks.data.netmask)
               /\ q.bytes = Asked(c)
    BY <2>1, <2>4 DEF RequestKept
  <2>5. q = [cmd |-> q.cmd, from |-> q.from, at |-> q.at, bytes |-> q.bytes]
        /\ Made(q.from) /\ q.at \in Devices
    BY <2>1 DEF RequestKept
  <2> QED
    BY <1>4, <1>5, <2>3, <2>4, <2>5 DEF RequestKept
<1>12. AnswersKept'
  <2>1. ASSUME NEW b \in answers PROVE AnswerKept(b)'
    <3>1. AnswerKept(b)
      BY DEF SetInv, AnswersKept
    <3>2. ASSUME b.cmd = CMD_CONFIRM, NEW c \in Callers, b.to = Id(c)
          PROVE  Configures(c) /\ fate'[b.to] = IF b.status = 0 THEN "refused" ELSE "applied"
      <4>1. Configures(c) /\ fate[b.to] = IF b.status = 0 THEN "refused" ELSE "applied"
        BY <3>1, <3>2 DEF AnswerKept
      <4>2. b.to # r.from
        BY <1>3, <3>2, <4>1
      <4>3. b.to \in CallIds
        BY <3>1 DEF AnswerKept, Made
      <4> QED
        BY <1>6, <4>1, <4>2, <4>3
    <3> QED
      BY <1>2, <1>4, <1>5, <3>1, <3>2 DEF AnswerKept
  <2>2. AnswerKept(a)'
    <3>1. \A c \in Callers : r.from = Id(c) => Configures(c)
      BY <1>3
    <3>2. fate'[a.to] = IF a.status = 0 THEN "refused" ELSE "applied"
      BY <1>2, <1>7
    <3> QED
      BY <1>1, <1>2, <1>4, <1>5, <3>1, <3>2 DEF AnswerKept
  <2> QED
    BY <1>2, <2>1, <2>2 DEF AnswersKept
<1>13. \A c \in Callers : Configures(c) => Id(c) \in CallIds
  <2> SUFFICES ASSUME NEW c \in Callers, Configures(c) PROVE Id(c) \in CallIds
    OBVIOUS
  <2>1. CallKept(c)
    BY CallFacts
  <2>2. call[c].number \in 0 .. Len(Script[c]) /\ call[c].number # 0
    BY <2>1 DEF CallKept, Configures, NoCall
  <2>3. call[c].number \in 1 .. Len(Script[c])
    BY <2>2, ScriptAssumption
  <2> QED
    BY <2>3 DEF CallIds, Id
<1>14. RefusalsKept'
  <2> SUFFICES ASSUME NEW c \in Callers, Configures(c), fate'[Id(c)] = "refused"
               PROVE  \E e \in Devices : Factory[e].mac = call[c].asks.data.mac /\ Factory[e].enable = 0
    BY <1>4 DEF RefusalsKept
  <2>1. CASE Id(c) = r.from
    <3>1. ~Accepts(d, r)
      BY <1>7, <2>1
    <3>2. Intact(r.bytes) /\ Factory[d].mac = call[c].asks.data.mac
      BY <1>3, <2>1
    <3>3. Factory[d].enable \in {0, 1}
      BY FactoryAssumption
    <3> QED
      BY <3>1, <3>2, <3>3, DeviceFacts DEF Accepts
  <2>2. CASE Id(c) # r.from
    <3>1. fate[Id(c)] = "refused"
      BY <1>6, <1>13, <2>2
    <3> QED
      BY <3>1 DEF SetInv, RefusalsKept
  <2> QED
    BY <2>1, <2>2
<1>15. ConfiguredKept'
  <2> SUFFICES ASSUME NEW e \in Devices PROVE DeviceKept(e)'
    BY DEF ConfiguredKept
  <2>1. DeviceKept(e)
    BY DEF SetInv, ConfiguredKept
  <2>2. CASE device'[e] = device[e]
    BY <1>4, <1>5, <2>1, <2>2 DEF DeviceKept, AsAsked
  <2>3. CASE e = d /\ Accepts(d, r)
    <3>1. device'[e].config = configNow /\ device'[e].by = r.from
      BY <1>1, <2>3
    <3>2. ASSUME NEW c \in Callers, r.from = Id(c) PROVE AsAsked(e, c)'
      <4>1. configNow = TakenApart(call[c].asks.data)
        BY <1>3, <3>2, PacketSurvives DEF TakenApart, Asked
      <4>2. Configures(c) /\ call[c].step # "send" /\ ValidNetmask(call[c].asks.data.netmask)
        BY <1>3, <3>2
      <4> HIDE DEF configNow
      <4> QED
        BY <1>4, <3>1, <4>1, <4>2 DEF AsAsked
    <3> QED
      BY <1>1, <1>4, <1>5, <3>1, <3>2 DEF DeviceKept
  <2> QED
    BY <1>1, <2>2, <2>3
<1>16. OutcomesKept'
  <2>1. \A c \in Callers : OutcomeKept(c)
    BY DEF SetInv, OutcomesKept, OutcomeKept
  <2>2. ASSUME NEW c \in Callers, Configures(c) PROVE fate[Id(c)] # "none" => fate'[Id(c)] = fate[Id(c)]
    <3>1. CASE Id(c) = r.from
      BY <1>3, <3>1
    <3>2. CASE Id(c) # r.from
      BY <1>6, <1>13, <2>2, <3>2
    <3> QED
      BY <3>1, <3>2
  <2>3. \A c \in Callers : OutcomeKept(c)'
    BY <1>4, <2>1, <2>2 DEF OutcomeKept
  <2>4. outcome = [c \in Callers |-> outcome[c]]
    BY DEF SetInv, OutcomesKept
  <2> QED
    BY <1>4, <2>3, <2>4 DEF OutcomesKept, OutcomeKept
<1> QED
  BY <1>1, <1>8, <1>10, <1>11, <1>12, <1>14, <1>15, <1>16 DEF BaseInv, SetInv

(* Nothing was asked yet.                                                    *)
LEMMA InitSet == Init => BaseInv /\ SetInv
<1> SUFFICES ASSUME Init PROVE BaseInv /\ SetInv
  OBVIOUS
<1> USE DEF Init
<1>1. \A c \in Callers : call[c] = CallRecord(NoCall, "idle", 0, 0, <<>>)
  BY DEF Idle, NewCall, CallRecord, NoCall
<1>2. \A c \in Callers : call[c].asks = NoCall /\ call[c].step = "idle" /\ call[c].number = 0
                         /\ call[c].round = 0 /\ call[c].list = <<>>
  BY <1>1 DEF CallRecord
<1>3. \A c \in Callers : ~Configures(c)
  BY <1>2 DEF Configures, NoCall
<1>4. DevicesKept
  BY FactoryAssumption DEF DevicesKept
<1>5. CallsKept
  <2>1. ASSUME NEW c \in Callers PROVE CallKept(c)
    <3>1. 0 \in 0 .. Len(Script[c])
      BY ScriptAssumption
    <3> QED
      BY <1>1, <1>2, <1>3, <3>1 DEF CallKept, Configures
  <2> QED
    BY <2>1 DEF CallsKept
<1>6. FatesKept
  BY DEF FatesKept, CallIds
<1>7. RequestsKept /\ AnswersKept /\ RefusalsKept
  BY <1>3 DEF RequestsKept, AnswersKept, RefusalsKept
<1>8. ConfiguredKept
  <2> SUFFICES ASSUME NEW d \in Devices PROVE DeviceKept(d)
    BY DEF ConfiguredKept
  <2>1. device[d].by = <<>>
    BY FactoryAssumption
  <2>2. \A c \in Callers : <<>> # Id(c)
    BY NobodyIsNotACall
  <2> QED
    BY <2>1, <2>2 DEF DeviceKept
<1>9. OutcomesKept
  BY <1>3 DEF OutcomesKept
<1> QED
  BY <1>4, <1>5, <1>6, <1>7, <1>8, <1>9 DEF BaseInv, SetInv

(* Nothing changes.                                                          *)
LEMMA StutterKeepsSet ==
  ASSUME BaseInv, SetInv, UNCHANGED vars
  PROVE  BaseInv' /\ SetInv'
<1>1. UNCHANGED <<device, requests, answers, call, outcome, reports, fate>>
  BY DEF vars
<1>2. Proceeds
  BY <1>1 DEF Proceeds
<1>3. DevicesKept' /\ CallsKept' /\ OutcomesKept'
  BY <1>1 DEF BaseInv, SetInv, DevicesKept, CallsKept, CallKept, OutcomesKept, Configures, Id
<1>4. /\ FatesKept' /\ RefusalsKept' /\ ConfiguredKept'
      /\ \A r \in requests : RequestKept(r)'
      /\ \A a \in answers : AnswerKept(a)'
  BY <1>1, <1>2, ProceedsKeeps
<1> QED
  BY <1>1, <1>3, <1>4 DEF BaseInv, SetInv, RequestsKept, AnswersKept

(* Every step keeps the invariant.                                           *)
LEMMA StepKeepsSet ==
  ASSUME BaseInv, SetInv, [Next]_vars
  PROVE  BaseInv' /\ SetInv'
<1>1. CASE UNCHANGED vars
  BY <1>1, StutterKeepsSet
<1>2. ASSUME NEW d \in Devices, Hear(d) PROVE BaseInv' /\ SetInv'
  <2>1. PICK r \in requests :
          /\ r.at = d /\ requests' = requests \ {r}
          /\ HearQuery(d, r) \/ HearIpConfQuery(d, r) \/ HearSetConfig(d, r)
          /\ UNCHANGED <<call, handle, outcome>>
    BY <1>2 DEF Hear
  <2> QED
    BY <2>1, QueryKeepsSet, SetConfigKeepsSet
<1>3. ASSUME NEW c \in Callers, Begin(c) \/ Send(c) \/ TimeOut(c) \/ Receive(c) \/ Free(c)
      PROVE  BaseInv' /\ SetInv'
  BY <1>3, BeginKeepsSet, SendKeepsSet, TimeOutKeepsSet, ReceiveKeepsSet, FreeKeepsSet
<1> QED
  BY <1>1, <1>2, <1>3 DEF Next

(* So it holds in every state.                                               *)
LEMMA AlwaysSet == Spec => [](BaseInv /\ SetInv)
<1>1. BaseInv /\ SetInv /\ [Next]_vars => (BaseInv /\ SetInv)'
  BY StepKeepsSet
<1> QED
  BY <1>1, InitSet, PTL DEF Spec

(* The invariant has the result as a part.                                   *)
LEMMA OutcomeFollows ==
  ASSUME BaseInv, SetInv
  PROVE  OutcomeIsTrue
<1> SUFFICES ASSUME NEW c \in Callers, call[c].asks.name = "set_config", call[c].step = "idle"
             PROVE  /\ outcome[c] = "ok" => fate[Id(c)] = "applied"
                    /\ outcome[c] = "ETH_CFG_REJECT" =>
                         /\ fate[Id(c)] = "refused"
                         /\ \E d \in Devices : device[d].mac = call[c].asks.data.mac /\ device[d].enable = 0
  BY DEF OutcomeIsTrue
<1>1. Configures(c)
  BY DEF Configures
<1>2. /\ outcome[c] = "ok" => fate[Id(c)] = "applied"
      /\ outcome[c] = "ETH_CFG_REJECT" => fate[Id(c)] = "refused"
  BY <1>1 DEF SetInv, OutcomesKept
<1>3. fate[Id(c)] = "refused" => \E d \in Devices : Factory[d].mac = call[c].asks.data.mac /\ Factory[d].enable = 0
  BY <1>1 DEF SetInv, RefusalsKept
<1> QED
  BY <1>2, <1>3, DeviceFacts

(* A device that is configured as asked reports what was asked.              *)
LEMMA SettingsFollow ==
  ASSUME BaseInv, SetInv
  PROVE  SetIsReported
<1> SUFFICES ASSUME NEW c \in Callers, NEW d \in Devices, device[d].by = Id(c)
             PROVE  Settings(QueryReply(d, Id(c))) =
                      [ip |-> call[c].asks.data.ip, gateway |-> call[c].asks.data.gateway,
                       netmask |-> call[c].asks.data.netmask]
  BY DEF SetIsReported
<1> DEFINE data == call[c].asks.data
<1>1. Configures(c) /\ ValidNetmask(data.netmask) /\ device[d].config = TakenApart(data)
  BY DEF SetInv, ConfiguredKept, DeviceKept, AsAsked
<1>2. data.netmask \in Octets(4)
  <2>1. CallKept(c)
    BY CallFacts
  <2>2. CallOK(call[c].asks)
    BY <1>1, <2>1 DEF CallKept, Configures, NoCall
  <2> QED
    BY <1>1, <2>2 DEF CallOK, Configures
<1>3. Netmask(Min({WholeBytes(data.netmask), 4}), Leftover(data.netmask)) = data.netmask
  BY <1>1, <1>2, NetmaskSurvives
<1>4. QueryReply(d, Id(c)).part = TakenApart(data)
  BY <1>1 DEF QueryReply
<1> HIDE DEF data
<1>5. /\ TakenApart(data).ip = data.ip /\ TakenApart(data).gateway = data.gateway
      /\ TakenApart(data).nmb = WholeBytes(data.netmask) /\ TakenApart(data).nmm = Leftover(data.netmask)
  BY DEF TakenApart
<1>6. Settings(QueryReply(d, Id(c))) = [ip |-> data.ip, gateway |-> data.gateway, netmask |-> data.netmask]
  BY <1>3, <1>4, <1>5 DEF Settings
<1> QED
  BY <1>6 DEF data

(* OutcomeIsTrue: what set_config returns is true of this call and no other, *)
(* for any number of callers, devices and calls (eth32cfg_set_config).       *)
THEOREM ResultsAreTrue == Spec => []OutcomeIsTrue
BY AlwaysSet, OutcomeFollows, PTL

(* SetIsReported: a device that a call configured last reports what the call *)
(* asked for, whatever its netmask (eth32cfg_set_config,                     *)
(* eth32cfg_netmask_breakup).                                                *)
THEOREM SettingsArrive == Spec => []SetIsReported
BY AlwaysSet, SettingsFollow, PTL

-----------------------------------------------------------------------------
(* What a reply to a call fills in.                                          *)
Reply(c, a) ==
  /\ a.cmd \in {CMD_QUERY_REPLY, CMD_IPCONF_REPLY} /\ a \in Reported(c, a.cmd)
  /\ Passes(call[c].asks.filter, a)
Store(e, a) == IF a.cmd = CMD_QUERY_REPLY THEN StoreQueryReply(e, a) ELSE StoreIpConfig(e, a)

(* What a filter may name.                                                   *)
LEMMA FilterKeys ==
  ASSUME BaseInv, NEW c \in Callers
  PROVE  DOMAIN call[c].asks.filter \subseteq {"mac", "serial"}
<1>1. CallKept(c)
  BY CallFacts
<1>2. DOMAIN <<>> = {}
  OBVIOUS
<1> QED
  BY <1>1, <1>2, SMTT(30) DEF CallKept, CallOK, NoCall

(* A reply that passes the filter is of a device that matches it.            *)
LEMMA ReplyFacts ==
  ASSUME BaseInv, ReportsKept, NEW c \in Callers, NEW a, Reply(c, a)
  PROVE  /\ \E d \in Devices : /\ a.mac = Factory[d].mac /\ a.serial = Factory[d].serial
                               /\ a.cmd = CMD_QUERY_REPLY => a.firmware = Factory[d].firmware
         /\ Matches(c, a)
<1>1. ReportKept(a)
  BY DEF ReportsKept, Reply, Reported
<1> QED
  BY <1>1 DEF ReportKept, Matches, Reply, Passes

(* What storing a reply to a query changes.                                  *)
LEMMA StoreQueryReplyFacts ==
  ASSUME NEW e, IsEntry(e), NEW a, ~e.query_response, NEW s, s = StoreQueryReply(e, a)
  PROVE  /\ IsEntry(s) /\ s.query_response /\ s.ipconfig_response = e.ipconfig_response
         /\ s.mac = a.mac /\ s.serial = a.serial /\ s.config = Settings(a) /\ s.firmware = a.firmware
         /\ s.enable = a.enable /\ s.dhcp = e.dhcp /\ s.active = e.active
BY DEF StoreQueryReply, IsEntry, EntryFields

(* What storing a reply to an IP configuration query changes.                *)
LEMMA StoreIpConfigFacts ==
  ASSUME NEW e, IsEntry(e), NEW a, ~e.ipconfig_response, NEW s, s = StoreIpConfig(e, a)
  PROVE  /\ IsEntry(s) /\ s.query_response = e.query_response /\ s.ipconfig_response
         /\ s.mac = a.mac /\ s.serial = a.serial /\ s.config = e.config /\ s.firmware = e.firmware
         /\ s.enable = e.enable /\ s.dhcp = a.dhcp /\ s.active = Settings(a)
BY DEF StoreIpConfig, IsEntry, EntryFields

(* What the end of a query changes in an entry.                              *)
LEMMA FillActiveFacts ==
  ASSUME NEW e, IsEntry(e), NEW s, s = FillActive(e)
  PROVE  /\ s.query_response = e.query_response /\ s.ipconfig_response = e.ipconfig_response
         /\ s.mac = e.mac /\ s.serial = e.serial /\ s.config = e.config /\ s.firmware = e.firmware
         /\ s.enable = e.enable
         /\ ~(e.firmware < 3) => s.dhcp = e.dhcp /\ s.active = e.active
         /\ e.firmware < 3 => s.dhcp = 0 /\ s.active = e.config
BY DEF FillActive, IsEntry, EntryFields

(* An entry of the device that replied, and no other, takes the reply.       *)
LEMMA StoreFacts ==
  ASSUME BaseInv, ReportsKept, NEW c \in Callers, NEW a, Reply(c, a),
         NEW e, EntryKept(c, e), e.mac = a.mac
  PROVE  EntryKept(c, Store(e, a)) /\ Answered(Store(e, a)) /\ Store(e, a).mac = a.mac
<1>1. PICK d \in Devices : /\ a.mac = Factory[d].mac /\ a.serial = Factory[d].serial
                           /\ a.cmd = CMD_QUERY_REPLY => a.firmware = Factory[d].firmware
  BY ReplyFacts
<1>2. e.serial = a.serial
  BY <1>1, FactoryAssumption DEF EntryKept
<1>3. a \in Reported(c, a.cmd) /\ a.cmd \in {CMD_QUERY_REPLY, CMD_IPCONF_REPLY} /\ CMD_QUERY_REPLY # CMD_IPCONF_REPLY
  BY DEF Reply, CMD_QUERY_REPLY, CMD_IPCONF_REPLY
<1>4. Matches(c, a) /\ DOMAIN call[c].asks.filter \subseteq {"mac", "serial"}
  BY ReplyFacts, FilterKeys
<1>5. CASE a.cmd = CMD_QUERY_REPLY /\ e.query_response
  BY <1>5 DEF Store, StoreQueryReply, Answered
<1>6. CASE a.cmd # CMD_QUERY_REPLY /\ e.ipconfig_response
  BY <1>6 DEF Store, StoreIpConfig, Answered
<1>7. CASE a.cmd = CMD_QUERY_REPLY /\ ~e.query_response
  <2>1. PICK s : s = Store(e, a)
    OBVIOUS
  <2>2. IsEntry(e) /\ s = StoreQueryReply(e, a)
    BY <1>7, <2>1 DEF Store, EntryKept
  <2>3. /\ IsEntry(s) /\ s.query_response /\ s.ipconfig_response = e.ipconfig_response
        /\ s.mac = a.mac /\ s.serial = a.serial /\ s.config = Settings(a) /\ s.firmware = a.firmware
        /\ s.enable = a.enable /\ s.dhcp = e.dhcp /\ s.active = e.active
    BY <1>7, <2>2, StoreQueryReplyFacts
  <2>4. QueryHalf(c, s)
    BY <1>3, <1>7, <2>3 DEF QueryHalf
  <2>5. IF s.ipconfig_response THEN IpConfHalf(c, s) ELSE s.active = NoSettings /\ s.dhcp = 0
    BY <1>2, <2>3 DEF EntryKept, IpConfHalf
  <2>6. Matches(c, s)
    BY <1>4, <2>3 DEF Matches
  <2>7. a.firmware \in Nat
    BY <1>1, <1>7, FactoryAssumption
  <2>8. EntryKept(c, s)
    BY <1>1, <2>3, <2>4, <2>5, <2>6, <2>7 DEF EntryKept
  <2> QED
    BY <2>1, <2>3, <2>8 DEF Answered
<1>8. CASE a.cmd # CMD_QUERY_REPLY /\ ~e.ipconfig_response
  <2>1. PICK s : s = Store(e, a)
    OBVIOUS
  <2>2. IsEntry(e) /\ s = StoreIpConfig(e, a)
    BY <1>8, <2>1 DEF Store, EntryKept
  <2>3. /\ IsEntry(s) /\ s.query_response = e.query_response /\ s.ipconfig_response
        /\ s.mac = a.mac /\ s.serial = a.serial /\ s.config = e.config /\ s.firmware = e.firmware
        /\ s.enable = e.enable /\ s.dhcp = a.dhcp /\ s.active = Settings(a)
    BY <1>8, <2>2, StoreIpConfigFacts
  <2>4. IpConfHalf(c, s)
    BY <1>3, <1>8, <2>3 DEF IpConfHalf
  <2>5. IF s.query_response THEN QueryHalf(c, s)
        ELSE s.config = NoSettings /\ s.firmware = 0 /\ s.enable = 0
    BY <1>2, <2>3 DEF EntryKept, QueryHalf
  <2>6. Matches(c, s)
    BY <1>4, <2>3 DEF Matches
  <2>7. e.firmware \in Nat
    BY DEF EntryKept
  <2>8. EntryKept(c, s)
    BY <1>1, <2>3, <2>4, <2>5, <2>6, <2>7 DEF EntryKept
  <2> QED
    BY <2>1, <2>3, <2>8 DEF Answered
<1> QED
  BY <1>5, <1>6, <1>7, <1>8

-----------------------------------------------------------------------------
(* What a list is.                                                           *)
LEMMA ListFacts ==
  ASSUME NEW l, IsList(l)
  PROVE  Len(l) \in Nat /\ DOMAIN l = 1 .. Len(l) /\ l = [i \in 1 .. Len(l) |-> l[i]]
<1>1. PICK S : l \in Seq(S)
  BY DEF IsList
<1>2. Len(l) \in Nat /\ DOMAIN l = 1 .. Len(l) /\ l \in [1 .. Len(l) -> S]
  BY <1>1, LenProperties
<1> QED
  BY <1>2

(* The list with the entry that a reply is stored in.                        *)
LEMMA FoundFacts ==
  ASSUME BaseInv, ReportsKept, NEW c \in Callers, NEW a, Reply(c, a), NEW l, ListKept(c, l)
  PROVE  LET w == WithEntry(l, a)
             i == Index(l, a.mac)
         IN /\ IsList(w) /\ OnePerDevice(w) /\ i \in DOMAIN w /\ w[i].mac = a.mac
            /\ \A j \in DOMAIN w : EntryKept(c, w[j]) /\ (j # i => Answered(w[j]))
<1> DEFINE w == WithEntry(l, a)
           i == Index(l, a.mac)
           n == Len(l)
<1>1. IsList(l) /\ OnePerDevice(l) /\ \A j \in DOMAIN l : EntryKept(c, l[j]) /\ Answered(l[j])
  BY DEF ListKept
<1>2. n \in Nat /\ DOMAIN l = 1 .. n
  BY <1>1, ListFacts
<1>3. CASE Found(l, a.mac) = {}
  <2> DEFINE x == NewEntry(a)
  <2>1. w = Append(l, x) /\ i = n + 1
    BY <1>3 DEF WithEntry, Index
  <2>2. /\ x.mac = a.mac /\ x.serial = a.serial /\ ~x.query_response /\ ~x.ipconfig_response /\ IsEntry(x)
        /\ x.config = NoSettings /\ x.firmware = 0 /\ x.enable = 0 /\ x.active = NoSettings /\ x.dhcp = 0
    BY DEF NewEntry, IsEntry, EntryFields
  <2>3. EntryKept(c, x)
    <3>1. \E d \in Devices : a.mac = Factory[d].mac /\ a.serial = Factory[d].serial
      BY ReplyFacts
    <3>2. Matches(c, a) /\ DOMAIN call[c].asks.filter \subseteq {"mac", "serial"}
      BY ReplyFacts, FilterKeys
    <3>3. Matches(c, x)
      BY <2>2, <3>2 DEF Matches
    <3> HIDE DEF x
    <3> QED
      BY <2>2, <3>1, <3>3 DEF EntryKept
  <2> HIDE DEF x
  <2>4. PICK S : l \in Seq(S)
    BY <1>1 DEF IsList
  <2> DEFINE T == S \cup {x}
  <2>5. l \in Seq(T) /\ x \in T
    <3>1. l \in [1 .. n -> S]
      BY <2>4, LenProperties
    <3>2. l \in [1 .. n -> T]
      BY <3>1
    <3> HIDE DEF T
    <3>3. l \in Seq(T)
      BY <1>2, <3>2, FunctionIsSeq
    <3> QED
      BY <3>3 DEF T
  <2> HIDE DEF T
  <2>6. /\ Append(l, x) \in Seq(T) /\ Len(Append(l, x)) = n + 1
        /\ \A j \in 1 .. n : Append(l, x)[j] = l[j]
        /\ Append(l, x)[n + 1] = x
    BY <2>5, AppendProperties
  <2> HIDE DEF w, i
  <2>7. w \in Seq(T) /\ DOMAIN w = 1 .. n + 1 /\ (\A j \in 1 .. n : w[j] = l[j]) /\ w[n + 1] = x
    <3>1. w \in Seq(T) /\ Len(w) = n + 1 /\ (\A j \in 1 .. n : w[j] = l[j]) /\ w[n + 1] = x
      BY <2>1, <2>6
    <3>2. DOMAIN w = 1 .. Len(w)
      BY <3>1, LenProperties
    <3> QED
      BY <3>1, <3>2
  <2>8. IsList(w)
    BY <2>7 DEF IsList
  <2>9. \A j \in 1 .. n + 1 : j \in 1 .. n \/ j = n + 1
    BY <1>2
  <2>10. \A j \in 1 .. n : l[j].mac # a.mac
    BY <1>2, <1>3 DEF Found
  <2>11. OnePerDevice(w)
    <3> SUFFICES ASSUME NEW j \in 1 .. n + 1, NEW k \in 1 .. n + 1, w[j].mac = w[k].mac PROVE j = k
      BY <2>7 DEF OnePerDevice
    <3> QED
      BY <1>1, <1>2, <2>2, <2>7, <2>9, <2>10 DEF OnePerDevice
  <2>12. i \in DOMAIN w /\ w[i] = x
    BY <1>2, <2>1, <2>7
  <2>13. \A j \in DOMAIN w : EntryKept(c, w[j]) /\ (j # i => Answered(w[j]))
    BY <1>1, <1>2, <2>1, <2>3, <2>7, <2>9
  <2> QED
    BY <2>2, <2>8, <2>11, <2>12, <2>13 DEF w, i
<1>4. CASE Found(l, a.mac) # {}
  <2> DEFINE F == Found(l, a.mac)
  <2>1. w = l /\ i = Min(F)
    BY <1>4 DEF WithEntry, Index
  <2>2. F \in SUBSET Nat /\ F \subseteq DOMAIN l /\ \A j \in F : l[j].mac = a.mac
    BY <1>2 DEF Found
  <2>3. Min(F) \in F
    <3>1. \E m \in F : \A k \in F : m <= k
      <4> HIDE DEF F
      <4>1. F # {}
        BY <1>4 DEF F
      <4> QED
        BY <2>2, <4>1, NatMinimum
    <3> HIDE DEF F
    <3> QED
      BY <3>1 DEF Min
  <2> HIDE DEF F
  <2> QED
    BY <1>1, <2>1, <2>2, <2>3
<1> QED
  BY <1>3, <1>4

(* Storing a reply keeps the list.                                           *)
LEMMA StoredFacts ==
  ASSUME BaseInv, ReportsKept, NEW c \in Callers, NEW a, Reply(c, a), NEW l, ListKept(c, l),
         NEW s, s = [WithEntry(l, a) EXCEPT ![Index(l, a.mac)] = Store(@, a)]
  PROVE  ListKept(c, s)
<1> DEFINE w == WithEntry(l, a)
           i == Index(l, a.mac)
           x == Store(w[i], a)
<1>1. /\ IsList(w) /\ OnePerDevice(w) /\ i \in DOMAIN w /\ w[i].mac = a.mac
      /\ \A j \in DOMAIN w : EntryKept(c, w[j]) /\ (j # i => Answered(w[j]))
  BY FoundFacts
<1>2. EntryKept(c, x) /\ Answered(x) /\ x.mac = a.mac
  BY <1>1, StoreFacts
<1>3. s = [w EXCEPT ![i] = x]
  OBVIOUS
<1> HIDE DEF w, i, x
<1> DEFINE n == Len(w)
<1>4. n \in Nat /\ DOMAIN w = 1 .. n /\ w = [j \in 1 .. n |-> w[j]]
  BY <1>1, ListFacts
<1> HIDE DEF n
<1>5. DOMAIN s = 1 .. n /\ s[i] = x /\ (\A j \in 1 .. n : j # i => s[j] = w[j]) /\ s = [j \in 1 .. n |-> s[j]]
  BY <1>1, <1>3, <1>4
<1>6. IsList(s)
  <2> DEFINE T == {s[j] : j \in 1 .. n}
  <2>1. s \in [1 .. n -> T]
    BY <1>5
  <2> HIDE DEF T
  <2>2. s \in Seq(T)
    BY <1>4, <2>1, FunctionIsSeq
  <2> QED
    BY <2>2 DEF IsList
<1>7. \A j \in 1 .. n : s[j].mac = w[j].mac
  BY <1>1, <1>2, <1>5
<1>8. OnePerDevice(s)
  BY <1>1, <1>4, <1>5, <1>7 DEF OnePerDevice
<1>9. \A j \in DOMAIN s : EntryKept(c, s[j]) /\ Answered(s[j])
  BY <1>1, <1>2, <1>4, <1>5
<1> QED
  BY <1>6, <1>8, <1>9 DEF ListKept

(* What a discovery returns of an entry.                                     *)
LEMMA GatheredFacts ==
  ASSUME NEW c \in Callers, NEW e, EntryKept(c, e), Answered(e), call[c].asks.name # "query"
  PROVE  EntryIsReported(c, e) /\ Matches(c, e)
<1>1. Matches(c, e)
  BY DEF EntryKept
<1>2. ~Overwritten(c, e)
  BY DEF Overwritten
<1>3. IF e.query_response THEN QueryHalf(c, e)
      ELSE e.config = NoSettings /\ e.firmware = 0 /\ e.enable = 0
  BY DEF EntryKept
<1>4. e.ipconfig_response =>
        \E r \in Reported(c, CMD_IPCONF_REPLY) :
          /\ e.mac = r.mac /\ e.serial = r.serial
          /\ Overwritten(c, e) \/ (e.active = Settings(r) /\ e.dhcp = r.dhcp)
  BY DEF EntryKept, IpConfHalf
<1>5. ~e.ipconfig_response => e.active = NoSettings /\ e.dhcp = 0
  BY DEF EntryKept
<1>6. EntryIsReported(c, e)
  BY <1>2, <1>3, <1>4, <1>5 DEF EntryIsReported, QueryHalf, Answered
<1> QED
  BY <1>1, <1>6

(* What a query returns of an entry.                                         *)
LEMMA FilledFacts ==
  ASSUME BaseInv, NEW c \in Callers, NEW e, EntryKept(c, e), Answered(e), call[c].asks.name = "query"
  PROVE  EntryIsReported(c, FillActive(e)) /\ Matches(c, FillActive(e)) /\ FillActive(e).mac = e.mac
<1>1. PICK s : s = FillActive(e)
  OBVIOUS
<1>2. /\ s.query_response = e.query_response /\ s.ipconfig_response = e.ipconfig_response
      /\ s.mac = e.mac /\ s.serial = e.serial /\ s.config = e.config /\ s.firmware = e.firmware
      /\ s.enable = e.enable
      /\ ~(e.firmware < 3) => s.dhcp = e.dhcp /\ s.active = e.active
      /\ e.firmware < 3 => s.dhcp = 0 /\ s.active = e.config
  BY <1>1, FillActiveFacts DEF EntryKept
<1>3. Matches(c, s)
  BY <1>2, FilterKeys DEF Matches, EntryKept
<1>4. IF s.query_response THEN QueryHalf(c, s)
      ELSE s.config = NoSettings /\ s.firmware = 0 /\ s.enable = 0
  BY <1>2 DEF EntryKept, QueryHalf
<1>5. Overwritten(c, s) <=> e.firmware < 3
  BY <1>2 DEF Overwritten
<1>6. s.ipconfig_response =>
        \E r \in Reported(c, CMD_IPCONF_REPLY) :
          /\ s.mac = r.mac /\ s.serial = r.serial
          /\ Overwritten(c, s) \/ (s.active = Settings(r) /\ s.dhcp = r.dhcp)
  BY <1>2, <1>5 DEF EntryKept, IpConfHalf
<1>7. ~s.ipconfig_response /\ ~Overwritten(c, s) => s.active = NoSettings /\ s.dhcp = 0
  BY <1>2, <1>5 DEF EntryKept
<1>8. Overwritten(c, s) => s.active = s.config /\ s.dhcp = 0
  BY <1>2, <1>5
<1>9. EntryIsReported(c, s)
  BY <1>2, <1>4, <1>6, <1>7, <1>8 DEF EntryIsReported, QueryHalf, Answered
<1> QED
  BY <1>1, <1>2, <1>3, <1>9

(* A list that was kept is returned in order, each entry as reported.        *)
LEMMA FinishedFacts ==
  ASSUME BaseInv, NEW c \in Callers, NEW l, ListKept(c, l), NEW name, name = call[c].asks.name
  PROVE  ListReported(c, Finished(name, l))
<1> DEFINE n == Len(l)
           U == {l[i] : i \in 1 .. n}
           s == Sorted(l)
<1>1. n \in Nat /\ DOMAIN l = 1 .. n /\ l = [i \in 1 .. n |-> l[i]]
      /\ OnePerDevice(l) /\ \A i \in 1 .. n : EntryKept(c, l[i]) /\ Answered(l[i])
  BY ListFacts DEF ListKept
<1>2. \A u \in U : EntryKept(c, u) /\ Answered(u)
  BY <1>1
<1>3. Addressed(U)
  <2>1. ASSUME NEW u \in U PROVE u.mac \in Octets(6)
    <3>1. PICK d \in Devices : u.mac = Factory[d].mac
      BY <1>2 DEF EntryKept
    <3> QED
      BY <3>1, FactoryAssumption
  <2>2. \A u, v \in U : u.mac = v.mac => u = v
    BY <1>1 DEF OnePerDevice
  <2> QED
    BY <2>1, <2>2 DEF Addressed
<1>4. l \in Arranged(U, n)
  BY <1>1 DEF Arranged, OnePerDevice
<1>5. s \in Arranged(U, n) /\ Settled(s, n, 0)
  <2> HIDE DEF U, n
  <2> QED
    BY <1>1, <1>3, <1>4, SortedFacts
<1>6. s \in [1 .. n -> U]
  BY <1>5 DEF Arranged
<1> HIDE DEF U, n, s
<1>7. DOMAIN s = 1 .. n /\ \A i \in 1 .. n : s[i] \in U
  BY <1>6
<1>8. \A i, j \in 1 .. n : i < j => Greater(s[j].mac, s[i].mac)
  <2>1. \A j \in 1 .. n : 0 < j
    OBVIOUS
  <2> QED
    BY <1>5, <2>1 DEF Settled, Above
<1>9. \A i \in 1 .. n : EntryKept(c, s[i]) /\ Answered(s[i])
  BY <1>2, <1>7
<1> DEFINE f == Finished(name, l)
<1>10. CASE name = "query"
  <2>1. f = [i \in 1 .. n |-> FillActive(s[i])]
    BY <1>1, <1>10 DEF Finished, s
  <2> HIDE DEF f
  <2>2. DOMAIN f = 1 .. n /\ \A i \in 1 .. n : f[i] = FillActive(s[i])
    BY <2>1
  <2>3. ASSUME NEW i \in 1 .. n
        PROVE  EntryIsReported(c, f[i]) /\ Matches(c, f[i]) /\ f[i].mac = s[i].mac
    BY <1>9, <1>10, <2>2, FilledFacts
  <2>4. ListReported(c, f)
    BY <1>8, <2>2, <2>3 DEF ListReported
  <2> QED
    BY <2>4 DEF f
<1>11. CASE name # "query"
  <2>1. f = s
    BY <1>11 DEF Finished, s
  <2>2. ASSUME NEW i \in 1 .. n PROVE EntryIsReported(c, s[i]) /\ Matches(c, s[i])
    <3>1. PICK e : e = s[i]
      OBVIOUS
    <3>2. EntryKept(c, e) /\ Answered(e)
      BY <1>9, <3>1
    <3>3. EntryIsReported(c, e) /\ Matches(c, e)
      BY <1>11, <3>2, GatheredFacts
    <3> QED
      BY <3>1, <3>3
  <2>3. ListReported(c, s)
    BY <1>7, <1>8, <2>2 DEF ListReported
  <2> QED
    BY <2>1, <2>3
<1> QED
  BY <1>10, <1>11

-----------------------------------------------------------------------------
(* What a list holds stays reported while the call is the same.              *)
LEMMA ListsStay ==
  ASSUME NEW c \in Callers, call'[c].asks = call[c].asks, call'[c].number = call[c].number,
         reports \subseteq reports'
  PROVE  \A l : (ListKept(c, l) => ListKept(c, l)') /\ (ListReported(c, l) => ListReported(c, l)')
<1>1. \A cmd : Reported(c, cmd) \subseteq Reported(c, cmd)'
  BY DEF Reported, Id
<1>2. \A e : Matches(c, e)' <=> Matches(c, e)
  BY DEF Matches
<1>3. ASSUME NEW e, EntryKept(c, e) PROVE EntryKept(c, e)'
  <2>1. /\ QueryHalf(c, e) => QueryHalf(c, e)'
        /\ IpConfHalf(c, e) => IpConfHalf(c, e)'
    BY <1>1 DEF QueryHalf, IpConfHalf
  <2> QED
    BY <1>2, <1>3, <2>1 DEF EntryKept
<1>4. ASSUME NEW e, EntryIsReported(c, e) PROVE EntryIsReported(c, e)'
  BY <1>1, <1>4 DEF EntryIsReported, Overwritten
<1>5. ASSUME NEW l, ListKept(c, l) PROVE ListKept(c, l)'
  BY <1>3, <1>5 DEF ListKept
<1>6. ASSUME NEW l, ListReported(c, l) PROVE ListReported(c, l)'
  BY <1>2, <1>4, <1>6 DEF ListReported
<1> QED
  BY <1>5, <1>6

(* An empty list has nothing to say.                                         *)
LEMMA EmptyList ==
  ASSUME NEW c \in Callers
  PROVE  ListKept(c, <<>>) /\ ListReported(c, <<>>)
<1>1. DOMAIN <<>> = {} /\ <<>> \in Seq({})
  OBVIOUS
<1> QED
  BY <1>1 DEF ListKept, ListReported, IsList, OnePerDevice

(* No report is changed.                                                     *)
LEMMA ReportsStay ==
  ASSUME ListInv, UNCHANGED reports
  PROVE  ReportsKept'
BY DEF ListInv, ReportsKept, ReportKept

(* A step of a call under way, which has a list that is kept and no handle.  *)
LEMMA ListGoesOn ==
  ASSUME BaseInv, ListInv, NEW c \in Callers, call[c].step # "idle", UNCHANGED reports,
         call'[c].asks = call[c].asks, call'[c].number = call[c].number,
         \A x \in Callers : x # c => call'[x] = call[x] /\ handle'[x] = handle[x],
         ListKept(c, call'[c].list),
         \/ handle'[c] = handle[c]
         \/ call'[c].step = "idle" /\ handle'[c].valid /\ ListReported(c, handle'[c].list),
         handle' = [x \in Callers |-> handle'[x]]
  PROVE  ListInv'
<1>1. ReportsKept'
  BY ReportsStay
<1>2. \A x \in Callers : call'[x].asks = call[x].asks /\ call'[x].number = call[x].number
  OBVIOUS
<1>3. ASSUME NEW x \in Callers
      PROVE  \A l : (ListKept(x, l) => ListKept(x, l)') /\ (ListReported(x, l) => ListReported(x, l)')
  BY <1>2, ListsStay
<1>4. ListsKept'
  <2> SUFFICES ASSUME NEW x \in Callers PROVE ListKept(x, call[x].list)'
    BY DEF ListsKept
  <2>1. ListKept(x, call'[x].list)
    BY DEF ListInv, ListsKept
  <2> QED
    BY <1>3, <2>1
<1>5. HandlesKept'
  <2> SUFFICES ASSUME NEW x \in Callers PROVE HandleKept(x)'
    BY DEF HandlesKept
  <2>1. HandleKept(x)
    BY DEF ListInv, HandlesKept
  <2>2. ListReported(x, handle'[x].list)
    BY <2>1 DEF HandleKept
  <2>3. ListReported(x, handle[x].list)'
    BY <1>3, <2>2
  <2>4. IF handle'[x].valid THEN call'[x].step = "idle" ELSE handle'[x].list = <<>>
    BY <2>1 DEF HandleKept
  <2> QED
    BY <2>3, <2>4 DEF HandleKept
<1> QED
  BY <1>1, <1>4, <1>5 DEF ListInv

(* A caller with a call under way has no handle.                             *)
LEMMA HandleFacts ==
  ASSUME ListInv, NEW c \in Callers
  PROVE  handle = [x \in Callers |-> handle[x]] /\ HandleKept(c) /\ ListKept(c, call[c].list)
BY DEF ListInv, HandlesKept, ListsKept

(* Send leaves the list.                                                     *)
LEMMA SendKeepsLists ==
  ASSUME BaseInv, ListInv, NEW c \in Callers, Send(c)
  PROVE  ListInv'
<1>1. /\ call[c].step = "send" /\ UNCHANGED <<handle, reports>>
      /\ call' = [call EXCEPT ![c].step = "receive", ![c].round = @ + 1]
  BY DEF Send
<1>2. Becomes(call, call', c, CallRecord(call[c].asks, "receive", call[c].number, call[c].round + 1, call[c].list))
  BY <1>1, CallFacts, StepRoundUpdate
<1>3. /\ call'[c].asks = call[c].asks /\ call'[c].number = call[c].number /\ call'[c].list = call[c].list
      /\ \A x \in Callers : x # c => call'[x] = call[x]
  BY <1>2 DEF Becomes, CallRecord
<1> QED
  BY <1>1, <1>3, HandleFacts, ListGoesOn

(* Ends clears the list, or returns it.                                      *)
LEMMA EndKeepsLists ==
  ASSUME BaseInv, ListInv, NEW c \in Callers, call[c].step = "receive", NEW code, NEW list,
         Ends(c, code, list), UNCHANGED reports,
         call[c].asks.name # "set_config" /\ code = "ok" => ListKept(c, list)
  PROVE  ListInv'
<1>1. call' = [call EXCEPT ![c].step = "idle", ![c].list = <<>>]
      /\ handle' = IF call[c].asks.name # "set_config" /\ code = "ok"
                   THEN [handle EXCEPT ![c] = [valid |-> TRUE, list |-> Finished(call[c].asks.name, list)]] ELSE handle
  BY DEF Ends
<1>2. Becomes(call, call', c, CallRecord(call[c].asks, "idle", call[c].number, call[c].round, <<>>))
  BY <1>1, CallFacts, StepListUpdate, ZenonT(30)
<1>3. /\ call'[c].asks = call[c].asks /\ call'[c].number = call[c].number /\ call'[c].list = <<>>
      /\ call'[c].step = "idle" /\ \A x \in Callers : x # c => call'[x] = call[x]
  BY <1>2 DEF Becomes, CallRecord
<1>4. ListKept(c, call'[c].list)
  BY <1>3, EmptyList
<1>5. CASE call[c].asks.name # "set_config" /\ code = "ok"
  <2> DEFINE f == Finished(call[c].asks.name, list)
  <2>1. ListReported(c, f)
    BY <1>5, FinishedFacts
  <2>2. handle' = [handle EXCEPT ![c] = [valid |-> TRUE, list |-> f]]
    BY <1>1, <1>5
  <2> HIDE DEF f
  <2>3. handle'[c].valid /\ handle'[c].list = f /\ handle' = [x \in Callers |-> handle'[x]]
        /\ \A x \in Callers : x # c => handle'[x] = handle[x]
    BY <2>2, HandleFacts
  <2> QED
    BY <1>3, <1>4, <2>1, <2>3, ListGoesOn
<1>6. CASE ~(call[c].asks.name # "set_config" /\ code = "ok")
  <2>1. handle' = handle
    BY <1>1, <1>6
  <2> QED
    BY <1>3, <1>4, <2>1, HandleFacts, ListGoesOn
<1> QED
  BY <1>5, <1>6

(* TimeOut sends again with the same list, or returns it.                    *)
LEMMA TimeOutKeepsLists ==
  ASSUME BaseInv, ListInv, NEW c \in Callers, TimeOut(c)
  PROVE  ListInv'
<1>1. call[c].step = "receive" /\ UNCHANGED reports
  BY DEF TimeOut
<1>2. CASE call[c].round < Rounds(c)
  <2>1. call' = [call EXCEPT ![c].step = "send"] /\ handle' = handle
    BY <1>2 DEF TimeOut
  <2>2. Becomes(call, call', c, CallRecord(call[c].asks, "send", call[c].number, call[c].round, call[c].list))
    BY <2>1, CallFacts, StepUpdate
  <2>3. /\ call'[c].asks = call[c].asks /\ call'[c].number = call[c].number /\ call'[c].list = call[c].list
        /\ \A x \in Callers : x # c => call'[x] = call[x]
    BY <2>2 DEF Becomes, CallRecord
  <2> QED
    BY <1>1, <2>1, <2>3, HandleFacts, ListGoesOn
<1>3. CASE ~(call[c].round < Rounds(c))
  <2>1. PICK code : Ends(c, code, call[c].list)
    BY <1>3 DEF TimeOut
  <2> QED
    BY <1>1, <2>1, HandleFacts, EndKeepsLists
<1> QED
  BY <1>2, <1>3

(* Continue keeps a list that is kept.                                       *)
LEMMA ContinueKeepsLists ==
  ASSUME BaseInv, ListInv, NEW c \in Callers, call[c].step = "receive", NEW a, NEW list,
         Continue(c, a, list), UNCHANGED reports, ListKept(c, list)
  PROVE  ListInv'
<1>1. call' = [call EXCEPT ![c].list = list] /\ handle' = handle
  BY DEF Continue
<1>2. Becomes(call, call', c, CallRecord(call[c].asks, "receive", call[c].number, call[c].round, list))
  BY <1>1, CallFacts, ListUpdate
<1>3. /\ call'[c].asks = call[c].asks /\ call'[c].number = call[c].number /\ call'[c].list = list
      /\ \A x \in Callers : x # c => call'[x] = call[x]
  BY <1>2 DEF Becomes, CallRecord
<1> QED
  BY <1>1, <1>3, HandleFacts, ListGoesOn

(* A reply is stored in the entry of its device; a confirmation has no list. *)
LEMMA ReceiveKeepsLists ==
  ASSUME BaseInv, SetInv, ListInv, NEW c \in Callers, Receive(c)
  PROVE  ListInv'
<1>1. call[c].step = "receive" /\ UNCHANGED reports
  BY DEF Receive
<1>2. PICK a \in answers : a.to = Id(c) /\ (Gather(c, a) \/ TakeConfirm(c, a))
  BY DEF Receive
<1>3. CASE TakeConfirm(c, a)
  <2>1. a.cmd = CMD_CONFIRM /\ \E code : Ends(c, code, <<>>)
    BY <1>3 DEF TakeConfirm
  <2>2. PICK code : Ends(c, code, <<>>)
    BY <2>1
  <2> QED
    BY <1>1, <2>2, EmptyList, EndKeepsLists
<1>4. CASE Gather(c, a)
  <2> DEFINE list == call[c].list
             stored == [WithEntry(list, a) EXCEPT ![Index(list, a.mac)] = Store(@, a)]
  <2>1. a.cmd \in {CMD_QUERY_REPLY, CMD_IPCONF_REPLY}
    BY <1>4 DEF Gather
  <2>2. a \in Reported(c, a.cmd)
    <3>1. a.cmd # CMD_CONFIRM
      BY <2>1 DEF CMD_QUERY_REPLY, CMD_IPCONF_REPLY, CMD_CONFIRM
    <3> QED
      BY <1>2, <3>1 DEF SetInv, AnswersKept, AnswerKept, Reported
  <2>3. ListKept(c, list) /\ ReportsKept
    BY HandleFacts DEF ListInv
  <2>4. \/ Continue(c, a, list)
        \/ Passes(call[c].asks.filter, a) /\ Continue(c, a, stored)
        \/ Passes(call[c].asks.filter, a) /\ Ends(c, "ok", stored)
        \/ Ends(c, "ETH_MALLOC_ERROR", list)
    BY <1>4 DEF Gather, Store
  <2>5. ASSUME Passes(call[c].asks.filter, a) PROVE ListKept(c, stored)
    <3>1. Reply(c, a)
      BY <2>1, <2>2, <2>5 DEF Reply
    <3>2. PICK s : s = stored
      OBVIOUS
    <3> HIDE DEF list
    <3>3. ListKept(c, s)
      BY <2>3, <3>1, <3>2, StoredFacts
    <3> QED
      BY <3>2, <3>3
  <2> HIDE DEF stored, list
  <2> QED
    BY <1>1, <2>3, <2>4, <2>5, ContinueKeepsLists, EndKeepsLists
<1> QED
  BY <1>2, <1>3, <1>4

(* Free drops the list that was returned.                                    *)
LEMMA FreeKeepsLists ==
  ASSUME BaseInv, ListInv, NEW c \in Callers, Free(c)
  PROVE  ListInv'
<1>1. UNCHANGED <<call, reports>> /\ handle' = [handle EXCEPT ![c] = NoHandle]
  BY DEF Free
<1>2. ReportsKept' /\ \A x \in Callers : \A l : (ListKept(x, l) => ListKept(x, l)') /\ (ListReported(x, l) => ListReported(x, l)')
  BY <1>1, ReportsStay, ListsStay
<1>3. ListsKept'
  <2> SUFFICES ASSUME NEW x \in Callers PROVE ListKept(x, call[x].list)'
    BY DEF ListsKept
  <2> QED
    BY <1>1, <1>2, HandleFacts
<1>4. ~handle'[c].valid /\ handle'[c].list = <<>> /\ handle' = [x \in Callers |-> handle'[x]]
      /\ \A x \in Callers : x # c => handle'[x] = handle[x]
  BY <1>1, HandleFacts DEF NoHandle
<1>5. HandlesKept'
  <2>1. ASSUME NEW x \in Callers, x # c PROVE HandleKept(x)'
    BY <1>1, <1>2, <1>4, <2>1, HandleFacts DEF HandleKept
  <2>2. HandleKept(c)'
    BY <1>2, <1>4, EmptyList DEF HandleKept
  <2> QED
    BY <1>4, <2>1, <2>2 DEF HandlesKept
<1> QED
  BY <1>2, <1>3, <1>5 DEF ListInv

(* Begin starts with no entry and no handle.                                 *)
LEMMA BeginKeepsLists ==
  ASSUME BaseInv, ListInv, NEW c \in Callers, Begin(c)
  PROVE  ListInv'
<1>1. /\ ~handle[c].valid /\ UNCHANGED <<handle, reports>>
      /\ \A x \in Callers : x # c => call'[x] = call[x]
      /\ call'[c].list = <<>>
  BY BeginFacts
<1>2. ReportsKept'
  BY <1>1, ReportsStay
<1>3. ASSUME NEW x \in Callers, x # c
      PROVE  \A l : (ListKept(x, l) => ListKept(x, l)') /\ (ListReported(x, l) => ListReported(x, l)')
  BY <1>1, <1>3, ListsStay
<1>4. ListKept(c, <<>>)' /\ ListReported(c, <<>>)'
  BY EmptyList, PTL
<1>5. ListsKept'
  <2>1. ASSUME NEW x \in Callers, x # c PROVE ListKept(x, call[x].list)'
    BY <1>1, <1>3, <2>1, HandleFacts
  <2>2. ListKept(c, call[c].list)'
    BY <1>1, <1>4
  <2> QED
    BY <2>1, <2>2 DEF ListsKept
<1>6. HandlesKept'
  <2>1. ASSUME NEW x \in Callers, x # c PROVE HandleKept(x)'
    BY <1>1, <1>3, <2>1, HandleFacts DEF HandleKept
  <2>2. handle'[c].list = <<>> /\ ~handle'[c].valid
    BY <1>1, HandleFacts DEF HandleKept
  <2>3. HandleKept(c)'
    BY <1>4, <2>2 DEF HandleKept
  <2> QED
    BY <1>1, <2>1, <2>3, HandleFacts DEF HandlesKept
<1> QED
  BY <1>2, <1>5, <1>6 DEF ListInv

(* A device reports what it is, to the caller that asked.                    *)
LEMMA HearKeepsLists ==
  ASSUME BaseInv, ListInv, NEW d \in Devices, Hear(d)
  PROVE  ListInv'
<1>1. UNCHANGED <<call, handle, outcome>>
  BY DEF Hear
<1>2. PICK r \in requests : HearQuery(d, r) \/ HearIpConfQuery(d, r) \/ HearSetConfig(d, r)
  BY DEF Hear
<1>3. PICK a : /\ a.cmd # CMD_CONFIRM => ReportKept(a)
               /\ Say(a)
  <2>1. CASE HearQuery(d, r)
    <3>1. PICK a : a = QueryReply(d, r.from)
      OBVIOUS
    <3>2. ReportKept(a)
      BY <3>1, DeviceFacts DEF QueryReply, ReportKept
    <3> QED
      BY <2>1, <3>1, <3>2 DEF HearQuery
  <2>2. CASE HearIpConfQuery(d, r)
    <3>1. PICK a : a = IpConfReply(d, r.from)
      OBVIOUS
    <3>2. ReportKept(a)
      BY <3>1, DeviceFacts DEF IpConfReply, ReportKept, CMD_QUERY_REPLY, CMD_IPCONF_REPLY
    <3> QED
      BY <2>2, <3>1, <3>2 DEF HearIpConfQuery
  <2>3. CASE HearSetConfig(d, r)
    <3>1. PICK a : a = Confirm(d, r.from, IF Accepts(d, r) THEN 1 ELSE 0)
      OBVIOUS
    <3>2. a.cmd = CMD_CONFIRM
      BY <3>1 DEF Confirm
    <3> QED
      BY <2>3, <3>1, <3>2 DEF HearSetConfig
  <2> QED
    BY <1>2, <2>1, <2>2, <2>3
<1>4. reports \subseteq reports' /\ \A b \in reports' : ReportKept(b)
  BY <1>3 DEF Say, ListInv, ReportsKept
<1>5. ReportsKept'
  BY <1>4 DEF ReportsKept, ReportKept
<1>6. \A x \in Callers : \A l : (ListKept(x, l) => ListKept(x, l)') /\ (ListReported(x, l) => ListReported(x, l)')
  BY <1>1, <1>4, ListsStay
<1>7. ListsKept'
  <2> SUFFICES ASSUME NEW x \in Callers PROVE ListKept(x, call[x].list)'
    BY DEF ListsKept
  <2> QED
    BY <1>1, <1>6, HandleFacts
<1>8. HandlesKept'
  <2>1. ASSUME NEW x \in Callers PROVE HandleKept(x)'
    BY <1>1, <1>6, HandleFacts DEF HandleKept
  <2> QED
    BY <1>1, <2>1 DEF HandlesKept, ListInv
<1> QED
  BY <1>5, <1>7, <1>8 DEF ListInv

(* No list has an entry yet.                                                 *)
LEMMA InitLists == Init => ListInv
<1> SUFFICES ASSUME Init PROVE ListInv
  OBVIOUS
<1>1. \A c \in Callers : call[c].list = <<>> /\ ~handle[c].valid /\ handle[c].list = <<>>
  BY DEF Init, Idle, NewCall, NoHandle
<1> QED
  BY <1>1, EmptyList DEF Init, ListInv, ReportsKept, ListsKept, HandlesKept, HandleKept

(* Every step keeps the lists.                                               *)
LEMMA StepKeepsLists ==
  ASSUME BaseInv, SetInv, ListInv, [Next]_vars
  PROVE  ListInv'
<1>1. CASE UNCHANGED vars
  <2>1. UNCHANGED <<call, handle, reports>>
    BY <1>1 DEF vars
  <2>2. ReportsKept' /\ \A x \in Callers : \A l : (ListKept(x, l) => ListKept(x, l)') /\ (ListReported(x, l) => ListReported(x, l)')
    BY <2>1, ReportsStay, ListsStay
  <2>3. ListsKept'
    <3> SUFFICES ASSUME NEW x \in Callers PROVE ListKept(x, call[x].list)'
      BY DEF ListsKept
    <3> QED
      BY <2>1, <2>2, HandleFacts
  <2>4. HandlesKept'
    <3>1. ASSUME NEW x \in Callers PROVE HandleKept(x)'
      BY <2>1, <2>2, HandleFacts DEF HandleKept
    <3> QED
      BY <2>1, <3>1 DEF HandlesKept, ListInv
  <2> QED
    BY <2>2, <2>3, <2>4 DEF ListInv
<1>2. ASSUME NEW d \in Devices, Hear(d) PROVE ListInv'
  BY <1>2, HearKeepsLists
<1>3. ASSUME NEW c \in Callers, Begin(c) \/ Send(c) \/ TimeOut(c) \/ Receive(c) \/ Free(c)
      PROVE  ListInv'
  BY <1>3, BeginKeepsLists, SendKeepsLists, TimeOutKeepsLists, ReceiveKeepsLists, FreeKeepsLists
<1> QED
  BY <1>1, <1>2, <1>3 DEF Next

(* So they are kept in every state.                                          *)
LEMMA AlwaysLists == Spec => []ListInv
<1>1. BaseInv /\ SetInv /\ ListInv /\ [Next]_vars => ListInv'
  BY StepKeepsLists
<1> QED
  BY <1>1, InitLists, AlwaysSet, PTL DEF Spec

(* A returned list has what was kept.                                        *)
LEMMA EntriesFollow ==
  ASSUME ListInv
  PROVE  EntriesAreReported /\ OnlyMatches
<1>1. \A c \in Callers : ListReported(c, handle[c].list)
  BY HandleFacts DEF HandleKept
<1> QED
  BY <1>1 DEF EntriesAreReported, OnlyMatches, ListReported, Returned, Matches

(* EntriesAreReported: the entries of a returned list are of different       *)
(* devices, sorted, and each half of one is what that device said in one     *)
(* reply to this call, or empty, but for the active half that eth32cfg_query *)
(* overwrites when the firmware is below 3 or unknown (query_recv_callback,  *)
(* eth32cfg_query, eth32cfg_discover_ip).                                    *)
THEOREM EntriesAreOneReply == Spec => []EntriesAreReported
BY AlwaysLists, EntriesFollow, PTL

(* OnlyMatches: a discovery returns no device that its filter leaves out     *)
(* (query_recv_callback).                                                    *)
THEOREM OthersAreLeftOut == Spec => []OnlyMatches
BY AlwaysLists, EntriesFollow, PTL
=============================================================================
