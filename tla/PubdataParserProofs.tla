-------------------------- MODULE PubdataParserProofs --------------------------
(***************************************************************************)
(* Whatever the operator commits is read back as it was, for every batch   *)
(* that the format can hold: BlockIsTheBatch and FailuresAreJustified.     *)
(*                                                                         *)
(* The proof compares two positions: the pointer, in the bytes the parser  *)
(* has, and the place in the whole pubdata where the next field is.  They  *)
(* are the same, or both are past the zeros that were cut off.             *)
(***************************************************************************)
EXTENDS PubdataParser, WellFoundedInduction, SequenceTheorems, TLAPS

-----------------------------------------------------------------------------
(***************************************************************************)
(* Induction and recursion.                                                *)
(***************************************************************************)
\* A set that has 0, and the successor of each number it has, has all numbers.
LEMMA NatSet ==
  ASSUME NEW S, 0 \in S, \A n \in Nat : n \in S => n + 1 \in S
  PROVE  Nat \subseteq S
<1> DEFINE R == OpToRel(<, Nat)
           T == Nat \ S
<1>1. \A x, y \in Nat : y < x => <<y, x>> \in R
  BY DEF OpToRel
<1>2. IsWellFoundedOn(R, Nat)
  BY NatLessThanWellFounded
<1>3. SUFFICES ASSUME T # {} PROVE FALSE
  OBVIOUS
<1>4. PICK x \in T : \A y \in T : <<y, x>> \notin R
  <2> HIDE DEF R, T
  <2>1. T \subseteq Nat
    BY DEF T
  <2> QED BY <1>2, <1>3, <2>1, WFMin
<1>5. x \in Nat /\ x # 0 /\ x \notin S
  OBVIOUS
<1>6. x - 1 \in Nat /\ x - 1 \notin S
  BY <1>5
<1> HIDE DEF R
<1>7. <<x - 1, x>> \in R /\ x - 1 \in T
  BY <1>1, <1>5, <1>6
<1> QED BY <1>4, <1>7

\* The same up to a bound.
LEMMA BoundedInduction ==
  ASSUME NEW n \in Nat, NEW S, 0 \in S, \A i \in 0..(n - 1) : i \in S => i + 1 \in S
  PROVE  0..n \subseteq S
<1> DEFINE Good == {i \in Nat : i <= n => i \in S}
<1>1. 0 \in Good
  OBVIOUS
<1>2. \A i \in Nat : i \in Good => i + 1 \in Good
  OBVIOUS
<1>3. Nat \subseteq Good
  <2> HIDE DEF Good
  <2> QED BY <1>1, <1>2, NatSet
<1> QED BY <1>3

\* The elements of a sequence over a set are in it.
LEMMA Elements ==
  ASSUME NEW S, NEW s \in Seq(S)
  PROVE  /\ Len(s) \in Nat /\ DOMAIN s = 1..Len(s)
         /\ \A i \in 1..Len(s) : s[i] \in S
OBVIOUS

\* A function on 1..n is a sequence.
LEMMA SequenceOf ==
  ASSUME NEW S, NEW n \in Nat, NEW s,
         s = [i \in 1..n |-> s[i]], \A i \in 1..n : s[i] \in S
  PROVE  s \in Seq(S) /\ Len(s) = n
<1>1. s \in [1..n -> S]
  OBVIOUS
<1> QED BY <1>1

\* f has a first value and goes on by steps.
Steps(f, n, V, base, step) ==
  /\ f \in [0..n -> V] /\ f[0] = base
  /\ \A i \in 1..n : f[i] = step[<<i, f[i - 1]>>]

\* There is a function with a given first value and given steps.
LEMMA Recursion ==
  ASSUME NEW n \in Nat, NEW V, NEW base \in V, NEW step \in [(1..n) \X V -> V]
  PROVE  \E f : Steps(f, n, V, base, step)
<1> DEFINE Starts(f, m) ==
             \A i \in 0..m : f[i] = IF i = 0 THEN base ELSE step[<<i, f[i - 1]>>]
           Good == {m \in 0..n : \E f \in [0..n -> V] : Starts(f, m)}
<1>1. 0 \in Good
  <2> DEFINE g == [i \in 0..n |-> base]
  <2>1. g \in [0..n -> V] /\ g[0] = base /\ \A i \in 0..0 : i = 0
    OBVIOUS
  <2> HIDE DEF g
  <2>2. 0 \in 0..n /\ Starts(g, 0)
    BY <2>1
  <2> QED BY <2>1, <2>2
<1>2. ASSUME NEW m \in 0..(n - 1), m \in Good PROVE m + 1 \in Good
  <2>1. PICK f \in [0..n -> V] : Starts(f, m)
    BY <1>2
  <2> DEFINE v == step[<<m + 1, f[m]>>]
             g == [f EXCEPT ![m + 1] = v]
  <2>2. v \in V
    <3>1. m + 1 \in 1..n /\ f[m] \in V
      OBVIOUS
    <3> QED BY <3>1
  <2> HIDE DEF v
  <2>3. g \in [0..n -> V] /\ g[m + 1] = v /\ \A i \in 0..m : g[i] = f[i]
    BY <2>2
  <2> HIDE DEF g
  <2>4. ASSUME NEW i \in 0..(m + 1)
        PROVE  g[i] = IF i = 0 THEN base ELSE step[<<i, g[i - 1]>>]
    <3>1. CASE i = m + 1
      <4>1. g[i - 1] = f[m] /\ i # 0
        BY <2>3, <3>1
      <4> QED BY <2>3, <3>1, <4>1 DEF v
    <3>2. CASE i # m + 1
      <4>1. i \in 0..m /\ (i # 0 => i - 1 \in 0..m)
        BY <3>2
      <4> QED BY <2>1, <2>3, <4>1
    <3> QED BY <3>1, <3>2
  <2>5. m + 1 \in 0..n /\ Starts(g, m + 1)
    BY <2>4
  <2> QED BY <2>3, <2>5
<1>3. n \in Good
  <2> HIDE DEF Good
  <2>1. 0..n \subseteq Good
    BY <1>1, <1>2, BoundedInduction
  <2> QED BY <2>1
<1>4. PICK f \in [0..n -> V] : Starts(f, n)
  BY <1>3
<1>5. \A i \in 1..n : i \in 0..n /\ i # 0
  OBVIOUS
<1>6. 0 \in 0..n
  OBVIOUS
<1>7. Steps(f, n, V, base, step)
  BY <1>4, <1>5, <1>6 DEF Steps
<1> QED BY <1>7

-----------------------------------------------------------------------------
(***************************************************************************)
(* Numbers and their bytes.                                                *)
(***************************************************************************)
\* f drops one byte of v after the other.
Drops(f, v, e) ==
  f \in [0..e -> Nat] /\ f[0] = v /\ \A i \in 1..e : f[i] = f[i - 1] \div 256

\* Shifted drops the lowest bytes.
LEMMA ShiftedUnfold ==
  ASSUME NEW v \in Nat, NEW e \in Nat
  PROVE  \E f : Drops(f, v, e) /\ Shifted(v, e) = f[e]
<1> DEFINE step == [x \in (1..e) \X Nat |-> x[2] \div 256]
<1>1. step \in [(1..e) \X Nat -> Nat]
  OBVIOUS
<1>2. \A i \in 1..e, w \in Nat : step[<<i, w>>] = w \div 256
  OBVIOUS
<1> HIDE DEF step
<1>3. PICK f : Steps(f, e, Nat, v, step)
  BY <1>1, Recursion
<1>4. f \in [0..e -> Nat] /\ f[0] = v /\ \A i \in 1..e : f[i] = f[i - 1] \div 256
  <2>1. ASSUME NEW i \in 1..e PROVE f[i] = f[i - 1] \div 256
    <3>1. i - 1 \in 0..e /\ f[i - 1] \in Nat
      BY <1>3 DEF Steps
    <3>2. f[i] = step[<<i, f[i - 1]>>]
      BY <1>3 DEF Steps
    <3>3. step[<<i, f[i - 1]>>] = f[i - 1] \div 256
      BY <1>2, <3>1
    <3> QED BY <3>2, <3>3
  <2> QED BY <1>3, <2>1 DEF Steps
<1>5. f = [i \in 0..e |-> IF i = 0 THEN v ELSE f[i - 1] \div 256]
  <2>1. \A i \in 0..e : i = 0 \/ i \in 1..e
    OBVIOUS
  <2>2. \A i \in 0..e : f[i] = IF i = 0 THEN v ELSE f[i - 1] \div 256
    BY <1>4, <2>1
  <2>3. f = [i \in 0..e |-> f[i]]
    BY <1>4
  <2> QED BY <2>2, <2>3
<1> DEFINE g == CHOOSE g : g = [i \in 0..e |-> IF i = 0 THEN v ELSE g[i - 1] \div 256]
<1>6. g = [i \in 0..e |-> IF i = 0 THEN v ELSE g[i - 1] \div 256]
  BY <1>5, ZenonT(60)
<1>7. Shifted(v, e) = g[e]
  BY Zenon DEF Shifted
<1> HIDE DEF g
<1> DEFINE Same == {i \in 0..e : g[i] = f[i]}
<1>8. 0..e \subseteq Same
  <2>1. 0 \in Same
    <3>1. 0 \in 0..e
      OBVIOUS
    <3> QED BY <1>4, <1>6, <3>1
  <2>2. ASSUME NEW i \in 0..(e - 1), i \in Same PROVE i + 1 \in Same
    <3>1. i + 1 \in 0..e /\ i + 1 # 0 /\ (i + 1) - 1 = i /\ i + 1 \in 1..e
      OBVIOUS
    <3>2. g[i + 1] = g[i] \div 256
      BY <1>6, <3>1
    <3> QED BY <1>4, <2>2, <3>1, <3>2
  <2> HIDE DEF Same
  <2> QED BY <2>1, <2>2, BoundedInduction
<1>9. Shifted(v, e) = f[e]
  <2>1. e \in 0..e
    OBVIOUS
  <2> QED BY <1>7, <1>8, <2>1
<1> QED BY <1>4, <1>9 DEF Drops

\* One byte more is shifted out by a division.
LEMMA ShiftedFacts ==
  ASSUME NEW v \in Nat
  PROVE  /\ Shifted(v, 0) = v
         /\ \A e \in Nat : /\ Shifted(v, e) \in Nat
                           /\ Shifted(v, e + 1) = Shifted(v, e) \div 256
<1>1. Shifted(v, 0) = v
  BY ShiftedUnfold DEF Drops
<1>2. ASSUME NEW e \in Nat
      PROVE  Shifted(v, e) \in Nat /\ Shifted(v, e + 1) = Shifted(v, e) \div 256
  <2>1. PICK f : Drops(f, v, e) /\ Shifted(v, e) = f[e]
    BY ShiftedUnfold
  <2>2. PICK g : Drops(g, v, e + 1) /\ Shifted(v, e + 1) = g[e + 1]
    <3>1. e + 1 \in Nat
      OBVIOUS
    <3> QED BY <3>1, ShiftedUnfold
  <2> DEFINE Same == {i \in 0..e : g[i] = f[i]}
  <2>3. 0..e \subseteq Same
    <3>1. 0 \in Same
      BY <2>1, <2>2 DEF Drops
    <3>2. ASSUME NEW i \in 0..(e - 1), i \in Same PROVE i + 1 \in Same
      <4>1. i + 1 \in 0..e /\ (i + 1) - 1 = i /\ i + 1 \in 1..e /\ i + 1 \in 1..(e + 1)
        OBVIOUS
      <4> QED BY <2>1, <2>2, <3>2, <4>1 DEF Drops
    <3> HIDE DEF Same
    <3> QED BY <3>1, <3>2, BoundedInduction
  <2>4. e \in 0..e /\ e + 1 \in 1..(e + 1) /\ (e + 1) - 1 = e
    OBVIOUS
  <2>5. g[e] = f[e] /\ f[e] \in Nat
    BY <2>1, <2>3, <2>4 DEF Drops
  <2> QED BY <2>1, <2>2, <2>4, <2>5 DEF Drops
<1> QED BY <1>1, <1>2

\* What is left above byte e is that byte and what is left above it.
LEMMA ByteAtFacts ==
  ASSUME NEW v \in Nat, NEW e \in Nat
  PROVE  /\ ByteAt(v, e) \in Nat
         /\ Shifted(v, e) = 256 * Shifted(v, e + 1) + ByteAt(v, e)
<1>1. \A w \in Nat : w % 256 \in 0..255 /\ w = 256 * (w \div 256) + (w % 256)
  OBVIOUS
<1>2. Shifted(v, e) \in Nat /\ Shifted(v, e + 1) = Shifted(v, e) \div 256
  BY ShiftedFacts
<1> QED BY <1>1, <1>2 DEF ByteAt

\* f reads one byte of s after the other.
Reads(f, s) ==
  /\ f \in [0..Len(s) -> Nat] /\ f[0] = 0
  /\ \A i \in 1..Len(s) : f[i] = 256 * f[i - 1] + s[i]

\* FromBE reads all bytes.
LEMMA FromBEUnfold ==
  ASSUME NEW s \in Seq(Nat)
  PROVE  \E f : Reads(f, s) /\ FromBE(s) = f[Len(s)]
<1> DEFINE n    == Len(s)
           step == [x \in (1..n) \X Nat |-> 256 * x[2] + s[x[1]]]
<1>1. n \in Nat /\ \A i \in 1..n : s[i] \in Nat
  OBVIOUS
<1>2. step \in [(1..n) \X Nat -> Nat]
  BY <1>1
<1>3. \A i \in 1..n, w \in Nat : step[<<i, w>>] = 256 * w + s[i]
  OBVIOUS
<1> HIDE DEF step, n
<1>4. PICK f : Steps(f, n, Nat, 0, step)
  BY <1>1, <1>2, Recursion
<1>6. f \in [0..n -> Nat] /\ f[0] = 0 /\ \A i \in 1..n : f[i] = 256 * f[i - 1] + s[i]
  <2>1. ASSUME NEW i \in 1..n PROVE f[i] = 256 * f[i - 1] + s[i]
    <3>1. i - 1 \in 0..n
      BY <1>1
    <3>2. f[i - 1] \in Nat /\ f[i] = step[<<i, f[i - 1]>>]
      BY <1>4, <3>1 DEF Steps
    <3> QED BY <1>3, <3>2
  <2> QED BY <1>4, <2>1 DEF Steps
<1> DEFINE g == CHOOSE g : g = [i \in 0..n |-> IF i = 0 THEN 0 ELSE 256 * g[i - 1] + s[i]]
<1>7. g = [i \in 0..n |-> IF i = 0 THEN 0 ELSE 256 * g[i - 1] + s[i]]
  <2>1. \A i \in 0..n : i = 0 \/ i \in 1..n
    BY <1>1
  <2>2. \A i \in 0..n : f[i] = IF i = 0 THEN 0 ELSE 256 * f[i - 1] + s[i]
    BY <1>6, <2>1
  <2>3. f = [i \in 0..n |-> IF i = 0 THEN 0 ELSE 256 * f[i - 1] + s[i]]
    <3>1. f = [i \in 0..n |-> f[i]]
      BY <1>6
    <3> QED BY <2>2, <3>1
  <2> QED BY <2>3, ZenonT(60)
<1>8. FromBE(s) = g[n]
  BY Zenon DEF FromBE, n
<1> HIDE DEF g
<1> DEFINE Same == {i \in 0..n : g[i] = f[i]}
<1>9. 0..n \subseteq Same
  <2>1. 0 \in Same
    <3>1. 0 \in 0..n
      BY <1>1
    <3> QED BY <1>6, <1>7, <3>1
  <2>2. ASSUME NEW i \in 0..(n - 1), i \in Same PROVE i + 1 \in Same
    <3>1. i + 1 \in 0..n /\ i + 1 # 0 /\ (i + 1) - 1 = i /\ i + 1 \in 1..n
      BY <1>1
    <3>2. g[i + 1] = 256 * g[i] + s[i + 1]
      BY <1>7, <3>1
    <3> QED BY <1>6, <2>2, <3>1, <3>2
  <2> HIDE DEF Same
  <2> QED BY <1>1, <2>1, <2>2, BoundedInduction
<1>10. n \in 0..n
  BY <1>1
<1>11. FromBE(s) = f[n]
  BY <1>8, <1>9, <1>10
<1> QED BY <1>6, <1>11 DEF n, Reads

\* The bytes of a number that fits into them are that number, and only those of
\* zero are all zeros.
LEMMA ToBEFacts ==
  ASSUME NEW n \in Nat, NEW v \in Nat
  PROVE  /\ ToBE(n, v) \in Seq(Nat) /\ Len(ToBE(n, v)) = n
         /\ Fits(v, n) => FromBE(ToBE(n, v)) = v
         /\ Fits(v, n) /\ v # 0 => \E j \in 1..n : ToBE(n, v)[j] # 0
<1> DEFINE s == ToBE(n, v)
<1>1. s = [i \in 1..n |-> ByteAt(v, n - i)] /\ \A i \in 1..n : ByteAt(v, n - i) \in Nat
  <2>1. ASSUME NEW i \in 1..n PROVE ByteAt(v, n - i) \in Nat
    <3>1. n - i \in Nat
      OBVIOUS
    <3> QED BY <3>1, ByteAtFacts
  <2> QED BY <2>1 DEF ToBE
<1>2. s \in Seq(Nat) /\ Len(s) = n /\ \A i \in 1..n : s[i] = ByteAt(v, n - i)
  <2> HIDE DEF s
  <2>1. s = [i \in 1..n |-> s[i]] /\ \A i \in 1..n : s[i] \in Nat
    BY <1>1
  <2> QED BY <1>1, <2>1, SequenceOf
<1> HIDE DEF s
<1>3. PICK f : Reads(f, s) /\ FromBE(s) = f[n]
  BY <1>2, FromBEUnfold
<1>4. f[0] = 0 /\ \A i \in 1..n : f[i] = 256 * f[i - 1] + s[i]
  BY <1>2, <1>3 DEF Reads
<1>5. ASSUME Fits(v, n) PROVE FromBE(s) = v
  <2> DEFINE Good == {i \in 0..n : f[i] = Shifted(v, n - i)}
  <2>1. 0 \in Good
    BY <1>4, <1>5 DEF Fits
  <2>2. ASSUME NEW i \in 0..(n - 1), i \in Good PROVE i + 1 \in Good
    <3>1. i + 1 \in 1..n /\ (i + 1) - 1 = i /\ n - (i + 1) \in Nat /\ (n - (i + 1)) + 1 = n - i
      OBVIOUS
    <3>2. f[i + 1] = 256 * Shifted(v, n - i) + ByteAt(v, n - (i + 1))
      BY <1>2, <1>4, <2>2, <3>1
    <3>3. Shifted(v, n - (i + 1)) = 256 * Shifted(v, n - i) + ByteAt(v, n - (i + 1))
      <4> DEFINE e == n - (i + 1)
      <4>1. Shifted(v, e) = 256 * Shifted(v, e + 1) + ByteAt(v, e)
        BY <3>1, ByteAtFacts
      <4> QED BY <3>1, <4>1
    <3> QED BY <3>1, <3>2, <3>3
  <2>3. n \in Good
    <3> HIDE DEF Good
    <3>1. 0..n \subseteq Good
      BY <2>1, <2>2, BoundedInduction
    <3> QED BY <3>1
  <2>4. f[n] = Shifted(v, 0)
    BY <2>3
  <2> QED BY <1>3, <2>4, ShiftedFacts
<1>6. ASSUME \A j \in 1..n : s[j] = 0 PROVE FromBE(s) = 0
  <2> DEFINE Good == {i \in 0..n : f[i] = 0}
  <2>1. 0 \in Good
    BY <1>4
  <2>2. ASSUME NEW i \in 0..(n - 1), i \in Good PROVE i + 1 \in Good
    <3>1. i + 1 \in 1..n /\ (i + 1) - 1 = i
      OBVIOUS
    <3> QED BY <1>4, <1>6, <2>2, <3>1
  <2>3. n \in Good
    <3> HIDE DEF Good
    <3>1. 0..n \subseteq Good
      BY <2>1, <2>2, BoundedInduction
    <3> QED BY <3>1
  <2> QED BY <1>3, <2>3
<1> QED BY <1>2, <1>5, <1>6 DEF s

\* Bytes in the one order are those in the other order backwards.
LEMMA ReverseToLE ==
  ASSUME NEW n \in Nat, NEW v \in Nat
  PROVE  /\ ToLE(n, v) \in Seq(Nat) /\ Len(ToLE(n, v)) = n
         /\ Reverse(ToLE(n, v)) = ToBE(n, v)
<1> DEFINE s == ToLE(n, v)
<1>1. s = [i \in 1..n |-> ByteAt(v, i - 1)] /\ \A i \in 1..n : ByteAt(v, i - 1) \in Nat
  <2>1. ASSUME NEW i \in 1..n PROVE ByteAt(v, i - 1) \in Nat
    <3>1. i - 1 \in Nat
      OBVIOUS
    <3> QED BY <3>1, ByteAtFacts
  <2> QED BY <2>1 DEF ToLE
<1>2. s \in Seq(Nat) /\ Len(s) = n /\ \A i \in 1..n : s[i] = ByteAt(v, i - 1)
  <2> HIDE DEF s
  <2>1. s = [i \in 1..n |-> s[i]] /\ \A i \in 1..n : s[i] \in Nat
    BY <1>1
  <2> QED BY <1>1, <2>1, SequenceOf
<1> HIDE DEF s
<1>3. ASSUME NEW i \in 1..n PROVE s[(n - i) + 1] = ByteAt(v, n - i)
  <2>1. (n - i) + 1 \in 1..n /\ ((n - i) + 1) - 1 = n - i
    OBVIOUS
  <2>2. s[(n - i) + 1] = ByteAt(v, ((n - i) + 1) - 1)
    BY <1>2, <2>1
  <2> QED BY <2>1, <2>2
<1>4. Reverse(s) = [i \in 1..n |-> s[(n - i) + 1]]
  BY <1>2 DEF Reverse
<1>5. Reverse(s) = ToBE(n, v)
  BY <1>3, <1>4 DEF ToBE
<1> QED BY <1>2, <1>5 DEF s

\* A value fits into its significant bytes.
LEMMA SignificantBytesFacts ==
  ASSUME NEW v \in Nat, Fits(v, WordLen)
  PROVE  SignificantBytes(v) \in 0..WordLen /\ Fits(v, SignificantBytes(v))
<1>1. WordLen \in Nat
  BY FormatAssumption
<1> DEFINE Least(n) == Fits(v, n) /\ \A m \in 0..(n - 1) : ~Fits(v, m)
<1>2. \E n \in 0..WordLen : Least(n)
  <2> SUFFICES ASSUME \A n \in 0..WordLen : ~Least(n) PROVE FALSE
    OBVIOUS
  <2> DEFINE Good == {k \in 0..WordLen : \A m \in 0..k : ~Fits(v, m)}
  <2>1. 0 \in Good
    <3>1. 0 \in 0..WordLen /\ \A m \in 0..(0 - 1) : FALSE
      BY <1>1
    <3>2. \A m \in 0..0 : m = 0
      OBVIOUS
    <3> QED BY <3>1, <3>2
  <2>2. ASSUME NEW k \in 0..(WordLen - 1), k \in Good PROVE k + 1 \in Good
    <3>1. k + 1 \in 0..WordLen /\ (k + 1) - 1 = k /\ \A m \in 0..(k + 1) : m \in 0..k \/ m = k + 1
      BY <1>1
    <3>2. ~Fits(v, k + 1)
      BY <2>2, <3>1
    <3> QED BY <2>2, <3>1, <3>2
  <2>3. WordLen \in Good
    <3> HIDE DEF Good
    <3>1. 0..WordLen \subseteq Good
      BY <1>1, <2>1, <2>2, BoundedInduction
    <3> QED BY <1>1, <3>1
  <2> QED BY <1>1, <2>3
<1> QED BY <1>2 DEF SignificantBytes

-----------------------------------------------------------------------------
(***************************************************************************)
(* Where a part of a sequence is.                                          *)
(***************************************************************************)
\* s stands in t after the first p elements.
Holds(t, p, s) ==
  p + Len(s) <= Len(t) /\ \A j \in 1..Len(s) : t[p + j] = s[j]

\* The length of the first i sequences of ss.
Offset(ss, i) ==
  LET sum[j \in 0..Len(ss)] == IF j = 0 THEN 0 ELSE sum[j - 1] + Len(ss[j])
  IN  sum[i]

\* A concatenation holds its two parts.
LEMMA ConcatHolds ==
  ASSUME NEW s \in Seq(Nat), NEW u \in Seq(Nat)
  PROVE  /\ s \o u \in Seq(Nat) /\ Len(s \o u) = Len(s) + Len(u)
         /\ Holds(s \o u, 0, s) /\ Holds(s \o u, Len(s), u)
BY DEF Holds

\* What a part holds, the whole holds.
LEMMA HoldsTrans ==
  ASSUME NEW t \in Seq(Nat), NEW s \in Seq(Nat), NEW u \in Seq(Nat),
         NEW p \in Nat, NEW q \in Nat, Holds(t, p, s), Holds(s, q, u)
  PROVE  Holds(t, p + q, u)
<1>1. \A j \in 1..Len(u) : q + j \in 1..Len(s) /\ s[q + j] = u[j]
  <2>1. Len(s) \in Nat /\ Len(u) \in Nat /\ q + Len(u) <= Len(s)
    BY DEF Holds
  <2>2. \A j \in 1..Len(u) : s[q + j] = u[j]
    BY DEF Holds
  <2> QED BY <2>1, <2>2
<1>2. \A j \in 1..Len(u) : t[p + (q + j)] = u[j] /\ p + (q + j) = (p + q) + j
  BY <1>1 DEF Holds
<1>3. (p + q) + Len(u) <= Len(t)
  BY DEF Holds
<1> QED BY <1>2, <1>3 DEF Holds

\* Offset adds one length after the other.
LEMMA OffsetFacts ==
  ASSUME NEW ss \in Seq(Seq(Nat))
  PROVE  /\ Offset(ss, 0) = 0
         /\ \A i \in 0..Len(ss) : Offset(ss, i) \in Nat
         /\ \A i \in 1..Len(ss) : /\ ss[i] \in Seq(Nat) /\ Len(ss[i]) \in Nat
                                  /\ Offset(ss, i) = Offset(ss, i - 1) + Len(ss[i])
<1> DEFINE n    == Len(ss)
           step == [x \in (1..n) \X Nat |-> x[2] + Len(ss[x[1]])]
<1>1. n \in Nat /\ \A i \in 1..n : ss[i] \in Seq(Nat) /\ Len(ss[i]) \in Nat
  OBVIOUS
<1>2. step \in [(1..n) \X Nat -> Nat]
  BY <1>1
<1>3. \A i \in 1..n, w \in Nat : step[<<i, w>>] = w + Len(ss[i])
  OBVIOUS
<1> HIDE DEF step, n
<1>4. PICK f : Steps(f, n, Nat, 0, step)
  BY <1>1, <1>2, Recursion
<1>5. f \in [0..n -> Nat] /\ f[0] = 0 /\ \A i \in 1..n : f[i] = f[i - 1] + Len(ss[i])
  <2>1. ASSUME NEW i \in 1..n PROVE f[i] = f[i - 1] + Len(ss[i])
    <3>1. i - 1 \in 0..n
      BY <1>1
    <3>2. f[i - 1] \in Nat /\ f[i] = step[<<i, f[i - 1]>>]
      BY <1>4, <3>1 DEF Steps
    <3> QED BY <1>3, <3>2
  <2> QED BY <1>4, <2>1 DEF Steps
<1> DEFINE g == CHOOSE g : g = [j \in 0..n |-> IF j = 0 THEN 0 ELSE g[j - 1] + Len(ss[j])]
<1>6. g = [j \in 0..n |-> IF j = 0 THEN 0 ELSE g[j - 1] + Len(ss[j])]
  <2>1. \A i \in 0..n : i = 0 \/ i \in 1..n
    BY <1>1
  <2>2. \A i \in 0..n : f[i] = IF i = 0 THEN 0 ELSE f[i - 1] + Len(ss[i])
    BY <1>5, <2>1
  <2>3. f = [i \in 0..n |-> IF i = 0 THEN 0 ELSE f[i - 1] + Len(ss[i])]
    <3>1. f = [i \in 0..n |-> f[i]]
      BY <1>5
    <3> QED BY <2>2, <3>1
  <2> QED BY <2>3, Zenon
<1>7. \A i : Offset(ss, i) = g[i]
  BY Zenon DEF Offset, n
<1> HIDE DEF g
<1>8. g[0] = 0 /\ \A i \in 1..n : g[i] = g[i - 1] + Len(ss[i])
  <2>1. 0 \in 0..n /\ \A i \in 1..n : i \in 0..n /\ i # 0
    BY <1>1
  <2> QED BY <1>6, <2>1
<1> DEFINE Good == {i \in 0..n : g[i] \in Nat}
<1>9. 0..n \subseteq Good
  <2>1. 0 \in Good
    BY <1>1, <1>8
  <2>2. ASSUME NEW i \in 0..(n - 1), i \in Good PROVE i + 1 \in Good
    <3>1. i + 1 \in 1..n /\ (i + 1) - 1 = i /\ i + 1 \in 0..n
      BY <1>1
    <3>2. g[i + 1] = g[i] + Len(ss[i + 1])
      BY <1>8, <3>1
    <3>3. g[i] \in Nat /\ Len(ss[i + 1]) \in Nat
      BY <1>1, <2>2, <3>1
    <3> QED BY <3>1, <3>2, <3>3
  <2> HIDE DEF Good
  <2> QED BY <1>1, <2>1, <2>2, BoundedInduction
<1> QED BY <1>1, <1>7, <1>8, <1>9 DEF n

\* More sequences are longer.
LEMMA OffsetMonotone ==
  ASSUME NEW ss \in Seq(Seq(Nat)), NEW i \in 0..Len(ss), NEW k \in 0..Len(ss), i <= k
  PROVE  Offset(ss, i) <= Offset(ss, k)
<1> DEFINE n    == Len(ss)
           Good == {j \in 0..n : i <= j => Offset(ss, i) <= Offset(ss, j)}
<1>1. n \in Nat
  OBVIOUS
<1>2. \A j \in 0..n : Offset(ss, j) \in Nat
  BY OffsetFacts
<1>3. 0 \in Good
  BY <1>2
<1>4. ASSUME NEW j \in 0..(n - 1), j \in Good PROVE j + 1 \in Good
  <2>1. j + 1 \in 1..n /\ (j + 1) - 1 = j /\ j \in 0..n /\ j + 1 \in 0..n
    OBVIOUS
  <2>2. Offset(ss, j + 1) = Offset(ss, j) + Len(ss[j + 1]) /\ Len(ss[j + 1]) \in Nat
    BY <2>1, OffsetFacts
  <2> QED BY <1>2, <1>4, <2>1, <2>2
<1>5. k \in Good
  <2> HIDE DEF Good
  <2>1. 0..n \subseteq Good
    BY <1>1, <1>3, <1>4, BoundedInduction
  <2> QED BY <2>1
<1> QED BY <1>5

\* f joins the sequences of ss one after the other.
Joins(f, ss) ==
  /\ f \in [0..Len(ss) -> Seq(Nat)] /\ f[0] = <<>>
  /\ \A i \in 1..Len(ss) : f[i] = f[i - 1] \o ss[i]

\* FlattenSeq joins all of them.
LEMMA FlattenUnfold ==
  ASSUME NEW ss \in Seq(Seq(Nat))
  PROVE  \E f : Joins(f, ss) /\ FlattenSeq(ss) = f[Len(ss)]
<1> DEFINE n    == Len(ss)
           step == [x \in (1..n) \X Seq(Nat) |-> x[2] \o ss[x[1]]]
<1>1. n \in Nat /\ \A i \in 1..n : ss[i] \in Seq(Nat)
  OBVIOUS
<1>2. step \in [(1..n) \X Seq(Nat) -> Seq(Nat)]
  <2>1. \A s, u \in Seq(Nat) : s \o u \in Seq(Nat)
    OBVIOUS
  <2> QED BY <1>1, <2>1
<1>3. \A i \in 1..n, w \in Seq(Nat) : step[<<i, w>>] = w \o ss[i]
  OBVIOUS
<1> HIDE DEF step, n
<1>4. <<>> \in Seq(Nat)
  OBVIOUS
<1>5. PICK f : Steps(f, n, Seq(Nat), <<>>, step)
  BY <1>1, <1>2, <1>4, Recursion
<1>6. f \in [0..n -> Seq(Nat)] /\ f[0] = <<>> /\ \A i \in 1..n : f[i] = f[i - 1] \o ss[i]
  <2>1. ASSUME NEW i \in 1..n PROVE f[i] = f[i - 1] \o ss[i]
    <3>1. i - 1 \in 0..n
      BY <1>1
    <3>2. f[i - 1] \in Seq(Nat) /\ f[i] = step[<<i, f[i - 1]>>]
      BY <1>5, <3>1 DEF Steps
    <3> QED BY <1>3, <3>2
  <2> QED BY <1>5, <2>1 DEF Steps
<1>7. Joins(f, ss)
  BY <1>6 DEF Joins, n
<1>8. CASE n = 0
  <2>1. ss = <<>>
    BY <1>8 DEF n
  <2>2. FlattenSeq(ss) = ss
    BY <1>8 DEF FlattenSeq, n
  <2> QED BY <1>6, <1>7, <1>8, <2>1, <2>2 DEF n
<1>9. CASE n # 0
  <2> DEFINE g == CHOOSE g : g = [i \in 1..n |-> IF i = 1 THEN ss[i] ELSE g[i - 1] \o ss[i]]
             h == [i \in 1..n |-> f[i]]
  <2>1. h = [i \in 1..n |-> IF i = 1 THEN ss[i] ELSE h[i - 1] \o ss[i]]
    <3>1. ASSUME NEW i \in 1..n PROVE h[i] = IF i = 1 THEN ss[i] ELSE h[i - 1] \o ss[i]
      <4>1. CASE i = 1
        <5>1. 1 \in 1..n /\ 1 - 1 = 0
          BY <1>1, <1>9
        <5>2. f[1] = <<>> \o ss[1] /\ ss[1] \in Seq(Nat) /\ h[i] = f[1]
          BY <1>1, <1>6, <4>1, <5>1
        <5>3. <<>> \o ss[1] = ss[1]
          BY <5>2
        <5> QED BY <4>1, <5>2, <5>3
      <4>2. CASE i # 1
        <5>1. i - 1 \in 1..n
          BY <1>1, <4>2
        <5> QED BY <1>6, <4>2, <5>1
      <4> QED BY <4>1, <4>2
    <3> QED BY <3>1
  <2> HIDE DEF h
  <2>2. g = [i \in 1..n |-> IF i = 1 THEN ss[i] ELSE g[i - 1] \o ss[i]]
    BY <2>1, Zenon
  <2>3. FlattenSeq(ss) = g[n]
    BY <1>9, Zenon DEF FlattenSeq, n
  <2> HIDE DEF g
  <2> DEFINE Good == {i \in 0..n : i # 0 => g[i] = f[i]}
  <2>4. 0 \in Good
    BY <1>1
  <2>5. ASSUME NEW i \in 0..(n - 1), i \in Good PROVE i + 1 \in Good
    <3>1. i + 1 \in 1..n /\ i + 1 \in 0..n /\ (i + 1) - 1 = i
      BY <1>1
    <3>2. CASE i = 0
      <4>1. g[1] = ss[1] /\ h[1] = ss[1] /\ h[1] = f[1]
        <5>1. 1 \in 1..n
          BY <3>1, <3>2
        <5> QED BY <2>1, <2>2, <5>1 DEF h
      <4> QED BY <3>1, <3>2, <4>1
    <3>3. CASE i # 0
      <4>1. g[i + 1] = g[i] \o ss[i + 1]
        <5>1. i + 1 # 1
          BY <3>3
        <5>2. g[i + 1] = g[(i + 1) - 1] \o ss[i + 1]
          BY <2>2, <3>1, <5>1
        <5> QED BY <3>1, <5>2
      <4>2. f[i + 1] = f[i] \o ss[i + 1]
        BY <1>6, <3>1
      <4> QED BY <2>5, <3>1, <3>3, <4>1, <4>2
    <3> QED BY <3>2, <3>3
  <2>6. n \in Good
    <3> HIDE DEF Good
    <3>1. 0..n \subseteq Good
      BY <1>1, <2>4, <2>5, BoundedInduction
    <3> QED BY <1>1, <3>1
  <2> QED BY <1>7, <1>9, <2>3, <2>6 DEF n
<1> QED BY <1>8, <1>9

\* The joined sequence holds each of its parts at its offset.
LEMMA FlattenFacts ==
  ASSUME NEW ss \in Seq(Seq(Nat))
  PROVE  /\ FlattenSeq(ss) \in Seq(Nat)
         /\ Len(FlattenSeq(ss)) = Offset(ss, Len(ss))
         /\ \A i \in 1..Len(ss) : Holds(FlattenSeq(ss), Offset(ss, i - 1), ss[i])
<1> DEFINE n == Len(ss)
<1>1. PICK f : Joins(f, ss) /\ FlattenSeq(ss) = f[n]
  BY FlattenUnfold
<1>2. n \in Nat /\ \A i \in 1..n : ss[i] \in Seq(Nat)
  OBVIOUS
<1> DEFINE Parts(i) == /\ Len(f[i]) = Offset(ss, i)
                       /\ \A k \in 1..i : Holds(f[i], Offset(ss, k - 1), ss[k])
           Good == {i \in 0..n : Parts(i)}
<1> HIDE DEF n
<1>3. /\ f[0] = <<>> /\ \A i \in 0..n : f[i] \in Seq(Nat)
      /\ \A i \in 1..n : f[i] = f[i - 1] \o ss[i]
  BY <1>1 DEF Joins, n
<1>4. 0 \in Good
  <2>1. Len(f[0]) = 0 /\ Offset(ss, 0) = 0
    BY <1>3, OffsetFacts
  <2> QED BY <1>2, <2>1
<1>5. ASSUME NEW i \in 0..(n - 1), i \in Good PROVE i + 1 \in Good
  <2>1. i + 1 \in 1..n /\ i + 1 \in 0..n /\ i \in 0..n /\ (i + 1) - 1 = i
    BY <1>2
  <2> DEFINE old == f[i]
             new == ss[i + 1]
             all == f[i + 1]
  <2>2. old \in Seq(Nat) /\ new \in Seq(Nat) /\ all \in Seq(Nat) /\ all = old \o new
    BY <1>2, <1>3, <2>1
  <2>3. Len(old) = Offset(ss, i) /\ \A k \in 1..i : Holds(old, Offset(ss, k - 1), ss[k])
    BY <1>5
  <2> HIDE DEF old, new, all
  <2>4. Len(all) = Len(old) + Len(new) /\ Holds(all, 0, old) /\ Holds(all, Len(old), new)
    BY <2>2, ConcatHolds
  <2>5. Len(all) = Offset(ss, i + 1)
    <3>1. Offset(ss, i + 1) = Offset(ss, i) + Len(new)
      BY <2>1, OffsetFacts DEF n, new
    <3> QED BY <2>3, <2>4, <3>1
  <2>6. ASSUME NEW k \in 1..(i + 1) PROVE Holds(all, Offset(ss, k - 1), ss[k])
    <3>1. CASE k = i + 1
      <4>1. k - 1 = i
        BY <3>1
      <4> QED BY <2>3, <2>4, <3>1, <4>1 DEF new
    <3>2. CASE k # i + 1
      <4>1. k \in 1..i /\ k \in 1..n /\ k - 1 \in 0..n
        BY <1>2, <3>2
      <4>2. Offset(ss, k - 1) \in Nat /\ ss[k] \in Seq(Nat)
        BY <1>2, <4>1, OffsetFacts DEF n
      <4>3. Holds(old, Offset(ss, k - 1), ss[k])
        BY <2>3, <4>1
      <4>4. Holds(all, 0 + Offset(ss, k - 1), ss[k])
        BY <2>2, <2>4, <4>2, <4>3, HoldsTrans
      <4> QED BY <4>2, <4>4
    <3> QED BY <3>1, <3>2
  <2> QED BY <2>1, <2>5, <2>6 DEF all
<1>6. Parts(n)
  <2> HIDE DEF Good
  <2>1. 0..n \subseteq Good
    BY <1>2, <1>4, <1>5, BoundedInduction
  <2>2. n \in Good
    BY <1>2, <2>1
  <2> QED BY <2>2 DEF Good
<1>7. f[n] \in Seq(Nat)
  BY <1>2, <1>3
<1> QED BY <1>1, <1>6, <1>7 DEF n

\* The two parts of a concatenation stand one after the other.
LEMMA HoldsConcat ==
  ASSUME NEW t \in Seq(Nat), NEW s \in Seq(Nat), NEW u \in Seq(Nat), NEW p \in Nat,
         Holds(t, p, s \o u)
  PROVE  Holds(t, p, s) /\ Holds(t, p + Len(s), u)
<1> DEFINE r == s \o u
<1>1. r \in Seq(Nat) /\ Holds(r, 0, s) /\ Holds(r, Len(s), u) /\ Len(s) \in Nat
  BY ConcatHolds
<1> HIDE DEF r
<1>2. Holds(t, p, r)
  BY DEF r
<1>3. Holds(t, p + 0, s) /\ Holds(t, p + Len(s), u)
  <2>1. 0 \in Nat
    OBVIOUS
  <2> QED BY <1>1, <1>2, <2>1, HoldsTrans
<1> QED BY <1>3

\* So do the sequences that are joined.
LEMMA HoldsFlatten ==
  ASSUME NEW t \in Seq(Nat), NEW ss \in Seq(Seq(Nat)), NEW p \in Nat,
         Holds(t, p, FlattenSeq(ss)), NEW i \in 1..Len(ss)
  PROVE  Holds(t, p + Offset(ss, i - 1), ss[i])
<1> DEFINE r == FlattenSeq(ss)
<1>1. r \in Seq(Nat) /\ Holds(r, Offset(ss, i - 1), ss[i])
  BY FlattenFacts
<1>2. Offset(ss, i - 1) \in Nat /\ ss[i] \in Seq(Nat)
  <2>1. i - 1 \in 0..Len(ss)
    OBVIOUS
  <2> QED BY <2>1, OffsetFacts
<1> HIDE DEF r
<1>3. Holds(t, p, r)
  BY DEF r
<1> QED BY <1>1, <1>2, <1>3, HoldsTrans

-----------------------------------------------------------------------------
(***************************************************************************)
(* The format: where the fields of a batch are in its pubdata.             *)
(***************************************************************************)
Meta(w) ==
  LET code == CASE w.op = "add" -> 1 [] w.op = "sub" -> 2 [] w.op = "transform" -> 3
                [] OTHER -> 4
  IN  IF w.op = "none" THEN 0 ELSE 8 * SignificantBytes(w.value) + code

ValueBytes(w) ==
  ToBE(IF w.op = "none" THEN WordLen ELSE SignificantBytes(w.value), w.value)

\* The first byte of a value says how to read it.
LEMMA EncodedValueFacts ==
  ASSUME NEW w \in Write, Fits(w.value, WordLen)
  PROVE  /\ EncodedValue(w) = <<Meta(w)>> \o ValueBytes(w)
         /\ Meta(w) \in Nat /\ <<Meta(w)>> \in Seq(Nat) /\ ValueBytes(w) \in Seq(Nat)
         /\ FromBE(ValueBytes(w)) = w.value
         /\ Len(ValueBytes(w)) = IF Meta(w) % 8 = 0 THEN WordLen ELSE Meta(w) \div 8
         /\ Meta(w) = 0 <=> w.op = "none"
         /\ Meta(w) % 8 \in 0..4 /\ (Meta(w) % 8 = 4 <=> w.op = "unknown")
         /\ Meta(w) % 8 # 4 => OpName[(Meta(w) % 8) + 1] = w.op
         /\ w.op = "none" /\ w.value # 0 => \E j \in 1..WordLen : ValueBytes(w)[j] # 0
<1> DEFINE n == SignificantBytes(w.value)
           code == CASE w.op = "add" -> 1 [] w.op = "sub" -> 2 [] w.op = "transform" -> 3
                     [] OTHER -> 4
<1>1. WordLen \in Nat /\ w.value \in Nat
  BY FormatAssumption DEF Write
<1>2. w.op \in {"none", "add", "sub", "transform", "unknown"}
  BY DEF Write
<1>3. n \in Nat /\ Fits(w.value, n)
  BY <1>1, SignificantBytesFacts
<1>4. code \in 1..4 /\ (w.op # "none" => (code = 4 <=> w.op = "unknown"))
  BY <1>2
<1>5. w.op # "none" /\ code # 4 => OpName[code + 1] = w.op
  BY <1>2 DEF OpName
<1>6. Meta(w) = IF w.op = "none" THEN 0 ELSE 8 * n + code
  BY DEF Meta
<1>7. ValueBytes(w) = IF w.op = "none" THEN ToBE(WordLen, w.value) ELSE ToBE(n, w.value)
  BY DEF ValueBytes
<1>8. EncodedValue(w) = IF w.op = "none" THEN <<0>> \o ToBE(WordLen, w.value)
                        ELSE <<8 * n + code>> \o ToBE(n, w.value)
  BY DEF EncodedValue
<1> HIDE DEF n, code
<1>9. CASE w.op = "none"
  <2>1. Meta(w) = 0 /\ ValueBytes(w) = ToBE(WordLen, w.value)
    BY <1>6, <1>7, <1>9
  <2>2. EncodedValue(w) = <<Meta(w)>> \o ValueBytes(w)
    BY <1>8, <1>9, <2>1
  <2>3. OpName[(0 % 8) + 1] = "none" /\ 0 % 8 = 0 /\ <<0>> \in Seq(Nat)
    BY DEF OpName
  <2>4. ValueBytes(w) \in Seq(Nat) /\ Len(ValueBytes(w)) = WordLen
        /\ FromBE(ValueBytes(w)) = w.value
        /\ (w.value # 0 => \E j \in 1..WordLen : ValueBytes(w)[j] # 0)
    BY <1>1, <2>1, ToBEFacts
  <2> QED BY <1>9, <2>1, <2>2, <2>3, <2>4
<1>10. CASE w.op # "none"
  <2>1. Meta(w) = 8 * n + code /\ ValueBytes(w) = ToBE(n, w.value)
    BY <1>6, <1>7, <1>10
  <2>2. EncodedValue(w) = <<Meta(w)>> \o ValueBytes(w)
    BY <1>8, <1>10, <2>1
  <2>3. Meta(w) \in Nat /\ Meta(w) # 0 /\ Meta(w) % 8 = code
        /\ Meta(w) \div 8 = n /\ code # 0
    BY <1>3, <1>4, <2>1
  <2>4. ValueBytes(w) \in Seq(Nat) /\ Len(ValueBytes(w)) = n
        /\ FromBE(ValueBytes(w)) = w.value
    BY <1>1, <1>3, <2>1, ToBEFacts
  <2>5. <<Meta(w)>> \in Seq(Nat)
    BY <2>3
  <2> QED BY <1>4, <1>5, <1>10, <2>2, <2>3, <2>4, <2>5
<1> QED BY <1>9, <1>10

Framed(ss) == [i \in DOMAIN ss |-> Prefixed(ss[i])]
EncodedInitial(c) ==
  [i \in DOMAIN c.initial |->
    ToLE(WordLen, c.initial[i].key) \o EncodedValue(c.initial[i])]
EncodedRepeated(c) ==
  [i \in DOMAIN c.repeated |->
    ToBE(c.width, c.repeated[i].key) \o EncodedValue(c.repeated[i])]

\* How many bytes come before a field, or before entry i + 1 of a section.
MessagesPos(c)    == 4 + c.logs * LogSize
MessagePos(c, i)  == MessagesPos(c) + 4 + Offset(Framed(c.messages), i)
BytecodesPos(c)   == MessagePos(c, Len(c.messages))
BytecodePos(c, i) == BytecodesPos(c) + 4 + Offset(Framed(c.codes), i)
VersionPos(c)     == BytecodePos(c, Len(c.codes))
InitialPos(c, i)  == VersionPos(c) + 7 + Offset(EncodedInitial(c), i)
RepeatedPos(c, i) == InitialPos(c, Len(c.initial)) + Offset(EncodedRepeated(c), i)

\* The fields of a batch have the types they are declared with.
LEMMA BatchFacts ==
  ASSUME NEW c \in Committed
  PROVE  /\ WellFormed(c) /\ c.logs \in Nat
         /\ c.messages \in Seq(Seq(Byte)) /\ c.codes \in Seq(Seq(Byte))
         /\ c.initial \in Seq(Write) /\ c.repeated \in Seq(Write)
         /\ c.version \in 1..255 /\ c.width \in 1..255
<1>1. WellFormed(c) /\
      c \in [logs : Nat, messages : Seq(Seq(Byte)), codes : Seq(Seq(Byte)),
             initial : Seq(Write), repeated : Seq(Write),
             version : Byte \ {0}, width : Byte \ {0}]
  BY CommittedAssumption
<1>2. Byte \ {0} = 1..255
  BY DEF Byte
<1> QED BY <1>1, <1>2

\* Bytes are numbers.
LEMMA BytesAreNumbers == \A s \in Seq(Byte) : s \in Seq(Nat)
<1>1. Byte \subseteq Nat
  BY DEF Byte
<1> QED BY <1>1, SeqMonotonic

\* A byte string has its length in front.
LEMMA FramedFacts ==
  ASSUME NEW ss \in Seq(Seq(Byte))
  PROVE  /\ Framed(ss) \in Seq(Seq(Nat)) /\ Len(Framed(ss)) = Len(ss)
         /\ Len(ss) \in Nat
         /\ \A i \in 1..Len(ss) :
              /\ ss[i] \in Seq(Nat) /\ Len(ss[i]) \in Nat
              /\ ToBE(4, Len(ss[i])) \in Seq(Nat) /\ Len(ToBE(4, Len(ss[i]))) = 4
              /\ Framed(ss)[i] = ToBE(4, Len(ss[i])) \o ss[i]
              /\ Offset(Framed(ss), i) = Offset(Framed(ss), i - 1) + 4 + Len(ss[i])
<1> DEFINE n == Len(ss)
<1>1. n \in Nat /\ DOMAIN ss = 1..n /\ \A i \in 1..n : ss[i] \in Seq(Byte)
  BY Elements
<1>2. \A i \in 1..n : ss[i] \in Seq(Nat) /\ Len(ss[i]) \in Nat
  <2>1. \A s \in Seq(Nat) : Len(s) \in Nat
    OBVIOUS
  <2> QED BY <1>1, <2>1, BytesAreNumbers
<1>3. ASSUME NEW i \in 1..n
      PROVE  ToBE(4, Len(ss[i])) \in Seq(Nat) /\ Len(ToBE(4, Len(ss[i]))) = 4
  <2>1. 4 \in Nat /\ Len(ss[i]) \in Nat
    BY <1>2
  <2> QED BY <2>1, ToBEFacts
<1>4. \A i \in 1..n : Framed(ss)[i] = ToBE(4, Len(ss[i])) \o ss[i]
  BY <1>1 DEF Framed, Prefixed
<1>5. ASSUME NEW i \in 1..n
      PROVE  Framed(ss)[i] \in Seq(Nat) /\ Len(Framed(ss)[i]) = 4 + Len(ss[i])
  BY <1>2, <1>3, <1>4, ConcatHolds
<1>6. Framed(ss) \in Seq(Seq(Nat)) /\ Len(Framed(ss)) = n
  <2>1. DOMAIN Framed(ss) = 1..n /\ Framed(ss) = [i \in 1..n |-> Framed(ss)[i]]
    BY <1>1 DEF Framed
  <2> QED BY <1>1, <1>5, <2>1, SequenceOf
<1>7. ASSUME NEW i \in 1..n
      PROVE  Offset(Framed(ss), i) = Offset(Framed(ss), i - 1) + 4 + Len(ss[i])
  <2>1. i \in 1..Len(Framed(ss)) /\ i - 1 \in 0..Len(Framed(ss))
    BY <1>1, <1>6
  <2>2. /\ Offset(Framed(ss), i) = Offset(Framed(ss), i - 1) + Len(Framed(ss)[i])
        /\ Offset(Framed(ss), i - 1) \in Nat
    BY <1>6, <2>1, OffsetFacts
  <2>3. Len(Framed(ss)[i]) = 4 + Len(ss[i]) /\ Len(ss[i]) \in Nat
    BY <1>2, <1>5
  <2>4. \A a, k \in Nat : a + (4 + k) = a + 4 + k
    OBVIOUS
  <2> QED BY <2>2, <2>3, <2>4, Zenon
<1> QED BY <1>1, <1>2, <1>3, <1>4, <1>6, <1>7

\* An entry of a section of writes: a key and a value.
IsEntry(entry, key, w) ==
  /\ entry \in Seq(Nat) /\ key \in Seq(Nat)
  /\ entry = key \o (<<Meta(w)>> \o ValueBytes(w))
  /\ Len(entry) = Len(key) + 1 + Len(ValueBytes(w))

\* The entries of the initial writes and of the repeated writes.
LEMMA EntryFacts ==
  ASSUME NEW c \in Committed
  PROVE  /\ EncodedInitial(c) \in Seq(Seq(Nat))
         /\ Len(EncodedInitial(c)) = Len(c.initial)
         /\ \A i \in 1..Len(c.initial) :
              IsEntry(EncodedInitial(c)[i], ToLE(WordLen, c.initial[i].key), c.initial[i])
         /\ EncodedRepeated(c) \in Seq(Seq(Nat))
         /\ Len(EncodedRepeated(c)) = Len(c.repeated)
         /\ \A i \in 1..Len(c.repeated) :
              IsEntry(EncodedRepeated(c)[i], ToBE(c.width, c.repeated[i].key), c.repeated[i])
<1>1. WordLen \in Nat /\ c.width \in Nat
  <2>1. c.width \in 1..255
    BY BatchFacts
  <2> QED BY <2>1, FormatAssumption
<1>2. ASSUME NEW key \in Seq(Nat), NEW w \in Write, Fits(w.value, WordLen)
      PROVE  IsEntry(key \o EncodedValue(w), key, w)
  <2> DEFINE value == <<Meta(w)>> \o ValueBytes(w)
  <2>1. EncodedValue(w) = value /\ <<Meta(w)>> \in Seq(Nat) /\ ValueBytes(w) \in Seq(Nat)
    BY <1>2, EncodedValueFacts
  <2>2. value \in Seq(Nat) /\ Len(value) = Len(<<Meta(w)>>) + Len(ValueBytes(w))
    BY <2>1, ConcatHolds
  <2>3. Len(<<Meta(w)>>) = 1 /\ Len(key) \in Nat /\ Len(ValueBytes(w)) \in Nat
    BY <2>1
  <2> HIDE DEF value
  <2>4. key \o value \in Seq(Nat) /\ Len(key \o value) = Len(key) + Len(value)
    BY <2>2, ConcatHolds
  <2>5. Len(key \o value) = Len(key) + 1 + Len(ValueBytes(w))
    BY <2>2, <2>3, <2>4
  <2> QED BY <2>1, <2>4, <2>5 DEF IsEntry, value
<1>3. /\ Len(c.initial) \in Nat /\ DOMAIN c.initial = 1..Len(c.initial)
      /\ \A i \in 1..Len(c.initial) : c.initial[i] \in Write
  BY BatchFacts, Elements
<1>4. /\ Len(c.repeated) \in Nat /\ DOMAIN c.repeated = 1..Len(c.repeated)
      /\ \A i \in 1..Len(c.repeated) : c.repeated[i] \in Write
  BY BatchFacts, Elements
<1>5. ASSUME NEW i \in 1..Len(c.initial)
      PROVE  IsEntry(EncodedInitial(c)[i], ToLE(WordLen, c.initial[i].key), c.initial[i])
  <2>1. c.initial[i] \in Write /\ Fits(c.initial[i].value, WordLen)
    BY <1>3, BatchFacts DEF WellFormed, ValueFits
  <2>2. ToLE(WordLen, c.initial[i].key) \in Seq(Nat)
    <3>1. c.initial[i].key \in Nat
      BY <2>1 DEF Write
    <3> QED BY <1>1, <3>1, ReverseToLE
  <2>3. EncodedInitial(c)[i] = ToLE(WordLen, c.initial[i].key) \o EncodedValue(c.initial[i])
    BY <1>3 DEF EncodedInitial
  <2> QED BY <1>2, <2>1, <2>2, <2>3
<1>6. ASSUME NEW i \in 1..Len(c.repeated)
      PROVE  IsEntry(EncodedRepeated(c)[i], ToBE(c.width, c.repeated[i].key), c.repeated[i])
  <2>1. c.repeated[i] \in Write /\ Fits(c.repeated[i].value, WordLen)
    BY <1>4, BatchFacts DEF WellFormed, ValueFits
  <2>2. ToBE(c.width, c.repeated[i].key) \in Seq(Nat)
    <3>1. c.repeated[i].key \in Nat
      BY <2>1 DEF Write
    <3> QED BY <1>1, <3>1, ToBEFacts
  <2>3. EncodedRepeated(c)[i] = ToBE(c.width, c.repeated[i].key) \o EncodedValue(c.repeated[i])
    BY <1>4 DEF EncodedRepeated
  <2> QED BY <1>2, <2>1, <2>2, <2>3
<1>7. EncodedInitial(c) \in Seq(Seq(Nat)) /\ Len(EncodedInitial(c)) = Len(c.initial)
  <2> DEFINE e == EncodedInitial(c)
             n == Len(c.initial)
  <2>1. DOMAIN e = 1..n /\ e = [i \in 1..n |-> e[i]]
    BY <1>3 DEF EncodedInitial
  <2>2. \A i \in 1..n : e[i] \in Seq(Nat)
    BY <1>5 DEF IsEntry
  <2> HIDE DEF e
  <2>3. e \in Seq(Seq(Nat))
    BY <1>3, <2>1, <2>2, SequenceOf
  <2>4. Len(e) = n
    BY <1>3, <2>1, <2>2, SequenceOf
  <2> QED BY <2>3, <2>4 DEF e
<1>8. EncodedRepeated(c) \in Seq(Seq(Nat)) /\ Len(EncodedRepeated(c)) = Len(c.repeated)
  <2> DEFINE e == EncodedRepeated(c)
             n == Len(c.repeated)
  <2>1. DOMAIN e = 1..n /\ e = [i \in 1..n |-> e[i]]
    BY <1>4 DEF EncodedRepeated
  <2>2. \A i \in 1..n : e[i] \in Seq(Nat)
    BY <1>6 DEF IsEntry
  <2> HIDE DEF e
  <2>3. e \in Seq(Seq(Nat))
    BY <1>4, <2>1, <2>2, SequenceOf
  <2>4. Len(e) = n
    BY <1>4, <2>1, <2>2, SequenceOf
  <2> QED BY <2>3, <2>4 DEF e
<1> QED BY <1>5, <1>6, <1>7, <1>8

\* Entry i of a section of writes stands at p, and the next one at q.
WriteHolds(t, p, key, w, q) ==
  /\ p \in Nat /\ q \in Nat /\ key \in Seq(Nat)
  /\ Holds(t, p, key) /\ Holds(t, p + Len(key), <<Meta(w)>>)
  /\ Holds(t, p + Len(key) + 1, ValueBytes(w))
  /\ q = p + Len(key) + 1 + Len(ValueBytes(w))

\* A byte string stands at p, after its length, and the next one at q.
FramedHolds(t, p, s, q) ==
  /\ p \in Nat /\ q \in Nat /\ s \in Seq(Nat) /\ Len(s) \in Nat
  /\ Holds(t, p, ToBE(4, Len(s))) /\ Holds(t, p + 4, s)
  /\ q = p + 4 + Len(s)

\* A byte string of a section is found at its offset.
LEMMA FramedAt ==
  ASSUME NEW t \in Seq(Nat), NEW ss \in Seq(Seq(Byte)), NEW p \in Nat,
         Holds(t, p, FlattenSeq(Framed(ss))), NEW i \in 1..Len(ss)
  PROVE  FramedHolds(t, p + Offset(Framed(ss), i - 1), ss[i], p + Offset(Framed(ss), i))
<1> DEFINE a    == Offset(Framed(ss), i - 1)
           b    == Offset(Framed(ss), i)
           size == ToBE(4, Len(ss[i]))
<1>1. /\ Framed(ss) \in Seq(Seq(Nat)) /\ Len(Framed(ss)) = Len(ss) /\ Len(ss) \in Nat
      /\ ss[i] \in Seq(Nat) /\ Len(ss[i]) \in Nat
      /\ size \in Seq(Nat) /\ Len(size) = 4 /\ Framed(ss)[i] = size \o ss[i]
      /\ b = a + 4 + Len(ss[i])
  BY FramedFacts
<1>2. i \in 1..Len(Framed(ss)) /\ i - 1 \in 0..Len(Framed(ss)) /\ i \in 0..Len(Framed(ss))
  BY <1>1
<1>3. a \in Nat /\ b \in Nat
  BY <1>1, <1>2, OffsetFacts
<1>4. Holds(t, p + a, size \o ss[i])
  BY <1>1, <1>2, HoldsFlatten
<1> HIDE DEF a, b, size
<1>5. p + a \in Nat /\ p + b \in Nat /\ p + b = (p + a) + 4 + Len(ss[i])
  <2> DEFINE n == Len(ss[i])
  <2>1. n \in Nat /\ b = a + 4 + n
    BY <1>1
  <2> HIDE DEF n
  <2>2. p + a \in Nat /\ p + b \in Nat /\ p + b = (p + a) + 4 + n
    BY <1>3, <2>1
  <2> QED BY <2>2 DEF n
<1>6. Holds(t, p + a, size) /\ Holds(t, (p + a) + 4, ss[i])
  <2>1. Holds(t, p + a, size) /\ Holds(t, (p + a) + Len(size), ss[i])
    BY <1>1, <1>4, <1>5, HoldsConcat
  <2> QED BY <1>1, <2>1
<1>7. FramedHolds(t, p + a, ss[i], p + b)
  BY <1>1, <1>5, <1>6 DEF FramedHolds, size
<1> QED BY <1>7 DEF a, b

\* So is a write.
LEMMA WriteAt ==
  ASSUME NEW t \in Seq(Nat), NEW es \in Seq(Seq(Nat)), NEW p \in Nat,
         Holds(t, p, FlattenSeq(es)), NEW i \in 1..Len(es),
         NEW key, NEW w \in Write, Fits(w.value, WordLen), IsEntry(es[i], key, w)
  PROVE  WriteHolds(t, p + Offset(es, i - 1), key, w, p + Offset(es, i))
<1> DEFINE a     == Offset(es, i - 1)
           b     == Offset(es, i)
           meta  == <<Meta(w)>>
           value == ValueBytes(w)
<1>1. meta \in Seq(Nat) /\ Len(meta) = 1 /\ value \in Seq(Nat)
  BY EncodedValueFacts
<1>2. /\ key \in Seq(Nat) /\ es[i] = key \o (meta \o value)
      /\ Len(es[i]) = Len(key) + 1 + Len(value)
  BY DEF IsEntry
<1>3. Len(key) \in Nat /\ Len(value) \in Nat /\ meta \o value \in Seq(Nat)
  BY <1>1, <1>2
<1>4. i - 1 \in 0..Len(es) /\ i \in 0..Len(es)
  OBVIOUS
<1>5. a \in Nat /\ b \in Nat /\ b = a + Len(es[i])
  BY <1>4, OffsetFacts
<1>6. Holds(t, p + a, key \o (meta \o value))
  BY <1>2, HoldsFlatten
<1> HIDE DEF a, b, meta, value
<1>7. p + a \in Nat /\ p + b \in Nat /\ p + b = (p + a) + Len(key) + 1 + Len(value)
      /\ (p + a) + Len(key) \in Nat
  <2>1. Len(es[i]) = Len(key) + 1 + Len(value)
    BY <1>2
  <2>2. a \in Nat /\ b \in Nat /\ b = a + (Len(key) + 1 + Len(value))
    BY <1>5, <2>1
  <2>3. p \in Nat /\ Len(key) \in Nat /\ Len(value) \in Nat
    BY <1>3
  <2> QED BY <2>2, <2>3
<1>8. Holds(t, p + a, key) /\ Holds(t, (p + a) + Len(key), meta \o value)
  BY <1>2, <1>3, <1>6, <1>7, HoldsConcat
<1>9. Holds(t, (p + a) + Len(key), meta) /\ Holds(t, ((p + a) + Len(key)) + 1, value)
  <2>1. /\ Holds(t, (p + a) + Len(key), meta)
        /\ Holds(t, ((p + a) + Len(key)) + Len(meta), value)
    BY <1>1, <1>7, <1>8, HoldsConcat
  <2> QED BY <1>1, <2>1
<1>10. WriteHolds(t, p + a, key, w, p + b)
  BY <1>2, <1>7, <1>8, <1>9 DEF WriteHolds, meta, value
<1> QED BY <1>10 DEF a, b

\* The layout of the pubdata t of batch c.
Layout(t, c) ==
  /\ t \in Seq(Nat)
  /\ Holds(t, 0, ToBE(4, c.logs))
  /\ MessagesPos(c) \in Nat /\ MessagesPos(c) >= 4
  /\ Holds(t, MessagesPos(c), ToBE(4, Len(c.messages)))
  /\ MessagePos(c, 0) = MessagesPos(c) + 4
  /\ \A i \in 1..Len(c.messages) :
       FramedHolds(t, MessagePos(c, i - 1), c.messages[i], MessagePos(c, i))
  /\ BytecodesPos(c) \in Nat
  /\ Holds(t, BytecodesPos(c), ToBE(4, Len(c.codes)))
  /\ BytecodePos(c, 0) = BytecodesPos(c) + 4
  /\ \A i \in 1..Len(c.codes) :
       FramedHolds(t, BytecodePos(c, i - 1), c.codes[i], BytecodePos(c, i))
  /\ VersionPos(c) \in Nat
  /\ Holds(t, VersionPos(c), <<c.version>>)
  /\ Holds(t, VersionPos(c) + 4, <<c.width>>)
  /\ Holds(t, VersionPos(c) + 5, ToBE(2, Len(c.initial)))
  /\ InitialPos(c, 0) = VersionPos(c) + 7
  /\ \A i \in 1..Len(c.initial) :
       WriteHolds(t, InitialPos(c, i - 1), ToLE(WordLen, c.initial[i].key),
                  c.initial[i], InitialPos(c, i))
  /\ RepeatedPos(c, 0) = InitialPos(c, Len(c.initial))
  /\ \A i \in 1..Len(c.repeated) :
       WriteHolds(t, RepeatedPos(c, i - 1), ToBE(c.width, c.repeated[i].key),
                  c.repeated[i], RepeatedPos(c, i))
  /\ Len(t) = RepeatedPos(c, Len(c.repeated))

\* The pubdata of a batch has this layout.
LEMMA PubdataLayout ==
  ASSUME NEW c \in Committed
  PROVE  Layout(Pubdata(c), c)
<1> DEFINE messages == FlattenSeq(Framed(c.messages))
           codes    == FlattenSeq(Framed(c.codes))
           initial  == FlattenSeq(EncodedInitial(c))
           repeated == FlattenSeq(EncodedRepeated(c))
           diffs    == EncodedDiffs(c)
           s1 == ToBE(4, c.logs) \o Filled(c.logs * LogSize, 7)
           s2 == s1 \o ToBE(4, Len(c.messages))
           s3 == s2 \o messages
           s4 == s3 \o ToBE(4, Len(c.codes))
           s5 == s4 \o codes
           s6 == s5 \o <<c.version>>
           s7 == s6 \o ToBE(3, Len(diffs))
           s8 == s7 \o <<c.width>>
           d1 == ToBE(2, Len(c.initial))
           d2 == d1 \o initial
           t  == Pubdata(c)
<1>1. t = s8 \o diffs
  BY DEF Pubdata, Framed
<1>2. diffs = d2 \o repeated
  BY DEF EncodedDiffs, EncodedInitial, EncodedRepeated
<1>3. /\ c.logs \in Nat /\ c.version \in Nat /\ c.width \in Nat
      /\ Len(c.messages) \in Nat /\ Len(c.codes) \in Nat
      /\ Len(c.initial) \in Nat /\ Len(c.repeated) \in Nat
  <2>1. c.version \in 1..255 /\ c.width \in 1..255 /\ c.logs \in Nat
    BY BatchFacts
  <2>2. \A S : \A u \in Seq(S) : Len(u) \in Nat
    BY Elements, Zenon
  <2>3. /\ c.messages \in Seq(Seq(Byte)) /\ c.codes \in Seq(Seq(Byte))
        /\ c.initial \in Seq(Write) /\ c.repeated \in Seq(Write)
    BY BatchFacts, Zenon
  <2>4. /\ Len(c.messages) \in Nat /\ Len(c.codes) \in Nat
        /\ Len(c.initial) \in Nat /\ Len(c.repeated) \in Nat
    BY <2>2, <2>3, Zenon
  <2>5. c.version \in Nat /\ c.width \in Nat
    BY <2>1
  <2> QED BY <2>1, <2>4, <2>5, Zenon
<1>4. c.logs * LogSize \in Nat
  <2>1. LogSize \in Nat
    BY FormatAssumption
  <2> QED BY <1>3, <2>1
<1>5. Filled(c.logs * LogSize, 7) \in Seq(Nat) /\ Len(Filled(c.logs * LogSize, 7)) = c.logs * LogSize
  <2> DEFINE n == c.logs * LogSize
             s == Filled(n, 7)
  <2>1. s = [i \in 1..n |-> s[i]] /\ \A i \in 1..n : s[i] \in Nat
    BY DEF Filled
  <2> HIDE DEF s, n
  <2>2. n \in Nat
    BY <1>4 DEF n
  <2>3. s \in Seq(Nat) /\ Len(s) = n
    BY <2>1, <2>2, SequenceOf
  <2> QED BY <2>3 DEF s, n
<1>6. messages \in Seq(Nat) /\ Len(messages) = Offset(Framed(c.messages), Len(c.messages))
  BY BatchFacts, FramedFacts, FlattenFacts
<1>7. codes \in Seq(Nat) /\ Len(codes) = Offset(Framed(c.codes), Len(c.codes))
  BY BatchFacts, FramedFacts, FlattenFacts
<1>8. initial \in Seq(Nat) /\ Len(initial) = Offset(EncodedInitial(c), Len(c.initial))
  BY EntryFacts, FlattenFacts
<1>9. repeated \in Seq(Nat) /\ Len(repeated) = Offset(EncodedRepeated(c), Len(c.repeated))
  BY EntryFacts, FlattenFacts
<1>10. <<c.version>> \in Seq(Nat) /\ <<c.width>> \in Seq(Nat) /\ Len(<<c.version>>) = 1 /\ Len(<<c.width>>) = 1
  BY <1>3
<1>11. /\ ToBE(4, c.logs) \in Seq(Nat) /\ Len(ToBE(4, c.logs)) = 4
       /\ ToBE(4, Len(c.messages)) \in Seq(Nat) /\ Len(ToBE(4, Len(c.messages))) = 4
       /\ ToBE(4, Len(c.codes)) \in Seq(Nat) /\ Len(ToBE(4, Len(c.codes))) = 4
       /\ ToBE(2, Len(c.initial)) \in Seq(Nat) /\ Len(ToBE(2, Len(c.initial))) = 2
  <2>1. 4 \in Nat /\ 2 \in Nat
    OBVIOUS
  <2>2. \A n, v \in Nat : ToBE(n, v) \in Seq(Nat) /\ Len(ToBE(n, v)) = n
    BY ToBEFacts, Zenon
  <2> QED BY <1>3, <2>1, <2>2, Zenon
<1>12. s1 \in Seq(Nat) /\ Len(s1) = MessagesPos(c)
  <2> DEFINE u == ToBE(4, c.logs)
             v == Filled(c.logs * LogSize, 7)
  <2>1. u \in Seq(Nat) /\ v \in Seq(Nat) /\ Len(u) = 4 /\ Len(v) = c.logs * LogSize
    BY <1>5, <1>11
  <2>2. s1 = u \o v
    OBVIOUS
  <2> HIDE DEF u, v, s1
  <2>3. s1 \in Seq(Nat) /\ Len(s1) = Len(u) + Len(v)
    BY <2>1, <2>2, ConcatHolds
  <2> QED BY <2>1, <2>3 DEF MessagesPos
<1> HIDE DEF s1, messages, codes, initial, repeated
<1>13. s2 \in Seq(Nat) /\ Len(s2) = MessagesPos(c) + 4
  BY <1>3, <1>11, <1>12, ConcatHolds
<1> HIDE DEF s2
<1>14. s3 \in Seq(Nat) /\ Len(s3) = BytecodesPos(c)
  <2>1. s3 \in Seq(Nat) /\ Len(s3) = Len(s2) + Len(messages)
    BY <1>6, <1>13, ConcatHolds
  <2> QED BY <1>6, <1>13, <2>1 DEF BytecodesPos, MessagePos
<1> HIDE DEF s3
<1>15. s4 \in Seq(Nat) /\ Len(s4) = BytecodesPos(c) + 4
  BY <1>3, <1>11, <1>14, ConcatHolds
<1> HIDE DEF s4
<1>16. s5 \in Seq(Nat) /\ Len(s5) = VersionPos(c)
  <2>1. s5 \in Seq(Nat) /\ Len(s5) = Len(s4) + Len(codes)
    BY <1>7, <1>15, ConcatHolds
  <2> QED BY <1>7, <1>15, <2>1 DEF VersionPos, BytecodePos
<1> HIDE DEF s5
<1>17. s6 \in Seq(Nat) /\ Len(s6) = VersionPos(c) + 1
  BY <1>10, <1>16, ConcatHolds
<1>18. d1 \in Seq(Nat) /\ Len(d1) = 2
  BY <1>3, <1>11
<1> HIDE DEF s6, d1
<1>19. d2 \in Seq(Nat) /\ Len(d2) = 2 + Len(initial)
  BY <1>8, <1>18, ConcatHolds
<1> HIDE DEF d2
<1>20. diffs \in Seq(Nat) /\ Len(diffs) = 2 + Len(initial) + Len(repeated)
  BY <1>2, <1>9, <1>19, ConcatHolds
<1> HIDE DEF diffs
<1>21. s7 \in Seq(Nat) /\ Len(s7) = VersionPos(c) + 4
  <2>1. Len(diffs) \in Nat
    BY <1>20
  <2>2. ToBE(3, Len(diffs)) \in Seq(Nat) /\ Len(ToBE(3, Len(diffs))) = 3
    BY <2>1, ToBEFacts
  <2>3. s7 \in Seq(Nat) /\ Len(s7) = Len(s6) + 3
    BY <1>17, <2>2, ConcatHolds
  <2>4. Len(s5) \in Nat
    BY <1>16
  <2> QED BY <1>16, <1>17, <2>3, <2>4
<1> HIDE DEF s7
<1>22. s8 \in Seq(Nat) /\ Len(s8) = VersionPos(c) + 5
  <2>1. s8 \in Seq(Nat) /\ Len(s8) = Len(s7) + 1 /\ Len(s5) \in Nat
    BY <1>10, <1>16, <1>21, ConcatHolds
  <2> QED BY <1>16, <1>21, <2>1
<1> HIDE DEF s8
<1>23. t \in Seq(Nat) /\ Len(t) = Len(s8) + Len(diffs)
  BY <1>1, <1>20, <1>22, ConcatHolds
<1> HIDE DEF t
<1>24. Holds(t, 0, s8) /\ Holds(t, Len(s8), diffs)
  BY <1>1, <1>20, <1>22, ConcatHolds DEF t
<1>25. Holds(t, 0, s7) /\ Holds(t, VersionPos(c) + 4, <<c.width>>)
  <2>1. Holds(t, 0, s7) /\ Holds(t, 0 + Len(s7), <<c.width>>)
    BY <1>10, <1>21, <1>23, <1>24, HoldsConcat DEF s8
  <2> QED BY <1>21, <2>1
<1>26. Holds(t, 0, s6)
  <2>1. Len(diffs) \in Nat
    BY <1>20
  <2>2. ToBE(3, Len(diffs)) \in Seq(Nat)
    BY <2>1, ToBEFacts
  <2> QED BY <1>17, <1>23, <1>25, <2>2, HoldsConcat DEF s7
<1>27. Holds(t, 0, s5) /\ Holds(t, VersionPos(c), <<c.version>>)
  <2>1. Holds(t, 0, s5) /\ Holds(t, 0 + Len(s5), <<c.version>>)
    BY <1>10, <1>16, <1>23, <1>26, HoldsConcat DEF s6
  <2>2. 0 + Len(s5) = VersionPos(c)
    BY <1>16
  <2> QED BY <2>1, <2>2
<1>28. Holds(t, 0, s4) /\ Holds(t, BytecodesPos(c) + 4, codes)
  <2>1. Holds(t, 0, s4) /\ Holds(t, 0 + Len(s4), codes)
    BY <1>7, <1>15, <1>23, <1>27, HoldsConcat DEF s5
  <2>2. 0 + Len(s4) = BytecodesPos(c) + 4
    BY <1>15
  <2> QED BY <2>1, <2>2
<1>29. Holds(t, 0, s3) /\ Holds(t, BytecodesPos(c), ToBE(4, Len(c.codes)))
  <2>1. Holds(t, 0, s3) /\ Holds(t, 0 + Len(s3), ToBE(4, Len(c.codes)))
    BY <1>11, <1>14, <1>23, <1>28, HoldsConcat DEF s4
  <2>2. 0 + Len(s3) = BytecodesPos(c)
    BY <1>14
  <2> QED BY <2>1, <2>2
<1>30. Holds(t, 0, s2) /\ Holds(t, MessagesPos(c) + 4, messages)
  <2>1. Holds(t, 0, s2) /\ Holds(t, 0 + Len(s2), messages)
    BY <1>6, <1>13, <1>23, <1>29, HoldsConcat DEF s3
  <2>2. 0 + Len(s2) = MessagesPos(c) + 4
    BY <1>13
  <2> QED BY <2>1, <2>2
<1>31. Holds(t, 0, s1) /\ Holds(t, MessagesPos(c), ToBE(4, Len(c.messages)))
  <2>1. Holds(t, 0, s1) /\ Holds(t, 0 + Len(s1), ToBE(4, Len(c.messages)))
    BY <1>11, <1>12, <1>23, <1>30, HoldsConcat DEF s2
  <2>2. 0 + Len(s1) = MessagesPos(c)
    BY <1>12
  <2> QED BY <2>1, <2>2
<1>32. Holds(t, 0, ToBE(4, c.logs))
  BY <1>5, <1>11, <1>23, <1>31, HoldsConcat DEF s1
<1>33. MessagesPos(c) \in Nat /\ MessagesPos(c) >= 4
  BY <1>4 DEF MessagesPos
<1>34. BytecodesPos(c) \in Nat /\ VersionPos(c) \in Nat
  BY <1>14, <1>16
<1>35. Holds(t, VersionPos(c) + 5, d2) /\ Holds(t, (VersionPos(c) + 5) + Len(d2), repeated)
  <2>1. Holds(t, VersionPos(c) + 5, diffs) /\ VersionPos(c) + 5 \in Nat
    BY <1>22, <1>24, <1>34
  <2> QED BY <1>2, <1>9, <1>19, <1>23, <2>1, HoldsConcat
<1>36. Holds(t, VersionPos(c) + 5, d1) /\ Holds(t, VersionPos(c) + 7, initial)
  <2>1. VersionPos(c) + 5 \in Nat /\ (VersionPos(c) + 5) + 2 = VersionPos(c) + 7
    BY <1>34
  <2>2. Holds(t, VersionPos(c) + 5, d1) /\ Holds(t, (VersionPos(c) + 5) + Len(d1), initial)
    BY <1>8, <1>18, <1>23, <1>35, <2>1, HoldsConcat DEF d2
  <2> QED BY <1>18, <2>1, <2>2
<1>37. /\ MessagePos(c, 0) = MessagesPos(c) + 4 /\ BytecodePos(c, 0) = BytecodesPos(c) + 4
       /\ InitialPos(c, 0) = VersionPos(c) + 7
       /\ RepeatedPos(c, 0) = InitialPos(c, Len(c.initial))
  <2>1. /\ Offset(Framed(c.messages), 0) = 0 /\ Offset(Framed(c.codes), 0) = 0
        /\ Offset(EncodedInitial(c), 0) = 0 /\ Offset(EncodedRepeated(c), 0) = 0
    BY BatchFacts, FramedFacts, EntryFacts, OffsetFacts
  <2>2. InitialPos(c, Len(c.initial)) \in Nat
    BY <1>8, <1>34 DEF InitialPos
  <2> QED BY <1>33, <1>34, <2>1, <2>2 DEF MessagePos, BytecodePos, InitialPos, RepeatedPos
<1>38. ASSUME NEW i \in 1..Len(c.messages)
       PROVE  FramedHolds(t, MessagePos(c, i - 1), c.messages[i], MessagePos(c, i))
  <2>1. MessagesPos(c) + 4 \in Nat
    BY <1>33
  <2> QED BY <1>23, <1>30, <2>1, BatchFacts, FramedAt DEF MessagePos, messages
<1>39. ASSUME NEW i \in 1..Len(c.codes)
       PROVE  FramedHolds(t, BytecodePos(c, i - 1), c.codes[i], BytecodePos(c, i))
  <2>1. BytecodesPos(c) + 4 \in Nat
    BY <1>34
  <2> QED BY <1>23, <1>28, <2>1, BatchFacts, FramedAt DEF BytecodePos, codes
<1>40. ASSUME NEW i \in 1..Len(c.initial)
       PROVE  WriteHolds(t, InitialPos(c, i - 1), ToLE(WordLen, c.initial[i].key),
                         c.initial[i], InitialPos(c, i))
  <2>1. VersionPos(c) + 7 \in Nat
    BY <1>34
  <2>2. c.initial[i] \in Write /\ Fits(c.initial[i].value, WordLen)
    BY BatchFacts, Elements DEF WellFormed, ValueFits
  <2>3. /\ EncodedInitial(c) \in Seq(Seq(Nat)) /\ i \in 1..Len(EncodedInitial(c))
        /\ IsEntry(EncodedInitial(c)[i], ToLE(WordLen, c.initial[i].key), c.initial[i])
    BY EntryFacts
  <2> QED BY <1>23, <1>36, <2>1, <2>2, <2>3, WriteAt DEF InitialPos, initial
<1>41. ASSUME NEW i \in 1..Len(c.repeated)
       PROVE  WriteHolds(t, RepeatedPos(c, i - 1), ToBE(c.width, c.repeated[i].key),
                         c.repeated[i], RepeatedPos(c, i))
  <2>1. InitialPos(c, Len(c.initial)) \in Nat
        /\ (VersionPos(c) + 5) + Len(d2) = InitialPos(c, Len(c.initial))
    <3>1. Len(initial) \in Nat
      BY <1>8
    <3>2. InitialPos(c, Len(c.initial)) = VersionPos(c) + 7 + Len(initial)
      BY <1>8 DEF InitialPos
    <3>3. Len(d2) = 2 + Len(initial)
      BY <1>19
    <3>4. \A v, k \in Nat : v + 7 + k \in Nat /\ (v + 5) + (2 + k) = v + 7 + k
      OBVIOUS
    <3>5. VersionPos(c) \in Nat
      BY <1>34
    <3> QED BY <3>1, <3>2, <3>3, <3>4, <3>5, Zenon
  <2>2. c.repeated[i] \in Write /\ Fits(c.repeated[i].value, WordLen)
    BY BatchFacts, Elements DEF WellFormed, ValueFits
  <2>3. /\ EncodedRepeated(c) \in Seq(Seq(Nat)) /\ i \in 1..Len(EncodedRepeated(c))
        /\ IsEntry(EncodedRepeated(c)[i], ToBE(c.width, c.repeated[i].key), c.repeated[i])
    BY EntryFacts
  <2>4. Holds(t, InitialPos(c, Len(c.initial)), repeated)
    BY <1>35, <2>1
  <2> QED BY <1>23, <2>1, <2>2, <2>3, <2>4, WriteAt DEF RepeatedPos, repeated
<1>42. Len(t) = RepeatedPos(c, Len(c.repeated))
  <2>1. Len(t) = (VersionPos(c) + 5) + (2 + Len(initial) + Len(repeated))
    BY <1>20, <1>22, <1>23
  <2>2. Len(initial) \in Nat /\ Len(repeated) \in Nat /\ VersionPos(c) \in Nat
    BY <1>8, <1>9, <1>34
  <2>3. RepeatedPos(c, Len(c.repeated)) = ((VersionPos(c) + 7) + Len(initial)) + Len(repeated)
    BY <1>8, <1>9 DEF RepeatedPos, InitialPos
  <2> QED BY <2>1, <2>2, <2>3
<1>43. Layout(t, c)
  BY <1>23, <1>25, <1>27, <1>29, <1>31, <1>32, <1>33, <1>34, <1>36, <1>37, <1>38, <1>39,
     <1>40, <1>41, <1>42 DEF Layout, d1
<1> QED BY <1>43 DEF t

-----------------------------------------------------------------------------
(***************************************************************************)
(* What the parser has of the pubdata: all of it, or all but the zeros at  *)
(* its end.                                                                *)
(***************************************************************************)
Trimmed(s, t) ==
  /\ s \in Seq(Nat) /\ t \in Seq(Nat) /\ Len(s) <= Len(t)
  /\ \A i \in 1..Len(s) : s[i] = t[i]
  /\ \A i \in 1..Len(t) : i > Len(s) => t[i] = 0
  /\ Len(s) = Len(t) \/ Len(s) = 0 \/ t[Len(s)] # 0

\* A set of numbers with a bound has a maximum.
LEMMA MaxFacts ==
  ASSUME NEW n \in Nat, NEW S \in SUBSET (0..n), 0 \in S
  PROVE  Max(S) \in S /\ \A y \in S : Max(S) >= y
<1> DEFINE Good == {i \in 0..n : \E x \in S : \A y \in S : y <= i => x >= y}
<1>1. 0 \in Good
  <2>1. \A y \in S : y <= 0 => 0 >= y
    OBVIOUS
  <2> QED BY <2>1
<1>2. ASSUME NEW i \in 0..(n - 1), i \in Good PROVE i + 1 \in Good
  <2>1. PICK x \in S : \A y \in S : y <= i => x >= y
    BY <1>2
  <2>2. CASE i + 1 \in S
    <3>1. \A y \in S : y <= i + 1 => i + 1 >= y
      OBVIOUS
    <3> QED BY <2>2, <3>1
  <2>3. CASE i + 1 \notin S
    <3>1. \A y \in S : y <= i + 1 => y <= i
      BY <2>3
    <3> QED BY <2>1, <3>1
  <2> QED BY <2>2, <2>3
<1>3. n \in Good
  <2> HIDE DEF Good
  <2>1. 0..n \subseteq Good
    BY <1>1, <1>2, BoundedInduction
  <2> QED BY <2>1
<1>4. \E x \in S : \A y \in S : x >= y
  BY <1>3
<1> QED BY <1>4 DEF Max

\* Cutting off zeros, those that were added among them.
LEMMA WithoutZerosFacts ==
  ASSUME NEW t \in Seq(Nat), NEW k \in Nat
  PROVE  Trimmed(WithoutZeros(t \o Filled(k, 0)), t)
<1> DEFINE zeros == Filled(k, 0)
           s     == t \o zeros
           m     == Len(t)
           S     == {0} \cup {i \in DOMAIN s : s[i] # 0}
           l     == Max(S)
           r     == SubSeq(s, 1, l)
<1>1. zeros \in Seq(Nat) /\ Len(zeros) = k /\ \A i \in 1..k : zeros[i] = 0
  <2>1. zeros = [i \in 1..k |-> zeros[i]] /\ \A i \in 1..k : zeros[i] = 0
    BY DEF Filled
  <2> HIDE DEF zeros
  <2>2. \A i \in 1..k : zeros[i] \in Nat
    BY <2>1
  <2> QED BY <2>1, <2>2, SequenceOf
<1> HIDE DEF zeros
<1>2. /\ s \in Seq(Nat) /\ Len(s) = m + k /\ DOMAIN s = 1..(m + k) /\ m \in Nat
      /\ \A i \in 1..m : s[i] = t[i]
      /\ \A i \in 1..(m + k) : i > m => s[i] = 0
  <2>1. s \in Seq(Nat) /\ Len(s) = m + k /\ DOMAIN s = 1..(m + k) /\ m \in Nat
    BY <1>1
  <2>2. \A i \in 1..m : s[i] = t[i]
    BY <1>1
  <2>3. ASSUME NEW i \in 1..(m + k), i > m PROVE s[i] = 0
    <3>1. i - m \in 1..k /\ s[i] = zeros[i - m]
      BY <1>1, <2>1, <2>3
    <3> QED BY <1>1, <3>1
  <2> QED BY <2>1, <2>2, <2>3
<1>3. WithoutZeros(s) = r
  BY DEF WithoutZeros
<1> HIDE DEF s
<1>4. \A i \in S : i \in 0..m
  <2>1. \A i \in S : i = 0 \/ (i \in 1..(m + k) /\ s[i] # 0)
    BY <1>2
  <2> QED BY <1>2, <2>1
<1>5. l \in S /\ \A y \in S : l >= y
  <2>1. S \in SUBSET (0..m) /\ 0 \in S
    BY <1>4
  <2> HIDE DEF S
  <2> QED BY <1>2, <2>1, MaxFacts
<1>6. l \in 0..m /\ (l = 0 \/ s[l] # 0) /\ \A i \in 1..m : i > l => s[i] = 0
  <2>1. l \in 0..m /\ (l = 0 \/ s[l] # 0)
    BY <1>4, <1>5
  <2>2. ASSUME NEW i \in 1..m, i > l PROVE s[i] = 0
    <3>1. i \in DOMAIN s /\ (s[i] # 0 => i \in S)
      BY <1>2
    <3> HIDE DEF l, S
    <3>2. i \notin S
      BY <1>5, <2>1, <2>2
    <3> QED BY <3>1, <3>2
  <2> QED BY <2>1, <2>2
<1> HIDE DEF l, S
<1>7. r \in Seq(Nat) /\ Len(r) = l /\ \A i \in 1..l : r[i] = s[i]
  BY <1>2, <1>6
<1> HIDE DEF r
<1>8. Trimmed(r, t)
  <2>1. ASSUME NEW i \in 1..Len(r) PROVE r[i] = t[i]
    <3>1. i \in 1..l /\ i \in 1..m
      BY <1>2, <1>6, <1>7
    <3> QED BY <1>2, <1>7, <3>1
  <2>2. \A i \in 1..Len(t) : i > Len(r) => t[i] = 0
    BY <1>2, <1>6, <1>7
  <2>3. Len(r) = 0 \/ t[Len(r)] # 0
    BY <1>2, <1>6, <1>7
  <2> QED BY <1>6, <1>7, <2>1, <2>2, <2>3 DEF Trimmed
<1> QED BY <1>3, <1>8 DEF s, zeros

\* The blobs of a batch hold its pubdata and zeros.
LEMMA BlobsFacts ==
  ASSUME NEW t \in Seq(Nat)
  PROVE  \E k \in Nat : FlattenSeq(Blobs(t)) = t \o Filled(k, 0)
<1> DEFINE N == NumBlobs(t)
           k == N * BlobSize - Len(t)
           s == t \o Filled(k, 0)
           blobs == Blobs(t)
<1>1. BlobSize \in Nat /\ BlobSize # 0 /\ Len(t) \in Nat
  BY FormatAssumption
<1>2. N \in Nat /\ N * BlobSize >= Len(t)
  <2> DEFINE a == Len(t) + BlobSize - 1
  <2>1. a \in Nat /\ N = a \div BlobSize
    BY <1>1 DEF NumBlobs
  <2> HIDE DEF a
  <2>2. /\ a \div BlobSize \in Nat /\ a % BlobSize < BlobSize
        /\ a = BlobSize * (a \div BlobSize) + (a % BlobSize) /\ a % BlobSize \in Nat
    BY <1>1, <2>1
  <2>3. BlobSize * (a \div BlobSize) > a - BlobSize
    BY <1>1, <2>1, <2>2
  <2> QED BY <1>1, <2>1, <2>2, <2>3 DEF a
<1> HIDE DEF N
<1>3. k \in Nat /\ Len(t) + k = N * BlobSize /\ \A i \in 0..N : i * BlobSize \in Nat
  BY <1>1, <1>2
<1>4. s \in Seq(Nat) /\ Len(s) = N * BlobSize
  <2> DEFINE zeros == Filled(k, 0)
  <2> HIDE DEF k
  <2>1. zeros = [i \in 1..k |-> zeros[i]] /\ \A i \in 1..k : zeros[i] \in Nat
    BY DEF Filled
  <2> HIDE DEF zeros
  <2>2. zeros \in Seq(Nat) /\ Len(zeros) = k
    BY <1>3, <2>1, SequenceOf
  <2>3. t \o zeros \in Seq(Nat) /\ Len(t \o zeros) = Len(t) + k
    BY <2>2, ConcatHolds
  <2> QED BY <1>3, <2>3 DEF zeros
<1>5. blobs = [i \in 1..N |-> SubSeq(s, (i - 1) * BlobSize + 1, i * BlobSize)]
  BY DEF Blobs, N
<1> HIDE DEF s, blobs
<1>6. \A i \in 0..(N - 1) : /\ i * BlobSize \in Nat /\ (i + 1) * BlobSize = i * BlobSize + BlobSize
                            /\ (i + 1) * BlobSize <= N * BlobSize
  BY <1>1, <1>2
<1>7. blobs \in Seq(Seq(Nat)) /\ Len(blobs) = N
  <2>1. ASSUME NEW i \in 1..N PROVE blobs[i] \in Seq(Nat)
    <3>1. i - 1 \in 0..(N - 1) /\ (i - 1) + 1 = i
      BY <1>2
    <3> DEFINE a == (i - 1) * BlobSize + 1
               b == i * BlobSize
    <3>2. /\ (i - 1) * BlobSize \in Nat
          /\ ((i - 1) + 1) * BlobSize = (i - 1) * BlobSize + BlobSize
          /\ ((i - 1) + 1) * BlobSize <= N * BlobSize
      BY <1>6, <3>1
    <3>3. blobs[i] = SubSeq(s, a, b)
      BY <1>5
    <3> DEFINE x == (i - 1) * BlobSize
               z == N * BlobSize
    <3>4. a = x + 1 /\ x \in Nat /\ b = x + BlobSize /\ b <= z /\ z \in Nat
      BY <1>3, <3>1, <3>2
    <3> HIDE DEF a, b, x
    <3>5. Len(s) = z
      BY <1>4
    <3> HIDE DEF z
    <3>6. a \in 1..(z + 1) /\ b \in 0..z
      BY <1>1, <3>4
    <3>7. a \in 1..(Len(s) + 1) /\ b \in 0..Len(s) /\ s \in Seq(Nat)
      BY <1>4, <3>5, <3>6
    <3>8. SubSeq(s, a, b) \in Seq(Nat)
      BY <3>7, SubSeqProperties
    <3> QED BY <3>3, <3>8
  <2>2. blobs = [i \in 1..N |-> blobs[i]]
    BY <1>5
  <2> QED BY <1>2, <2>1, <2>2, SequenceOf
<1>8. PICK f : Joins(f, blobs) /\ FlattenSeq(blobs) = f[N]
  BY <1>7, FlattenUnfold
<1>9. f[0] = <<>> /\ \A i \in 1..N : f[i] = f[i - 1] \o blobs[i]
  BY <1>7, <1>8 DEF Joins
<1> DEFINE Good == {i \in 0..N : f[i] = SubSeq(s, 1, i * BlobSize)}
<1>10. 0 \in Good
  <2>1. 0 * BlobSize = 0
    BY <1>1
  <2>2. SubSeq(s, 1, 0) = <<>>
    BY <1>4
  <2>3. 0 \in 0..N
    BY <1>2
  <2> QED BY <1>9, <2>1, <2>2, <2>3
<1>11. ASSUME NEW i \in 0..(N - 1), i \in Good PROVE i + 1 \in Good
  <2>1. i + 1 \in 1..N /\ i + 1 \in 0..N /\ (i + 1) - 1 = i
    BY <1>2
  <2> DEFINE a == i * BlobSize
             b == (i + 1) * BlobSize
  <2>2. a \in Nat /\ b \in Nat /\ a <= b /\ b <= Len(s)
    BY <1>1, <1>4, <1>6
  <2>3. f[i] = SubSeq(s, 1, a) /\ blobs[i + 1] = SubSeq(s, a + 1, b)
    BY <1>5, <1>11, <2>1
  <2> HIDE DEF a, b
  <2>4. SubSeq(s, 1, a) \o SubSeq(s, a + 1, b) = SubSeq(s, 1, b)
    <3>1. 1 \in 1..(Len(s) + 1) /\ a \in (1 - 1)..Len(s) /\ b \in a..Len(s)
      BY <1>4, <2>2
    <3> QED BY <1>4, <3>1, ConcatAdjacentSubSeq
  <2>5. f[i + 1] = SubSeq(s, 1, b)
    BY <1>9, <2>1, <2>3, <2>4
  <2> QED BY <2>1, <2>5 DEF b
<1>12. f[N] = SubSeq(s, 1, N * BlobSize)
  <2> HIDE DEF Good
  <2>1. 0..N \subseteq Good
    BY <1>2, <1>10, <1>11, BoundedInduction
  <2>2. N \in Good
    BY <1>2, <2>1
  <2> QED BY <2>2 DEF Good
<1>13. SubSeq(s, 1, N * BlobSize) = s
  BY <1>4
<1>14. FlattenSeq(blobs) = t \o Filled(k, 0)
  BY <1>8, <1>12, <1>13 DEF s
<1> HIDE DEF k
<1> QED BY <1>3, <1>14 DEF blobs

\* What the parser starts from.
LEMMA ResolvedFacts ==
  ASSUME batch \in Committed, format \in {"V2", "V3calldata", "V3blob"}
  PROVE  /\ Trimmed(Resolved, Pubdata(batch))
         /\ format # "V3blob" => Len(Resolved) = Len(Pubdata(batch))
<1> DEFINE t == Pubdata(batch)
<1>1. t \in Seq(Nat)
  BY PubdataLayout DEF Layout
<1>2. Trimmed(t, t)
  BY <1>1 DEF Trimmed
<1>3. CASE format = "V2"
  BY <1>2, <1>3 DEF Resolved
<1>4. CASE format = "V3calldata"
  <2> DEFINE tail == Filled(TailSize, 9)
  <2>1. TailSize \in Nat
    BY FormatAssumption
  <2>2. tail \in Seq(Nat) /\ Len(tail) = TailSize
    <3>1. tail = [i \in 1..TailSize |-> tail[i]] /\ \A i \in 1..TailSize : tail[i] \in Nat
      BY DEF Filled
    <3> HIDE DEF tail
    <3> QED BY <2>1, <3>1, SequenceOf
  <2>3. Resolved = SubSeq(t \o tail, 1, Len(t \o tail) - TailSize)
    BY <1>4 DEF Resolved
  <2> HIDE DEF tail, t
  <2>4. t \o tail \in Seq(Nat) /\ Len(t \o tail) - TailSize = Len(t) /\ Len(t) \in Nat
        /\ \A i \in 1..Len(t) : (t \o tail)[i] = t[i]
    BY <1>1, <2>1, <2>2
  <2>5. SubSeq(t \o tail, 1, Len(t)) = t
    <3> DEFINE u == SubSeq(t \o tail, 1, Len(t))
    <3>1. u \in Seq(Nat) /\ Len(u) = Len(t) /\ \A i \in 1..Len(t) : u[i] = t[i]
      BY <2>4
    <3> HIDE DEF u
    <3>2. u = t
      BY <1>1, <3>1, SeqEqual
    <3> QED BY <3>2 DEF u
  <2>6. Resolved = t
    BY <2>3, <2>4, <2>5
  <2> QED BY <1>2, <2>6 DEF t
<1>5. CASE format = "V3blob"
  <2>1. PICK k \in Nat : FlattenSeq(Blobs(t)) = t \o Filled(k, 0)
    BY <1>1, BlobsFacts
  <2>2. Resolved = WithoutZeros(FlattenSeq(Blobs(t)))
    BY <1>5 DEF Resolved
  <2> QED BY <1>1, <1>5, <2>1, <2>2, WithoutZerosFacts
<1> QED BY <1>3, <1>4, <1>5

-----------------------------------------------------------------------------
(***************************************************************************)
(* Reading.                                                                *)
(***************************************************************************)
\* The pointer is where the next field is, or both are past the zeros.
Aligned(p, q) ==
  /\ p \in Nat /\ q \in Nat
  /\ p = q \/ (p >= Len(bytes) /\ q >= Len(bytes))

\* The minimum of two numbers.
LEMMA MinFacts ==
  ASSUME NEW a \in Nat, NEW b \in Nat
  PROVE  Min({a, b}) = IF a <= b THEN a ELSE b
<1>1. \E x \in {a, b} : \A y \in {a, b} : x <= y
  OBVIOUS
<1>2. Min({a, b}) \in {a, b} /\ Min({a, b}) <= a /\ Min({a, b}) <= b
  BY <1>1 DEF Min
<1> QED BY <1>2

\* s is made of the m elements of bytes from p on.
Part(s, p, m) == s \in Seq(Nat) /\ m \in Nat /\ Len(s) = m /\ Holds(bytes, p, s)

\* From returns what there is.
LEMMA FromFacts ==
  ASSUME bytes \in Seq(Nat), NEW p \in Nat, NEW n \in Nat, p <= Len(bytes)
  PROVE  /\ p + n <= Len(bytes) => Part(From(p, n), p, n)
         /\ p + n > Len(bytes) => Part(From(p, n), p, Len(bytes) - p)
<1> DEFINE m == IF p + n <= Len(bytes) THEN n ELSE Len(bytes) - p
           a == p + 1
           b == p + m
           r == SubSeq(bytes, a, b)
<1>1. Len(bytes) \in Nat /\ p + n \in Nat
  OBVIOUS
<1>2. Min({p + n, Len(bytes)}) = b /\ m \in Nat /\ b <= Len(bytes)
  BY <1>1, MinFacts
<1>3. From(p, n) = r
  BY <1>2 DEF From
<1> HIDE DEF m
<1>4. a \in Int /\ b \in Int /\ a \in 1..(Len(bytes) + 1) /\ b \in 0..Len(bytes)
  BY <1>1, <1>2
<1>5. b - a + 1 = m /\ (a <= b <=> m # 0) /\ \A j \in 1..m : a + j - 1 = p + j
  BY <1>2
<1>6. r \in Seq(Nat) /\ Len(r) = m /\ \A j \in 1..m : bytes[p + j] = r[j]
  <2>1. \A i \in a..b : bytes[i] \in Nat
    BY <1>1, <1>2
  <2> HIDE DEF a, b
  <2>2. /\ r \in Seq(Nat) /\ Len(r) = IF a <= b THEN b - a + 1 ELSE 0
        /\ \A j \in 1..(b - a + 1) : r[j] = bytes[a + j - 1]
    BY <1>4, <2>1, SubSeqProperties
  <2> HIDE DEF r
  <2> QED BY <1>2, <1>5, <2>2
<1> HIDE DEF r
<1>7. Part(r, p, m)
  BY <1>2, <1>6 DEF Part, Holds
<1> QED BY <1>1, <1>3, <1>7 DEF m

\* Filled repeats one byte.
LEMMA FilledFacts ==
  ASSUME NEW n \in Nat
  PROVE  /\ Filled(n, 0) \in Seq(Nat) /\ Len(Filled(n, 0)) = n
         /\ \A i \in 1..n : Filled(n, 0)[i] = 0
<1> DEFINE s == Filled(n, 0)
<1>1. s = [i \in 1..n |-> s[i]] /\ \A i \in 1..n : s[i] = 0
  BY DEF Filled
<1> HIDE DEF s
<1>2. \A i \in 1..n : s[i] \in Nat
  BY <1>1
<1>3. s \in Seq(Nat) /\ Len(s) = n
  BY <1>1, <1>2, SequenceOf
<1> QED BY <1>1, <1>3 DEF s

\* A field that is read is the one that was written.
LEMMA ReadField ==
  ASSUME NEW t, Trimmed(bytes, t), NEW q, Aligned(pos, q),
         NEW s \in Seq(Nat), Holds(t, q, s), ~Torn(Len(s))
  PROVE  Field(Len(s)) = s /\ Aligned(Past(Len(s)), q + Len(s))
<1> DEFINE n == Len(s)
<1>1. /\ bytes \in Seq(Nat) /\ Len(bytes) \in Nat /\ Len(t) \in Nat /\ n \in Nat
      /\ \A i \in 1..Len(bytes) : bytes[i] = t[i]
      /\ \A i \in 1..Len(t) : i > Len(bytes) => t[i] = 0
  BY DEF Trimmed
<1>2. q + n <= Len(t) /\ \A j \in 1..n : t[q + j] = s[j]
  BY DEF Holds
<1>3. pos \in Nat /\ q \in Nat
  BY DEF Aligned
<1>4. CASE AtEnd
  <2>1. pos >= Len(bytes) /\ q >= Len(bytes)
    BY <1>1, <1>3, <1>4 DEF AtEnd, Aligned
  <2>2. ASSUME NEW j \in 1..n PROVE s[j] = 0
    <3>1. q + j \in 1..Len(t) /\ q + j > Len(bytes)
      BY <1>1, <1>2, <1>3, <2>1
    <3> QED BY <1>1, <1>2, <3>1
  <2>3. Filled(n, 0) = s
    <3> DEFINE zeros == Filled(n, 0)
    <3>1. zeros \in Seq(Nat) /\ Len(zeros) = n /\ \A j \in 1..n : zeros[j] = 0
      BY <1>1, FilledFacts
    <3> HIDE DEF zeros
    <3>2. zeros = s
      BY <2>2, <3>1, SeqEqual
    <3> QED BY <3>2 DEF zeros
  <2>4. Past(n) = pos /\ Field(n) = Filled(n, 0)
    BY <1>4 DEF Past, Field
  <2>5. Aligned(pos, q + n)
    BY <1>1, <1>3, <2>1 DEF Aligned
  <2> QED BY <2>3, <2>4, <2>5
<1>5. CASE ~AtEnd
  <2>1. pos < Len(bytes) /\ pos = q /\ q + n <= Len(bytes)
    BY <1>1, <1>3, <1>5 DEF AtEnd, Aligned, Torn
  <2> DEFINE r == From(pos, n)
  <2>2. r \in Seq(Nat) /\ Len(r) = n /\ \A j \in 1..n : r[j] = bytes[pos + j]
    <3>1. Part(r, pos, n)
      BY <1>1, <1>3, <2>1, FromFacts
    <3> HIDE DEF r
    <3> QED BY <3>1 DEF Part, Holds
  <2> HIDE DEF r
  <2>3. ASSUME NEW j \in 1..n PROVE r[j] = s[j]
    <3>1. pos + j \in 1..Len(bytes)
      BY <1>1, <1>3, <2>1
    <3> QED BY <1>1, <1>2, <2>1, <2>2, <3>1
  <2>4. r = s
    BY <1>1, <2>2, <2>3, SeqEqual
  <2>5. Past(n) = pos + n /\ Field(n) = r
    BY <1>5 DEF Past, Field, r
  <2>6. Aligned(pos + n, q + n)
    BY <1>1, <1>3, <2>1 DEF Aligned
  <2> QED BY <2>4, <2>5, <2>6
<1> QED BY <1>4, <1>5

\* A number that is read is the one that was written.
LEMMA ReadNumber ==
  ASSUME NEW t, Trimmed(bytes, t), NEW q, Aligned(pos, q),
         NEW n \in Nat, NEW v \in Nat, Fits(v, n), Holds(t, q, ToBE(n, v)), ~Torn(n)
  PROVE  FromBE(Field(n)) = v /\ Aligned(Past(n), q + n)
<1>1. ToBE(n, v) \in Seq(Nat) /\ Len(ToBE(n, v)) = n /\ FromBE(ToBE(n, v)) = v
  BY ToBEFacts
<1> DEFINE s == ToBE(n, v)
<1> HIDE DEF s
<1>2. s \in Seq(Nat) /\ Len(s) = n /\ FromBE(s) = v /\ Holds(t, q, s)
  BY <1>1 DEF s
<1>3. Field(Len(s)) = s /\ Aligned(Past(Len(s)), q + Len(s))
  BY <1>2, ReadField
<1> QED BY <1>2, <1>3

\* A single byte is a number.
LEMMA FromBEOne ==
  ASSUME NEW b \in Nat
  PROVE  <<b>> \in Seq(Nat) /\ Len(<<b>>) = 1 /\ FromBE(<<b>>) = b
<1> DEFINE s == <<b>>
<1>1. s \in Seq(Nat) /\ Len(s) = 1 /\ s[1] = b
  OBVIOUS
<1> HIDE DEF s
<1>2. PICK f : Reads(f, s) /\ FromBE(s) = f[Len(s)]
  BY <1>1, FromBEUnfold
<1>3. f[0] = 0 /\ f[1] = 256 * f[1 - 1] + s[1]
  BY <1>1, <1>2 DEF Reads
<1>4. f[1] = b
  BY <1>1, <1>3
<1> QED BY <1>1, <1>2, <1>4 DEF s

\* With zeros for what is missing a value is whole again.
LEMMA Padded ==
  ASSUME bytes \in Seq(Nat), NEW p \in Nat, p <= Len(bytes), NEW v \in Seq(Nat),
         \A j \in 1..Len(v) : IF p + j <= Len(bytes) THEN bytes[p + j] = v[j] ELSE v[j] = 0
  PROVE  From(p, Len(v)) \o Filled(Len(v) - Len(From(p, Len(v))), 0) = v
<1> DEFINE n == Len(v)
           have == From(p, n)
           m == Len(have)
           zeros == Filled(n - m, 0)
<1>1. n \in Nat /\ Len(bytes) \in Nat
  OBVIOUS
<1>2. /\ have \in Seq(Nat) /\ m \in 0..n /\ \A j \in 1..m : bytes[p + j] = have[j]
      /\ p + m <= Len(bytes) /\ (m < n => p + m = Len(bytes))
  <2>1. CASE p + n <= Len(bytes)
    <3>1. Part(have, p, n)
      BY <1>1, <2>1, FromFacts
    <3> HIDE DEF have
    <3> QED BY <1>1, <2>1, <3>1 DEF Part, Holds
  <2>2. CASE p + n > Len(bytes)
    <3>1. Part(have, p, Len(bytes) - p)
      BY <1>1, <2>2, FromFacts
    <3> HIDE DEF have
    <3> QED BY <1>1, <2>2, <3>1 DEF Part, Holds
  <2> QED BY <1>1, <2>1, <2>2
<1> HIDE DEF have
<1>3. zeros \in Seq(Nat) /\ Len(zeros) = n - m /\ \A i \in 1..(n - m) : zeros[i] = 0
  <2>1. n - m \in Nat
    BY <1>1, <1>2
  <2> QED BY <2>1, FilledFacts
<1> HIDE DEF zeros
<1>4. have \o zeros \in Seq(Nat) /\ Len(have \o zeros) = n
      /\ \A j \in 1..n : (have \o zeros)[j] = IF j <= m THEN have[j] ELSE zeros[j - m]
  <2>1. have \o zeros \in Seq(Nat) /\ Len(have \o zeros) = m + (n - m)
    BY <1>2, <1>3, ConcatHolds
  <2>2. \A j \in 1..n : (have \o zeros)[j] = IF j <= m THEN have[j] ELSE zeros[j - m]
    BY <1>1, <1>2, <1>3
  <2>3. m + (n - m) = n
    <3> HIDE DEF m, n
    <3> QED BY <1>1, <1>2
  <2> QED BY <2>1, <2>2, <2>3
<1>5. ASSUME NEW j \in 1..n PROVE (have \o zeros)[j] = v[j]
  <2>1. CASE j <= m
    <3>1. j \in 1..m /\ p + j <= Len(bytes)
      BY <1>1, <1>2, <2>1
    <3> QED BY <1>2, <1>4, <2>1, <3>1
  <2>2. CASE ~(j <= m)
    <3>1. ~(p + j <= Len(bytes)) /\ j - m \in 1..(n - m)
      BY <1>1, <1>2, <2>2
    <3>2. v[j] = 0 /\ zeros[j - m] = 0
      BY <1>3, <3>1
    <3> QED BY <1>2, <1>4, <2>2, <3>2
  <2> QED BY <1>2, <2>1, <2>2
<1>6. have \o zeros = v
  BY <1>4, <1>5, SeqEqual
<1> QED BY <1>6 DEF have, zeros

\* A value is read if its place is not past the end.
LEMMA PackedInRange ==
  ASSUME bytes \in Seq(Nat), NEW p \in Nat
  PROVE  Packed(p).inRange <=> p <= Len(bytes)
<1>1. Len(bytes) \in Nat
  OBVIOUS
<1> DEFINE from == IF p >= Len(bytes) THEN p ELSE p + 1
<1>2. Packed(p).inRange <=> from <= Len(bytes)
  BY DEF Packed
<1>3. CASE p >= Len(bytes)
  BY <1>1, <1>2, <1>3
<1>4. CASE ~(p >= Len(bytes))
  BY <1>1, <1>2, <1>4
<1> QED BY <1>3, <1>4

\* A compressed value that is read is the one that was written.
LEMMA ReadPacked ==
  ASSUME NEW t, Trimmed(bytes, t), NEW p, NEW q, Aligned(p, q),
         NEW w \in Write, Fits(w.value, WordLen),
         Holds(t, q, <<Meta(w)>>), Holds(t, q + 1, ValueBytes(w)), Packed(p).inRange
  PROVE  /\ Packed(p).op = Meta(w) % 8 /\ Packed(p).value = w.value
         /\ Aligned(Packed(p).end, q + 1 + Len(ValueBytes(w)))
<1> DEFINE v == ValueBytes(w)
           n == Len(v)
           meta == IF p >= Len(bytes) THEN 0 ELSE bytes[p + 1]
           from == IF p >= Len(bytes) THEN p ELSE p + 1
           len  == IF meta % 8 = 0 THEN WordLen ELSE meta \div 8
<1>1. /\ bytes \in Seq(Nat) /\ Len(bytes) \in Nat /\ Len(t) \in Nat
      /\ \A i \in 1..Len(bytes) : bytes[i] = t[i]
      /\ \A i \in 1..Len(t) : i > Len(bytes) => t[i] = 0
  BY DEF Trimmed
<1>2. /\ v \in Seq(Nat) /\ n \in Nat /\ FromBE(v) = w.value
      /\ n = IF Meta(w) % 8 = 0 THEN WordLen ELSE Meta(w) \div 8
  BY EncodedValueFacts
<1>3. p \in Nat /\ q \in Nat
  BY DEF Aligned
<1>4. q + 1 <= Len(t) /\ t[q + 1] = Meta(w)
  BY DEF Holds
<1>5. q + 1 + n <= Len(t) /\ \A j \in 1..n : t[q + 1 + j] = v[j]
  BY DEF Holds
<1>6. p <= Len(bytes)
  BY <1>1, <1>3, PackedInRange
<1> HIDE DEF v
<1>7. meta = Meta(w) /\ from \in Nat /\ from <= Len(bytes)
      /\ Aligned(from + n, q + 1 + n)
      /\ \A j \in 1..n : IF from + j <= Len(bytes) THEN bytes[from + j] = v[j] ELSE v[j] = 0
  <2>1. CASE p >= Len(bytes)
    <3>1. p = Len(bytes) /\ q >= Len(bytes)
      BY <1>1, <1>3, <1>6, <2>1 DEF Aligned
    <3>2. t[q + 1] = 0
      <4>1. q + 1 \in 1..Len(t) /\ q + 1 > Len(bytes)
        BY <1>1, <1>3, <1>4, <3>1
      <4> QED BY <1>1, <4>1
    <3>3. meta = 0 /\ from = p
      BY <2>1
    <3>4. ASSUME NEW j \in 1..n PROVE ~(p + j <= Len(bytes)) /\ v[j] = 0
      <4>1. q + 1 + j \in 1..Len(t) /\ q + 1 + j > Len(bytes) /\ ~(p + j <= Len(bytes))
        BY <1>1, <1>2, <1>3, <1>5, <3>1
      <4> QED BY <1>1, <1>5, <4>1
    <3>5. Aligned(p + n, q + 1 + n)
      BY <1>1, <1>2, <1>3, <3>1 DEF Aligned
    <3> QED BY <1>3, <1>4, <1>6, <3>2, <3>3, <3>4, <3>5
  <2>2. CASE ~(p >= Len(bytes))
    <3>1. p = q /\ p < Len(bytes)
      BY <1>1, <1>3, <2>2 DEF Aligned
    <3>2. meta = bytes[p + 1] /\ from = p + 1
      BY <2>2
    <3>3. bytes[p + 1] = t[q + 1]
      <4>1. p + 1 \in 1..Len(bytes)
        BY <1>1, <1>3, <3>1
      <4> QED BY <1>1, <3>1, <4>1
    <3>4. ASSUME NEW j \in 1..n
          PROVE  IF (p + 1) + j <= Len(bytes) THEN bytes[(p + 1) + j] = v[j] ELSE v[j] = 0
      <4>1. q + 1 + j \in 1..Len(t) /\ (p + 1) + j = q + 1 + j
            /\ (p + 1) + j \in Nat \ {0}
        BY <1>1, <1>2, <1>3, <1>5, <3>1
      <4>2. CASE (p + 1) + j <= Len(bytes)
        <5>1. (p + 1) + j \in 1..Len(bytes)
          BY <1>1, <4>1, <4>2
        <5>2. bytes[(p + 1) + j] = v[j]
          BY <1>1, <1>5, <4>1, <5>1
        <5> QED BY <4>2, <5>2
      <4>3. CASE ~((p + 1) + j <= Len(bytes))
        <5>1. q + 1 + j > Len(bytes)
          BY <1>1, <4>1, <4>3
        <5>2. v[j] = 0
          BY <1>1, <1>5, <4>1, <5>1
        <5> QED BY <4>3, <5>2
      <4> QED BY <4>2, <4>3
    <3>5. Aligned((p + 1) + n, q + 1 + n) /\ p + 1 \in Nat /\ p + 1 <= Len(bytes)
      BY <1>1, <1>2, <1>3, <3>1 DEF Aligned
    <3> QED BY <1>4, <3>2, <3>3, <3>4, <3>5
  <2> QED BY <2>1, <2>2
<1>8. /\ Packed(p).op = meta % 8
      /\ Packed(p).value =
           FromBE(From(from, len) \o Filled(len - Len(From(from, len)), 0))
      /\ Packed(p).end = from + len
  BY DEF Packed
<1> HIDE DEF meta, from
<1>9. len = n
  BY <1>2, <1>7
<1>10. From(from, n) \o Filled(n - Len(From(from, n)), 0) = v
  BY <1>1, <1>2, <1>7, Padded
<1> QED BY <1>2, <1>7, <1>8, <1>9, <1>10 DEF v

-----------------------------------------------------------------------------
(***************************************************************************)
(* How far the bytes reach.                                                *)
(***************************************************************************)
\* The sections follow each other, and so do their entries.
LEMMA PositionsGrow ==
  ASSUME NEW c \in Committed
  PROVE  /\ \A i \in 0..Len(c.messages) :
              MessagePos(c, i) \in Nat /\ MessagePos(c, i) <= BytecodesPos(c)
         /\ \A i \in 0..Len(c.codes) :
              /\ BytecodePos(c, i) \in Nat /\ BytecodesPos(c) + 4 <= BytecodePos(c, i)
              /\ BytecodePos(c, i) <= VersionPos(c)
         /\ \A i, k \in 0..Len(c.initial) :
              InitialPos(c, i) \in Nat /\ (i <= k => InitialPos(c, i) <= InitialPos(c, k))
         /\ \A i, k \in 0..Len(c.repeated) :
              RepeatedPos(c, i) \in Nat /\ (i <= k => RepeatedPos(c, i) <= RepeatedPos(c, k))
<1>1. /\ Framed(c.messages) \in Seq(Seq(Nat)) /\ Len(Framed(c.messages)) = Len(c.messages)
      /\ Framed(c.codes) \in Seq(Seq(Nat)) /\ Len(Framed(c.codes)) = Len(c.codes)
      /\ Len(c.messages) \in Nat /\ Len(c.codes) \in Nat
      /\ EncodedInitial(c) \in Seq(Seq(Nat)) /\ Len(EncodedInitial(c)) = Len(c.initial)
      /\ EncodedRepeated(c) \in Seq(Seq(Nat)) /\ Len(EncodedRepeated(c)) = Len(c.repeated)
      /\ Len(c.initial) \in Nat /\ Len(c.repeated) \in Nat
  <2>1. /\ c.messages \in Seq(Seq(Byte)) /\ c.codes \in Seq(Seq(Byte))
        /\ c.initial \in Seq(Write) /\ c.repeated \in Seq(Write)
    BY BatchFacts
  <2>2. /\ Framed(c.messages) \in Seq(Seq(Nat)) /\ Len(Framed(c.messages)) = Len(c.messages)
        /\ Framed(c.codes) \in Seq(Seq(Nat)) /\ Len(Framed(c.codes)) = Len(c.codes)
        /\ Len(c.messages) \in Nat /\ Len(c.codes) \in Nat
    BY <2>1, FramedFacts
  <2>3. Len(c.initial) \in Nat /\ Len(c.repeated) \in Nat
    BY <2>1, Elements
  <2> QED BY <2>2, <2>3, EntryFacts
<1>2. MessagesPos(c) \in Nat /\ BytecodesPos(c) \in Nat /\ VersionPos(c) \in Nat
  BY PubdataLayout DEF Layout
<1>3. ASSUME NEW ss \in Seq(Seq(Nat)), NEW p \in Nat, NEW i \in 0..Len(ss), NEW k \in 0..Len(ss)
      PROVE  /\ Offset(ss, i) \in Nat
             /\ p + Offset(ss, i) \in Nat /\ p <= p + Offset(ss, i)
             /\ i <= k => p + Offset(ss, i) <= p + Offset(ss, k)
  <2>1. Offset(ss, i) \in Nat /\ Offset(ss, k) \in Nat
    BY OffsetFacts
  <2>2. i <= k => Offset(ss, i) <= Offset(ss, k)
    BY OffsetMonotone
  <2> QED BY <2>1, <2>2
<1>4. ASSUME NEW i \in 0..Len(c.messages)
      PROVE  MessagePos(c, i) \in Nat /\ MessagePos(c, i) <= BytecodesPos(c)
  <2>1. MessagesPos(c) + 4 \in Nat /\ Len(c.messages) \in 0..Len(c.messages)
        /\ i <= Len(c.messages)
    BY <1>1, <1>2
  <2> QED BY <1>1, <1>3, <2>1 DEF MessagePos, BytecodesPos
<1>5. ASSUME NEW i \in 0..Len(c.codes)
      PROVE  /\ BytecodePos(c, i) \in Nat /\ BytecodesPos(c) + 4 <= BytecodePos(c, i)
             /\ BytecodePos(c, i) <= VersionPos(c)
  <2>1. BytecodesPos(c) + 4 \in Nat /\ Len(c.codes) \in 0..Len(c.codes) /\ i <= Len(c.codes)
    BY <1>1, <1>2
  <2> QED BY <1>1, <1>3, <2>1 DEF BytecodePos, VersionPos
<1>6. ASSUME NEW i \in 0..Len(c.initial), NEW k \in 0..Len(c.initial)
      PROVE  InitialPos(c, i) \in Nat /\ (i <= k => InitialPos(c, i) <= InitialPos(c, k))
  <2>1. VersionPos(c) + 7 \in Nat
    BY <1>2
  <2> QED BY <1>1, <1>3, <2>1 DEF InitialPos
<1>7. ASSUME NEW i \in 0..Len(c.repeated), NEW k \in 0..Len(c.repeated)
      PROVE  RepeatedPos(c, i) \in Nat /\ (i <= k => RepeatedPos(c, i) <= RepeatedPos(c, k))
  <2>1. Len(c.initial) \in 0..Len(c.initial)
    BY <1>1
  <2>2. InitialPos(c, Len(c.initial)) \in Nat
    BY <1>6, <2>1
  <2> QED BY <1>1, <1>3, <2>2 DEF RepeatedPos
<1> QED BY <1>4, <1>5, <1>6, <1>7

\* A byte that is not zero is not cut off.
LEMMA NotCut ==
  ASSUME NEW t, Trimmed(bytes, t), NEW i \in 1..Len(t), t[i] # 0
  PROVE  i <= Len(bytes)
BY DEF Trimmed

\* Nor is the head of a write that is not a plain zero.
LEMMA WriteReaches ==
  ASSUME NEW t, Trimmed(bytes, t), NEW p, NEW key, NEW q,
         NEW w \in Write, Fits(w.value, WordLen), WriteHolds(t, p, key, w, q),
         w.op # "none" \/ w.value # 0
  PROVE  p + Len(key) + 1 <= Len(bytes)
<1> DEFINE a == p + Len(key)
           v == ValueBytes(w)
<1>1. a \in Nat /\ Len(bytes) \in Nat /\ Len(t) \in Nat
  <2>1. key \in Seq(Nat) /\ p \in Nat /\ bytes \in Seq(Nat) /\ t \in Seq(Nat)
    BY DEF WriteHolds, Trimmed
  <2> QED BY <2>1
<1>2. Holds(t, a, <<Meta(w)>>) /\ Holds(t, a + 1, v)
  BY DEF WriteHolds
<1> HIDE DEF a
<1>3. CASE w.op # "none"
  <2>1. Meta(w) # 0 /\ Meta(w) \in Nat
    BY <1>3, EncodedValueFacts
  <2>2. a + 1 <= Len(t) /\ t[a + 1] = Meta(w)
    BY <1>2, <2>1 DEF Holds
  <2>3. a + 1 \in 1..Len(t)
    BY <1>1, <2>2
  <2> QED BY <2>1, <2>2, <2>3, NotCut DEF a
<1>4. CASE w.op = "none"
  <2>1. PICK j \in 1..WordLen : v[j] # 0
    BY <1>4, EncodedValueFacts
  <2>2. v \in Seq(Nat) /\ Len(v) = WordLen /\ WordLen \in Nat
    <3>1. Len(v) = IF Meta(w) % 8 = 0 THEN WordLen ELSE Meta(w) \div 8
      BY EncodedValueFacts
    <3>2. Meta(w) = 0
      BY <1>4, EncodedValueFacts
    <3>3. 0 % 8 = 0
      OBVIOUS
    <3>4. v \in Seq(Nat)
      BY EncodedValueFacts
    <3>5. WordLen \in Nat
      BY FormatAssumption
    <3> HIDE DEF v
    <3> QED BY <3>1, <3>2, <3>3, <3>4, <3>5
  <2> HIDE DEF v
  <2>3. a + 1 + WordLen <= Len(t) /\ t[a + 1 + j] = v[j]
    BY <1>2, <2>2 DEF Holds
  <2>4. a + 1 + j \in 1..Len(t)
    BY <1>1, <2>2, <2>3
  <2>5. a + 1 + j <= Len(bytes)
    BY <2>1, <2>3, <2>4, NotCut
  <2> QED BY <1>1, <2>2, <2>5 DEF a
<1> QED BY <1>3, <1>4

\* The header of the diffs is there, as its version and its width are not zero.
LEMMA HeaderReaches ==
  ASSUME NEW c \in Committed, NEW t, Layout(t, c), Trimmed(bytes, t)
  PROVE  VersionPos(c) + 5 <= Len(bytes)
<1>1. VersionPos(c) \in Nat /\ Len(t) \in Nat
  BY DEF Layout
<1>2. c.width \in Nat \ {0}
  <2>1. c.width \in 1..255
    BY BatchFacts
  <2> QED BY <2>1
<1> DEFINE a == VersionPos(c) + 4
           s == <<c.width>>
<1>3. Holds(t, a, s) /\ Len(s) = 1 /\ s[1] = c.width
  BY DEF Layout
<1> HIDE DEF s
<1>4. a + 1 <= Len(t) /\ t[a + 1] = c.width
  BY <1>3 DEF Holds
<1>5. a + 1 \in 1..Len(t) /\ t[a + 1] # 0
  BY <1>1, <1>2, <1>4
<1>6. a + 1 <= Len(bytes)
  BY <1>5, NotCut
<1> QED BY <1>1, <1>6

\* The last element of a concatenation.
LEMMA JoinedLast ==
  ASSUME NEW S, NEW s \in Seq(S), NEW u \in Seq(S), Len(u) > 0
  PROVE  s \o u \in Seq(S) /\ Len(s \o u) = Len(s) + Len(u)
         /\ (s \o u)[Len(s) + Len(u)] = u[Len(u)]
OBVIOUS

\* The last write is a zero that was not compressed.
ZeroIsLast(c) ==
  LET writes == c.initial \o c.repeated
  IN  writes # <<>> /\ Last(writes).op = "none" /\ Last(writes).value = 0

\* What is read as a whole is there.
Reaches(c) ==
  /\ VersionPos(c) + 7 <= Len(bytes) \/ VersionPos(c) + 5 = Len(bytes)
  /\ \A i \in 1..Len(c.initial) : InitialPos(c, i - 1) + WordLen + 1 <= Len(bytes)
  /\ \A i \in 1..Len(c.repeated) : RepeatedPos(c, i - 1) + c.width + 1 <= Len(bytes)

\* No field is torn unless such a zero is the last write and was cut off.
LEMMA WritesReach ==
  ASSUME NEW c \in Committed, NEW t, Layout(t, c), Trimmed(bytes, t),
         Len(bytes) = Len(t) \/ ~ZeroIsLast(c)
  PROVE  Reaches(c)
<1> DEFINE n == Len(c.initial)
           r == Len(c.repeated)
           L == Len(bytes)
           V == VersionPos(c)
<1>1. /\ c.initial \in Seq(Write) /\ c.repeated \in Seq(Write) /\ n \in Nat /\ r \in Nat
      /\ \A i \in 1..n : c.initial[i] \in Write /\ Fits(c.initial[i].value, WordLen)
      /\ \A i \in 1..r : c.repeated[i] \in Write /\ Fits(c.repeated[i].value, WordLen)
  <2>1. c.initial \in Seq(Write) /\ c.repeated \in Seq(Write) /\ WellFormed(c)
    BY BatchFacts
  <2>2. /\ n \in Nat /\ r \in Nat /\ DOMAIN c.initial = 1..n /\ DOMAIN c.repeated = 1..r
        /\ \A i \in 1..n : c.initial[i] \in Write
        /\ \A i \in 1..r : c.repeated[i] \in Write
    BY <2>1, Elements
  <2> QED BY <2>1, <2>2 DEF WellFormed, ValueFits
<1>2. /\ Len(t) = RepeatedPos(c, r) /\ RepeatedPos(c, 0) = InitialPos(c, n)
      /\ InitialPos(c, 0) = V + 7 /\ V \in Nat /\ Len(t) \in Nat /\ L \in Nat /\ L <= Len(t)
  BY DEF Layout, Trimmed
<1>3. /\ \A i, k \in 0..n :
           InitialPos(c, i) \in Nat /\ (i <= k => InitialPos(c, i) <= InitialPos(c, k))
      /\ \A i, k \in 0..r :
           RepeatedPos(c, i) \in Nat /\ (i <= k => RepeatedPos(c, i) <= RepeatedPos(c, k))
  BY PositionsGrow
<1>4. /\ WordLen \in Nat /\ c.width \in Nat
      /\ \A i \in Nat : Len(ToLE(WordLen, i)) = WordLen
      /\ \A i \in Nat : Len(ToBE(c.width, i)) = c.width
  <2>1. WordLen \in Nat
    BY FormatAssumption
  <2>2. c.width \in 1..255
    BY BatchFacts
  <2>3. c.width \in Nat
    <3>1. \A x \in 1..255 : x \in Nat
      OBVIOUS
    <3> QED BY <2>2, <3>1
  <2> QED BY <2>1, <2>3, ReverseToLE, ToBEFacts
<1>5. \A i \in 1..n : WriteHolds(t, InitialPos(c, i - 1), ToLE(WordLen, c.initial[i].key),
                                 c.initial[i], InitialPos(c, i))
  BY DEF Layout
<1>6. \A i \in 1..r : WriteHolds(t, RepeatedPos(c, i - 1), ToBE(c.width, c.repeated[i].key),
                                 c.repeated[i], RepeatedPos(c, i))
  BY DEF Layout
<1>7. ASSUME NEW i \in 1..n
      PROVE  /\ Len(ToLE(WordLen, c.initial[i].key)) = WordLen
             /\ InitialPos(c, i - 1) + WordLen + 1 <= InitialPos(c, i)
  <2>1. Len(ToLE(WordLen, c.initial[i].key)) = WordLen
    BY <1>1, <1>4 DEF Write
  <2>2. /\ InitialPos(c, i - 1) \in Nat
        /\ InitialPos(c, i) = InitialPos(c, i - 1) + Len(ToLE(WordLen, c.initial[i].key)) + 1
                              + Len(ValueBytes(c.initial[i]))
    BY <1>5 DEF WriteHolds
  <2>3. Len(ValueBytes(c.initial[i])) \in Nat
    BY <1>1, EncodedValueFacts
  <2> QED BY <1>4, <2>1, <2>2, <2>3
<1>8. ASSUME NEW i \in 1..r
      PROVE  /\ Len(ToBE(c.width, c.repeated[i].key)) = c.width
             /\ RepeatedPos(c, i - 1) + c.width + 1 <= RepeatedPos(c, i)
  <2>1. Len(ToBE(c.width, c.repeated[i].key)) = c.width
    BY <1>1, <1>4 DEF Write
  <2>2. /\ RepeatedPos(c, i - 1) \in Nat
        /\ RepeatedPos(c, i) = RepeatedPos(c, i - 1) + Len(ToBE(c.width, c.repeated[i].key)) + 1
                               + Len(ValueBytes(c.repeated[i]))
    BY <1>6 DEF WriteHolds
  <2>3. Len(ValueBytes(c.repeated[i])) \in Nat
    BY <1>1, EncodedValueFacts
  <2> QED BY <1>4, <2>1, <2>2, <2>3
<1>9. ASSUME NEW k \in 0..n, L >= InitialPos(c, k)
      PROVE  \A i \in 1..k : InitialPos(c, i - 1) + WordLen + 1 <= L
  <2> TAKE i \in 1..k
  <2>1. i \in 1..n /\ i \in 0..n /\ i - 1 \in 0..n /\ i <= k
    BY <1>1
  <2>2. InitialPos(c, i) <= InitialPos(c, k) /\ InitialPos(c, i - 1) \in Nat
        /\ InitialPos(c, i) \in Nat /\ InitialPos(c, k) \in Nat
    BY <1>3, <2>1
  <2>3. InitialPos(c, i - 1) + WordLen + 1 <= InitialPos(c, i)
    BY <1>7, <2>1
  <2>4. L \in Nat /\ WordLen \in Nat /\ L >= InitialPos(c, k)
    BY <1>2, <1>4, <1>9
  <2> QED BY <2>2, <2>3, <2>4
<1>10. ASSUME NEW k \in 0..r, L >= RepeatedPos(c, k)
       PROVE  \A i \in 1..k : RepeatedPos(c, i - 1) + c.width + 1 <= L
  <2> TAKE i \in 1..k
  <2>1. i \in 1..r /\ i \in 0..r /\ i - 1 \in 0..r /\ i <= k
    BY <1>1
  <2>2. RepeatedPos(c, i) <= RepeatedPos(c, k) /\ RepeatedPos(c, i - 1) \in Nat
        /\ RepeatedPos(c, i) \in Nat /\ RepeatedPos(c, k) \in Nat
    BY <1>3, <2>1
  <2>3. RepeatedPos(c, i - 1) + c.width + 1 <= RepeatedPos(c, i)
    BY <1>8, <2>1
  <2>4. L \in Nat /\ c.width \in Nat /\ L >= RepeatedPos(c, k)
    BY <1>2, <1>4, <1>10
  <2> QED BY <2>2, <2>3, <2>4
<1>11. /\ 0 \in 0..n /\ n \in 0..n /\ 0 \in 0..r /\ r \in 0..r
       /\ InitialPos(c, 0) <= InitialPos(c, n) /\ RepeatedPos(c, 0) <= RepeatedPos(c, r)
       /\ InitialPos(c, n) \in Nat
  BY <1>1, <1>3
<1>12. CASE L = Len(t)
  <2>1. L >= InitialPos(c, n) /\ L >= RepeatedPos(c, r) /\ V + 7 <= L
    BY <1>2, <1>11, <1>12
  <2> QED BY <1>9, <1>10, <1>11, <2>1 DEF Reaches
<1>13. CASE ~ZeroIsLast(c) /\ r > 0
  <2>1. r \in 1..r /\ r - 1 \in 0..r /\ 0 <= r - 1
    BY <1>1, <1>13
  <2>2. c.repeated[r].op # "none" \/ c.repeated[r].value # 0
    <3> DEFINE ws == c.initial \o c.repeated
    <3>1. ws \in Seq(Write) /\ Len(ws) = n + r /\ ws[n + r] = c.repeated[r]
      <4>1. r > 0
        BY <1>13
      <4> QED BY <1>1, <4>1, JoinedLast
    <3>2. ws # <<>>
      BY <1>1, <1>13, <3>1
    <3>3. Last(ws) = c.repeated[r]
      BY <3>1 DEF Last
    <3> QED BY <1>13, <3>2, <3>3 DEF ZeroIsLast
  <2>3. RepeatedPos(c, r - 1) + c.width + 1 <= L
    BY <1>1, <1>6, <1>8, <2>1, <2>2, WriteReaches
  <2>4. RepeatedPos(c, r - 1) \in Nat /\ RepeatedPos(c, 0) <= RepeatedPos(c, r - 1)
        /\ RepeatedPos(c, 0) \in Nat
    BY <1>3, <1>11, <2>1
  <2>5. L >= RepeatedPos(c, r - 1) /\ L >= InitialPos(c, n) /\ V + 7 <= L
    BY <1>2, <1>4, <1>11, <2>3, <2>4
  <2>6. \A i \in 1..n : InitialPos(c, i - 1) + WordLen + 1 <= L
    BY <1>9, <1>11, <2>5
  <2>7. \A i \in 1..r : RepeatedPos(c, i - 1) + c.width + 1 <= L
    <3> TAKE i \in 1..r
    <3>1. i = r \/ i \in 1..(r - 1)
      BY <1>1
    <3> QED BY <1>10, <2>1, <2>3, <2>5, <3>1
  <2> QED BY <2>5, <2>6, <2>7 DEF Reaches
<1>14. CASE ~ZeroIsLast(c) /\ r = 0 /\ n > 0
  <2>1. n \in 1..n /\ n - 1 \in 0..n /\ 0 <= n - 1
    BY <1>1, <1>14
  <2>2. c.initial[n].op # "none" \/ c.initial[n].value # 0
    <3> DEFINE ws == c.initial \o c.repeated
    <3>1. c.repeated = <<>> /\ ws = c.initial
      <4>1. \A S : \A u \in Seq(S) : Len(u) = 0 => u = <<>>
        OBVIOUS
      <4>2. c.repeated = <<>>
        BY <1>1, <1>14, <4>1
      <4> QED BY <1>1, <4>2, ConcatEmptySeq
    <3>2. ws \in Seq(Write) /\ Len(ws) = n /\ ws[n] = c.initial[n]
      BY <1>1, <3>1
    <3>3. ws # <<>>
      BY <1>1, <1>14, <3>2
    <3>4. Last(ws) = c.initial[n]
      BY <3>2 DEF Last
    <3> QED BY <1>14, <3>3, <3>4 DEF ZeroIsLast
  <2>3. InitialPos(c, n - 1) + WordLen + 1 <= L
    BY <1>1, <1>5, <1>7, <2>1, <2>2, WriteReaches
  <2>4. InitialPos(c, n - 1) \in Nat /\ InitialPos(c, 0) <= InitialPos(c, n - 1)
        /\ InitialPos(c, 0) \in Nat
    BY <1>3, <1>11, <2>1
  <2>5. L >= InitialPos(c, n - 1) /\ V + 7 <= L
    BY <1>2, <1>4, <1>11, <2>3, <2>4
  <2>6. \A i \in 1..n : InitialPos(c, i - 1) + WordLen + 1 <= L
    <3> TAKE i \in 1..n
    <3>1. i = n \/ i \in 1..(n - 1)
      BY <1>1
    <3> QED BY <1>9, <2>1, <2>3, <2>5, <3>1
  <2>7. \A i \in 1..r : RepeatedPos(c, i - 1) + c.width + 1 <= L
    BY <1>14
  <2> QED BY <2>5, <2>6, <2>7 DEF Reaches
<1>15. CASE L # Len(t) /\ r = 0 /\ n = 0
  <2>1. Len(t) = V + 7 /\ V + 5 <= L
    BY <1>2, <1>15, HeaderReaches
  <2>2. t[V + 6] = 0
    <3> DEFINE s == ToBE(2, n)
    <3>1. Holds(t, V + 5, s) /\ Len(s) = 2
      BY <1>1, ToBEFacts DEF Layout
    <3>2. s[1] = 0
      <4>1. s[1] = ByteAt(0, 1)
        BY <1>15 DEF ToBE
      <4>2. Shifted(0, 0) = 0 /\ Shifted(0, 0 + 1) = Shifted(0, 0) \div 256
        BY ShiftedFacts
      <4>3. Shifted(0, 1) = 0
        BY <4>2
      <4> QED BY <4>1, <4>3 DEF ByteAt
    <3> HIDE DEF s
    <3>3. t[(V + 5) + 1] = 0
      BY <3>1, <3>2 DEF Holds
    <3>4. (V + 5) + 1 = V + 6
      BY <1>2
    <3> QED BY <3>3, <3>4
  <2>3. L = 0 \/ t[L] # 0
    BY <1>15 DEF Trimmed
  <2>4. L = V + 5
    BY <1>2, <1>15, <2>1, <2>2, <2>3
  <2> QED BY <1>15, <2>4 DEF Reaches
<1> QED BY <1>1, <1>12, <1>13, <1>14, <1>15

-----------------------------------------------------------------------------
(***************************************************************************)
(* The writes that were read.                                              *)
(***************************************************************************)
\* The first elements of a sequence.
LEMMA PrefixFacts ==
  ASSUME NEW S, NEW s \in Seq(S), NEW k \in 0..Len(s)
  PROVE  /\ SubSeq(s, 1, k) \in Seq(S) /\ Len(SubSeq(s, 1, k)) = k
         /\ \A i \in 1..k : SubSeq(s, 1, k)[i] = s[i]
         /\ k < Len(s) => Append(SubSeq(s, 1, k), s[k + 1]) = SubSeq(s, 1, k + 1)
<1> DEFINE u == SubSeq(s, 1, k)
<1>1. Len(s) \in Nat /\ k \in Nat /\ k <= Len(s)
  OBVIOUS
<1>2. u \in Seq(S) /\ Len(u) = k /\ \A i \in 1..k : u[i] = s[i]
  BY <1>1
<1>3. ASSUME k < Len(s) PROVE Append(u, s[k + 1]) = SubSeq(s, 1, k + 1)
  <2> DEFINE v == SubSeq(s, 1, k + 1)
             a == Append(u, s[k + 1])
  <2>1. v \in Seq(S) /\ Len(v) = k + 1 /\ \A i \in 1..(k + 1) : v[i] = s[i]
    BY <1>1, <1>3
  <2> HIDE DEF v
  <2>2. s[k + 1] \in S
    BY <1>1, <1>3
  <2> HIDE DEF u
  <2>3. a \in Seq(S) /\ Len(a) = k + 1 /\ a[k + 1] = s[k + 1] /\ \A i \in 1..k : a[i] = u[i]
    BY <1>1, <1>2, <2>2
  <2> HIDE DEF a
  <2>4. \A i \in 1..(k + 1) : i = k + 1 \/ i \in 1..k
    BY <1>1
  <2>5. \A i \in 1..(k + 1) : a[i] = v[i]
    BY <1>2, <2>1, <2>3, <2>4
  <2> QED BY <2>1, <2>3, <2>5, SeqEqual DEF a, v
<1> HIDE DEF u
<1> QED BY <1>2, <1>3, Zenon DEF u

\* A key that is new goes to the end.
LEMMA InsertAppends ==
  ASSUME NEW ws \in Seq(Write), KeysDiffer(ws), NEW k \in Nat, k < Len(ws)
  PROVE  Insert(SubSeq(ws, 1, k), ws[k + 1].key, ws[k + 1].op, ws[k + 1].value)
           = SubSeq(ws, 1, k + 1)
<1> DEFINE w == ws[k + 1]
           map == SubSeq(ws, 1, k)
<1>1. Len(ws) \in Nat /\ k \in 0..Len(ws) /\ k + 1 \in 1..Len(ws)
  OBVIOUS
<1>2. DOMAIN ws = 1..Len(ws) /\ w \in Write
  BY <1>1, Elements
<1>3. w = [key |-> w.key, op |-> w.op, value |-> w.value]
  BY <1>2 DEF Write
<1>4. /\ map \in Seq(Write) /\ Len(map) = k /\ \A i \in 1..k : map[i] = ws[i]
      /\ Append(map, w) = SubSeq(ws, 1, k + 1)
  BY <1>1, PrefixFacts
<1> HIDE DEF map
<1>5. DOMAIN map = 1..k
  BY <1>4
<1>6. ~ \E i \in DOMAIN map : map[i].key = w.key
  <2> SUFFICES ASSUME NEW i \in 1..k, map[i].key = w.key PROVE FALSE
    BY <1>5
  <2>1. i \in DOMAIN ws /\ k + 1 \in DOMAIN ws /\ i # k + 1
    BY <1>1, <1>2
  <2>2. ws[i].key = ws[k + 1].key
    BY <1>4
  <2> QED BY <2>1, <2>2 DEF KeysDiffer
<1> DEFINE x == [key |-> w.key, op |-> w.op, value |-> w.value]
<1>7. Insert(map, w.key, w.op, w.value) =
        IF \E i \in DOMAIN map : map[i].key = w.key
        THEN [i \in DOMAIN map |-> IF map[i].key = w.key THEN x ELSE map[i]]
        ELSE Append(map, x)
  BY DEF Insert
<1>8. Insert(map, w.key, w.op, w.value) = Append(map, w)
  BY <1>3, <1>6, <1>7, Zenon
<1> QED BY <1>4, <1>8 DEF map

\* What stands in a sequence is cut out of it.
LEMMA HeldPart ==
  ASSUME NEW t \in Seq(Nat), NEW p \in Nat, NEW s \in Seq(Nat), Holds(t, p, s)
  PROVE  SubSeq(t, p + 1, p + Len(s)) = s
<1> DEFINE a == p + 1
           b == p + Len(s)
           r == SubSeq(t, a, b)
<1>1. Len(s) \in Nat /\ Len(t) \in Nat /\ b <= Len(t) /\ \A j \in 1..Len(s) : t[p + j] = s[j]
  BY DEF Holds
<1>2. a \in Int /\ b \in Int /\ \A i \in a..b : t[i] \in Nat
  BY <1>1
<1>3. b - a + 1 = Len(s) /\ (a <= b <=> Len(s) # 0) /\ \A j \in 1..Len(s) : a + j - 1 = p + j
  BY <1>1
<1> HIDE DEF a, b
<1>4. /\ r \in Seq(Nat) /\ Len(r) = IF a <= b THEN b - a + 1 ELSE 0
      /\ \A j \in 1..(b - a + 1) : r[j] = t[a + j - 1]
  BY <1>2, SubSeqProperties
<1> HIDE DEF r
<1>5. Len(r) = Len(s) /\ \A j \in 1..Len(s) : r[j] = s[j]
  BY <1>1, <1>3, <1>4
<1>6. r = s
  BY <1>4, <1>5, SeqEqual
<1> QED BY <1>6 DEF r, a, b

\* A multiple can be divided.
LEMMA Multiples ==
  ASSUME NEW n \in Nat, NEW size \in Nat \ {0}
  PROVE  (n * size) % size = 0 /\ (n * size) \div size = n
<1> DEFINE a == n * size
           d == a \div size
           r == a % size
<1>1. a \in Nat
  OBVIOUS
<1>2. d \in Nat /\ r \in Nat /\ r < size /\ a = size * d + r
  <2> HIDE DEF a
  <2> QED BY <1>1
<1>3. (n - d) * size = r
  BY <1>1, <1>2
<1> HIDE DEF d, r
<1>4. n - d = 0
  BY <1>2, <1>3
<1> QED BY <1>2, <1>3, <1>4 DEF d, r

\* The writes as V1 has them: whole words.
Plain(ws) == [i \in DOMAIN ws |-> [ws[i] EXCEPT !.op = "none"]]

\* The key of an entry of V1.
KeyV1(bs, lowFirst) == IF lowFirst THEN Reverse(bs) ELSE bs

\* They have the same keys and values.
LEMMA PlainFacts ==
  ASSUME NEW ws \in Seq(Write), KeysDiffer(ws)
  PROVE  /\ Plain(ws) \in Seq(Write) /\ Len(Plain(ws)) = Len(ws) /\ KeysDiffer(Plain(ws))
         /\ \A i \in 1..Len(ws) : /\ Plain(ws)[i].key = ws[i].key
                                  /\ Plain(ws)[i].op = "none"
                                  /\ Plain(ws)[i].value = ws[i].value
<1> DEFINE n == Len(ws)
           ps == Plain(ws)
<1>1. n \in Nat /\ DOMAIN ws = 1..n /\ \A i \in 1..n : ws[i] \in Write
  BY Elements
<1>2. ps = [i \in 1..n |-> [ws[i] EXCEPT !.op = "none"]]
  BY <1>1 DEF Plain
<1> HIDE DEF n, ps
<1>3. \A w \in Write : LET x == [w EXCEPT !.op = "none"]
                       IN  x \in Write /\ x.key = w.key /\ x.op = "none" /\ x.value = w.value
  BY DEF Write
<1>4. ASSUME NEW i \in 1..n
      PROVE  ps[i] \in Write /\ ps[i].key = ws[i].key /\ ps[i].op = "none"
             /\ ps[i].value = ws[i].value
  <2>1. ps[i] = [ws[i] EXCEPT !.op = "none"] /\ ws[i] \in Write
    BY <1>1, <1>2
  <2> QED BY <1>3, <2>1
<1>5. ps \in Seq(Write) /\ Len(ps) = n
  <2>1. ps = [i \in 1..n |-> ps[i]]
    BY <1>2
  <2> QED BY <1>1, <1>4, <2>1, SequenceOf
<1>6. KeysDiffer(ps)
  <2>1. DOMAIN ps = 1..n
    BY <1>2
  <2> QED BY <1>1, <1>4, <2>1 DEF KeysDiffer
<1> QED BY <1>4, <1>5, <1>6 DEF n, ps

\* Two byte strings of a fixed size make an entry of that size.
LEMMA EntriesV1Facts ==
  ASSUME NEW n \in Nat, NEW keyLen \in Nat, NEW es,
         es = [i \in 1..n |-> es[i]],
         \A i \in 1..n : es[i] \in Seq(Nat) /\ Len(es[i]) = keyLen + WordLen
  PROVE  /\ es \in Seq(Seq(Nat)) /\ Len(es) = n
         /\ \A i \in 0..n : Offset(es, i) = i * (keyLen + WordLen)
<1> DEFINE size == keyLen + WordLen
<1>1. size \in Nat
  BY FormatAssumption
<1>2. es \in Seq(Seq(Nat)) /\ Len(es) = n
  BY SequenceOf
<1> HIDE DEF size
<1> DEFINE Good == {i \in 0..n : Offset(es, i) = i * size}
<1>3. Offset(es, 0) = 0 /\ \A i \in 1..n : Offset(es, i) = Offset(es, i - 1) + Len(es[i])
  BY <1>2, OffsetFacts
<1>4. 0 \in Good
  BY <1>1, <1>3
<1>5. ASSUME NEW i \in 0..(n - 1), i \in Good PROVE i + 1 \in Good
  <2>1. i + 1 \in 1..n /\ (i + 1) - 1 = i /\ i + 1 \in 0..n /\ i \in Nat
    OBVIOUS
  <2>2. Offset(es, i + 1) = Offset(es, i) + Len(es[i + 1])
    BY <1>3, <2>1
  <2>3. Len(es[i + 1]) = size /\ Offset(es, i) = i * size
    BY <1>5, <2>1 DEF size
  <2>4. i * size + size = (i + 1) * size
    BY <1>1, <2>1
  <2> QED BY <2>1, <2>2, <2>3, <2>4
<1>6. 0..n \subseteq Good
  <2> HIDE DEF Good
  <2> QED BY <1>4, <1>5, BoundedInduction
<1> QED BY <1>2, <1>6 DEF size

\* The key and the value of an entry are cut out of it.
LEMMA EntryParts ==
  ASSUME NEW key \in Seq(Nat), NEW v \in Seq(Nat)
  PROVE  /\ SubSeq(key \o v, 1, Len(key)) = key
         /\ SubSeq(key \o v, Len(key) + 1, Len(key) + Len(v)) = v
<1> DEFINE e == key \o v
<1>1. e \in Seq(Nat) /\ Holds(e, 0, key) /\ Holds(e, Len(key), v) /\ Len(key) \in Nat
  BY ConcatHolds
<1> HIDE DEF e
<1>2. SubSeq(e, 0 + 1, 0 + Len(key)) = key
  BY <1>1, HeldPart
<1>3. SubSeq(e, Len(key) + 1, Len(key) + Len(v)) = v
  BY <1>1, HeldPart
<1>4. 0 + 1 = 1 /\ 0 + Len(key) = Len(key)
  BY <1>1
<1> QED BY <1>2, <1>3, <1>4 DEF e

\* s is read back as the writes ws.
ReadsV1(s, ws, keyLen, lowFirst) ==
  /\ (Len(s) - 4) % (keyLen + WordLen) = 0
  /\ ChangesV1(s, keyLen, lowFirst) = Plain(ws)

\* What V1 reads are the writes, as whole words.
LEMMA ReadEntriesV1 ==
  ASSUME NEW ws \in Seq(Write), KeysDiffer(ws), NEW keyLen \in Nat, NEW keys,
         NEW lowFirst \in BOOLEAN,
         \A i \in 1..Len(ws) :
           /\ keys[i] \in Seq(Nat) /\ Len(keys[i]) = keyLen
           /\ FromBE(KeyV1(keys[i], lowFirst)) = ws[i].key
           /\ Fits(ws[i].value, WordLen)
  PROVE  ReadsV1(EntriesV1(keys, ws), ws, keyLen, lowFirst)
<1> DEFINE n == Len(ws)
           s == EntriesV1(keys, ws)
           size == keyLen + WordLen
           es == [i \in DOMAIN ws |-> keys[i] \o ToBE(WordLen, ws[i].value)]
           ps == Plain(ws)
<1>1. n \in Nat /\ DOMAIN ws = 1..n /\ \A i \in 1..n : ws[i] \in Write
  BY Elements
<1>2. WordLen \in Nat /\ size \in Nat \ {0}
  BY FormatAssumption
<1>3. ASSUME NEW i \in 1..n
      PROVE  /\ es[i] = keys[i] \o ToBE(WordLen, ws[i].value)
             /\ ToBE(WordLen, ws[i].value) \in Seq(Nat)
             /\ Len(ToBE(WordLen, ws[i].value)) = WordLen
             /\ FromBE(ToBE(WordLen, ws[i].value)) = ws[i].value
             /\ es[i] \in Seq(Nat) /\ Len(es[i]) = size
  <2>1. es[i] = keys[i] \o ToBE(WordLen, ws[i].value)
    BY <1>1
  <2>2. ws[i].value \in Nat
    BY <1>1 DEF Write
  <2> DEFINE v == ToBE(WordLen, ws[i].value)
  <2>3. v \in Seq(Nat) /\ Len(v) = WordLen /\ FromBE(v) = ws[i].value
    BY <1>2, <2>2, ToBEFacts
  <2> HIDE DEF v
  <2>4. keys[i] \o v \in Seq(Nat) /\ Len(keys[i] \o v) = keyLen + WordLen
    BY <2>3, ConcatHolds
  <2> QED BY <2>1, <2>3, <2>4 DEF v
<1>4. es = [i \in 1..n |-> es[i]]
  BY <1>1
<1>5. s = ToBE(4, n) \o FlattenSeq(es)
  BY DEF EntriesV1
<1> HIDE DEF es, s
<1>6. es \in Seq(Seq(Nat)) /\ Len(es) = n /\ \A i \in 0..n : Offset(es, i) = i * size
  <2>1. \A i \in 1..n : es[i] \in Seq(Nat) /\ Len(es[i]) = keyLen + WordLen
    BY <1>3
  <2>2. n \in Nat /\ keyLen \in Nat
    BY <1>1
  <2> HIDE DEF n
  <2>3. /\ es \in Seq(Seq(Nat)) /\ Len(es) = n
        /\ \A i \in 0..n : Offset(es, i) = i * (keyLen + WordLen)
    BY <1>4, <2>1, <2>2, EntriesV1Facts, ZenonT(60)
  <2> QED BY <2>3, Zenon
<1>7. FlattenSeq(es) \in Seq(Nat) /\ Len(FlattenSeq(es)) = n * size
  <2>1. n \in 0..n
    BY <1>1
  <2> QED BY <1>6, <2>1, FlattenFacts
<1>8. ToBE(4, n) \in Seq(Nat) /\ Len(ToBE(4, n)) = 4
  BY <1>1, ToBEFacts
<1>9. s \in Seq(Nat) /\ Len(s) = 4 + n * size /\ Holds(s, 4, FlattenSeq(es))
  BY <1>5, <1>7, <1>8, ConcatHolds
<1>10. n * size \in Nat /\ Len(s) - 4 = n * size
  <2>1. n * size \in Nat
    BY <1>1, <1>2
  <2> DEFINE a == n * size
  <2> HIDE DEF a
  <2>2. Len(s) = 4 + a /\ a \in Nat
    BY <1>9, <2>1 DEF a
  <2>3. Len(s) - 4 = a
    BY <2>2
  <2> QED BY <2>1, <2>3 DEF a
<1>11. (Len(s) - 4) % size = 0 /\ (Len(s) - 4) \div size = n
  BY <1>1, <1>2, <1>10, Multiples
<1>12. ASSUME NEW i \in 1..n PROVE EntryV1(s, size, i) = es[i]
  <2>1. i \in 1..Len(es) /\ i - 1 \in 0..n
    BY <1>6
  <2>2. Holds(s, 4 + Offset(es, i - 1), es[i])
    BY <1>6, <1>9, <2>1, HoldsFlatten
  <2> DEFINE a == (i - 1) * size
             p == 4 + a
  <2>3. Holds(s, p, es[i])
    BY <1>6, <2>1, <2>2
  <2>4. a \in Nat /\ i * size = a + size
    <3>1. \A x, y \in Nat : x * y \in Nat /\ (x + 1) * y = x * y + y
      OBVIOUS
    <3>2. i - 1 \in Nat /\ (i - 1) + 1 = i
      OBVIOUS
    <3> HIDE DEF size
    <3> QED BY <1>2, <3>1, <3>2
  <2>5. EntryV1(s, size, i) = SubSeq(s, 5 + a, 4 + i * size)
    BY DEF EntryV1
  <2> HIDE DEF a
  <2>6. 5 + a = p + 1 /\ 4 + i * size = p + Len(es[i]) /\ p \in Nat
    <3> DEFINE b == i * size
    <3> HIDE DEF b
    <3>1. b = a + size /\ Len(es[i]) = size
      BY <1>3, <2>4 DEF b
    <3> HIDE DEF size
    <3>2. 5 + a = p + 1 /\ 4 + b = p + Len(es[i]) /\ p \in Nat
      BY <1>2, <2>4, <3>1
    <3> QED BY <3>2 DEF b
  <2> HIDE DEF p
  <2>7. SubSeq(s, p + 1, p + Len(es[i])) = es[i]
    BY <1>3, <1>9, <2>3, <2>6, HeldPart
  <2> QED BY <2>5, <2>6, <2>7
<1> DEFINE K(i) == FromBE(KeyV1(SubSeq(EntryV1(s, size, i), 1, keyLen), lowFirst))
           X(i) == FromBE(SubSeq(EntryV1(s, size, i), keyLen + 1, size))
<1>13. ASSUME NEW i \in 1..n PROVE K(i) = ws[i].key /\ X(i) = ws[i].value
  <2> DEFINE v == ToBE(WordLen, ws[i].value)
  <2>1. /\ EntryV1(s, size, i) = keys[i] \o v /\ v \in Seq(Nat) /\ Len(v) = WordLen
        /\ FromBE(v) = ws[i].value
    BY <1>3, <1>12
  <2> HIDE DEF v
  <2>2. /\ SubSeq(keys[i] \o v, 1, keyLen) = keys[i]
        /\ SubSeq(keys[i] \o v, keyLen + 1, size) = v
    <3>1. keys[i] \in Seq(Nat) /\ Len(keys[i]) = keyLen
      OBVIOUS
    <3>2. /\ SubSeq(keys[i] \o v, 1, Len(keys[i])) = keys[i]
          /\ SubSeq(keys[i] \o v, Len(keys[i]) + 1, Len(keys[i]) + Len(v)) = v
      BY <2>1, <3>1, EntryParts
    <3> QED BY <2>1, <3>1, <3>2
  <2> QED BY <2>1, <2>2
<1> HIDE DEF K, X
<1>14. ps \in Seq(Write) /\ Len(ps) = n /\ KeysDiffer(ps)
       /\ \A i \in 1..n : ps[i].key = ws[i].key /\ ps[i].op = "none" /\ ps[i].value = ws[i].value
  BY PlainFacts
<1> HIDE DEF ps
<1>15. ASSUME NEW i \in 1..n
       PROVE  Insert(SubSeq(ps, 1, i - 1), K(i), "none", X(i)) = SubSeq(ps, 1, i)
  <2>1. i - 1 \in Nat /\ i - 1 < n /\ (i - 1) + 1 = i
    BY <1>1
  <2>2. Insert(SubSeq(ps, 1, i - 1), ps[(i - 1) + 1].key, ps[(i - 1) + 1].op,
               ps[(i - 1) + 1].value) = SubSeq(ps, 1, (i - 1) + 1)
    BY <1>14, <2>1, InsertAppends
  <2>3. ps[i].key = K(i) /\ ps[i].op = "none" /\ ps[i].value = X(i)
    BY <1>13, <1>14
  <2> QED BY <2>1, <2>2, <2>3
<1> DEFINE f == [i \in 0..n |-> SubSeq(ps, 1, i)]
           g == CHOOSE g : g = [i \in 0..n |-> IF i = 0 THEN <<>>
                                               ELSE Insert(g[i - 1], K(i), "none", X(i))]
<1>16. SubSeq(ps, 1, 0) = <<>>
  BY <1>14, SubSeqEmpty
<1>17. g = [i \in 0..n |-> IF i = 0 THEN <<>> ELSE Insert(g[i - 1], K(i), "none", X(i))]
  <2>1. ASSUME NEW i \in 0..n
        PROVE  f[i] = IF i = 0 THEN <<>> ELSE Insert(f[i - 1], K(i), "none", X(i))
    <3>1. CASE i = 0
      BY <1>16, <3>1
    <3>2. CASE i # 0
      <4>1. i \in 1..n /\ i - 1 \in 0..n
        BY <1>1, <3>2
      <4>2. f[i] = SubSeq(ps, 1, i) /\ f[i - 1] = SubSeq(ps, 1, i - 1)
        BY <4>1
      <4> QED BY <1>15, <3>2, <4>1, <4>2
    <3> QED BY <3>1, <3>2
  <2>2. f = [i \in 0..n |-> f[i]]
    OBVIOUS
  <2> HIDE DEF f
  <2>3. f = [i \in 0..n |-> IF i = 0 THEN <<>> ELSE Insert(f[i - 1], K(i), "none", X(i))]
    BY <2>1, <2>2
  <2> QED BY <2>3, Zenon
<1>18. ChangesV1(s, keyLen, lowFirst) = g[n]
  <2> DEFINE count == (Len(s) - 4) \div size
             h == CHOOSE h : h = [i \in 0..count |-> IF i = 0 THEN <<>>
                                    ELSE Insert(h[i - 1], K(i), "none", X(i))]
  <2>1. ChangesV1(s, keyLen, lowFirst) = h[count]
    BY Zenon DEF ChangesV1, K, X, KeyV1
  <2>2. count = n
    BY <1>11
  <2> HIDE DEF count
  <2> QED BY <2>1, <2>2
<1> HIDE DEF g, f
<1> DEFINE Good == {i \in 0..n : g[i] = SubSeq(ps, 1, i)}
<1>19. 0..n \subseteq Good
  <2>1. 0 \in Good
    <3>1. 0 \in 0..n
      BY <1>1
    <3> QED BY <1>16, <1>17, <3>1
  <2>2. ASSUME NEW i \in 0..(n - 1), i \in Good PROVE i + 1 \in Good
    <3>1. i + 1 \in 0..n /\ i + 1 # 0 /\ (i + 1) - 1 = i /\ i + 1 \in 1..n
      BY <1>1
    <3>2. g[i + 1] = Insert(g[(i + 1) - 1], K(i + 1), "none", X(i + 1))
      BY <1>17, <3>1
    <3>3. g[(i + 1) - 1] = SubSeq(ps, 1, (i + 1) - 1)
      BY <2>2, <3>1
    <3>4. g[i + 1] = SubSeq(ps, 1, i + 1)
      BY <1>15, <3>1, <3>2, <3>3
    <3> QED BY <3>1, <3>4
  <2> HIDE DEF Good
  <2> QED BY <1>1, <2>1, <2>2, BoundedInduction
<1>20. g[n] = ps
  <2>1. n \in 0..n
    BY <1>1
  <2>2. g[n] = SubSeq(ps, 1, n)
    BY <1>19, <2>1
  <2>3. SubSeq(ps, 1, n) = ps
    BY <1>14
  <2> QED BY <2>2, <2>3
<1> QED BY <1>11, <1>18, <1>20 DEF ReadsV1, s, ps

-----------------------------------------------------------------------------
(***************************************************************************)
(* The inductive invariant: in each section the pointer is where the next  *)
(* field of the section is, and all that comes before it has been read.    *)
(***************************************************************************)
NoWrites  == initialChanges = <<>> /\ repeatedChanges = <<>>
NoCodes   == factoryDeps = <<>> /\ NoWrites
OnlyCodes == factoryDeps = batch.codes /\ NoWrites

AtMessage ==
  /\ left \in 0..Len(batch.messages) /\ NoCodes
  /\ pos = MessagePos(batch, Len(batch.messages) - left)

AtBytecode ==
  /\ left \in 0..Len(batch.codes) /\ NoWrites
  /\ pos = BytecodePos(batch, Len(batch.codes) - left)
  /\ factoryDeps = SubSeq(batch.codes, 1, Len(batch.codes) - left)

AtInitial ==
  /\ left \in 0..Len(batch.initial) /\ width = batch.width
  /\ Aligned(pos, InitialPos(batch, Len(batch.initial) - left))
  /\ factoryDeps = batch.codes
  /\ initialChanges = SubSeq(batch.initial, 1, Len(batch.initial) - left)
  /\ repeatedChanges = <<>>

AtRepeated ==
  /\ width = batch.width /\ factoryDeps = batch.codes /\ initialChanges = batch.initial
  /\ \E j \in 0..Len(batch.repeated) :
       /\ Aligned(pos, RepeatedPos(batch, j))
       /\ repeatedChanges = SubSeq(batch.repeated, 1, j)

InSection ==
  /\ section = "logs"      => pos = 0 /\ NoCodes
  /\ section = "messages"  => pos = MessagesPos(batch) /\ NoCodes
  /\ section = "message"   => AtMessage
  /\ section = "bytecodes" => pos = BytecodesPos(batch) /\ NoCodes
  /\ section = "bytecode"  => AtBytecode
  /\ section = "version"   => pos = VersionPos(batch) /\ OnlyCodes
  /\ section = "length"    => pos = VersionPos(batch) + 1 /\ OnlyCodes
  /\ section = "width"     => pos = VersionPos(batch) + 4 /\ OnlyCodes
  /\ section = "count"     => pos = VersionPos(batch) + 5 /\ OnlyCodes /\ width = batch.width
  /\ section = "initial"   => AtInitial
  /\ section = "repeated"  => AtRepeated

Sections ==
  {"logs", "messages", "message", "bytecodes", "bytecode", "version", "length", "width",
   "count", "initial", "repeated"}

Typed ==
  /\ batch \in Committed /\ format \in {"V1", "V2", "V3calldata", "V3blob"}
  /\ bytes \in Seq(Nat) /\ pos \in Nat

Started == section = "source" /\ bytes = <<>> /\ pos = 0 /\ NoCodes /\ verdict = "reading"

Reading ==
  section \in Sections /\ InSection
  /\ format # "V1" /\ bytes = Resolved /\ verdict = "reading"

Ended == section = "end" /\ BlockIsTheBatch /\ FailuresAreJustified

ParserInv == Typed /\ (Started \/ Reading \/ Ended)

\* A section that is read is being read.
LEMMA IsReading ==
  ASSUME ParserInv, section \in Sections
  PROVE  Typed /\ Reading
BY DEF ParserInv, Started, Ended, Sections

\* What is known of the bytes while they are read.
LEMMA WhatIsRead ==
  ASSUME Typed, Reading
  PROVE  /\ Layout(Pubdata(batch), batch) /\ Trimmed(bytes, Pubdata(batch))
         /\ Len(bytes) \in Nat /\ pos \in Nat
         /\ VersionPos(batch) + 5 <= Len(bytes)
         /\ (format = "V3blob" /\ ZeroIsLast(batch)) \/ Reaches(batch)
<1>1. batch \in Committed /\ format \in {"V2", "V3calldata", "V3blob"} /\ bytes = Resolved
  BY DEF Typed, Reading
<1>2. Layout(Pubdata(batch), batch)
  BY <1>1, PubdataLayout
<1>3. /\ Trimmed(bytes, Pubdata(batch))
      /\ format # "V3blob" => Len(bytes) = Len(Pubdata(batch))
  BY <1>1, ResolvedFacts
<1>4. Len(bytes) \in Nat /\ pos \in Nat
  BY DEF Typed
<1> QED BY <1>1, <1>2, <1>3, <1>4, HeaderReaches, WritesReach

\* A field that is there is read, and the pointer moves by its length.
LEMMA ReadExact ==
  ASSUME Typed, Reading, NEW n \in Nat, n > 0, pos + n <= Len(bytes)
  PROVE  /\ ~Torn(n) /\ Past(n) = pos + n
         /\ \A s \in Seq(Nat) : Len(s) = n /\ Holds(Pubdata(batch), pos, s) => Field(n) = s
         /\ \A v \in Nat : Fits(v, n) /\ Holds(Pubdata(batch), pos, ToBE(n, v))
                             => FromBE(Field(n)) = v
<1> DEFINE t == Pubdata(batch)
<1>1. Trimmed(bytes, t) /\ Len(bytes) \in Nat /\ pos \in Nat
  BY WhatIsRead
<1>2. ~AtEnd /\ ~Torn(n)
  BY <1>1 DEF AtEnd, Torn
<1>3. Aligned(pos, pos)
  BY <1>1 DEF Aligned
<1>4. ASSUME NEW v \in Nat, Fits(v, n), Holds(t, pos, ToBE(n, v))
      PROVE  FromBE(Field(n)) = v
  <2> HIDE DEF t
  <2> QED BY <1>1, <1>2, <1>3, <1>4, ReadNumber
<1>5. ASSUME NEW s \in Seq(Nat), Len(s) = n, Holds(t, pos, s) PROVE Field(n) = s
  <2> HIDE DEF t
  <2>1. Field(Len(s)) = s
    BY <1>1, <1>2, <1>3, <1>5, ReadField
  <2> QED BY <1>5, <2>1
<1> QED BY <1>2, <1>4, <1>5 DEF Past

\* The order of the sections before the diffs, all of which are there.
LEMMA SectionsInOrder ==
  ASSUME Typed, Reading
  PROVE  /\ 4 <= MessagesPos(batch) /\ MessagesPos(batch) + 4 <= BytecodesPos(batch)
         /\ BytecodesPos(batch) + 4 <= VersionPos(batch)
         /\ VersionPos(batch) + 5 <= Len(bytes)
         /\ MessagesPos(batch) \in Nat /\ BytecodesPos(batch) \in Nat
         /\ VersionPos(batch) \in Nat /\ Len(bytes) \in Nat
<1> DEFINE c == batch
<1>1. c \in Committed
  BY DEF Typed
<1>2. /\ MessagesPos(c) \in Nat /\ MessagesPos(c) >= 4 /\ BytecodesPos(c) \in Nat
      /\ VersionPos(c) \in Nat /\ Len(bytes) \in Nat
      /\ MessagePos(c, 0) = MessagesPos(c) + 4 /\ VersionPos(c) + 5 <= Len(bytes)
  BY WhatIsRead DEF Layout
<1>3. 0 \in 0..Len(c.messages) /\ 0 \in 0..Len(c.codes)
  <2>1. c.messages \in Seq(Seq(Byte)) /\ c.codes \in Seq(Seq(Byte))
    BY <1>1, BatchFacts
  <2>2. Len(c.messages) \in Nat /\ Len(c.codes) \in Nat
    BY <2>1, Elements
  <2> QED BY <2>2
<1>4. /\ MessagePos(c, 0) <= BytecodesPos(c)
      /\ BytecodePos(c, 0) \in Nat
      /\ BytecodesPos(c) + 4 <= BytecodePos(c, 0) /\ BytecodePos(c, 0) <= VersionPos(c)
  BY <1>1, <1>3, PositionsGrow
<1> HIDE DEF c
<1>5. BytecodesPos(c) + 4 <= VersionPos(c)
  BY <1>2, <1>4
<1> QED BY <1>2, <1>4, <1>5 DEF c

\* The step leads to a state in which reading goes on.
LEMMA GoesOn ==
  ASSUME Typed, Reading, UNCHANGED <<inputVars, bytes, verdict>>, pos' \in Nat,
         section' \in Sections, InSection'
  PROVE  ParserInv'
<1>1. batch' = batch /\ format' = format /\ bytes' = bytes /\ verdict' = verdict
  BY DEF inputVars
<1>2. Resolved' = Resolved
  BY <1>1 DEF Resolved
<1>3. Typed'
  BY <1>1 DEF Typed
<1>4. Reading'
  BY <1>1, <1>2 DEF Reading, Sections
<1> QED BY <1>3, <1>4 DEF ParserInv

\* The step is the last one.
LEMMA Ends ==
  ASSUME Typed, UNCHANGED <<inputVars, bytes>>, pos' \in Nat, section' = "end",
         BlockIsTheBatch', FailuresAreJustified'
  PROVE  ParserInv'
<1>1. batch' = batch /\ format' = format /\ bytes' = bytes
  BY DEF inputVars
<1>2. Typed'
  BY <1>1 DEF Typed
<1> QED BY <1>2 DEF ParserInv, Ended

-----------------------------------------------------------------------------
(***************************************************************************)
(* Each step preserves the invariant.                                      *)
(***************************************************************************)
LEMMA ResolveStep ==
  ASSUME ParserInv, Resolve
  PROVE  ParserInv'
<1>1. section = "source" /\ format # "V1" /\ bytes' = Resolved /\ section' = "logs"
      /\ UNCHANGED <<batch, format, pos, blockVars, verdict>>
  BY DEF Resolve, inputVars
<1>2. Typed /\ Started
  BY <1>1 DEF ParserInv, Reading, Ended, Sections
<1>3. bytes' \in Seq(Nat)
  <2>1. batch \in Committed /\ format \in {"V2", "V3calldata", "V3blob"}
    BY <1>1, <1>2 DEF Typed
  <2>2. Trimmed(Resolved, Pubdata(batch))
    BY <2>1, ResolvedFacts
  <2> QED BY <1>1, <2>2 DEF Trimmed
<1>4. Typed'
  BY <1>1, <1>2, <1>3 DEF Typed
<1>5. pos' = 0 /\ NoCodes' /\ verdict' = "reading"
  BY <1>1, <1>2 DEF Started, NoCodes, NoWrites, blockVars
<1>6. Resolved' = Resolved
  BY <1>1 DEF Resolved
<1>7. InSection'
  BY <1>1, <1>5 DEF InSection
<1>8. Reading'
  BY <1>1, <1>5, <1>6, <1>7 DEF Reading, Sections
<1> QED BY <1>4, <1>8 DEF ParserInv

\* The two byte strings of V1 hold the writes.
LEMMA BothReadV1 ==
  ASSUME NEW c \in Committed
  PROVE  /\ ReadsV1(InitialV1(c), c.initial, WordLen, TRUE)
         /\ ReadsV1(RepeatedV1(c), c.repeated, 8, FALSE)
<1>1. c.initial \in Seq(Write) /\ c.repeated \in Seq(Write) /\ WellFormed(c)
      /\ WordLen \in Nat
  BY BatchFacts, FormatAssumption
<1>2. /\ DOMAIN c.initial = 1..Len(c.initial) /\ DOMAIN c.repeated = 1..Len(c.repeated)
      /\ \A i \in 1..Len(c.initial) : c.initial[i].key \in Nat
      /\ \A i \in 1..Len(c.repeated) : c.repeated[i].key \in Nat
  <2>1. \A w \in Write : w.key \in Nat
    BY DEF Write
  <2> QED BY <1>1, <2>1, Elements
<1>3. ReadsV1(InitialV1(c), c.initial, WordLen, TRUE)
  <2> DEFINE keys == [i \in DOMAIN c.initial |-> ToLE(WordLen, c.initial[i].key)]
  <2>1. ASSUME NEW i \in 1..Len(c.initial)
        PROVE  /\ keys[i] \in Seq(Nat) /\ Len(keys[i]) = WordLen
               /\ FromBE(KeyV1(keys[i], TRUE)) = c.initial[i].key
               /\ Fits(c.initial[i].value, WordLen)
    <3> DEFINE k == c.initial[i].key
    <3>1. k \in Nat /\ Fits(k, WordLen) /\ Fits(c.initial[i].value, WordLen)
      BY <1>1, <1>2 DEF WellFormed, ValueFits
    <3>2. keys[i] = ToLE(WordLen, k)
      BY <1>2
    <3> HIDE DEF k, keys
    <3>3. /\ ToLE(WordLen, k) \in Seq(Nat) /\ Len(ToLE(WordLen, k)) = WordLen
          /\ FromBE(Reverse(ToLE(WordLen, k))) = k
      BY <1>1, <3>1, ReverseToLE, ToBEFacts
    <3> QED BY <3>1, <3>2, <3>3 DEF KeyV1, k
  <2>2. InitialV1(c) = EntriesV1(keys, c.initial) /\ KeysDiffer(c.initial)
    BY <1>1 DEF InitialV1, WellFormed
  <2> HIDE DEF keys
  <2>3. TRUE \in BOOLEAN
    OBVIOUS
  <2> QED BY <1>1, <2>1, <2>2, <2>3, ReadEntriesV1
<1>4. ReadsV1(RepeatedV1(c), c.repeated, 8, FALSE)
  <2> DEFINE keys == [i \in DOMAIN c.repeated |-> ToBE(8, c.repeated[i].key)]
  <2>1. ASSUME NEW i \in 1..Len(c.repeated)
        PROVE  /\ keys[i] \in Seq(Nat) /\ Len(keys[i]) = 8
               /\ FromBE(KeyV1(keys[i], FALSE)) = c.repeated[i].key
               /\ Fits(c.repeated[i].value, WordLen)
    <3> DEFINE k == c.repeated[i].key
    <3>1. k \in Nat /\ Fits(k, 8) /\ Fits(c.repeated[i].value, WordLen)
      BY <1>1, <1>2 DEF WellFormed, ValueFits
    <3>2. keys[i] = ToBE(8, k)
      BY <1>2
    <3> HIDE DEF k, keys
    <3>3. /\ ToBE(8, k) \in Seq(Nat) /\ Len(ToBE(8, k)) = 8 /\ FromBE(ToBE(8, k)) = k
      BY <3>1, ToBEFacts
    <3> QED BY <3>1, <3>2, <3>3 DEF KeyV1, k
  <2>2. RepeatedV1(c) = EntriesV1(keys, c.repeated) /\ KeysDiffer(c.repeated)
    BY <1>1 DEF RepeatedV1, WellFormed
  <2> HIDE DEF keys
  <2>3. FALSE \in BOOLEAN /\ 8 \in Nat
    OBVIOUS
  <2> QED BY <1>1, <2>1, <2>2, <2>3, ReadEntriesV1
<1> QED BY <1>3, <1>4

\* V1 reads all of its writes at once, or cannot have the lengths it has.
LEMMA ParseV1Step ==
  ASSUME ParserInv, ParseV1
  PROVE  ParserInv'
<1>1. section = "source" /\ format = "V1" /\ section' = "end"
      /\ UNCHANGED <<inputVars, bytes, pos>>
  BY DEF ParseV1
<1>2. Typed
  BY DEF ParserInv
<1>3. batch \in Committed /\ pos' \in Nat
  BY <1>1, <1>2 DEF Typed
<1>4. batch' = batch /\ format' = "V1"
  BY <1>1 DEF inputVars
<1> DEFINE i1 == InitialV1(batch)
           r1 == RepeatedV1(batch)
<1>5. /\ (Len(i1) - 4) % (WordLen + WordLen) = 0
      /\ (Len(r1) - 4) % (8 + WordLen) = 0
      /\ ChangesV1(i1, WordLen, TRUE) = Plain(batch.initial)
      /\ ChangesV1(r1, 8, FALSE) = Plain(batch.repeated)
  BY <1>3, BothReadV1 DEF ReadsV1
<1>6. 2 * WordLen = WordLen + WordLen
  BY FormatAssumption
<1>7. /\ initialChanges' = Plain(batch.initial) /\ repeatedChanges' = Plain(batch.repeated)
      /\ factoryDeps' = batch.codes /\ verdict' = "done"
  <2> HIDE DEF i1, r1
  <2>1. IF (Len(i1) - 4) % (2 * WordLen) # 0
        THEN verdict' = "error" /\ UNCHANGED blockVars
        ELSE IF (Len(r1) - 4) % (8 + WordLen) # 0
        THEN verdict' = "panic" /\ UNCHANGED blockVars
        ELSE /\ initialChanges' = ChangesV1(i1, WordLen, TRUE)
             /\ repeatedChanges' = ChangesV1(r1, 8, FALSE)
             /\ factoryDeps' = batch.codes
             /\ verdict' = "done"
    BY DEF ParseV1, i1, r1
  <2>2. ~((Len(i1) - 4) % (2 * WordLen) # 0) /\ ~((Len(r1) - 4) % (8 + WordLen) # 0)
    BY <1>5, <1>6
  <2> QED BY <1>5, <2>1, <2>2, Zenon
<1>8. BlockIsTheBatch'
  BY <1>4, <1>7 DEF BlockIsTheBatch, AsCommitted, Plain
<1>9. FailuresAreJustified'
  BY <1>7 DEF FailuresAreJustified
<1> QED BY <1>1, <1>2, <1>3, <1>8, <1>9, Ends

\* The logs are skipped as a whole.
LEMMA SkipLogsStep ==
  ASSUME ParserInv, SkipLogs
  PROVE  ParserInv'
<1>1. section = "logs" /\ section' = "messages" /\ pos' = After + LogSize * Number
      /\ UNCHANGED <<inputVars, bytes, blockVars, verdict>>
  BY DEF SkipLogs, Begins
<1>2. Typed /\ Reading
  BY <1>1, IsReading DEF Sections
<1>3. pos = 0 /\ NoCodes
  BY <1>1, <1>2 DEF Reading, InSection
<1>4. batch.logs \in Nat /\ Fits(batch.logs, 4) /\ Holds(Pubdata(batch), 0, ToBE(4, batch.logs))
  <2>1. batch \in Committed /\ Layout(Pubdata(batch), batch)
    BY <1>2, WhatIsRead DEF Typed
  <2> QED BY <2>1, BatchFacts DEF Layout, WellFormed
<1>5. pos + 4 <= Len(bytes)
  BY <1>2, <1>3, SectionsInOrder
<1>6. FieldLen = 4
  BY <1>1 DEF FieldLen
<1>7. Past(4) = pos + 4 /\ FromBE(Field(4)) = batch.logs
  BY <1>2, <1>3, <1>4, <1>5, ReadExact
<1>8. After = 4 /\ Number = batch.logs
  BY <1>3, <1>6, <1>7 DEF After, Number
<1>9. pos' = MessagesPos(batch) /\ MessagesPos(batch) \in Nat
  <2>1. LogSize \in Nat
    BY FormatAssumption
  <2>2. LogSize * batch.logs = batch.logs * LogSize
    BY <1>4, <2>1
  <2>3. MessagesPos(batch) \in Nat
    BY <1>2, SectionsInOrder
  <2> QED BY <1>1, <1>8, <2>2, <2>3 DEF MessagesPos
<1>10. pos' = MessagesPos(batch)' /\ NoCodes'
  BY <1>1, <1>3, <1>9 DEF NoCodes, NoWrites, blockVars, inputVars, MessagesPos
<1>11. InSection'
  BY <1>1, <1>10 DEF InSection
<1> QED BY <1>1, <1>2, <1>9, <1>11, GoesOn DEF Sections

\* The entries of the sections of byte strings.
LEMMA StringsFacts ==
  ASSUME Typed
  PROVE  /\ Len(batch.messages) \in Nat /\ Len(batch.codes) \in Nat
         /\ batch.codes \in Seq(Seq(Byte))
         /\ Fits(Len(batch.messages), 4) /\ Fits(Len(batch.codes), 4)
         /\ \A i \in 1..Len(batch.messages) :
              Fits(Len(batch.messages[i]), 4) /\ Len(batch.messages[i]) \in Nat
         /\ \A i \in 1..Len(batch.codes) :
              Fits(Len(batch.codes[i]), 4) /\ Len(batch.codes[i]) \in Nat
<1>1. batch \in Committed
  BY DEF Typed
<1>2. batch.messages \in Seq(Seq(Byte)) /\ batch.codes \in Seq(Seq(Byte)) /\ WellFormed(batch)
  BY <1>1, BatchFacts
<1>3. /\ Len(batch.messages) \in Nat /\ Len(batch.codes) \in Nat
      /\ DOMAIN batch.messages = 1..Len(batch.messages)
      /\ DOMAIN batch.codes = 1..Len(batch.codes)
      /\ \A i \in 1..Len(batch.messages) : batch.messages[i] \in Seq(Byte)
      /\ \A i \in 1..Len(batch.codes) : batch.codes[i] \in Seq(Byte)
  BY <1>2, Elements
<1>4. /\ \A i \in 1..Len(batch.messages) : Len(batch.messages[i]) \in Nat
      /\ \A i \in 1..Len(batch.codes) : Len(batch.codes[i]) \in Nat
  BY <1>3, Elements
<1> QED BY <1>2, <1>3, <1>4 DEF WellFormed

\* The counts that are read are those of the messages and the bytecodes.
LEMMA CountEntriesStep ==
  ASSUME ParserInv, CountEntries
  PROVE  ParserInv'
<1>1. pos' = After /\ UNCHANGED <<inputVars, bytes, blockVars, verdict>>
      /\ section \in {"messages", "bytecodes"}
  BY DEF CountEntries
<1>2. Typed /\ Reading /\ batch' = batch
  BY <1>1, IsReading DEF Sections, inputVars
<1>3. FieldLen = 4
  BY <1>1 DEF FieldLen
<1>4. Layout(Pubdata(batch), batch)
  BY <1>2, WhatIsRead
<1>5. CASE section = "messages"
  <2> DEFINE n == Len(batch.messages)
  <2>1. pos = MessagesPos(batch) /\ NoCodes
    BY <1>2, <1>5 DEF Reading, InSection
  <2>2. pos + 4 <= Len(bytes)
    BY <1>2, <2>1, SectionsInOrder
  <2>3. Past(4) = pos + 4 /\ FromBE(Field(4)) = n
    <3>1. n \in Nat /\ Fits(n, 4) /\ Holds(Pubdata(batch), pos, ToBE(4, n))
      BY <1>2, <1>4, <2>1, StringsFacts DEF Layout
    <3> QED BY <1>2, <2>2, <3>1, ReadExact
  <2>4. section' = "message" /\ left' = n /\ pos' = pos + 4
    BY <1>1, <1>3, <1>5, <2>3 DEF CountEntries, Begins, After, Number
  <2>5. n \in Nat /\ MessagePos(batch, 0) = pos + 4 /\ pos + 4 \in Nat
    <3>1. pos \in Nat
      BY <1>2, WhatIsRead
    <3>2. n \in Nat
      BY <1>2, StringsFacts
    <3>3. MessagePos(batch, 0) = MessagesPos(batch) + 4
      BY <1>4 DEF Layout
    <3> QED BY <2>1, <3>1, <3>2, <3>3
  <2>6. AtMessage'
    <3>1. NoCodes' /\ left' \in 0..n
      BY <1>1, <2>1, <2>4, <2>5 DEF NoCodes, NoWrites, blockVars
    <3>2. n - left' = 0
      BY <2>4, <2>5
    <3>3. pos' = MessagePos(batch, n - left')
      BY <2>4, <2>5, <3>2
    <3> QED BY <1>2, <3>1, <3>3 DEF AtMessage
  <2>7. InSection'
    BY <2>4, <2>6 DEF InSection
  <2> QED BY <1>1, <1>2, <2>4, <2>5, <2>7, GoesOn DEF Sections
<1>6. CASE section = "bytecodes"
  <2> DEFINE n == Len(batch.codes)
  <2>1. pos = BytecodesPos(batch) /\ NoCodes
    BY <1>2, <1>6 DEF Reading, InSection
  <2>2. pos + 4 <= Len(bytes)
    BY <1>2, <2>1, SectionsInOrder
  <2>3. Past(4) = pos + 4 /\ FromBE(Field(4)) = n
    <3>1. n \in Nat /\ Fits(n, 4) /\ Holds(Pubdata(batch), pos, ToBE(4, n))
      BY <1>2, <1>4, <2>1, StringsFacts DEF Layout
    <3> QED BY <1>2, <2>2, <3>1, ReadExact
  <2>4. section' = "bytecode" /\ left' = n /\ pos' = pos + 4
    BY <1>1, <1>3, <1>6, <2>3 DEF CountEntries, Begins, After, Number
  <2>5. n \in Nat /\ BytecodePos(batch, 0) = pos + 4 /\ pos + 4 \in Nat
    <3>1. pos \in Nat
      BY <1>2, WhatIsRead
    <3>2. n \in Nat
      BY <1>2, StringsFacts
    <3>3. BytecodePos(batch, 0) = BytecodesPos(batch) + 4
      BY <1>4 DEF Layout
    <3> QED BY <2>1, <3>1, <3>2, <3>3
  <2>6. AtBytecode'
    <3>1. NoCodes' /\ left' \in 0..n
      BY <1>1, <2>1, <2>4, <2>5 DEF NoCodes, NoWrites, blockVars
    <3>2. n - left' = 0
      BY <2>4, <2>5
    <3>3. pos' = BytecodePos(batch, n - left')
      BY <2>4, <2>5, <3>2
    <3>4. SubSeq(batch.codes, 1, 0) = <<>>
      BY SubSeqEmpty
    <3>5. factoryDeps' = SubSeq(batch.codes, 1, n - left')
      BY <3>1, <3>2, <3>4 DEF NoCodes
    <3> QED BY <1>2, <3>1, <3>3, <3>5 DEF AtBytecode, NoCodes
  <2>7. InSection'
    BY <2>4, <2>6 DEF InSection
  <2> QED BY <1>1, <1>2, <2>4, <2>5, <2>7, GoesOn DEF Sections
<1> QED BY <1>1, <1>5, <1>6

\* Each message is skipped as a whole.
LEMMA SkipMessageStep ==
  ASSUME ParserInv, SkipMessage
  PROVE  ParserInv'
<1> DEFINE n == Len(batch.messages)
           i == n - left + 1
           s == batch.messages[i]
<1>1. section = "message" /\ left > 0 /\ pos' = After + Number /\ left' = left - 1
      /\ UNCHANGED <<inputVars, bytes, section, blockVars, verdict>>
  BY DEF SkipMessage
<1>2. Typed /\ Reading /\ batch' = batch
  BY <1>1, IsReading DEF Sections, inputVars
<1>3. left \in 0..n /\ NoCodes /\ pos = MessagePos(batch, n - left)
  BY <1>1, <1>2 DEF Reading, InSection, AtMessage
<1>4. n \in Nat /\ i \in 1..n /\ i - 1 = n - left /\ n - left' = i /\ left' \in 0..n /\ i \in 0..n
  <2>1. n \in Nat
    BY <1>2, StringsFacts
  <2> HIDE DEF n
  <2> QED BY <1>1, <1>3, <2>1
<1> HIDE DEF i
<1>5. /\ FramedHolds(Pubdata(batch), pos, s, MessagePos(batch, i))
      /\ Fits(Len(s), 4) /\ Len(s) \in Nat
  <2>1. Layout(Pubdata(batch), batch)
    BY <1>2, WhatIsRead
  <2>2. FramedHolds(Pubdata(batch), MessagePos(batch, i - 1), s, MessagePos(batch, i))
    BY <1>4, <2>1 DEF Layout
  <2> QED BY <1>2, <1>3, <1>4, <2>2, StringsFacts
<1>6. /\ Holds(Pubdata(batch), pos, ToBE(4, Len(s))) /\ MessagePos(batch, i) = pos + 4 + Len(s)
      /\ MessagePos(batch, i) \in Nat /\ pos \in Nat
  BY <1>5 DEF FramedHolds
<1>7. pos + 4 <= Len(bytes)
  <2>1. MessagePos(batch, i) <= BytecodesPos(batch)
    BY <1>2, <1>4, PositionsGrow DEF Typed
  <2>2. BytecodesPos(batch) + 4 <= VersionPos(batch) /\ VersionPos(batch) + 5 <= Len(bytes)
        /\ BytecodesPos(batch) \in Nat /\ VersionPos(batch) \in Nat /\ Len(bytes) \in Nat
    BY <1>2, SectionsInOrder
  <2> HIDE DEF s
  <2> QED BY <1>5, <1>6, <2>1, <2>2
<1>8. FieldLen = 4
  BY <1>1 DEF FieldLen
<1>9. Past(4) = pos + 4 /\ FromBE(Field(4)) = Len(s)
  BY <1>2, <1>5, <1>6, <1>7, ReadExact
<1>10. pos' = MessagePos(batch, i)
  BY <1>1, <1>6, <1>8, <1>9 DEF After, Number
<1>11. AtMessage'
  <2>1. NoCodes' /\ left' \in 0..Len(batch'.messages)
        /\ pos' = MessagePos(batch', Len(batch'.messages) - left')
    BY <1>1, <1>2, <1>3, <1>4, <1>10 DEF NoCodes, NoWrites, blockVars
  <2> QED BY <2>1 DEF AtMessage
<1>12. InSection'
  BY <1>1, <1>11 DEF InSection
<1> QED BY <1>1, <1>2, <1>6, <1>10, <1>12, GoesOn DEF Sections

\* Each bytecode that is read is the next one.
LEMMA ReadBytecodeStep ==
  ASSUME ParserInv, ReadBytecode
  PROVE  ParserInv'
<1> DEFINE n == Len(batch.codes)
           i == n - left + 1
           s == batch.codes[i]
<1>1. /\ section = "bytecode" /\ left > 0 /\ pos' = After + Number /\ left' = left - 1
      /\ factoryDeps' = Append(factoryDeps, From(After, Number))
      /\ UNCHANGED <<inputVars, bytes, section, initialChanges, repeatedChanges, verdict>>
  BY DEF ReadBytecode
<1>2. Typed /\ Reading /\ batch' = batch
  BY <1>1, IsReading DEF Sections, inputVars
<1>3. left \in 0..n /\ NoWrites /\ pos = BytecodePos(batch, n - left)
      /\ factoryDeps = SubSeq(batch.codes, 1, n - left)
  BY <1>1, <1>2 DEF Reading, InSection, AtBytecode
<1>4. n \in Nat /\ i \in 1..n /\ i - 1 = n - left /\ n - left' = i /\ left' \in 0..n
      /\ i \in 0..n /\ n - left \in 0..n /\ n - left < n
  <2>1. n \in Nat
    BY <1>2, StringsFacts
  <2> HIDE DEF n
  <2> QED BY <1>1, <1>3, <2>1
<1>5. Append(SubSeq(batch.codes, 1, n - left), s) = SubSeq(batch.codes, 1, i)
  <2>1. batch.codes \in Seq(Seq(Byte))
    BY <1>2, StringsFacts
  <2> QED BY <1>4, <2>1, PrefixFacts
<1> HIDE DEF i
<1>6. /\ FramedHolds(Pubdata(batch), pos, s, BytecodePos(batch, i))
      /\ Fits(Len(s), 4) /\ Len(s) \in Nat
  <2>1. Layout(Pubdata(batch), batch)
    BY <1>2, WhatIsRead
  <2>2. FramedHolds(Pubdata(batch), BytecodePos(batch, i - 1), s, BytecodePos(batch, i))
    BY <1>4, <2>1 DEF Layout
  <2> QED BY <1>2, <1>3, <1>4, <2>2, StringsFacts
<1>7. /\ Holds(Pubdata(batch), pos, ToBE(4, Len(s))) /\ Holds(Pubdata(batch), pos + 4, s)
      /\ BytecodePos(batch, i) = pos + 4 + Len(s) /\ s \in Seq(Nat)
      /\ BytecodePos(batch, i) \in Nat /\ pos \in Nat
  BY <1>6 DEF FramedHolds
<1> HIDE DEF s
<1>8. pos + 4 <= Len(bytes) /\ pos + 4 + Len(s) <= Len(bytes) /\ Len(bytes) \in Nat
  <2>1. BytecodePos(batch, i) <= VersionPos(batch)
    BY <1>2, <1>4, PositionsGrow DEF Typed
  <2>2. VersionPos(batch) + 5 <= Len(bytes) /\ VersionPos(batch) \in Nat /\ Len(bytes) \in Nat
    BY <1>2, SectionsInOrder
  <2> QED BY <1>6, <1>7, <2>1, <2>2
<1>9. FieldLen = 4
  BY <1>1 DEF FieldLen
<1>10. Past(4) = pos + 4 /\ FromBE(Field(4)) = Len(s)
  BY <1>2, <1>6, <1>7, <1>8, ReadExact
<1>11. After = pos + 4 /\ Number = Len(s) /\ pos' = BytecodePos(batch, i)
  BY <1>1, <1>7, <1>9, <1>10 DEF After, Number
<1>12. From(pos + 4, Len(s)) = s
  <2> DEFINE r == From(pos + 4, Len(s))
  <2>1. Trimmed(bytes, Pubdata(batch)) /\ pos + 4 \in Nat
    BY <1>2, <1>7, WhatIsRead
  <2>2. Part(r, pos + 4, Len(s))
    BY <1>6, <1>8, <2>1, FromFacts DEF Trimmed
  <2> HIDE DEF r
  <2>3. r \in Seq(Nat) /\ Len(r) = Len(s) /\ \A j \in 1..Len(s) : bytes[pos + 4 + j] = r[j]
    BY <2>2 DEF Part, Holds
  <2>4. ASSUME NEW j \in 1..Len(s) PROVE r[j] = s[j]
    <3>1. pos + 4 + j \in 1..Len(bytes)
      BY <1>6, <1>7, <1>8
    <3>2. bytes[pos + 4 + j] = Pubdata(batch)[pos + 4 + j]
      BY <2>1, <3>1 DEF Trimmed
    <3>3. Pubdata(batch)[pos + 4 + j] = s[j]
      BY <1>7 DEF Holds
    <3> QED BY <2>3, <3>2, <3>3
  <2>5. r = s
    BY <1>7, <2>3, <2>4, SeqEqual
  <2> QED BY <2>5 DEF r
<1>13. factoryDeps' = SubSeq(batch.codes, 1, i)
  BY <1>1, <1>3, <1>5, <1>11, <1>12
<1>14. AtBytecode'
  <2>1. NoWrites' /\ left' \in 0..Len(batch'.codes)
        /\ pos' = BytecodePos(batch', Len(batch'.codes) - left')
        /\ factoryDeps' = SubSeq(batch'.codes, 1, Len(batch'.codes) - left')
    BY <1>1, <1>2, <1>3, <1>4, <1>11, <1>13 DEF NoWrites
  <2> QED BY <2>1 DEF AtBytecode
<1>15. InSection'
  BY <1>1, <1>14 DEF InSection
<1> QED BY <1>1, <1>2, <1>7, <1>11, <1>15, GoesOn DEF Sections

\* A section ends where the next one begins.
LEMMA EndEntriesStep ==
  ASSUME ParserInv, EndEntries
  PROVE  ParserInv'
<1>1. left = 0 /\ UNCHANGED <<inputVars, bytes, pos, width, blockVars, verdict>>
      /\ section \in {"message", "bytecode", "initial"}
  BY DEF EndEntries
<1>2. Typed /\ Reading /\ batch' = batch /\ batch \in Committed
  BY <1>1, IsReading DEF Sections, inputVars, Typed
<1>3. pos' = pos /\ pos' \in Nat /\ width' = width /\ factoryDeps' = factoryDeps
      /\ initialChanges' = initialChanges /\ repeatedChanges' = repeatedChanges
      /\ bytes' = bytes
  BY <1>1, <1>2 DEF blockVars, Typed
<1>4. CASE section = "message"
  <2>1. section' = "bytecodes"
    BY <1>4 DEF EndEntries, Begins
  <2>2. pos = MessagePos(batch, Len(batch.messages) - 0) /\ NoCodes
    BY <1>1, <1>2, <1>4 DEF Reading, InSection, AtMessage
  <2>3. Len(batch.messages) - 0 = Len(batch.messages)
    BY <1>2, StringsFacts
  <2>4. pos' = BytecodesPos(batch') /\ NoCodes'
    BY <1>2, <1>3, <2>2, <2>3 DEF BytecodesPos, NoCodes, NoWrites
  <2>5. InSection'
    BY <2>1, <2>4 DEF InSection
  <2> QED BY <1>1, <1>2, <1>3, <2>1, <2>5, GoesOn DEF Sections
<1>5. CASE section = "bytecode"
  <2>1. section' = "version"
    BY <1>5 DEF EndEntries, Begins
  <2>2. pos = BytecodePos(batch, Len(batch.codes) - 0) /\ NoWrites
        /\ factoryDeps = SubSeq(batch.codes, 1, Len(batch.codes) - 0)
    BY <1>1, <1>2, <1>5 DEF Reading, InSection, AtBytecode
  <2>3. Len(batch.codes) - 0 = Len(batch.codes)
        /\ SubSeq(batch.codes, 1, Len(batch.codes)) = batch.codes
    BY <1>2, StringsFacts
  <2>4. pos' = VersionPos(batch') /\ OnlyCodes'
    BY <1>2, <1>3, <2>2, <2>3 DEF VersionPos, OnlyCodes, NoWrites
  <2>5. InSection'
    BY <2>1, <2>4 DEF InSection
  <2> QED BY <1>1, <1>2, <1>3, <2>1, <2>5, GoesOn DEF Sections
<1>6. CASE section = "initial"
  <2> DEFINE n == Len(batch.initial)
  <2>1. section' = "repeated"
    BY <1>6 DEF EndEntries, Begins
  <2>2. /\ width = batch.width /\ Aligned(pos, InitialPos(batch, n - 0))
        /\ factoryDeps = batch.codes /\ initialChanges = SubSeq(batch.initial, 1, n - 0)
        /\ repeatedChanges = <<>>
    BY <1>1, <1>2, <1>6 DEF Reading, InSection, AtInitial
  <2>3. batch.initial \in Seq(Write) /\ batch.repeated \in Seq(Write)
    BY <1>2, BatchFacts
  <2>4. n - 0 = n /\ SubSeq(batch.initial, 1, n) = batch.initial
        /\ 0 \in 0..Len(batch.repeated) /\ SubSeq(batch.repeated, 1, 0) = <<>>
    BY <2>3, SubSeqEmpty
  <2>5. RepeatedPos(batch, 0) = InitialPos(batch, n)
    BY <1>2, WhatIsRead DEF Layout
  <2>6. AtRepeated'
    <3>1. Aligned(pos, RepeatedPos(batch, 0))
      BY <2>2, <2>4, <2>5
    <3>2. Aligned(pos, RepeatedPos(batch, 0))'
      BY <1>2, <1>3, <3>1 DEF Aligned
    <3>3. repeatedChanges' = SubSeq(batch'.repeated, 1, 0) /\ 0 \in 0..Len(batch'.repeated)
      BY <1>2, <1>3, <2>2, <2>4
    <3>4. width' = batch'.width /\ factoryDeps' = batch'.codes /\ initialChanges' = batch'.initial
      BY <1>2, <1>3, <2>2, <2>4
    <3> QED BY <3>2, <3>3, <3>4 DEF AtRepeated
  <2>7. InSection'
    BY <2>1, <2>6 DEF InSection
  <2> QED BY <1>1, <1>2, <1>3, <2>1, <2>7, GoesOn DEF Sections
<1> QED BY <1>1, <1>4, <1>5, <1>6

\* The version that is read is that of the batch; the diffs may all be cut off.
LEMMA ReadVersionStep ==
  ASSUME ParserInv, ReadVersion
  PROVE  ParserInv'
<1>1. section = "version" /\ pos' = After /\ UNCHANGED <<inputVars, bytes, width, blockVars>>
  BY DEF ReadVersion
<1>2. Typed /\ Reading /\ batch' = batch /\ batch \in Committed
  BY <1>1, IsReading DEF Sections, inputVars, Typed
<1>3. pos = VersionPos(batch) /\ OnlyCodes
  BY <1>1, <1>2 DEF Reading, InSection
<1>4. VersionPos(batch) \in Nat /\ VersionPos(batch) + 5 <= Len(bytes) /\ Len(bytes) \in Nat
  BY <1>2, SectionsInOrder
<1> DEFINE s == <<batch.version>>
<1>5. s \in Seq(Nat) /\ Len(s) = 1 /\ FromBE(s) = batch.version
  <2>1. batch.version \in 1..255
    BY <1>2, BatchFacts
  <2>2. batch.version \in Nat
    <3>1. \A x \in 1..255 : x \in Nat
      OBVIOUS
    <3> QED BY <2>1, <3>1
  <2> QED BY <2>2, FromBEOne
<1>6. Holds(Pubdata(batch), pos, s)
  BY <1>2, <1>3, WhatIsRead DEF Layout
<1> HIDE DEF s
<1>7. Past(1) = pos + 1 /\ Field(1) = s
  <2>1. pos + 1 <= Len(bytes)
    BY <1>3, <1>4
  <2>2. /\ Past(1) = pos + 1
        /\ \A u \in Seq(Nat) : Len(u) = 1 /\ Holds(Pubdata(batch), pos, u) => Field(1) = u
    <3>1. 1 \in Nat /\ 1 > 0
      OBVIOUS
    <3> QED BY <1>2, <2>1, <3>1, ReadExact, Zenon
  <2> QED BY <1>5, <1>6, <2>2
<1>8. FieldLen = 1
  BY <1>1 DEF FieldLen
<1>9. Number = batch.version /\ pos' = pos + 1 /\ pos' \in Nat /\ pos' < Len(bytes)
  <2>1. Number = batch.version /\ pos' = pos + 1
    BY <1>1, <1>5, <1>7, <1>8 DEF Number, After
  <2> QED BY <1>3, <1>4, <2>1
<1>10. CASE Number # 1
  <2>1. verdict' = "error" /\ section' = "end"
    BY <1>10 DEF ReadVersion, Begins
  <2>2. BlockIsTheBatch' /\ FailuresAreJustified'
    BY <1>2, <1>9, <1>10, <2>1 DEF BlockIsTheBatch, FailuresAreJustified
  <2> QED BY <1>1, <1>2, <1>9, <2>1, <2>2, Ends
<1>11. CASE Number = 1
  <2>1. section' = "length" /\ verdict' = verdict
    <3>1. ~(pos' >= Len(bytes))
      BY <1>4, <1>9
    <3> QED BY <1>11, <3>1 DEF ReadVersion, Begins
  <2>2. pos' = VersionPos(batch') + 1 /\ OnlyCodes'
    BY <1>1, <1>2, <1>3, <1>9 DEF OnlyCodes, NoWrites, blockVars
  <2>3. InSection'
    BY <2>1, <2>2 DEF InSection
  <2> QED BY <1>1, <1>2, <1>9, <2>1, <2>3, GoesOn DEF Sections
<1> QED BY <1>10, <1>11

\* So are the width and the count.
LEMMA ReadHeaderStep ==
  ASSUME ParserInv, ReadHeader
  PROVE  ParserInv'
<1>1. ~Torn(FieldLen) /\ pos' = After /\ section \in {"length", "width", "count"}
      /\ UNCHANGED <<inputVars, bytes, blockVars, verdict>>
  BY DEF ReadHeader
<1>2. Typed /\ Reading /\ batch' = batch /\ batch \in Committed /\ bytes' = bytes
  BY <1>1, IsReading DEF Sections, inputVars, Typed
<1>3. VersionPos(batch) \in Nat /\ VersionPos(batch) + 5 <= Len(bytes) /\ Len(bytes) \in Nat
  BY <1>2, SectionsInOrder
<1>4. OnlyCodes /\ OnlyCodes'
  <2>1. OnlyCodes
    BY <1>1, <1>2 DEF Reading, InSection
  <2> QED BY <1>1, <1>2, <2>1 DEF OnlyCodes, NoWrites, blockVars
<1>5. CASE section = "length"
  <2>1. section' = "width" /\ FieldLen = 3 /\ pos = VersionPos(batch) + 1
    BY <1>2, <1>5 DEF ReadHeader, Begins, FieldLen, Reading, InSection
  <2>2. pos + 3 <= Len(bytes)
    BY <1>3, <2>1
  <2>3. Past(3) = pos + 3
    BY <1>2, <2>2, ReadExact
  <2>4. pos' = VersionPos(batch) + 4 /\ pos' \in Nat
    <3>1. pos' = pos + 3
      BY <1>1, <2>1, <2>3 DEF After
    <3> QED BY <1>3, <2>1, <3>1
  <2>5. InSection'
    BY <1>2, <1>4, <2>1, <2>4 DEF InSection
  <2> QED BY <1>1, <1>2, <2>1, <2>4, <2>5, GoesOn DEF Sections
<1>6. CASE section = "width"
  <2> DEFINE s == <<batch.width>>
  <2>1. section' = "count" /\ FieldLen = 1 /\ pos = VersionPos(batch) + 4 /\ width' = Number
    BY <1>2, <1>6 DEF ReadHeader, Begins, FieldLen, Reading, InSection
  <2>2. pos + 1 <= Len(bytes)
    BY <1>3, <2>1
  <2>3. s \in Seq(Nat) /\ Len(s) = 1 /\ FromBE(s) = batch.width
    <3>1. batch.width \in 1..255
      BY <1>2, BatchFacts
    <3>2. batch.width \in Nat
      <4>1. \A x \in 1..255 : x \in Nat
        OBVIOUS
      <4> QED BY <3>1, <4>1
    <3> QED BY <3>2, FromBEOne
  <2>4. Holds(Pubdata(batch), pos, s)
    BY <1>2, <2>1, WhatIsRead DEF Layout
  <2> HIDE DEF s
  <2>5. Past(1) = pos + 1 /\ Field(1) = s
    <3>1. /\ Past(1) = pos + 1
          /\ \A u \in Seq(Nat) : Len(u) = 1 /\ Holds(Pubdata(batch), pos, u) => Field(1) = u
      <4>1. 1 \in Nat /\ 1 > 0
        OBVIOUS
      <4> QED BY <1>2, <2>2, <4>1, ReadExact, Zenon
    <3> QED BY <2>3, <2>4, <3>1
  <2>6. width' = batch.width
    BY <2>1, <2>3, <2>5 DEF Number
  <2>7. pos' = VersionPos(batch) + 5 /\ pos' \in Nat
    <3>1. pos' = pos + 1
      BY <1>1, <2>1, <2>5 DEF After
    <3> QED BY <1>3, <2>1, <3>1
  <2>8. InSection'
    BY <1>2, <1>4, <2>1, <2>6, <2>7 DEF InSection
  <2> QED BY <1>1, <1>2, <2>1, <2>7, <2>8, GoesOn DEF Sections
<1>7. CASE section = "count"
  <2> DEFINE n == Len(batch.initial)
             q == VersionPos(batch) + 5
  <2>1. /\ section' = "initial" /\ left' = Number /\ width' = width /\ FieldLen = 2
        /\ pos = q /\ width = batch.width
    BY <1>2, <1>7 DEF ReadHeader, Begins, FieldLen, Reading, InSection
  <2>2. batch.initial \in Seq(Write) /\ n \in Nat /\ Fits(n, 2)
    <3>1. batch.initial \in Seq(Write) /\ WellFormed(batch)
      BY <1>2, BatchFacts
    <3> QED BY <3>1, Elements DEF WellFormed
  <2>3. /\ Trimmed(bytes, Pubdata(batch)) /\ Holds(Pubdata(batch), q, ToBE(2, n))
        /\ InitialPos(batch, 0) = VersionPos(batch) + 7
    BY <1>2, WhatIsRead DEF Layout
  <2>4. Aligned(pos, q) /\ ~Torn(2)
    <3>1. q \in Nat
      BY <1>3
    <3> QED BY <1>1, <2>1, <3>1 DEF Aligned
  <2>5. FromBE(Field(2)) = n /\ Aligned(Past(2), q + 2)
    <3> HIDE DEF n, q
    <3> QED BY <2>2, <2>3, <2>4, ReadNumber
  <2>6. left' = n /\ Aligned(pos', InitialPos(batch, 0))
    <3>1. q + 2 = InitialPos(batch, 0)
      BY <1>3, <2>3
    <3>2. pos' = Past(2)
      BY <1>1, <2>1 DEF After
    <3> HIDE DEF q
    <3> QED BY <2>1, <2>5, <3>1, <3>2 DEF Number
  <2>7. n - left' = 0 /\ left' \in 0..n /\ SubSeq(batch.initial, 1, 0) = <<>>
    BY <2>2, <2>6, SubSeqEmpty
  <2>8. AtInitial'
    <3>1. Aligned(pos, InitialPos(batch, n - left))'
      BY <1>2, <2>6, <2>7 DEF Aligned
    <3>2. initialChanges' = SubSeq(batch'.initial, 1, Len(batch'.initial) - left')
      BY <1>2, <1>4, <2>7 DEF OnlyCodes, NoWrites
    <3>3. /\ left' \in 0..Len(batch'.initial) /\ width' = batch'.width
          /\ factoryDeps' = batch'.codes /\ repeatedChanges' = <<>>
      BY <1>2, <1>4, <2>1, <2>7 DEF OnlyCodes, NoWrites
    <3> QED BY <3>1, <3>2, <3>3 DEF AtInitial
  <2>9. InSection'
    BY <2>1, <2>8 DEF InSection
  <2>10. pos' \in Nat
    BY <2>6 DEF Aligned
  <2> QED BY <1>1, <1>2, <2>1, <2>9, <2>10, GoesOn DEF Sections
<1> QED BY <1>1, <1>5, <1>6, <1>7

\* A write that is read is the one that was written.
LEMMA ReadWrite ==
  ASSUME Typed, Reading, NEW q, Aligned(pos, q), NEW key \in Seq(Nat), NEW w \in Write,
         Fits(w.value, WordLen), NEW r, WriteHolds(Pubdata(batch), q, key, w, r),
         FieldLen = Len(key), ~Torn(FieldLen), Packed(After).inRange
  PROVE  /\ Field(FieldLen) = key
         /\ Packed(After).value = w.value /\ Aligned(Packed(After).end, r)
         /\ Packed(After).op > 3 => w.op = "unknown"
         /\ ~(Packed(After).op > 3) => OpName[Packed(After).op + 1] = w.op
<1> DEFINE t == Pubdata(batch)
           a == q + Len(key)
           v == ValueBytes(w)
           o == Packed(After).op
<1>1. Trimmed(bytes, t)
  BY WhatIsRead
<1>2. /\ q \in Nat /\ Holds(t, q, key) /\ Holds(t, a, <<Meta(w)>>)
      /\ Holds(t, a + 1, v) /\ r = a + 1 + Len(v)
  BY DEF WriteHolds
<1> HIDE DEF t, v
<1>3. Field(Len(key)) = key /\ Aligned(Past(Len(key)), a)
  BY <1>1, <1>2, ReadField
<1> HIDE DEF a
<1>4. Aligned(After, a)
  BY <1>3 DEF After
<1>5. /\ o = Meta(w) % 8 /\ Packed(After).value = w.value
      /\ Aligned(Packed(After).end, a + 1 + Len(v))
  BY <1>1, <1>2, <1>4, ReadPacked DEF v
<1>6. /\ Meta(w) % 8 \in 0..4 /\ (Meta(w) % 8 = 4 <=> w.op = "unknown")
      /\ Meta(w) % 8 # 4 => OpName[(Meta(w) % 8) + 1] = w.op
  BY EncodedValueFacts
<1> HIDE DEF o
<1>7. /\ o > 3 => w.op = "unknown"
      /\ ~(o > 3) => OpName[o + 1] = w.op
  BY <1>5, <1>6
<1> QED BY <1>2, <1>3, <1>5, <1>7 DEF o

\* A write of which more than the key is there is not torn.
LEMMA NotTorn ==
  ASSUME Typed, Reading, NEW q, Aligned(pos, q), NEW n \in Nat, FieldLen = n,
         q + n + 1 <= Len(bytes)
  PROVE  ~Torn(FieldLen) /\ Packed(After).inRange
<1>1. pos \in Nat /\ Len(bytes) \in Nat /\ bytes \in Seq(Nat)
  BY DEF Typed
<1>2. pos = q
  BY <1>1 DEF Aligned
<1>3. ~AtEnd /\ ~Torn(n)
  BY <1>1, <1>2 DEF AtEnd, Torn
<1>4. After = pos + n
  BY <1>3 DEF After, Past
<1>5. Packed(pos + n).inRange
  <2>1. pos + n \in Nat /\ pos + n <= Len(bytes)
    BY <1>1, <1>2
  <2> QED BY <1>1, <2>1, PackedInRange
<1> QED BY <1>3, <1>4, <1>5

\* The initial write that is read next.
LEMMA InitialEntry ==
  ASSUME Typed, Reading, section = "initial", left > 0,
         NEW i, i = Len(batch.initial) - left + 1
  PROVE  /\ i \in 1..Len(batch.initial) /\ i - 1 = Len(batch.initial) - left
         /\ Len(batch.initial) - (left - 1) = i /\ left - 1 \in 0..Len(batch.initial)
         /\ batch.initial[i] \in Write /\ Fits(batch.initial[i].value, WordLen)
         /\ ToLE(WordLen, batch.initial[i].key) \in Seq(Nat)
         /\ Len(ToLE(WordLen, batch.initial[i].key)) = WordLen
         /\ FromBE(Reverse(ToLE(WordLen, batch.initial[i].key))) = batch.initial[i].key
         /\ WriteHolds(Pubdata(batch), InitialPos(batch, i - 1),
                       ToLE(WordLen, batch.initial[i].key), batch.initial[i],
                       InitialPos(batch, i))
         /\ Aligned(pos, InitialPos(batch, i - 1)) /\ FieldLen = WordLen
<1> DEFINE n == Len(batch.initial)
           w == batch.initial[i]
<1>1. batch \in Committed /\ left \in 0..n /\ Aligned(pos, InitialPos(batch, n - left))
  BY DEF Typed, Reading, InSection, AtInitial
<1>2. batch.initial \in Seq(Write) /\ WellFormed(batch)
  BY <1>1, BatchFacts
<1>3. n \in Nat /\ DOMAIN batch.initial = 1..n /\ \A j \in 1..n : batch.initial[j] \in Write
  BY <1>2, Elements
<1>4. i \in 1..n /\ i - 1 = n - left /\ n - (left - 1) = i /\ left - 1 \in 0..n
  <2> HIDE DEF n
  <2>1. i = n - left + 1
    BY DEF n
  <2> QED BY <1>1, <1>3, <2>1
<1>5. w \in Write /\ w.key \in Nat /\ Fits(w.key, WordLen) /\ Fits(w.value, WordLen)
  <2>1. w \in Write /\ i \in DOMAIN batch.initial
    BY <1>3, <1>4
  <2>2. w.key \in Nat
    BY <2>1 DEF Write
  <2> QED BY <1>2, <2>1, <2>2 DEF WellFormed, ValueFits
<1>6. WriteHolds(Pubdata(batch), InitialPos(batch, i - 1), ToLE(WordLen, w.key), w,
                 InitialPos(batch, i))
  BY <1>4, WhatIsRead DEF Layout
<1>7. FieldLen = WordLen
  BY DEF FieldLen
<1>8. Aligned(pos, InitialPos(batch, i - 1))
  BY <1>1, <1>4
<1> HIDE DEF w
<1>9. /\ ToLE(WordLen, w.key) \in Seq(Nat) /\ Len(ToLE(WordLen, w.key)) = WordLen
      /\ FromBE(Reverse(ToLE(WordLen, w.key))) = w.key
  <2>1. WordLen \in Nat
    BY FormatAssumption
  <2> QED BY <1>5, <2>1, ReverseToLE, ToBEFacts
<1> QED BY <1>4, <1>5, <1>6, <1>7, <1>8, <1>9 DEF w

\* A repeated write; its index is not zero.
LEMMA RepeatedEntry ==
  ASSUME Typed, Reading, section = "repeated", NEW i \in 1..Len(batch.repeated)
  PROVE  /\ batch.repeated[i] \in Write /\ Fits(batch.repeated[i].value, WordLen)
         /\ batch.width \in Nat
         /\ ToBE(batch.width, batch.repeated[i].key) \in Seq(Nat)
         /\ Len(ToBE(batch.width, batch.repeated[i].key)) = batch.width
         /\ FromBE(ToBE(batch.width, batch.repeated[i].key)) = batch.repeated[i].key
         /\ \E j \in 1..batch.width : ToBE(batch.width, batch.repeated[i].key)[j] # 0
         /\ WriteHolds(Pubdata(batch), RepeatedPos(batch, i - 1),
                       ToBE(batch.width, batch.repeated[i].key), batch.repeated[i],
                       RepeatedPos(batch, i))
         /\ FieldLen = batch.width
<1> DEFINE n == Len(batch.repeated)
           w == batch.repeated[i]
<1>1. batch \in Committed /\ width = batch.width
  BY DEF Typed, Reading, InSection, AtRepeated
<1>2. batch.repeated \in Seq(Write) /\ WellFormed(batch)
  BY <1>1, BatchFacts
<1>3. n \in Nat /\ DOMAIN batch.repeated = 1..n /\ w \in Write
  BY <1>2, Elements
<1>4. /\ w.key \in Nat /\ w.key > 0 /\ Fits(w.key, batch.width) /\ Fits(w.value, WordLen)
  <2>1. w.key \in Nat
    BY <1>3 DEF Write
  <2> QED BY <1>2, <1>3, <2>1 DEF WellFormed, ValueFits
<1>5. WriteHolds(Pubdata(batch), RepeatedPos(batch, i - 1), ToBE(batch.width, w.key), w,
                 RepeatedPos(batch, i))
  BY WhatIsRead DEF Layout
<1>6. FieldLen = batch.width
  BY <1>1 DEF FieldLen
<1>7. batch.width \in Nat
  <2>1. batch.width \in 1..255
    BY <1>1, BatchFacts
  <2>2. \A x \in 1..255 : x \in Nat
    OBVIOUS
  <2> QED BY <2>1, <2>2
<1> HIDE DEF w
<1>8. /\ ToBE(batch.width, w.key) \in Seq(Nat) /\ Len(ToBE(batch.width, w.key)) = batch.width
      /\ FromBE(ToBE(batch.width, w.key)) = w.key
      /\ \E j \in 1..batch.width : ToBE(batch.width, w.key)[j] # 0
  <2>1. w.key # 0
    BY <1>4
  <2> QED BY <1>4, <1>7, <2>1, ToBEFacts
<1> QED BY <1>3, <1>4, <1>5, <1>6, <1>7, <1>8 DEF w

\* Each initial write that is read is the next one.
LEMMA ReadInitialStep ==
  ASSUME ParserInv, ReadInitial
  PROVE  ParserInv'
<1> DEFINE n == Len(batch.initial)
           i == n - left + 1
           w == batch.initial[i]
           key == ToLE(WordLen, w.key)
           packed == Packed(After)
<1>1. /\ section = "initial" /\ left > 0 /\ ~Rejected /\ ~Torn(WordLen) /\ packed.inRange
      /\ initialChanges' = Insert(initialChanges, FromBE(Reverse(Field(WordLen))),
                                  OpName[packed.op + 1], packed.value)
      /\ pos' = packed.end /\ left' = left - 1
      /\ UNCHANGED <<inputVars, bytes, section, width, factoryDeps, repeatedChanges, verdict>>
  BY DEF ReadInitial, MoreWrites
<1>2. Typed /\ Reading /\ batch' = batch /\ bytes' = bytes
  BY <1>1, IsReading DEF Sections, inputVars
<1>3. /\ width = batch.width /\ factoryDeps = batch.codes /\ repeatedChanges = <<>>
      /\ initialChanges = SubSeq(batch.initial, 1, n - left) /\ batch \in Committed
  BY <1>1, <1>2 DEF Reading, InSection, AtInitial, Typed
<1>4. /\ i \in 1..n /\ i - 1 = n - left /\ n - left' = i /\ left' \in 0..n
      /\ w \in Write /\ Fits(w.value, WordLen)
      /\ key \in Seq(Nat) /\ Len(key) = WordLen /\ FromBE(Reverse(key)) = w.key
      /\ WriteHolds(Pubdata(batch), InitialPos(batch, i - 1), key, w, InitialPos(batch, i))
      /\ Aligned(pos, InitialPos(batch, i - 1)) /\ FieldLen = WordLen
  BY <1>1, <1>2, InitialEntry
<1> HIDE DEF n, i, w, key, packed
<1>5. ~(packed.op > 3)
  BY <1>1, <1>4 DEF Rejected, packed
<1>6. /\ Field(WordLen) = key /\ packed.value = w.value /\ Aligned(packed.end, InitialPos(batch, i))
      /\ OpName[packed.op + 1] = w.op
  BY <1>1, <1>2, <1>4, <1>5, ReadWrite DEF packed
<1>7. initialChanges' = SubSeq(batch.initial, 1, i)
  <2>1. batch.initial \in Seq(Write) /\ KeysDiffer(batch.initial)
    BY <1>3, BatchFacts DEF WellFormed
  <2>2. i - 1 \in Nat /\ i - 1 < Len(batch.initial) /\ (i - 1) + 1 = i
    <3>1. n \in Nat
      BY <2>1, Elements DEF n
    <3> QED BY <1>4, <3>1 DEF n
  <2>3. Insert(SubSeq(batch.initial, 1, i - 1), w.key, w.op, w.value)
          = SubSeq(batch.initial, 1, i)
    <3>1. Insert(SubSeq(batch.initial, 1, i - 1), batch.initial[(i - 1) + 1].key,
                 batch.initial[(i - 1) + 1].op, batch.initial[(i - 1) + 1].value)
            = SubSeq(batch.initial, 1, (i - 1) + 1)
      BY <2>1, <2>2, InsertAppends
    <3> QED BY <2>2, <3>1 DEF w
  <2> QED BY <1>1, <1>3, <1>4, <1>6, <2>3
<1>8. Aligned(pos', InitialPos(batch, i)) /\ pos' \in Nat
  BY <1>1, <1>6 DEF Aligned
<1>9. AtInitial'
  <2>1. Aligned(pos, InitialPos(batch, Len(batch.initial) - left))'
    BY <1>2, <1>4, <1>8 DEF Aligned, n
  <2>2. /\ left' \in 0..Len(batch'.initial) /\ width' = batch'.width
        /\ factoryDeps' = batch'.codes /\ repeatedChanges' = <<>>
        /\ initialChanges' = SubSeq(batch'.initial, 1, Len(batch'.initial) - left')
    BY <1>1, <1>2, <1>3, <1>4, <1>7 DEF n
  <2> QED BY <2>1, <2>2 DEF AtInitial
<1>10. InSection'
  BY <1>1, <1>9 DEF InSection
<1> QED BY <1>1, <1>2, <1>8, <1>10, GoesOn DEF Sections

\* Where a repeated write is read, there is one.
LEMMA RepeatedIsThere ==
  ASSUME Typed, Reading, section = "repeated", ~AtEnd,
         NEW j \in 0..Len(batch.repeated), Aligned(pos, RepeatedPos(batch, j))
  PROVE  j + 1 \in 1..Len(batch.repeated) /\ (j + 1) - 1 = j
<1> DEFINE n == Len(batch.repeated)
<1>1. batch.repeated \in Seq(Write)
  BY BatchFacts DEF Typed
<1>2. n \in Nat
  BY <1>1, Elements
<1>3. Len(bytes) \in Nat /\ Len(bytes) <= RepeatedPos(batch, n) /\ pos \in Nat
  BY WhatIsRead DEF Layout, Trimmed
<1>4. pos = RepeatedPos(batch, j) /\ pos < Len(bytes)
  BY <1>3 DEF AtEnd, Aligned
<1>5. j # n
  BY <1>3, <1>4
<1> QED BY <1>2, <1>5

\* So is each repeated one.
LEMMA ReadRepeatedStep ==
  ASSUME ParserInv, ReadRepeated
  PROVE  ParserInv'
<1> DEFINE n == Len(batch.repeated)
           packed == Packed(After)
<1>1. /\ section = "repeated" /\ ~AtEnd /\ ~Rejected /\ ~Torn(width) /\ packed.inRange
      /\ repeatedChanges' = Insert(repeatedChanges, Number, OpName[packed.op + 1],
                                   packed.value)
      /\ pos' = packed.end
      /\ UNCHANGED <<inputVars, bytes, section, width, factoryDeps, initialChanges, verdict>>
  BY DEF ReadRepeated, MoreWrites
<1>2. Typed /\ Reading /\ batch' = batch /\ bytes' = bytes
  BY <1>1, IsReading DEF Sections, inputVars
<1>3. /\ width = batch.width /\ factoryDeps = batch.codes /\ initialChanges = batch.initial
      /\ batch \in Committed
      /\ \E j \in 0..n : /\ Aligned(pos, RepeatedPos(batch, j))
                         /\ repeatedChanges = SubSeq(batch.repeated, 1, j)
  BY <1>1, <1>2 DEF Reading, InSection, AtRepeated, Typed
<1>4. PICK j \in 0..n : /\ Aligned(pos, RepeatedPos(batch, j))
                        /\ repeatedChanges = SubSeq(batch.repeated, 1, j)
  BY <1>3
<1> DEFINE i == j + 1
           w == batch.repeated[i]
           key == ToBE(batch.width, w.key)
<1>5. i \in 1..n /\ i - 1 = j
  BY <1>1, <1>2, <1>4, RepeatedIsThere
<1> HIDE DEF i
<1>6. /\ w \in Write /\ Fits(w.value, WordLen)
      /\ key \in Seq(Nat) /\ Len(key) = batch.width /\ FromBE(key) = w.key
      /\ WriteHolds(Pubdata(batch), RepeatedPos(batch, i - 1), key, w, RepeatedPos(batch, i))
      /\ FieldLen = batch.width
  BY <1>1, <1>2, <1>5, RepeatedEntry
<1> HIDE DEF n, w, key, packed
<1>7. ~(packed.op > 3)
  BY <1>1, <1>3, <1>6 DEF Rejected, packed
<1>8. /\ Field(FieldLen) = key /\ packed.value = w.value
      /\ Aligned(packed.end, RepeatedPos(batch, i)) /\ OpName[packed.op + 1] = w.op
  BY <1>1, <1>2, <1>3, <1>4, <1>5, <1>6, <1>7, ReadWrite DEF packed
<1>9. repeatedChanges' = SubSeq(batch.repeated, 1, i)
  <2>1. batch.repeated \in Seq(Write) /\ KeysDiffer(batch.repeated)
    BY <1>3, BatchFacts DEF WellFormed
  <2>2. j \in Nat /\ j < Len(batch.repeated) /\ j + 1 = i
    <3>1. n \in Nat
      BY <2>1, Elements DEF n
    <3> QED BY <1>5, <3>1 DEF n, i
  <2>3. Insert(SubSeq(batch.repeated, 1, j), w.key, w.op, w.value)
          = SubSeq(batch.repeated, 1, i)
    <3>1. Insert(SubSeq(batch.repeated, 1, j), batch.repeated[j + 1].key,
                 batch.repeated[j + 1].op, batch.repeated[j + 1].value)
            = SubSeq(batch.repeated, 1, j + 1)
      BY <2>1, <2>2, InsertAppends
    <3> QED BY <2>2, <3>1 DEF w
  <2>4. Number = w.key
    BY <1>6, <1>8 DEF Number
  <2> QED BY <1>1, <1>4, <1>8, <2>3, <2>4
<1>10. Aligned(pos', RepeatedPos(batch, i)) /\ pos' \in Nat
  BY <1>1, <1>8 DEF Aligned
<1>11. AtRepeated'
  <2>1. Aligned(pos, RepeatedPos(batch, i))'
    BY <1>2, <1>10 DEF Aligned
  <2>2. i \in 0..Len(batch'.repeated) /\ repeatedChanges' = SubSeq(batch'.repeated, 1, i)
    <3>1. i \in 0..n
      BY <1>5
    <3> QED BY <1>2, <1>9, <3>1 DEF n
  <2>3. width' = batch'.width /\ factoryDeps' = batch'.codes /\ initialChanges' = batch'.initial
    BY <1>1, <1>2, <1>3
  <2> QED BY <2>1, <2>2, <2>3 DEF AtRepeated
<1>12. InSection'
  BY <1>1, <1>11 DEF InSection
<1> QED BY <1>1, <1>2, <1>10, <1>12, GoesOn DEF Sections

\* A write is rejected for what it is, or for the width.
LEMMA RejectWriteStep ==
  ASSUME ParserInv, RejectWrite
  PROVE  ParserInv'
<1>1. /\ MoreWrites /\ Rejected /\ verdict' = "error" /\ section' = "end"
      /\ UNCHANGED <<inputVars, bytes, pos>>
      /\ section \in {"initial", "repeated"}
  BY DEF RejectWrite, MoreWrites
<1>2. Typed /\ Reading /\ batch' = batch /\ pos' \in Nat
  BY <1>1, IsReading DEF Sections, inputVars, Typed
<1>3. \/ batch.width \notin {4, 5}
      \/ \E i \in DOMAIN batch.initial : batch.initial[i].op = "unknown"
      \/ \E i \in DOMAIN batch.repeated : batch.repeated[i].op = "unknown"
  <2>1. CASE section = "initial"
    <3> DEFINE n == Len(batch.initial)
               i == n - left + 1
               w == batch.initial[i]
               key == ToLE(WordLen, w.key)
    <3>1. left > 0 /\ ~Torn(FieldLen) /\ Packed(After).inRange /\ Packed(After).op > 3
      BY <1>1, <2>1 DEF MoreWrites, Rejected
    <3>2. /\ i \in 1..n /\ w \in Write /\ Fits(w.value, WordLen)
          /\ key \in Seq(Nat) /\ Len(key) = WordLen
          /\ WriteHolds(Pubdata(batch), InitialPos(batch, i - 1), key, w, InitialPos(batch, i))
          /\ Aligned(pos, InitialPos(batch, i - 1)) /\ FieldLen = WordLen
      BY <1>2, <2>1, <3>1, InitialEntry
    <3> HIDE DEF i, w, key
    <3>3. w.op = "unknown"
      BY <1>2, <3>1, <3>2, ReadWrite
    <3>4. i \in DOMAIN batch.initial
      <4>1. batch.initial \in Seq(Write)
        BY <1>2, BatchFacts DEF Typed
      <4> QED BY <3>2, <4>1, Elements
    <3> QED BY <3>3, <3>4 DEF w
  <2>2. CASE section = "repeated" /\ width \in {4, 5}
    <3>1. ~AtEnd /\ ~Torn(FieldLen) /\ Packed(After).inRange /\ Packed(After).op > 3
      BY <1>1, <2>2 DEF MoreWrites, Rejected
    <3>2. PICK j \in 0..Len(batch.repeated) : Aligned(pos, RepeatedPos(batch, j))
      BY <1>2, <2>2 DEF Reading, InSection, AtRepeated
    <3> DEFINE i == j + 1
               w == batch.repeated[i]
               key == ToBE(batch.width, w.key)
    <3>3. i \in 1..Len(batch.repeated) /\ i - 1 = j
      BY <1>2, <2>2, <3>1, <3>2, RepeatedIsThere
    <3> HIDE DEF i
    <3>4. /\ w \in Write /\ Fits(w.value, WordLen)
          /\ key \in Seq(Nat) /\ Len(key) = batch.width
          /\ WriteHolds(Pubdata(batch), RepeatedPos(batch, i - 1), key, w,
                        RepeatedPos(batch, i))
          /\ FieldLen = batch.width
      BY <1>2, <2>2, <3>3, RepeatedEntry
    <3> HIDE DEF w, key
    <3>5. w.op = "unknown"
      BY <1>2, <3>1, <3>2, <3>3, <3>4, ReadWrite
    <3>6. i \in DOMAIN batch.repeated
      <4>1. batch.repeated \in Seq(Write)
        BY <1>2, BatchFacts DEF Typed
      <4> QED BY <3>3, <4>1, Elements
    <3> QED BY <3>5, <3>6 DEF w
  <2>3. CASE section = "repeated" /\ width \notin {4, 5}
    BY <1>2, <2>3 DEF Reading, InSection, AtRepeated
  <2> QED BY <1>1, <2>1, <2>2, <2>3
<1>4. BlockIsTheBatch' /\ FailuresAreJustified'
  BY <1>1, <1>2, <1>3 DEF BlockIsTheBatch, FailuresAreJustified
<1> QED BY <1>1, <1>2, <1>4, Ends

\* Where the bytes end, the repeated writes do.
LEMMA EndOfDiffsStep ==
  ASSUME ParserInv, EndOfDiffs
  PROVE  ParserInv'
<1> DEFINE n == Len(batch.repeated)
<1>1. /\ section = "repeated" /\ AtEnd /\ verdict' = "done" /\ section' = "end"
      /\ UNCHANGED <<inputVars, bytes, pos, blockVars>>
  BY DEF EndOfDiffs, MoreWrites
<1>2. Typed /\ Reading /\ batch' = batch /\ pos' \in Nat /\ format' = format
      /\ format # "V1" /\ batch \in Committed
  BY <1>1, IsReading DEF Sections, inputVars, Typed, Reading
<1>3. /\ factoryDeps = batch.codes /\ initialChanges = batch.initial
      /\ \E j \in 0..n : /\ Aligned(pos, RepeatedPos(batch, j))
                         /\ repeatedChanges = SubSeq(batch.repeated, 1, j)
  BY <1>1, <1>2 DEF Reading, InSection, AtRepeated
<1>4. PICK j \in 0..n : /\ Aligned(pos, RepeatedPos(batch, j))
                        /\ repeatedChanges = SubSeq(batch.repeated, 1, j)
  BY <1>3
<1>5. batch.repeated \in Seq(Write) /\ n \in Nat
  BY <1>2, BatchFacts, Elements
<1>6. j = n
  <2> SUFFICES ASSUME j # n PROVE FALSE
    OBVIOUS
  <2> DEFINE t == Pubdata(batch)
             q == RepeatedPos(batch, j)
             key == ToBE(batch.width, batch.repeated[j + 1].key)
  <2>1. j + 1 \in 1..n /\ (j + 1) - 1 = j
    BY <1>5
  <2>2. /\ key \in Seq(Nat) /\ Len(key) = batch.width /\ batch.width \in Nat
        /\ \E k \in 1..batch.width : key[k] # 0
        /\ WriteHolds(t, RepeatedPos(batch, (j + 1) - 1), key, batch.repeated[j + 1],
                      RepeatedPos(batch, j + 1))
    BY <1>1, <1>2, <2>1, RepeatedEntry
  <2> HIDE DEF key
  <2>3. q \in Nat /\ Holds(t, q, key)
    BY <2>1, <2>2 DEF WriteHolds
  <2>4. Trimmed(bytes, t) /\ Len(bytes) \in Nat /\ pos \in Nat
    BY <1>2, WhatIsRead
  <2>5. q >= Len(bytes)
    BY <1>1, <1>4, <2>4 DEF AtEnd, Aligned
  <2>6. PICK k \in 1..batch.width : key[k] # 0
    BY <2>2
  <2> HIDE DEF t, q
  <2>7. q + batch.width <= Len(t) /\ t[q + k] = key[k] /\ Len(t) \in Nat
    BY <2>2, <2>3, <2>4 DEF Holds, Trimmed
  <2>8. q + k \in 1..Len(t) /\ q + k > Len(bytes)
    <3> DEFINE m == batch.width
    <3>1. m \in Nat /\ k \in 1..m /\ q + m <= Len(t)
      BY <2>2, <2>7
    <3> HIDE DEF m
    <3> QED BY <2>3, <2>4, <2>5, <2>7, <3>1
  <2>9. q + k <= Len(bytes)
    BY <2>4, <2>6, <2>7, <2>8, NotCut
  <2> QED BY <2>2, <2>3, <2>4, <2>8, <2>9
<1>7. SubSeq(batch.repeated, 1, n) = batch.repeated
  BY <1>5
<1>8. BlockIsTheBatch'
  <2>1. /\ factoryDeps' = batch'.codes /\ initialChanges' = batch'.initial
        /\ repeatedChanges' = batch'.repeated /\ format' # "V1"
    BY <1>1, <1>2, <1>3, <1>4, <1>6, <1>7 DEF blockVars
  <2> QED BY <2>1 DEF BlockIsTheBatch, AsCommitted
<1>9. FailuresAreJustified'
  BY <1>1 DEF FailuresAreJustified
<1> QED BY <1>1, <1>2, <1>8, <1>9, Ends

\* A read past the end is one of a zero that was not compressed.
LEMMA ReadPanicsStep ==
  ASSUME ParserInv, ReadPanics
  PROVE  ParserInv'
<1>1. verdict' = "panic" /\ section' = "end" /\ UNCHANGED <<inputVars, bytes, pos>>
  BY DEF ReadPanics
<1>2. \/ /\ Torn(FieldLen) /\ (section \in {"message", "bytecode"} => left > 0)
         /\ (section \in {"initial", "repeated"} => MoreWrites /\ ~Rejected)
      \/ section = "bytecode" /\ left > 0 /\ After + Number > Len(bytes)
      \/ MoreWrites /\ ~Rejected /\ ~Packed(After).inRange
  BY DEF ReadPanics
<1>3. Typed /\ pos \in Nat /\ Len(bytes) \in Nat
  BY DEF ParserInv, Typed
<1>4. section \in Sections
  <2>1. CASE section \in {"source", "end"}
    <3>1. FieldLen = 0 /\ ~MoreWrites
      BY <2>1 DEF FieldLen, MoreWrites
    <3>2. ~Torn(0)
      BY <1>3 DEF Torn, AtEnd
    <3> QED BY <1>2, <2>1, <3>1, <3>2
  <2>2. section \in Sections \cup {"source", "end"}
    BY DEF ParserInv, Started, Reading, Ended
  <2> QED BY <2>1, <2>2
<1>5. Reading /\ batch' = batch /\ format' = format /\ pos' \in Nat
  BY <1>1, <1>3, <1>4, IsReading DEF inputVars
<1>6. VersionPos(batch) + 5 <= Len(bytes) /\ VersionPos(batch) \in Nat
  BY <1>3, <1>5, SectionsInOrder
<1>7. ASSUME Reaches(batch) PROVE FALSE
  <2>1. CASE section \in {"logs", "messages", "bytecodes"}
    <3>1. FieldLen = 4
      BY <2>1 DEF FieldLen
    <3>2. pos + 4 <= Len(bytes)
      <4>1. pos \in {0, MessagesPos(batch), BytecodesPos(batch)}
        BY <1>5, <2>1 DEF Reading, InSection
      <4> QED BY <1>3, <1>5, <4>1, SectionsInOrder
    <3>3. ~Torn(4)
      BY <1>3, <1>5, <3>2, ReadExact
    <3> QED BY <1>2, <2>1, <3>1, <3>3 DEF MoreWrites
  <2>2. CASE section = "message"
    <3> DEFINE n == Len(batch.messages)
               i == n - left + 1
               s == batch.messages[i]
    <3>1. FieldLen = 4 /\ left > 0 /\ Torn(4)
      BY <1>2, <2>2 DEF FieldLen, MoreWrites
    <3>2. left \in 0..n /\ pos = MessagePos(batch, n - left)
      BY <1>5, <2>2 DEF Reading, InSection, AtMessage
    <3>3. i \in 1..n /\ i - 1 = n - left /\ i \in 0..n
      <4>1. n \in Nat
        BY <1>3, StringsFacts
      <4> HIDE DEF n
      <4> QED BY <3>1, <3>2, <4>1
    <3> HIDE DEF i
    <3>4. FramedHolds(Pubdata(batch), pos, s, MessagePos(batch, i))
      <4>1. FramedHolds(Pubdata(batch), MessagePos(batch, i - 1), s, MessagePos(batch, i))
        BY <1>3, <1>5, <3>3, WhatIsRead DEF Layout
      <4> QED BY <3>2, <3>3, <4>1
    <3> HIDE DEF s
    <3>5. MessagePos(batch, i) = pos + 4 + Len(s) /\ Len(s) \in Nat
      BY <3>4 DEF FramedHolds
    <3>6. MessagePos(batch, i) <= BytecodesPos(batch)
      BY <1>3, <3>3, PositionsGrow DEF Typed
    <3>7. BytecodesPos(batch) \in Nat /\ BytecodesPos(batch) <= Len(bytes)
      BY <1>3, <1>5, SectionsInOrder
    <3>8. pos + 4 <= Len(bytes)
      BY <1>3, <3>5, <3>6, <3>7
    <3>9. ~Torn(4)
      BY <1>3, <1>5, <3>8, ReadExact
    <3> QED BY <3>1, <3>9
  <2>3. CASE section = "bytecode"
    <3> DEFINE n == Len(batch.codes)
               i == n - left + 1
               s == batch.codes[i]
    <3>1. FieldLen = 4 /\ left > 0 /\ (Torn(4) \/ After + Number > Len(bytes))
      BY <1>2, <2>3 DEF FieldLen, MoreWrites
    <3>2. left \in 0..n /\ pos = BytecodePos(batch, n - left)
      BY <1>5, <2>3 DEF Reading, InSection, AtBytecode
    <3>3. i \in 1..n /\ i - 1 = n - left /\ i \in 0..n
      <4>1. n \in Nat
        BY <1>3, StringsFacts
      <4> HIDE DEF n
      <4> QED BY <3>1, <3>2, <4>1
    <3> HIDE DEF i
    <3>4. FramedHolds(Pubdata(batch), pos, s, BytecodePos(batch, i)) /\ Fits(Len(s), 4)
      <4>1. FramedHolds(Pubdata(batch), BytecodePos(batch, i - 1), s, BytecodePos(batch, i))
        BY <1>3, <1>5, <3>3, WhatIsRead DEF Layout
      <4> QED BY <1>3, <3>2, <3>3, <4>1, StringsFacts
    <3> HIDE DEF s
    <3>5. /\ BytecodePos(batch, i) = pos + 4 + Len(s) /\ Len(s) \in Nat
          /\ Holds(Pubdata(batch), pos, ToBE(4, Len(s)))
      BY <3>4 DEF FramedHolds
    <3>6. BytecodePos(batch, i) <= VersionPos(batch)
      BY <1>3, <3>3, PositionsGrow DEF Typed
    <3>7. pos + 4 <= Len(bytes) /\ pos + 4 + Len(s) <= Len(bytes)
      BY <1>3, <1>6, <3>5, <3>6
    <3>8. ~Torn(4) /\ Past(4) = pos + 4 /\ FromBE(Field(4)) = Len(s)
      BY <1>3, <1>5, <3>4, <3>5, <3>7, ReadExact
    <3>9. After + Number = pos + 4 + Len(s)
      BY <3>1, <3>8 DEF After, Number
    <3> QED BY <1>3, <3>1, <3>5, <3>7, <3>8, <3>9
  <2>4. CASE section \in {"version", "width"}
    <3>1. FieldLen = 1
      BY <2>4 DEF FieldLen
    <3>2. ~Torn(1)
      BY <1>3 DEF Torn, AtEnd
    <3> QED BY <1>2, <2>4, <3>1, <3>2 DEF MoreWrites
  <2>5. CASE section = "length"
    <3>1. FieldLen = 3 /\ pos = VersionPos(batch) + 1
      BY <1>5, <2>5 DEF FieldLen, Reading, InSection
    <3>2. pos + 3 <= Len(bytes)
      BY <1>3, <1>6, <3>1
    <3>3. ~Torn(3)
      BY <1>3, <3>2 DEF Torn, AtEnd
    <3> QED BY <1>2, <2>5, <3>1, <3>3 DEF MoreWrites
  <2>6. CASE section = "count"
    <3>1. FieldLen = 2 /\ pos = VersionPos(batch) + 5
      BY <1>5, <2>6 DEF FieldLen, Reading, InSection
    <3>2. VersionPos(batch) + 7 <= Len(bytes) \/ VersionPos(batch) + 5 = Len(bytes)
      BY <1>7 DEF Reaches
    <3>3. pos + 2 <= Len(bytes) \/ pos = Len(bytes)
      BY <1>3, <1>6, <3>1, <3>2
    <3>4. ~Torn(2)
      BY <1>3, <3>3 DEF Torn, AtEnd
    <3> QED BY <1>2, <2>6, <3>1, <3>4 DEF MoreWrites
  <2>7. CASE section = "initial"
    <3> DEFINE i == Len(batch.initial) - left + 1
    <3>1. left > 0 /\ (Torn(FieldLen) \/ ~Packed(After).inRange)
      BY <1>2, <2>7 DEF MoreWrites
    <3>2. /\ i \in 1..Len(batch.initial) /\ FieldLen = WordLen
          /\ Aligned(pos, InitialPos(batch, i - 1))
      BY <1>3, <1>5, <2>7, <3>1, InitialEntry
    <3> HIDE DEF i
    <3>3. InitialPos(batch, i - 1) + WordLen + 1 <= Len(bytes)
      BY <1>7, <3>2 DEF Reaches
    <3>4. WordLen \in Nat
      BY FormatAssumption
    <3>5. ~Torn(FieldLen) /\ Packed(After).inRange
      BY <1>3, <1>5, <3>2, <3>3, <3>4, NotTorn
    <3> QED BY <3>1, <3>5
  <2>8. CASE section = "repeated"
    <3>1. ~AtEnd /\ (Torn(FieldLen) \/ ~Packed(After).inRange)
      BY <1>2, <2>8 DEF MoreWrites
    <3>2. PICK j \in 0..Len(batch.repeated) : Aligned(pos, RepeatedPos(batch, j))
      BY <1>5, <2>8 DEF Reading, InSection, AtRepeated
    <3> DEFINE i == j + 1
    <3>3. i \in 1..Len(batch.repeated) /\ i - 1 = j
      BY <1>3, <1>5, <2>8, <3>1, <3>2, RepeatedIsThere
    <3> HIDE DEF i
    <3>4. FieldLen = batch.width /\ batch.width \in Nat
      BY <1>3, <1>5, <2>8, <3>3, RepeatedEntry
    <3>5. RepeatedPos(batch, j) + batch.width + 1 <= Len(bytes)
      BY <1>7, <3>3 DEF Reaches
    <3>6. ~Torn(FieldLen) /\ Packed(After).inRange
      BY <1>3, <1>5, <3>2, <3>4, <3>5, NotTorn
    <3> QED BY <3>1, <3>6
  <2> QED BY <1>4, <2>1, <2>2, <2>3, <2>4, <2>5, <2>6, <2>7, <2>8 DEF Sections
<1>8. format = "V3blob" /\ ZeroIsLast(batch)
  BY <1>3, <1>5, <1>7, WhatIsRead
<1>9. BlockIsTheBatch' /\ FailuresAreJustified'
  BY <1>1, <1>5, <1>8 DEF BlockIsTheBatch, FailuresAreJustified, ZeroIsLast
<1> QED BY <1>1, <1>3, <1>5, <1>9, Ends

\* The pointer is where the format says, in each section and on every path, and
\* what has been read is what stands before it.
THEOREM ParserInvariant == ParserSpec => []ParserInv
<1>1. ParserInit => ParserInv
  <2> SUFFICES ASSUME ParserInit PROVE ParserInv
    OBVIOUS
  <2>1. bytes \in Seq(Nat)
    BY DEF ParserInit
  <2> QED BY <2>1 DEF ParserInit, ParserInv, Typed, Started, NoCodes, NoWrites
<1>2. ParserInv /\ [ParserNext]_parserVars => ParserInv'
  <2> SUFFICES ASSUME ParserInv, [ParserNext]_parserVars PROVE ParserInv'
    OBVIOUS
  <2>1. CASE ParserNext
    BY <2>1, ResolveStep, ParseV1Step, SkipLogsStep, CountEntriesStep, SkipMessageStep,
       ReadBytecodeStep, EndEntriesStep, ReadVersionStep, ReadHeaderStep, ReadInitialStep,
       ReadRepeatedStep, RejectWriteStep, EndOfDiffsStep, ReadPanicsStep DEF ParserNext
  <2>2. CASE UNCHANGED parserVars
    <3>1. UNCHANGED <<batch, format, bytes, pos, section, left, width, factoryDeps,
                      initialChanges, repeatedChanges, verdict>>
      BY <2>2 DEF parserVars, inputVars, blockVars
    <3>2. Typed' <=> Typed
      BY <3>1 DEF Typed
    <3>3. Started' <=> Started
      BY <3>1 DEF Started, NoCodes, NoWrites
    <3>4. Resolved' = Resolved
      BY <3>1 DEF Resolved
    <3>5. InSection' <=> InSection
      BY <3>1 DEF InSection, AtMessage, AtBytecode, AtInitial, AtRepeated, OnlyCodes, NoCodes,
                  NoWrites, Aligned
    <3>6. Reading' <=> Reading
      BY <3>1, <3>4, <3>5 DEF Reading, Sections
    <3>7. Ended' <=> Ended
      BY <3>1 DEF Ended, BlockIsTheBatch, FailuresAreJustified, AsCommitted
    <3> QED BY <3>2, <3>3, <3>6, <3>7 DEF ParserInv
  <2> QED BY <2>1, <2>2
<1> QED BY <1>1, <1>2, PTL DEF ParserSpec

\* BlockIsTheBatch for every batch that the format can hold: a block that the
\* parsers of V1, V2 and V3 pass on has the bytecodes and the changes that were
\* committed.
THEOREM BlockReadsTheBatch == ParserSpec => []BlockIsTheBatch
<1>1. ParserInv => BlockIsTheBatch
  BY DEF ParserInv, Started, Reading, Ended, BlockIsTheBatch
<1> QED BY <1>1, ParserInvariant, PTL

\* FailuresAreJustified for every batch that the format can hold: the parsers
\* refuse only what is of another version, and read past the end of the pubdata
\* only where the zero that was written last has been cut off.
THEOREM ParserFailsWithReason == ParserSpec => []FailuresAreJustified
<1>1. ParserInv => FailuresAreJustified
  BY DEF ParserInv, Started, Reading, Ended, FailuresAreJustified
<1> QED BY <1>1, ParserInvariant, PTL

=============================================================================
