--------------------------- MODULE L2LedgerProofs ---------------------------
(***************************************************************************)
(* What the states of the chain have in common, for every chain: the keys  *)
(* of a state have the indices 1, 2, ... without a gap, a key keeps its    *)
(* index for ever, and a batch gives the next indices to its initial       *)
(* changes in their order.                                                 *)
(*                                                                         *)
(* Both the states and the initial changes are defined by recursion.  The  *)
(* induction the proofs need is that of NatSet, over a set of numbers.     *)
(***************************************************************************)
EXTENDS L2Ledger, FiniteSetTheorems, WellFoundedInduction, TLAPS

\* A set that has 0, and the successor of each number it has, has all numbers.
LEMMA NatSet ==
  ASSUME NEW S, 0 \in S, \A n \in Nat : n \in S => n + 1 \in S
  PROVE  Nat \subseteq S
<1> DEFINE R == OpToRel(<, Nat)
           T == Nat \ S
<1>1. \A x, y \in Nat : y < x => <<y, x>> \in R
  BY DEF OpToRel
<1>2. IsWellFoundedOn(R, Nat)
  BY NatLessThanWellFounded
<1>3. SUFFICES ASSUME T # {} PROVE FALSE
  OBVIOUS
<1>4. PICK x \in T : \A y \in T : <<y, x>> \notin R
  <2> HIDE DEF R, T
  <2>1. T \subseteq Nat
    BY DEF T
  <2> QED BY <1>2, <1>3, <2>1, WFMin
<1>5. x \in Nat /\ x # 0 /\ x \notin S
  OBVIOUS
<1>6. x - 1 \in Nat /\ x - 1 \notin S
  BY <1>5
<1> HIDE DEF R
<1>7. <<x - 1, x>> \in R /\ x - 1 \in T
  BY <1>1, <1>5, <1>6
<1> QED BY <1>4, <1>7

\* The elements of a sequence over a set are in it.
LEMMA Elements ==
  ASSUME NEW S, NEW s \in Seq(S)
  PROVE  /\ Len(s) \in Nat /\ DOMAIN s = 1..Len(s)
         /\ \A i \in 1..Len(s) : s[i] \in S
OBVIOUS

-----------------------------------------------------------------------------
(***************************************************************************)
(* The writes of keys that are new.                                        *)
(***************************************************************************)

\* What the first writes of a list contribute, step by step.
LEMMA NewWritesUnfold ==
  ASSUME NEW S, NEW s \in Seq(S), NEW known
  PROVE  \E new :
           /\ new = [n \in 0..Len(s) |->
                      IF n = 0 THEN <<>>
                      ELSE IF s[n].key \in known THEN new[n - 1]
                           ELSE Append(new[n - 1], s[n])]
           /\ NewWrites(s, known) = new[Len(s)]
<1> DEFINE Step(f, n) == IF n = 0 THEN <<>>
                         ELSE IF s[n].key \in known THEN f[n - 1]
                              ELSE Append(f[n - 1], s[n])
           Good == {m \in Nat : \E f : f = [n \in 0..m |-> Step(f, n)]}
<1>1. 0 \in Good
  <2> DEFINE f == [n \in 0..0 |-> <<>>]
  <2>1. f = [n \in 0..0 |-> Step(f, n)]
    OBVIOUS
  <2> QED BY <2>1
<1>2. ASSUME NEW m \in Nat, m \in Good PROVE m + 1 \in Good
  <2>1. PICK f : f = [n \in 0..m |-> Step(f, n)]
    BY <1>2
  <2> DEFINE g == [n \in 0..(m + 1) |-> IF n = m + 1 THEN Step(f, m + 1) ELSE f[n]]
  <2>2. ASSUME NEW n \in 0..(m + 1) PROVE g[n] = Step(g, n)
    <3>1. CASE n = m + 1
      BY <3>1
    <3>2. CASE n # m + 1
      <4>1. n \in 0..m /\ (n # 0 => n - 1 \in 0..m /\ n - 1 \in 0..(m + 1) /\ n - 1 # m + 1)
        BY <3>2
      <4>2. f[n] = Step(f, n)
        BY <2>1, <4>1
      <4> QED BY <3>2, <4>1, <4>2
    <3> QED BY <3>1, <3>2
  <2>3. g = [n \in 0..(m + 1) |-> Step(g, n)]
    BY <2>2
  <2> HIDE DEF g
  <2> QED BY <2>3
<1>3. Len(s) \in Good
  <2> HIDE DEF Good
  <2> QED BY <1>1, <1>2, NatSet
<1>4. \E f : f = [n \in 0..Len(s) |-> Step(f, n)]
  BY <1>3
<1> QED BY <1>4, Zenon DEF NewWrites

\* new holds the writes among the first n of s whose keys are not known.
IsNewPart(new, s, n, known) ==
  /\ \A j \in 1..Len(new) : \E i \in 1..n : new[j] = s[i] /\ s[i].key \notin known
  /\ \A i \in 1..n : s[i].key \notin known => \E j \in 1..Len(new) : new[j] = s[i]
  /\ \A j, l \in 1..Len(new) : new[j].key = new[l].key => j = l

\* NewWrites leaves out the known keys and nothing else.
LEMMA NewWritesFacts ==
  ASSUME NEW S, NEW s \in Seq(S), OneWritePerKey(s), NEW known
  PROVE  /\ NewWrites(s, known) \in Seq(S)
         /\ IsNewPart(NewWrites(s, known), s, Len(s), known)
<1> DEFINE n == Len(s)
<1>1. PICK new :
        /\ new = [m \in 0..n |->
                    IF m = 0 THEN <<>>
                    ELSE IF s[m].key \in known THEN new[m - 1]
                         ELSE Append(new[m - 1], s[m])]
        /\ NewWrites(s, known) = new[n]
  BY NewWritesUnfold
<1>2. n \in Nat /\ \A i, j \in 1..n : s[i].key = s[j].key => i = j
  BY DEF OneWritePerKey
<1> DEFINE Good == {m \in Nat : m <= n => new[m] \in Seq(S) /\ IsNewPart(new[m], s, m, known)}
<1>3. 0 \in Good
  <2>1. new[0] = <<>>
    BY <1>1, <1>2
  <2>2. new[0] \in Seq(S) /\ Len(new[0]) = 0
    BY <2>1
  <2> QED BY <2>2 DEF IsNewPart
<1>4. ASSUME NEW m \in Nat, m \in Good PROVE m + 1 \in Good
  <2> SUFFICES ASSUME m + 1 <= n
               PROVE  new[m + 1] \in Seq(S) /\ IsNewPart(new[m + 1], s, m + 1, known)
    OBVIOUS
  <2> DEFINE old == new[m]
             w   == s[m + 1]
  <2>1. old \in Seq(S) /\ IsNewPart(old, s, m, known)
    BY <1>2, <1>4
  <2>2. m + 1 \in 1..n /\ w \in S
    BY <1>2
  <2>3. new[m + 1] = IF w.key \in known THEN old ELSE Append(old, w)
    <3>1. m + 1 \in 0..n /\ m + 1 # 0 /\ (m + 1) - 1 = m
      BY <1>2
    <3> QED BY <1>1, <3>1
  <2> HIDE DEF old, w
  <2>4. CASE w.key \in known
    <3>1. \A i \in 1..(m + 1) : s[i].key \notin known => i \in 1..m
      BY <2>4 DEF w
    <3>2. \A j \in 1..Len(old) : \E i \in 1..(m + 1) : old[j] = s[i] /\ s[i].key \notin known
      <4>1. 1..m \subseteq 1..(m + 1)
        OBVIOUS
      <4>2. \A j \in 1..Len(old) : \E i \in 1..m : old[j] = s[i] /\ s[i].key \notin known
        BY <2>1 DEF IsNewPart
      <4> QED BY ONLY <4>1, <4>2
    <3>3. \A i \in 1..(m + 1) : s[i].key \notin known => \E j \in 1..Len(old) : old[j] = s[i]
      BY <2>1, <3>1 DEF IsNewPart
    <3>4. \A j, l \in 1..Len(old) : old[j].key = old[l].key => j = l
      BY <2>1 DEF IsNewPart
    <3>5. IsNewPart(old, s, m + 1, known)
      BY ONLY <3>2, <3>3, <3>4 DEF IsNewPart
    <3>6. new[m + 1] = old
      BY <2>3, <2>4
    <3> QED BY <2>1, <3>5, <3>6
  <2>5. CASE w.key \notin known
    <3> DEFINE app == Append(old, w)
    <3>1. /\ app \in Seq(S) /\ Len(app) = Len(old) + 1 /\ Len(old) \in Nat
          /\ app[Len(old) + 1] = w /\ \A j \in 1..Len(old) : app[j] = old[j]
      BY <2>1, <2>2
    <3> HIDE DEF app
    <3>2. \A j \in 1..Len(app) : \E i \in 1..(m + 1) : app[j] = s[i] /\ s[i].key \notin known
      <4> SUFFICES ASSUME NEW j \in 1..Len(app)
                   PROVE  \E i \in 1..(m + 1) : app[j] = s[i] /\ s[i].key \notin known
        OBVIOUS
      <4>1. CASE j = Len(old) + 1
        <5>1. app[j] = s[m + 1] /\ s[m + 1].key \notin known /\ m + 1 \in 1..(m + 1)
          BY <2>5, <3>1, <4>1 DEF w
        <5> QED BY <5>1
      <4>2. CASE j # Len(old) + 1
        <5>1. j \in 1..Len(old)
          BY <3>1, <4>2
        <5>2. PICK i \in 1..m : old[j] = s[i] /\ s[i].key \notin known
          BY <2>1, <5>1 DEF IsNewPart
        <5>3. i \in 1..(m + 1)
          OBVIOUS
        <5> QED BY <3>1, <5>1, <5>2, <5>3
      <4> QED BY <4>1, <4>2
    <3>3. \A i \in 1..(m + 1) : s[i].key \notin known => \E j \in 1..Len(app) : app[j] = s[i]
      <4> SUFFICES ASSUME NEW i \in 1..(m + 1), s[i].key \notin known
                   PROVE  \E j \in 1..Len(app) : app[j] = s[i]
        OBVIOUS
      <4>1. CASE i = m + 1
        BY <3>1, <4>1 DEF w
      <4>2. CASE i # m + 1
        BY <2>1, <3>1, <4>2 DEF IsNewPart
      <4> QED BY <4>1, <4>2
    <3>4. \A j, l \in 1..Len(app) : app[j].key = app[l].key => j = l
      <4>1. ASSUME NEW j \in 1..Len(old) PROVE app[j].key # w.key
        <5>1. PICK i \in 1..m : old[j] = s[i]
          BY <2>1 DEF IsNewPart
        <5>2. i \in 1..n /\ i # m + 1
          BY <2>2
        <5>3. s[i].key # s[m + 1].key
          BY <1>2, <2>2, <5>2
        <5> QED BY <3>1, <5>1, <5>3 DEF w
      <4>2. \A j, l \in 1..Len(old) : app[j].key = app[l].key => j = l
        BY <2>1, <3>1 DEF IsNewPart
      <4>3. \A j \in 1..Len(app) : j \in 1..Len(old) \/ j = Len(old) + 1
        BY <3>1
      <4> QED BY <3>1, <4>1, <4>2, <4>3
    <3>5. IsNewPart(app, s, m + 1, known)
      BY <3>2, <3>3, <3>4 DEF IsNewPart
    <3> QED BY <2>3, <2>5, <3>1, <3>5 DEF app
  <2> QED BY <2>4, <2>5
<1>5. n \in Good
  <2> HIDE DEF Good
  <2> QED BY <1>2, <1>3, <1>4, NatSet
<1> QED BY <1>1, <1>2, <1>5

-----------------------------------------------------------------------------
(***************************************************************************)
(* States whose keys are enumerated from 1 to n.                           *)
(***************************************************************************)
EnumeratedBy(f, n) ==
  /\ n \in Nat
  /\ f = [k \in DOMAIN f |-> [index |-> f[k].index, value |-> f[k].value]]
  /\ \A k \in DOMAIN f : f[k].index \in 1..n /\ f[k].value \in Words
  /\ \A k, l \in DOMAIN f : f[k].index = f[l].index => k = l
  /\ \A i \in 1..n : \E k \in DOMAIN f : f[k].index = i

\* Such a state has n keys.
LEMMA EnumeratedCardinality ==
  ASSUME NEW f, NEW n, EnumeratedBy(f, n)
  PROVE  Cardinality(DOMAIN f) = n
<1> DEFINE at(i) == CHOOSE k \in DOMAIN f : f[k].index = i
           g == [i \in 1..n |-> at(i)]
<1>1. n \in Nat /\ \A i \in 1..n : at(i) \in DOMAIN f /\ f[at(i)].index = i
  BY DEF EnumeratedBy
<1>2. \A k \in DOMAIN f : f[k].index \in 1..n /\ at(f[k].index) = k
  BY <1>1 DEF EnumeratedBy
<1> HIDE DEF at
<1>3. g \in Bijection(1..n, DOMAIN f)
  BY <1>1, <1>2 DEF Bijection, Injection, Surjection, IsInjective
<1>4. ExistsBijection(1..n, DOMAIN f)
  BY <1>3 DEF ExistsBijection
<1> QED BY <1>1, <1>4, FS_CountingElements

\* A word minus, plus or instead of another is a word.
LEMMA UnpackIsWord ==
  ASSUME NEW op, NEW old \in Words, NEW v \in Words
  PROVE  Unpack(op, old, v) \in Words
<1>1. Modulus \in Nat \ {0} /\ old \in Int /\ v \in Int
  BY L2Assumption DEF Words
<1>2. (old + v) % Modulus \in 0..(Modulus - 1) /\ (old - v) % Modulus \in 0..(Modulus - 1)
  BY <1>1
<1> QED BY <1>2 DEF Unpack, Words

\* The genesis state has the keys of the list in its order.
GenesisState ==
  [k \in KeysOf(Genesis) |->
    LET i == CHOOSE i \in DOMAIN Genesis : Genesis[i].key = k
    IN  [index |-> i, value |-> Genesis[i].value]]

\* The genesis state enumerates the keys of its file in their order.
LEMMA GenesisFacts ==
  /\ EnumeratedBy(GenesisState, Len(Genesis))
  /\ DOMAIN GenesisState = KeysOf(Genesis)
  /\ \A i \in 1..Len(Genesis) :
       /\ Genesis[i].key \in KeysOf(Genesis)
       /\ GenesisState[Genesis[i].key] = [index |-> i, value |-> Genesis[i].value]
<1> DEFINE n == Len(Genesis)
           at(k) == CHOOSE i \in DOMAIN Genesis : Genesis[i].key = k
<1>1. /\ n \in Nat /\ DOMAIN Genesis = 1..n
      /\ \A i \in 1..n : Genesis[i].value \in Words
      /\ \A i, j \in 1..n : Genesis[i].key = Genesis[j].key => i = j
  <2>1. /\ Genesis \in Seq([key : KeysOf(Genesis), value : Words])
        /\ \A i, j \in DOMAIN Genesis : Genesis[i].key = Genesis[j].key => i = j
    BY L2Assumption DEF OneWritePerKey
  <2>2. n \in Nat /\ DOMAIN Genesis = 1..n
    BY <2>1
  <2>3. ASSUME NEW i \in 1..n PROVE Genesis[i].value \in Words
    <3>1. Genesis[i] \in [key : KeysOf(Genesis), value : Words]
      BY <2>1, Elements, Zenon
    <3> QED BY <3>1
  <2> QED BY <2>1, <2>2, <2>3
<1>2. \A i \in 1..n : Genesis[i].key \in KeysOf(Genesis) /\ at(Genesis[i].key) = i
  BY <1>1 DEF KeysOf
<1>3. \A k \in KeysOf(Genesis) : \E i \in 1..n : k = Genesis[i].key
  BY <1>1 DEF KeysOf
<1>4. GenesisState = [k \in KeysOf(Genesis) |-> [index |-> at(k), value |-> Genesis[at(k)].value]]
  BY DEF GenesisState
<1> HIDE DEF at, n
<1>5. \A i \in 1..n : GenesisState[Genesis[i].key] = [index |-> i, value |-> Genesis[i].value]
  BY <1>2, <1>4
<1>6. EnumeratedBy(GenesisState, n)
  <2> DEFINE f == GenesisState
  <2>1. DOMAIN f = KeysOf(Genesis)
    BY <1>4
  <2>2. f = [k \in DOMAIN f |-> [index |-> f[k].index, value |-> f[k].value]]
    BY <1>4
  <2>3. \A i \in 1..n : f[Genesis[i].key].index = i /\ f[Genesis[i].key].value = Genesis[i].value
    <3> SUFFICES ASSUME NEW i \in 1..n
                 PROVE  f[Genesis[i].key].index = i /\ f[Genesis[i].key].value = Genesis[i].value
      OBVIOUS
    <3>1. f[Genesis[i].key] = [index |-> i, value |-> Genesis[i].value]
      BY <1>5
    <3> HIDE DEF f
    <3> QED BY <3>1
  <2> HIDE DEF f
  <2>4. \A k \in DOMAIN f : f[k].index \in 1..n /\ f[k].value \in Words
    BY <1>1, <1>3, <2>1, <2>3
  <2>5. \A k, l \in DOMAIN f : f[k].index = f[l].index => k = l
    BY <1>3, <2>1, <2>3
  <2>6. \A i \in 1..n : \E k \in DOMAIN f : f[k].index = i
    BY <1>2, <2>1, <2>3
  <2> QED BY <1>1, <2>2, <2>4, <2>5, <2>6 DEF EnumeratedBy, f
<1> QED BY <1>2, <1>4, <1>5, <1>6 DEF n

-----------------------------------------------------------------------------
(***************************************************************************)
(* One batch.                                                              *)
(***************************************************************************)
\* What a list s of writes makes of a state f with n keys, where new are the
\* writes of keys that are not in f.
DiffApplied(g, f, n, s, new) ==
  /\ EnumeratedBy(g, n + Len(new))
  /\ DOMAIN g = DOMAIN f \cup KeysOf(s)
  /\ \A j \in 1..Len(new) :
       /\ new[j].key \in KeysOf(s) \ DOMAIN f
       /\ g[new[j].key] = [index |-> n + j, value |-> Unpack(new[j].op, 0, new[j].value)]
  /\ \A k \in DOMAIN g : k \in DOMAIN f \/ \E j \in 1..Len(new) : k = new[j].key
  /\ \A k \in DOMAIN f :
       /\ g[k].index = f[k].index
       /\ k \notin KeysOf(s) => g[k] = f[k]
  /\ \A i \in 1..Len(s) :
       s[i].key \in DOMAIN f =>
         g[s[i].key].value = Unpack(s[i].op, f[s[i].key].value, s[i].value)

\* ApplyDiff gives the next indices to the new keys.
LEMMA ApplyDiffFacts ==
  ASSUME NEW K, NEW s \in Seq([key : K, op : Ops, value : Words]), OneWritePerKey(s),
         NEW f, NEW n, EnumeratedBy(f, n)
  PROVE  DiffApplied(ApplyDiff(f, s), f, n, s, NewWrites(s, DOMAIN f))
<1> DEFINE new   == NewWrites(s, DOMAIN f)
           W     == [key : K, op : Ops, value : Words]
           at(k) == CHOOSE i \in DOMAIN s : s[i].key = k
           nr(k) == CHOOSE j \in DOMAIN new : new[j].key = k
           g     == ApplyDiff(f, s)
<1>1. /\ Len(s) \in Nat /\ DOMAIN s = 1..Len(s)
      /\ \A i \in 1..Len(s) : s[i] \in W
      /\ \A i, j \in 1..Len(s) : s[i].key = s[j].key => i = j
  <2>1. Len(s) \in Nat /\ DOMAIN s = 1..Len(s) /\ \A i \in 1..Len(s) : s[i] \in W
    BY Elements, Zenon
  <2> QED BY <2>1 DEF OneWritePerKey
<1>2. /\ new \in Seq(W)
      /\ IsNewPart(new, s, Len(s), DOMAIN f)
  <2>1. s \in Seq(W)
    OBVIOUS
  <2> QED BY <2>1, NewWritesFacts, Zenon
<1>3. Len(new) \in Nat /\ DOMAIN new = 1..Len(new) /\ \A j \in 1..Len(new) : new[j] \in W
  BY <1>2, Elements, Zenon
<1> HIDE DEF new, W
<1>4. /\ n \in Nat /\ Cardinality(DOMAIN f) = n
      /\ f = [k \in DOMAIN f |-> [index |-> f[k].index, value |-> f[k].value]]
      /\ \A k \in DOMAIN f : f[k].index \in 1..n /\ f[k].value \in Words
      /\ \A k, l \in DOMAIN f : f[k].index = f[l].index => k = l
      /\ \A i \in 1..n : \E k \in DOMAIN f : f[k].index = i
  BY EnumeratedCardinality DEF EnumeratedBy
<1>5. \A i \in 1..Len(s) : s[i].key \in KeysOf(s) /\ at(s[i].key) = i
  BY <1>1 DEF KeysOf
<1>6. \A k \in KeysOf(s) : \E i \in 1..Len(s) : k = s[i].key
  BY <1>1 DEF KeysOf
<1>7. \A j \in 1..Len(new) : /\ new[j].key \in KeysOf(s) \ DOMAIN f
                             /\ nr(new[j].key) = j
                             /\ new[j] = s[at(new[j].key)]
  <2> SUFFICES ASSUME NEW j \in 1..Len(new)
               PROVE  /\ new[j].key \in KeysOf(s) \ DOMAIN f
                      /\ nr(new[j].key) = j
                      /\ new[j] = s[at(new[j].key)]
    OBVIOUS
  <2>1. PICK i \in 1..Len(s) : new[j] = s[i] /\ s[i].key \notin DOMAIN f
    BY <1>2 DEF IsNewPart
  <2>2. \A l \in DOMAIN new : new[l].key = new[j].key => l = j
    BY <1>2, <1>3 DEF IsNewPart
  <2>3. nr(new[j].key) = j
    BY <1>3, <2>2
  <2> HIDE DEF at, nr
  <2> QED BY <1>5, <2>1, <2>3
<1>8. \A k \in KeysOf(s) : k \in DOMAIN f \/ \E j \in 1..Len(new) : k = new[j].key
  <2> SUFFICES ASSUME NEW k \in KeysOf(s), k \notin DOMAIN f
               PROVE  \E j \in 1..Len(new) : k = new[j].key
    OBVIOUS
  <2>1. PICK i \in 1..Len(s) : k = s[i].key
    BY <1>6
  <2>2. PICK j \in 1..Len(new) : new[j] = s[i]
    BY <1>2, <2>1 DEF IsNewPart
  <2> QED BY <2>1, <2>2
<1>9. g = [k \in DOMAIN f \cup KeysOf(s) |->
            [index |-> IF k \in DOMAIN f THEN f[k].index ELSE n + nr(k),
             value |-> IF k \in KeysOf(s)
                       THEN Unpack(s[at(k)].op, ValueIn(f, k), s[at(k)].value)
                       ELSE ValueIn(f, k)]]
  BY <1>4 DEF ApplyDiff, new
<1> HIDE DEF at, nr, g
<1>10. DOMAIN g = DOMAIN f \cup KeysOf(s)
  BY <1>9
<1>11. ASSUME NEW j \in 1..Len(new)
       PROVE  g[new[j].key] = [index |-> n + j, value |-> Unpack(new[j].op, 0, new[j].value)]
  <2>1. g[new[j].key] = [index |-> n + nr(new[j].key),
                         value |-> Unpack(s[at(new[j].key)].op, 0, s[at(new[j].key)].value)]
    BY <1>7, <1>9 DEF ValueIn
  <2> QED BY <1>7, <2>1
<1>12. ASSUME NEW k \in DOMAIN f
       PROVE  g[k].index = f[k].index /\ (k \notin KeysOf(s) => g[k] = f[k])
  BY <1>4, <1>9 DEF ValueIn
<1>13. ASSUME NEW i \in 1..Len(s), s[i].key \in DOMAIN f
       PROVE  g[s[i].key].value = Unpack(s[i].op, f[s[i].key].value, s[i].value)
  BY <1>5, <1>9, <1>13 DEF ValueIn
<1>14. EnumeratedBy(g, n + Len(new))
  <2>1. g = [k \in DOMAIN g |-> [index |-> g[k].index, value |-> g[k].value]]
    BY <1>9
  <2>2. ASSUME NEW j \in 1..Len(new)
        PROVE  /\ new[j].key \in DOMAIN g /\ g[new[j].key].index = n + j
               /\ g[new[j].key].value \in Words
    <3>1. 0 \in Words /\ new[j].value \in Words
      BY <1>3, L2Assumption DEF Words, W
    <3>2. Unpack(new[j].op, 0, new[j].value) \in Words
      BY <3>1, UnpackIsWord
    <3>3. new[j].key \in DOMAIN g
      BY <1>7, <1>10
    <3> DEFINE v == Unpack(new[j].op, 0, new[j].value)
    <3>4. g[new[j].key] = [index |-> n + j, value |-> v]
      BY <1>11
    <3> HIDE DEF v
    <3>5. g[new[j].key].index = n + j /\ g[new[j].key].value = v
      BY <3>4
    <3> QED BY <3>2, <3>3, <3>5 DEF v
  <2>3. ASSUME NEW k \in DOMAIN f
        PROVE  k \in DOMAIN g /\ g[k].index \in 1..n /\ g[k].value \in Words
    <3>1. CASE k \notin KeysOf(s)
      BY <1>4, <1>10, <1>12, <3>1
    <3>2. CASE k \in KeysOf(s)
      <4>1. PICK i \in 1..Len(s) : k = s[i].key
        BY <1>6, <3>2
      <4>2. s[i].value \in Words
        BY <1>1 DEF W
      <4>3. g[k].value = Unpack(s[i].op, f[k].value, s[i].value)
        BY <1>13, <4>1
      <4>4. g[k].value \in Words
        BY <1>4, <4>2, <4>3, UnpackIsWord
      <4> QED BY <1>4, <1>10, <1>12, <4>4
    <3> QED BY <3>1, <3>2
  <2>4. \A k \in DOMAIN g : k \in DOMAIN f \/ \E j \in 1..Len(new) : k = new[j].key
    BY <1>8, <1>10
  <2>5. n + Len(new) \in Nat
    BY <1>3, <1>4
  <2>6. \A k \in DOMAIN g : g[k].index \in 1..(n + Len(new)) /\ g[k].value \in Words
    BY <1>3, <1>4, <2>2, <2>3, <2>4
  <2>7. \A k, l \in DOMAIN g : g[k].index = g[l].index => k = l
    BY <1>3, <1>4, <1>12, <2>2, <2>3, <2>4
  <2>8. \A i \in 1..(n + Len(new)) : \E k \in DOMAIN g : g[k].index = i
    <3> SUFFICES ASSUME NEW i \in 1..(n + Len(new)) PROVE \E k \in DOMAIN g : g[k].index = i
      OBVIOUS
    <3>1. CASE i <= n
      BY <1>4, <1>10, <1>12, <3>1
    <3>2. CASE i > n
      <4>1. i - n \in 1..Len(new) /\ n + (i - n) = i
        BY <1>3, <1>4, <3>2
      <4> QED BY <2>2, <4>1
    <3> QED BY <1>4, <3>1, <3>2
  <2> QED BY <2>1, <2>5, <2>6, <2>7, <2>8 DEF EnumeratedBy
<1> QED
  BY <1>7, <1>8, <1>10, <1>11, <1>12, <1>13, <1>14 DEF DiffApplied, new, g

-----------------------------------------------------------------------------
(***************************************************************************)
(* All batches.                                                            *)
(***************************************************************************)
\* The states of the chain are what their recursion says.
LEMMA ChainUnfold ==
  ChainState = [b \in 0..NumBatches |->
                 IF b = 0 THEN GenesisState ELSE ApplyDiff(ChainState[b - 1], Diffs[b])]
<1> DEFINE Step(f, b) == IF b = 0 THEN GenesisState ELSE ApplyDiff(f[b - 1], Diffs[b])
           Good == {m \in Nat : \E f : f = [b \in 0..m |-> Step(f, b)]}
<1> HIDE DEF GenesisState
<1>1. 0 \in Good
  <2> DEFINE f == [b \in 0..0 |-> GenesisState]
  <2>1. f = [b \in 0..0 |-> Step(f, b)]
    OBVIOUS
  <2> QED BY <2>1
<1>2. ASSUME NEW m \in Nat, m \in Good PROVE m + 1 \in Good
  <2>1. PICK f : f = [b \in 0..m |-> Step(f, b)]
    BY <1>2
  <2> DEFINE g == [b \in 0..(m + 1) |-> IF b = m + 1 THEN Step(f, m + 1) ELSE f[b]]
  <2>2. ASSUME NEW b \in 0..(m + 1) PROVE g[b] = Step(g, b)
    <3>1. CASE b = m + 1
      BY <3>1
    <3>2. CASE b # m + 1
      <4>1. b \in 0..m /\ (b # 0 => b - 1 \in 0..m /\ b - 1 \in 0..(m + 1) /\ b - 1 # m + 1)
        BY <3>2
      <4>2. f[b] = Step(f, b)
        BY <2>1, <4>1
      <4> QED BY <3>2, <4>1, <4>2
    <3> QED BY <3>1, <3>2
  <2>3. g = [b \in 0..(m + 1) |-> Step(g, b)]
    BY <2>2
  <2> HIDE DEF g
  <2> QED BY <2>3
<1>3. NumBatches \in Good
  <2> HIDE DEF Good
  <2> QED BY <1>1, <1>2, NatSet, L2Assumption
<1>4. \E f : f = [b \in 0..NumBatches |-> Step(f, b)]
  BY <1>3
<1> QED BY <1>4, Zenon DEF ChainState, GenesisState

\* How many keys the chain has after batch b.
NumKeys(b) == Cardinality(DOMAIN ChainState[b])

\* Every state is enumerated, and every batch is applied to the one before it.
LEMMA ChainFacts ==
  /\ ChainState[0] = GenesisState
  /\ \A b \in 0..NumBatches : EnumeratedBy(ChainState[b], NumKeys(b))
  /\ \A b \in Batches :
       DiffApplied(ChainState[b], ChainState[b - 1], NumKeys(b - 1), Diffs[b], InitialChanges(b))
<1>1. NumBatches \in Nat \ {0}
  BY L2Assumption
<1>2. ChainState[0] = GenesisState
  BY <1>1, ChainUnfold
<1>3. ASSUME NEW b \in Batches PROVE ChainState[b] = ApplyDiff(ChainState[b - 1], Diffs[b])
  BY <1>1, ChainUnfold DEF Batches
<1>4. ASSUME NEW b \in Batches, NEW n, EnumeratedBy(ChainState[b - 1], n)
      PROVE  DiffApplied(ChainState[b], ChainState[b - 1], n, Diffs[b], InitialChanges(b))
  <2>1. Diffs[b] \in Seq([key : KeysOf(Diffs[b]), op : Ops, value : Words]) /\ OneWritePerKey(Diffs[b])
    BY L2Assumption
  <2>2. DiffApplied(ApplyDiff(ChainState[b - 1], Diffs[b]), ChainState[b - 1], n, Diffs[b],
                    NewWrites(Diffs[b], DOMAIN ChainState[b - 1]))
    BY <1>4, <2>1, ApplyDiffFacts, Zenon
  <2> QED BY <1>3, <2>2 DEF InitialChanges
<1> DEFINE Good == {b \in Nat : b <= NumBatches => \E n : EnumeratedBy(ChainState[b], n)}
<1>5. 0 \in Good
  BY <1>2, GenesisFacts
<1>6. ASSUME NEW b \in Nat, b \in Good PROVE b + 1 \in Good
  <2> SUFFICES ASSUME b + 1 <= NumBatches
               PROVE  \E n : EnumeratedBy(ChainState[b + 1], n)
    OBVIOUS
  <2>1. b <= NumBatches /\ b + 1 \in Batches /\ (b + 1) - 1 = b
    BY <1>1 DEF Batches
  <2>2. PICK n : EnumeratedBy(ChainState[b], n)
    BY <1>6, <2>1
  <2>3. DiffApplied(ChainState[b + 1], ChainState[b], n, Diffs[b + 1], InitialChanges(b + 1))
    BY <1>4, <2>1, <2>2
  <2> QED BY <2>3 DEF DiffApplied
<1>7. ASSUME NEW b \in 0..NumBatches PROVE EnumeratedBy(ChainState[b], NumKeys(b))
  <2>1. b \in Good
    <3> HIDE DEF Good
    <3> QED BY <1>1, <1>5, <1>6, NatSet
  <2>2. PICK n : EnumeratedBy(ChainState[b], n)
    BY <1>1, <2>1
  <2> QED BY <2>2, EnumeratedCardinality DEF NumKeys
<1>8. ASSUME NEW b \in Batches
      PROVE  DiffApplied(ChainState[b], ChainState[b - 1], NumKeys(b - 1), Diffs[b], InitialChanges(b))
  <2>1. b - 1 \in 0..NumBatches
    BY <1>1 DEF Batches
  <2> QED BY <1>4, <1>7, <2>1
<1> QED BY <1>2, <1>7, <1>8

\* Every state of the chain, spelled out.
LEMMA StateFacts ==
  ASSUME NEW b \in 0..NumBatches
  PROVE  /\ NumKeys(b) \in Nat /\ IndexRepeated(b) = NumKeys(b) + 1
         /\ ChainState[b] = [k \in DOMAIN ChainState[b] |->
                               [index |-> ChainState[b][k].index,
                                value |-> ChainState[b][k].value]]
         /\ \A k \in DOMAIN ChainState[b] :
              ChainState[b][k].index \in 1..NumKeys(b) /\ ChainState[b][k].value \in Words
         /\ \A k, l \in DOMAIN ChainState[b] :
              ChainState[b][k].index = ChainState[b][l].index => k = l
         /\ \A i \in 1..NumKeys(b) : \E k \in DOMAIN ChainState[b] : ChainState[b][k].index = i
<1>1. EnumeratedBy(ChainState[b], NumKeys(b))
  BY ChainFacts
<1> QED BY <1>1 DEF EnumeratedBy, IndexRepeated, NumKeys

\* The initial changes of a batch add its new keys, in their order.
LEMMA InitialFacts ==
  ASSUME NEW b \in Batches
  PROVE  LET new == InitialChanges(b)
         IN  /\ new \in Seq([key : KeysOf(Diffs[b]), op : Ops, value : Words])
             /\ Len(new) \in Nat /\ NumKeys(b) = NumKeys(b - 1) + Len(new)
             /\ DOMAIN ChainState[b] = DOMAIN ChainState[b - 1] \cup {new[j].key : j \in 1..Len(new)}
             /\ \A j \in 1..Len(new) :
                  /\ new[j].key \in KeysOf(Diffs[b]) \ DOMAIN ChainState[b - 1]
                  /\ ChainState[b][new[j].key]
                       = [index |-> NumKeys(b - 1) + j,
                          value |-> Unpack(new[j].op, 0, new[j].value)]
             /\ \A k \in DOMAIN ChainState[b - 1] :
                  ChainState[b][k].index = ChainState[b - 1][k].index
<1> DEFINE new == InitialChanges(b)
           W   == [key : KeysOf(Diffs[b]), op : Ops, value : Words]
<1>1. Diffs[b] \in Seq(W) /\ OneWritePerKey(Diffs[b])
  BY L2Assumption
<1>2. new \in Seq(W)
  BY <1>1, NewWritesFacts, Zenon DEF InitialChanges
<1>3. DiffApplied(ChainState[b], ChainState[b - 1], NumKeys(b - 1), Diffs[b], new)
  BY ChainFacts
<1>4. Len(new) \in Nat
  BY <1>2, Elements, Zenon
<1> HIDE DEF new, W
<1>5. NumKeys(b) = NumKeys(b - 1) + Len(new)
  BY <1>3, EnumeratedCardinality DEF DiffApplied, NumKeys
<1>6. DOMAIN ChainState[b] = DOMAIN ChainState[b - 1] \cup {new[j].key : j \in 1..Len(new)}
  <2>1. \A j \in 1..Len(new) : new[j].key \in DOMAIN ChainState[b]
    BY <1>3 DEF DiffApplied
  <2>2. \A k \in DOMAIN ChainState[b] :
          k \in DOMAIN ChainState[b - 1] \/ \E j \in 1..Len(new) : k = new[j].key
    BY <1>3 DEF DiffApplied
  <2>3. DOMAIN ChainState[b - 1] \subseteq DOMAIN ChainState[b]
    BY <1>3 DEF DiffApplied
  <2> QED BY <2>1, <2>2, <2>3
<1>7. \A j \in 1..Len(new) :
        /\ new[j].key \in KeysOf(Diffs[b]) \ DOMAIN ChainState[b - 1]
        /\ ChainState[b][new[j].key]
             = [index |-> NumKeys(b - 1) + j, value |-> Unpack(new[j].op, 0, new[j].value)]
  BY <1>3 DEF DiffApplied
<1>8. \A k \in DOMAIN ChainState[b - 1] : ChainState[b][k].index = ChainState[b - 1][k].index
  BY <1>3 DEF DiffApplied
<1> QED BY <1>2, <1>4, <1>5, <1>6, <1>7, <1>8 DEF new, W

\* The repeated changes of a batch are those of the keys that are not new: each
\* names the index of one, and no two the same.
LEMMA RepeatedFacts ==
  ASSUME NEW b \in Batches
  PROVE  /\ \A r \in RepeatedChanges(b) : \E k \in DOMAIN ChainState[b - 1] :
              /\ ChainState[b - 1][k].index = r.index
              /\ ChainState[b][k] = [index |-> r.index,
                                     value |-> Unpack(r.op, ChainState[b - 1][k].value, r.value)]
         /\ \A k \in DOMAIN ChainState[b - 1] :
              \/ ChainState[b][k] = ChainState[b - 1][k]
              \/ \E r \in RepeatedChanges(b) : r.index = ChainState[b - 1][k].index
         /\ \A q, r \in RepeatedChanges(b) : q.index = r.index => q = r
         /\ \A r \in RepeatedChanges(b) : r.op \in Ops /\ r.value \in Words
<1> DEFINE s == Diffs[b]
           f == ChainState[b - 1]
           g == ChainState[b]
           change(i) == [index |-> f[s[i].key].index, op |-> s[i].op, value |-> s[i].value]
<1>1. /\ Len(s) \in Nat /\ DOMAIN s = 1..Len(s)
      /\ \A i \in 1..Len(s) : s[i] \in [key : KeysOf(s), op : Ops, value : Words]
      /\ \A i, j \in 1..Len(s) : s[i].key = s[j].key => i = j
  <2>1. s \in Seq([key : KeysOf(s), op : Ops, value : Words]) /\ OneWritePerKey(s)
    BY L2Assumption
  <2>2. /\ Len(s) \in Nat /\ DOMAIN s = 1..Len(s)
        /\ \A i \in 1..Len(s) : s[i] \in [key : KeysOf(s), op : Ops, value : Words]
    BY <2>1, Elements, Zenon
  <2> QED BY <2>1, <2>2 DEF OneWritePerKey
<1>2. DiffApplied(g, f, NumKeys(b - 1), s, InitialChanges(b))
  BY ChainFacts
<1>3. /\ \A k, l \in DOMAIN f : f[k].index = f[l].index => k = l
      /\ DOMAIN f \subseteq DOMAIN g
      /\ \A k \in DOMAIN g : g[k] = [index |-> g[k].index, value |-> g[k].value]
  <2>1. b - 1 \in 0..NumBatches /\ b \in 0..NumBatches
    BY L2Assumption DEF Batches
  <2>2. g = [k \in DOMAIN g |-> [index |-> g[k].index, value |-> g[k].value]]
    BY <2>1, StateFacts
  <2>3. \A k \in DOMAIN g : g[k] = [index |-> g[k].index, value |-> g[k].value]
    BY <2>2
  <2>4. DOMAIN f \subseteq DOMAIN g
    BY <1>2 DEF DiffApplied
  <2> QED BY <2>1, <2>3, <2>4, StateFacts
<1>4. RepeatedChanges(b) = {change(i) : i \in {j \in 1..Len(s) : s[j].key \in DOMAIN f}}
  BY <1>1 DEF RepeatedChanges
<1>5. ASSUME NEW i \in 1..Len(s), s[i].key \in DOMAIN f
      PROVE  /\ g[s[i].key].index = f[s[i].key].index
             /\ g[s[i].key].value = Unpack(s[i].op, f[s[i].key].value, s[i].value)
  BY <1>2, <1>5 DEF DiffApplied
<1>6. \A k \in DOMAIN f : k \notin KeysOf(s) => g[k] = f[k]
  BY <1>2 DEF DiffApplied
<1>7. \A k \in KeysOf(s) : \E i \in 1..Len(s) : k = s[i].key
  BY <1>1 DEF KeysOf
<1> HIDE DEF s, f, g
<1>8. ASSUME NEW r \in RepeatedChanges(b)
      PROVE  \E i \in 1..Len(s) : /\ s[i].key \in DOMAIN f /\ r = change(i)
                                  /\ r.index = f[s[i].key].index
                                  /\ r.op = s[i].op /\ r.value = s[i].value
  BY <1>4
<1>9. ASSUME NEW r \in RepeatedChanges(b)
      PROVE  \E k \in DOMAIN f :
               /\ f[k].index = r.index
               /\ g[k] = [index |-> r.index, value |-> Unpack(r.op, f[k].value, r.value)]
  <2>1. PICK i \in 1..Len(s) : /\ s[i].key \in DOMAIN f
                               /\ r.index = f[s[i].key].index
                               /\ r.op = s[i].op /\ r.value = s[i].value
    BY <1>8
  <2> DEFINE k == s[i].key
             v == Unpack(r.op, f[k].value, r.value)
  <2>2. g[k].index = r.index /\ g[k].value = v
    BY <1>5, <2>1
  <2>3. g[k] = [index |-> g[k].index, value |-> g[k].value]
    BY <1>3, <2>1
  <2>4. g[k] = [index |-> r.index, value |-> v]
    <3> HIDE DEF k, v
    <3> QED BY <2>2, <2>3
  <2> QED BY <2>1, <2>4
<1>10. ASSUME NEW k \in DOMAIN f
       PROVE  g[k] = f[k] \/ \E r \in RepeatedChanges(b) : r.index = f[k].index
  <2>1. CASE k \notin KeysOf(s)
    BY <1>6, <2>1
  <2>2. CASE k \in KeysOf(s)
    <3>1. PICK i \in 1..Len(s) : k = s[i].key
      BY <1>7, <2>2
    <3>2. change(i) \in RepeatedChanges(b) /\ change(i).index = f[k].index
      BY <1>4, <3>1
    <3> QED BY <3>2
  <2> QED BY <2>1, <2>2
<1>11. ASSUME NEW q \in RepeatedChanges(b), NEW r \in RepeatedChanges(b), q.index = r.index
       PROVE  q = r
  <2>1. PICK i \in 1..Len(s) : /\ s[i].key \in DOMAIN f /\ q = change(i)
                               /\ q.index = f[s[i].key].index
    BY <1>8
  <2>2. PICK j \in 1..Len(s) : /\ s[j].key \in DOMAIN f /\ r = change(j)
                               /\ r.index = f[s[j].key].index
    BY <1>8
  <2>3. i = j
    BY <1>1, <1>3, <1>11, <2>1, <2>2
  <2> QED BY <2>1, <2>2, <2>3
<1>12. ASSUME NEW r \in RepeatedChanges(b) PROVE r.op \in Ops /\ r.value \in Words
  <2>1. PICK i \in 1..Len(s) : r.op = s[i].op /\ r.value = s[i].value
    BY <1>8
  <2> QED BY <1>1, <2>1
<1> QED BY <1>9, <1>10, <1>11, <1>12 DEF f, g

\* Each repeated change names the index of a key that is not new.
LEMMA RepeatedKeys ==
  ASSUME NEW b \in Batches, NEW r \in RepeatedChanges(b)
  PROVE  \E k \in DOMAIN ChainState[b - 1] : ChainState[b - 1][k].index = r.index
<1>1. PICK k \in DOMAIN ChainState[b - 1] :
        /\ ChainState[b - 1][k].index = r.index
        /\ ChainState[b][k] = [index |-> r.index,
                               value |-> Unpack(r.op, ChainState[b - 1][k].value, r.value)]
  BY RepeatedFacts
<1> QED BY <1>1

\* A later state has all keys of an earlier one under the same indices, and no
\* other key under one of those.
LEMMA ChainGrows ==
  ASSUME NEW a \in 0..NumBatches, NEW b \in a..NumBatches
  PROVE  /\ NumKeys(a) <= NumKeys(b)
         /\ \A k \in DOMAIN ChainState[a] :
              k \in DOMAIN ChainState[b] /\ ChainState[b][k].index = ChainState[a][k].index
         /\ \A k \in DOMAIN ChainState[b] :
              ChainState[b][k].index <= NumKeys(a) => k \in DOMAIN ChainState[a]
<1> DEFINE Grown(c) == /\ NumKeys(a) <= NumKeys(c)
                       /\ \A k \in DOMAIN ChainState[a] :
                            /\ k \in DOMAIN ChainState[c]
                            /\ ChainState[c][k].index = ChainState[a][k].index
           Good == {n \in Nat : a + n <= NumBatches => Grown(a + n)}
<1>1. NumBatches \in Nat /\ a \in Nat /\ NumKeys(a) \in Nat
  <2>1. NumKeys(a) \in Nat
    BY StateFacts, Zenon
  <2> QED BY <2>1, L2Assumption
<1>2. 0 \in Good
  BY <1>1
<1>3. ASSUME NEW n \in Nat, n \in Good PROVE n + 1 \in Good
  <2> SUFFICES ASSUME a + (n + 1) <= NumBatches PROVE Grown(a + (n + 1))
    OBVIOUS
  <2> DEFINE c == a + (n + 1)
  <2>1. c \in Batches /\ c - 1 = a + n /\ a + n <= NumBatches /\ c - 1 \in 0..NumBatches
    BY <1>1 DEF Batches
  <2>2. Grown(c - 1)
    BY <1>3, <2>1
  <2>3. /\ Len(InitialChanges(c)) \in Nat /\ NumKeys(c) = NumKeys(c - 1) + Len(InitialChanges(c))
        /\ DOMAIN ChainState[c - 1] \subseteq DOMAIN ChainState[c]
        /\ \A k \in DOMAIN ChainState[c - 1] :
             ChainState[c][k].index = ChainState[c - 1][k].index
    <3> HIDE DEF c
    <3>1. c \in Batches
      BY <2>1
    <3>2. Len(InitialChanges(c)) \in Nat /\ NumKeys(c) = NumKeys(c - 1) + Len(InitialChanges(c))
      BY <3>1, InitialFacts, Zenon
    <3>3. DOMAIN ChainState[c - 1] \subseteq DOMAIN ChainState[c]
      <4>1. DOMAIN ChainState[c] =
              DOMAIN ChainState[c - 1]
              \cup {InitialChanges(c)[j].key : j \in 1..Len(InitialChanges(c))}
        BY <3>1, InitialFacts, Zenon
      <4> QED BY ONLY <4>1
    <3>4. \A k \in DOMAIN ChainState[c - 1] :
            ChainState[c][k].index = ChainState[c - 1][k].index
      BY <3>1, InitialFacts, Zenon
    <3> QED BY ONLY <3>2, <3>3, <3>4
  <2>4. NumKeys(c - 1) \in Nat
    BY <2>1, StateFacts
  <2> HIDE DEF c
  <2>5. Grown(c)
    BY <1>1, <2>2, <2>3, <2>4
  <2> QED BY <2>5 DEF c
<1>4. Grown(b)
  <2>1. b - a \in Good
    <3> HIDE DEF Good
    <3> QED BY <1>1, <1>2, <1>3, NatSet
  <2>2. a + (b - a) = b
    BY <1>1
  <2> QED BY <1>1, <2>1, <2>2
<1>5. ASSUME NEW k \in DOMAIN ChainState[b], ChainState[b][k].index <= NumKeys(a)
      PROVE  k \in DOMAIN ChainState[a]
  <2>1. b \in 0..NumBatches
    BY <1>1
  <2>2. ChainState[b][k].index \in 1..NumKeys(b) /\ NumKeys(b) \in Nat
    BY <2>1, StateFacts, Zenon
  <2> DEFINE i == ChainState[b][k].index
  <2>3. i \in 1..NumKeys(a)
    <3> HIDE DEF i
    <3>1. i <= NumKeys(a) /\ i \in 1..NumKeys(b)
      BY <1>5, <2>2 DEF i
    <3> QED BY <1>1, <2>2, <3>1
  <2>4. \A j \in 1..NumKeys(a) : \E l \in DOMAIN ChainState[a] : ChainState[a][l].index = j
    BY StateFacts, Zenon
  <2>5. PICK l \in DOMAIN ChainState[a] : ChainState[a][l].index = i
    BY <2>3, <2>4
  <2>6. l \in DOMAIN ChainState[b] /\ ChainState[b][l].index = ChainState[b][k].index
    BY <1>4, <2>5
  <2>7. l = k
    BY <2>1, <2>6, StateFacts
  <2> QED BY <2>7
<1> QED BY <1>4, <1>5

=============================================================================
