--------------------------- MODULE SequenceLemmas ---------------------------
(***************************************************************************)
(* Sequences of anything, for the proofs about queues and histories: a      *)
(* sequence s is known by s \in Seq(Range(s)), whatever its elements are.   *)
(***************************************************************************)
EXTENDS Integers, SequencesExt, FiniteSetTheorems, WellFoundedInduction, Selections, TLAPS

\* A sequence is one of its own elements.
LEMMA OfOwnElements == ASSUME NEW S, NEW s \in Seq(S) PROVE s \in Seq(Range(s))
<1>1. Len(s) \in Nat /\ s \in [1 .. Len(s) -> Range(s)]
  BY DEF Range
<1>2. \A T : s \in [1 .. Len(s) -> T] => s \in Seq(T)
  BY <1>1
<1>3. s \in Seq(Range(s))
  BY <1>1, <1>2
<1> QED
  BY <1>3

\* Appending one element.
LEMMA AppendFacts ==
    ASSUME NEW s, s \in Seq(Range(s)), NEW x
    PROVE  /\ Append(s, x) \in Seq(Range(Append(s, x)))
           /\ DOMAIN s = 1 .. Len(s) /\ Len(s) \in Nat
           /\ DOMAIN Append(s, x) = 1 .. Len(s) + 1
           /\ \A i \in DOMAIN s : Append(s, x)[i] = s[i]
           /\ Append(s, x)[Len(s) + 1] = x
<1>1. s \in Seq(Range(s) \cup {x}) /\ x \in Range(s) \cup {x}
  OBVIOUS
<1> DEFINE S == Range(s) \cup {x}
<1> HIDE DEF S
<1>2. s \in Seq(S) /\ x \in S
  BY <1>1 DEF S
<1>3. Append(s, x) \in Seq(S)
  BY <1>2
<1>4. Append(s, x) \in Seq(Range(Append(s, x)))
  BY <1>3, OfOwnElements
<1> QED
  BY <1>2, <1>4

\* Appending a sequence.
LEMMA ConcatFacts ==
    ASSUME NEW s, s \in Seq(Range(s)), NEW n \in Nat, NEW t, DOMAIN t = 1 .. n,
           t \in Seq(Range(t))
    PROVE  /\ s \o t \in Seq(Range(s \o t))
           /\ DOMAIN s = 1 .. Len(s) /\ Len(s) \in Nat
           /\ DOMAIN (s \o t) = 1 .. Len(s) + n
           /\ \A i \in DOMAIN s : (s \o t)[i] = s[i]
           /\ \A i \in 1 .. n : (s \o t)[Len(s) + i] = t[i]
<1> DEFINE S == Range(s) \cup Range(t)
<1>1. s \in Seq(S) /\ t \in Seq(S)
  OBVIOUS
<1> HIDE DEF S
<1>2. s \o t \in Seq(S)
  BY <1>1
<1>3. s \o t \in Seq(Range(s \o t))
  BY <1>2, OfOwnElements
<1>4. Len(t) = n
  BY <1>1
<1> QED
  BY <1>1, <1>3, <1>4

\* The same where the elements have a type.
LEMMA TypedConcat ==
    ASSUME NEW S, NEW s \in Seq(S), NEW t \in Seq(S)
    PROVE  s \o t \in Seq(S) /\ Len(s \o t) = Len(s) + Len(t)
  OBVIOUS

\* A part of a sequence.
LEMMA PartFacts ==
    ASSUME NEW S, NEW s \in Seq(S), NEW a \in 1 .. Len(s) + 1, NEW b \in a - 1 .. Len(s)
    PROVE  /\ SubSeq(s, a, b) \in Seq(S) /\ Len(SubSeq(s, a, b)) = b - a + 1
           /\ \A i \in 1 .. b - a + 1 : SubSeq(s, a, b)[i] = s[a + i - 1]
<1>1. PICK l \in Nat : l = Len(s)
  OBVIOUS
<1>2. a \in Nat /\ b \in Nat /\ 1 <= a /\ b <= l /\ a <= b + 1
  BY <1>1
<1> QED
  BY <1>1, <1>2

\* A sequence of one element.
LEMMA SingleFacts ==
    ASSUME NEW a
    PROVE  /\ <<a>> \in Seq(Range(<<a>>)) /\ DOMAIN <<a>> = 1 .. 1 /\ <<a>>[1] = a
           /\ \A i \in DOMAIN <<a>> : <<a>>[i] = a
<1>1. <<a>> \in Seq({a})
  OBVIOUS
<1>2. <<a>> \in Seq(Range(<<a>>))
  BY <1>1, OfOwnElements
<1>3. Len(<<a>>) = 1 /\ <<a>>[1] = a
  OBVIOUS
<1>4. DOMAIN <<a>> = 1 .. 1
  BY <1>1, <1>3
<1>5. \A i \in 1 .. 1 : i = 1
  OBVIOUS
<1> QED
  BY <1>2, <1>3, <1>4, <1>5

\* A sequence of two.
LEMMA PairFacts ==
    ASSUME NEW a, NEW b
    PROVE  /\ <<a, b>> \in Seq(Range(<<a, b>>)) /\ DOMAIN <<a, b>> = 1 .. 2
           /\ <<a, b>>[1] = a /\ <<a, b>>[2] = b
           /\ \A i \in DOMAIN <<a, b>> : <<a, b>>[i] \in {a, b}
<1>1. <<a, b>> \in Seq({a, b})
  OBVIOUS
<1>2. <<a, b>> \in Seq(Range(<<a, b>>))
  BY <1>1, OfOwnElements
<1>3. Len(<<a, b>>) = 2 /\ <<a, b>>[1] = a /\ <<a, b>>[2] = b
  OBVIOUS
<1>4. DOMAIN <<a, b>> = 1 .. 2
  BY <1>1, <1>3
<1>5. \A i \in 1 .. 2 : i = 1 \/ i = 2
  OBVIOUS
<1> QED
  BY <1>2, <1>3, <1>4, <1>5

\* A set in some order: each element comes once.
LEMMA SetToSeqFacts ==
    ASSUME NEW S, IsFiniteSet(S)
    PROVE  /\ Cardinality(S) \in Nat
           /\ SetToSeq(S) \in [1 .. Cardinality(S) -> S]
           /\ IsInjective(SetToSeq(S))
<1>1. Cardinality(S) \in Nat /\ ExistsBijection(1 .. Cardinality(S), S)
  BY FS_CardinalityType
<1>2. \E f \in [1 .. Cardinality(S) -> S] : IsInjective(f)
  BY <1>1 DEF ExistsBijection, Bijection, Injection
<1> QED
  BY <1>1, <1>2 DEF SetToSeq

\* Taking the first element.
LEMMA TailFacts ==
    ASSUME NEW s, s \in Seq(Range(s)), s # <<>>
    PROVE  /\ Tail(s) \in Seq(Range(Tail(s)))
           /\ Len(s) \in Nat \ {0} /\ DOMAIN s = 1 .. Len(s) /\ Head(s) = s[1]
           /\ Len(Tail(s)) = Len(s) - 1 /\ DOMAIN Tail(s) = 1 .. Len(s) - 1
           /\ \A i \in 1 .. Len(s) - 1 : Tail(s)[i] = s[i + 1]
<1> DEFINE S == Range(s)
<1>1. s \in Seq(S)
  OBVIOUS
<1> HIDE DEF S
<1>2. Tail(s) \in Seq(S)
  BY <1>1
<1>3. Tail(s) \in Seq(Range(Tail(s)))
  BY <1>2, OfOwnElements
<1> QED
  BY <1>1, <1>3

-----------------------------------------------------------------------------
(* Induction, and the loop of Select                                       *)

\* A set of naturals that is not empty has a least element ...
LEMMA Least ==
    ASSUME NEW T, T \subseteq Nat, T # {}
    PROVE  \E x \in T : \A y \in T : x <= y
<1>1. PICK R : R = OpToRel(<, Nat)
  OBVIOUS
<1>2. IsWellFoundedOn(R, Nat)
  BY <1>1, NatLessThanWellFounded
<1>3. PICK x \in T : \A y \in T : ~ (<<y, x>> \in R)
  BY <1>2, WFMin
<1>4. \A y, z \in Nat : y < z => <<y, z>> \in R
  BY <1>1 DEF OpToRel
<1>5. \A y \in T : ~(y < x) /\ x \in Nat /\ y \in Nat
  BY <1>3, <1>4
<1>6. \A y \in T : x <= y
  BY <1>5
<1> QED
  BY <1>6

\* ... so a set that has 0 and the successor of each of its members has every natural.
LEMMA Induction ==
    ASSUME NEW S, 0 \in S, \A n \in Nat : n \in S => n + 1 \in S
    PROVE  \A n \in Nat : n \in S
<1>1. SUFFICES ASSUME Nat \ S # {} PROVE FALSE
  OBVIOUS
<1>2. PICK x \in Nat \ S : \A y \in Nat \ S : x <= y
  BY <1>1, Least
<1>3. x # 0 /\ x - 1 \in Nat
  BY <1>2
<1>4. x - 1 \in S
  BY <1>2, <1>3
<1> QED
  BY <1>2, <1>3, <1>4

\* One turn of the loop of Select; f has the results of the turns before.
SelectStep(f, n, list, wanted) ==
    IF n = 0 THEN <<>>
    ELSE IF list[n] \in wanted THEN Append(f[n - 1], list[n]) ELSE f[n - 1]

\* The loop has a result, after any number of turns ...
LEMMA LoopExists ==
    ASSUME NEW list, NEW wanted, NEW l \in Nat
    PROVE  \E f : f = [n \in 0 .. l |-> SelectStep(f, n, list, wanted)]
<1> DEFINE S == {m \in Nat : \E f : f = [n \in 0 .. m |-> SelectStep(f, n, list, wanted)]}
<1>1. 0 \in S
  <2> DEFINE f == [n \in 0 .. 0 |-> <<>>]
  <2>1. f = [n \in 0 .. 0 |-> SelectStep(f, n, list, wanted)]
    BY DEF SelectStep
  <2> QED
    BY <2>1
<1>2. ASSUME NEW m \in Nat, m \in S PROVE m + 1 \in S
  <2>1. PICK f : f = [n \in 0 .. m |-> SelectStep(f, n, list, wanted)]
    BY <1>2
  <2> DEFINE g == [n \in 0 .. m + 1 |-> IF n = m + 1 THEN SelectStep(f, m + 1, list, wanted) ELSE f[n]]
  <2>2. ASSUME NEW n \in 0 .. m + 1 PROVE g[n] = SelectStep(g, n, list, wanted)
    <3>1. n # 0 => n - 1 \in 0 .. m /\ g[n - 1] = f[n - 1]
      OBVIOUS
    <3>2. g[n] = SelectStep(f, n, list, wanted)
      BY <2>1
    <3> QED
      BY <3>1, <3>2 DEF SelectStep
  <2>3. g = [n \in 0 .. m + 1 |-> SelectStep(g, n, list, wanted)]
    BY <2>2
  <2> HIDE DEF g
  <2> QED
    BY <2>3
<1>3. l \in S
  <2> HIDE DEF S
  <2> QED
    BY <1>1, <1>2, Induction
<1> QED
  BY <1>3

\* ... and Select is what its last turn leaves.
LEMMA SelectLoop ==
    ASSUME NEW list, NEW wanted, Len(list) \in Nat
    PROVE  \E f : /\ f = [n \in 0 .. Len(list) |-> SelectStep(f, n, list, wanted)]
                  /\ Select(list, wanted) = f[Len(list)]
<1> DEFINE f == CHOOSE upTo : upTo = [n \in 0 .. Len(list) |-> SelectStep(upTo, n, list, wanted)]
<1>1. f = [n \in 0 .. Len(list) |-> SelectStep(f, n, list, wanted)]
  BY LoopExists
<1>2. Select(list, wanted) = f[Len(list)]
  BY DEF Select, SelectStep
<1> HIDE DEF f
<1> QED
  BY <1>1, <1>2

\* t is what the first n elements of list have of wanted; pos is where they were.
Selected(list, wanted, n, t, pos) ==
    /\ t \in Seq(Range(list)) /\ pos \in [DOMAIN t -> 1 .. n]
    /\ \A i \in DOMAIN t : t[i] = list[pos[i]] /\ t[i] \in wanted
    /\ \A i, j \in DOMAIN t : i < j => pos[i] < pos[j]
    /\ \A k \in 1 .. n : list[k] \in wanted => \E i \in DOMAIN t : pos[i] = k

\* Select keeps the order, takes only what is wanted, and leaves none of it out.
LEMMA SelectFacts ==
    ASSUME NEW list, list \in Seq(Range(list)), NEW wanted
    PROVE  \E pos : Selected(list, wanted, Len(list), Select(list, wanted), pos)
<1> DEFINE l == Len(list)
<1>1. l \in Nat /\ DOMAIN list = 1 .. l
  OBVIOUS
<1>2. PICK f : f = [n \in 0 .. l |-> SelectStep(f, n, list, wanted)] /\ Select(list, wanted) = f[l]
  BY <1>1, SelectLoop
<1> HIDE DEF l
<1> DEFINE S == {m \in Nat : m <= l => \E pos : Selected(list, wanted, m, f[m], pos)}
<1>3. 0 \in S
  <2>1. f[0] = <<>>
    BY <1>1, <1>2 DEF SelectStep
  <2> DEFINE pos == [i \in DOMAIN <<>> |-> 1]
  <2>2. Selected(list, wanted, 0, f[0], pos)
    BY <2>1 DEF Selected
  <2> QED
    BY <2>2
<1>4. ASSUME NEW m \in Nat, m \in S PROVE m + 1 \in S
  <2>1. SUFFICES ASSUME m + 1 <= l PROVE \E pos : Selected(list, wanted, m + 1, f[m + 1], pos)
    OBVIOUS
  <2>2. m + 1 \in 1 .. l /\ m + 1 # 0 /\ (m + 1) - 1 = m /\ m <= l
    BY <1>1, <2>1
  <2>3. PICK pos : Selected(list, wanted, m, f[m], pos)
    BY <1>4, <2>2
  <2>4. f[m + 1] = IF list[m + 1] \in wanted THEN Append(f[m], list[m + 1]) ELSE f[m]
    <3>1. m + 1 \in 0 .. l
      BY <1>1, <2>2
    <3>2. f[m + 1] = SelectStep(f, m + 1, list, wanted)
      BY <1>2, <3>1
    <3> QED
      BY <2>2, <3>2 DEF SelectStep
  <2>5. CASE list[m + 1] \notin wanted
    <3>1. Selected(list, wanted, m + 1, f[m], pos)
      BY <2>2, <2>3, <2>5 DEF Selected
    <3> QED
      BY <2>4, <2>5, <3>1
  <2>6. CASE list[m + 1] \in wanted
    <3>1. PICK t : t = f[m]
      OBVIOUS
    <3>2. PICK x \in Range(list) : x = list[m + 1]
      BY <1>1, <2>2
    <3>3. PICK k \in Nat : k = Len(t)
      BY <2>3, <3>1 DEF Selected
    <3> DEFINE q == [i \in 1 .. k + 1 |-> IF i = k + 1 THEN m + 1 ELSE pos[i]]
               u == Append(t, x)
    <3>4. t \in Seq(Range(list)) /\ DOMAIN t = 1 .. k
      BY <2>3, <3>1, <3>3 DEF Selected
    <3>5. /\ u \in Seq(Range(list)) /\ DOMAIN u = 1 .. k + 1
          /\ \A i \in 1 .. k : u[i] = t[i]
      BY <3>3, <3>4
    <3>12. u[k + 1] = x
      BY <3>3, <3>4
    <3> HIDE DEF u
    <3>6. q \in [DOMAIN u -> 1 .. m + 1]
      BY <2>3, <3>1, <3>4, <3>5 DEF Selected
    <3>7. \A i \in DOMAIN u : u[i] = list[q[i]] /\ u[i] \in wanted
      <4> TAKE i \in DOMAIN u
      <4>1. CASE i = k + 1
        BY <2>6, <3>2, <3>3, <3>12, <4>1
      <4>2. CASE i # k + 1
        <5>1. i \in DOMAIN t /\ q[i] = pos[i] /\ u[i] = t[i]
          BY <3>3, <3>4, <3>5, <4>2
        <5> HIDE DEF q
        <5> QED
          BY <2>3, <3>1, <5>1 DEF Selected
      <4> QED
        BY <4>1, <4>2
    <3>8. \A i, j \in DOMAIN u : i < j => q[i] < q[j]
      BY <2>3, <3>1, <3>4, <3>5 DEF Selected
    <3>9. \A n \in 1 .. m + 1 : list[n] \in wanted => \E i \in DOMAIN u : q[i] = n
      <4> TAKE n \in 1 .. m + 1
      <4>1. CASE n = m + 1
        BY <3>3, <3>5, <4>1
      <4>2. CASE n # m + 1
        BY <2>3, <3>1, <3>4, <3>5, <4>2 DEF Selected
      <4> QED
        BY <4>1, <4>2
    <3>10. f[m + 1] = u
      BY <2>4, <2>6, <3>1, <3>2 DEF u
    <3> HIDE DEF q
    <3>11. Selected(list, wanted, m + 1, u, q)
      BY <3>5, <3>6, <3>7, <3>8, <3>9 DEF Selected
    <3> QED
      BY <3>10, <3>11
  <2> QED
    BY <2>5, <2>6
<1>5. l \in S
  <2> HIDE DEF S
  <2> QED
    BY <1>1, <1>3, <1>4, Induction
<1> QED
  BY <1>1, <1>2, <1>5 DEF l
-----------------------------------------------------------------------------
(* FlattenSeq                                                              *)

\* One turn of its loop.
FlattenStep(f, n, s) == IF n = 1 THEN s[n] ELSE f[n - 1] \o s[n]

\* The loop has a result, after any number of turns ...
LEMMA FlattenExists ==
    ASSUME NEW s, NEW l \in Nat
    PROVE  \E f : f = [n \in 1 .. l |-> FlattenStep(f, n, s)]
<1> DEFINE S == {m \in Nat : \E f : f = [n \in 1 .. m |-> FlattenStep(f, n, s)]}
<1>1. 0 \in S
  <2> DEFINE f == [n \in 1 .. 0 |-> <<>>]
  <2>1. f = [n \in 1 .. 0 |-> FlattenStep(f, n, s)]
    OBVIOUS
  <2> QED
    BY <2>1
<1>2. ASSUME NEW m \in Nat, m \in S PROVE m + 1 \in S
  <2>1. PICK f : f = [n \in 1 .. m |-> FlattenStep(f, n, s)]
    BY <1>2
  <2> DEFINE g == [n \in 1 .. m + 1 |-> IF n = m + 1 THEN FlattenStep(f, m + 1, s) ELSE f[n]]
  <2>2. ASSUME NEW n \in 1 .. m + 1 PROVE g[n] = FlattenStep(g, n, s)
    <3>1. n # 1 => n - 1 \in 1 .. m /\ g[n - 1] = f[n - 1]
      OBVIOUS
    <3>2. g[n] = FlattenStep(f, n, s)
      BY <2>1
    <3> QED
      BY <3>1, <3>2 DEF FlattenStep
  <2>3. g = [n \in 1 .. m + 1 |-> FlattenStep(g, n, s)]
    BY <2>2
  <2> HIDE DEF g
  <2> QED
    BY <2>3
<1>3. l \in S
  <2> HIDE DEF S
  <2> QED
    BY <1>1, <1>2, Induction
<1> QED
  BY <1>3

\* ... and FlattenSeq is what its last turn leaves.
LEMMA FlattenLoop ==
    ASSUME NEW s, Len(s) \in Nat \ {0}
    PROVE  \E f : /\ f = [n \in 1 .. Len(s) |-> FlattenStep(f, n, s)]
                  /\ FlattenSeq(s) = f[Len(s)]
<1> DEFINE f == CHOOSE flatten : flatten = [i \in 1 .. Len(s) |-> FlattenStep(flatten, i, s)]
<1>1. f = [n \in 1 .. Len(s) |-> FlattenStep(f, n, s)]
  BY FlattenExists
<1>2. FlattenSeq(s) = f[Len(s)]
  BY DEF FlattenSeq, FlattenStep
<1> HIDE DEF f
<1> QED
  BY <1>1, <1>2

\* t is the first n sequences of s in a row; its element p is element col[p] of s[row[p]].
Flattened(s, n, t, row, col) ==
    /\ row \in [DOMAIN t -> 1 .. n] /\ col \in [DOMAIN t -> Nat]
    /\ \A p \in DOMAIN t : col[p] \in DOMAIN s[row[p]] /\ t[p] = s[row[p]][col[p]]
    /\ \A p, q \in DOMAIN t : p < q => row[p] < row[q] \/ (row[p] = row[q] /\ col[p] < col[q])
    /\ \A i \in 1 .. n : \A k \in DOMAIN s[i] : \E p \in DOMAIN t : row[p] = i /\ col[p] = k

\* One more sequence.
LEMMA FlattenedMore ==
    ASSUME NEW T, NEW n \in Nat, NEW s, NEW t \in Seq(T), NEW u \in Seq(T), u = s[n + 1],
           NEW row, NEW col, Flattened(s, n, t, row, col)
    PROVE  \E r, c : Flattened(s, n + 1, t \o u, r, c)
<1>1. PICK l \in Nat : l = Len(t) /\ DOMAIN t = 1 .. l
  OBVIOUS
<1>2. PICK k \in Nat : k = Len(u) /\ DOMAIN u = 1 .. k
  OBVIOUS
<1>3. PICK v \in Seq(T) : v = t \o u
  <2>1. t \o u \in Seq(T)
    OBVIOUS
  <2> QED
    BY <2>1
<1>4. /\ DOMAIN v = 1 .. l + k
      /\ \A p \in 1 .. l : v[p] = t[p]
      /\ \A p \in 1 .. k : v[l + p] = u[p]
  BY <1>1, <1>2, <1>3
<1> DEFINE r == [p \in 1 .. l + k |-> IF p <= l THEN row[p] ELSE n + 1]
           c == [p \in 1 .. l + k |-> IF p <= l THEN col[p] ELSE p - l]
<1>5. \A p \in 1 .. l + k : \/ p \in 1 .. l /\ r[p] = row[p] /\ c[p] = col[p] /\ v[p] = t[p]
                            \/ /\ p \notin 1 .. l /\ p - l \in 1 .. k /\ r[p] = n + 1
                               /\ c[p] = p - l /\ v[p] = u[p - l]
  <2> TAKE p \in 1 .. l + k
  <2>1. CASE p <= l
    BY <1>4, <2>1
  <2>2. CASE ~(p <= l)
    <3>1. p - l \in 1 .. k /\ l + (p - l) = p
      BY <2>2
    <3> QED
      BY <1>4, <2>2, <3>1
  <2> QED
    BY <2>1, <2>2
<1>6. \A p \in 1 .. l : row[p] \in 1 .. n /\ col[p] \in Nat
  BY <1>1 DEF Flattened
<1>7. r \in [1 .. l + k -> 1 .. n + 1] /\ c \in [1 .. l + k -> Nat]
  BY <1>6
<1>8. \A p \in 1 .. l + k : p \notin 1 .. l => r[p] = n + 1 /\ c[p] = p - l /\ p - l \in 1 .. k /\ v[p] = u[p - l]
  BY <1>5
<1>9. \A p \in 1 .. l : r[p] = row[p] /\ c[p] = col[p] /\ v[p] = t[p]
  BY <1>4
<1>10. \A i \in 1 .. n + 1 : i \in 1 .. n \/ i = n + 1
  OBVIOUS
<1>15. \A p \in 1 .. k : l + p \in 1 .. l + k /\ r[l + p] = n + 1 /\ c[l + p] = p
  OBVIOUS
<1> HIDE DEF r, c
<1>11. \A p \in DOMAIN v : c[p] \in DOMAIN s[r[p]] /\ v[p] = s[r[p]][c[p]]
  <2> SUFFICES ASSUME NEW p \in 1 .. l + k PROVE c[p] \in DOMAIN s[r[p]] /\ v[p] = s[r[p]][c[p]]
    BY <1>4
  <2>1. CASE p \in 1 .. l
    <3>1. col[p] \in DOMAIN s[row[p]] /\ t[p] = s[row[p]][col[p]]
      BY <1>1, <2>1 DEF Flattened
    <3> QED
      BY <1>9, <2>1, <3>1
  <2>2. CASE p \notin 1 .. l
    BY <1>2, <1>8, <2>2
  <2> QED
    BY <2>1, <2>2
<1>12. \A p, q \in DOMAIN v : p < q => r[p] < r[q] \/ (r[p] = r[q] /\ c[p] < c[q])
  <2> SUFFICES ASSUME NEW p \in 1 .. l + k, NEW q \in 1 .. l + k, p < q
               PROVE  r[p] < r[q] \/ (r[p] = r[q] /\ c[p] < c[q])
    BY <1>4
  <2>1. CASE q \in 1 .. l
    <3>1. p \in 1 .. l
      BY <2>1
    <3> QED
      <4>1. row[p] < row[q] \/ (row[p] = row[q] /\ col[p] < col[q])
        BY <1>1, <2>1, <3>1 DEF Flattened
      <4> QED
        BY <1>9, <2>1, <3>1, <4>1
  <2>2. CASE p \in 1 .. l /\ q \notin 1 .. l
    <3>1. r[p] \in 1 .. n /\ r[q] = n + 1
      BY <1>6, <1>8, <1>9, <2>2
    <3> QED
      BY <3>1
  <2>3. CASE p \notin 1 .. l /\ q \notin 1 .. l
    BY <1>8, <2>3
  <2> QED
    BY <2>1, <2>2, <2>3
<1>13. \A i \in 1 .. n + 1 : \A j \in DOMAIN s[i] : \E p \in DOMAIN v : r[p] = i /\ c[p] = j
  <2> TAKE i \in 1 .. n + 1
  <2> TAKE j \in DOMAIN s[i]
  <2>1. CASE i \in 1 .. n
    <3>1. PICK p \in 1 .. l : row[p] = i /\ col[p] = j
      BY <1>1, <2>1 DEF Flattened
    <3>2. p \in DOMAIN v
      BY <1>4
    <3> QED
      BY <1>9, <3>1, <3>2
  <2>2. CASE i = n + 1
    BY <1>2, <1>4, <1>15, <2>2
  <2> QED
    BY <1>10, <2>1, <2>2
<1>14. Flattened(s, n + 1, v, r, c)
  BY <1>4, <1>7, <1>11, <1>12, <1>13 DEF Flattened
<1> QED
  BY <1>3, <1>14

\* FlattenSeq keeps all elements of all sequences, in their order.
LEMMA FlattenFacts ==
    ASSUME NEW T, NEW s \in Seq(Seq(T))
    PROVE  /\ FlattenSeq(s) \in Seq(T)
           /\ \E row, col : Flattened(s, Len(s), FlattenSeq(s), row, col)
<1>1. PICK l \in Nat : l = Len(s) /\ DOMAIN s = 1 .. l
  OBVIOUS
<1>2. CASE l = 0
  <2>1. FlattenSeq(s) = s /\ s = <<>>
    BY <1>1, <1>2 DEF FlattenSeq
  <2> DEFINE none == [p \in DOMAIN <<>> |-> 1]
  <2>2. Flattened(s, 0, <<>>, none, none)
    BY DEF Flattened
  <2> QED
    BY <1>1, <1>2, <2>1, <2>2
<1>3. CASE l # 0
  <2>1. PICK f : f = [n \in 1 .. l |-> FlattenStep(f, n, s)] /\ FlattenSeq(s) = f[l]
    BY <1>1, <1>3, FlattenLoop
  <2> DEFINE S == {m \in Nat : m + 1 <= l =>
                      f[m + 1] \in Seq(T) /\ \E row, col : Flattened(s, m + 1, f[m + 1], row, col)}
  <2>2. 0 \in S
    <3>1. PICK u \in Seq(T) : u = s[1]
      BY <1>1, <1>3
    <3>2. f[1] = u
      BY <1>1, <1>3, <2>1, <3>1 DEF FlattenStep
    <3> DEFINE row == [p \in DOMAIN u |-> 1]
               col == [p \in DOMAIN u |-> p]
    <3>3. \A p \in DOMAIN u : p \in Nat
      OBVIOUS
    <3>5. \A i \in 1 .. 1 : i = 1
      OBVIOUS
    <3>4. Flattened(s, 1, u, row, col)
      <4>1. row \in [DOMAIN u -> 1 .. 1] /\ col \in [DOMAIN u -> Nat]
        BY <3>3
      <4>2. \A p \in DOMAIN u : row[p] = 1 /\ col[p] = p
        OBVIOUS
      <4> HIDE DEF row, col
      <4>3. \A p \in DOMAIN u : col[p] \in DOMAIN s[row[p]] /\ u[p] = s[row[p]][col[p]]
        BY <3>1, <4>2
      <4>4. \A i \in 1 .. 1 : \A k \in DOMAIN s[i] : \E p \in DOMAIN u : row[p] = i /\ col[p] = k
        BY <3>1, <3>5, <4>2
      <4>5. \A p, q \in DOMAIN u : p < q => row[p] < row[q] \/ (row[p] = row[q] /\ col[p] < col[q])
        BY <4>2
      <4> QED
        BY <4>1, <4>3, <4>4, <4>5 DEF Flattened
    <3> HIDE DEF row, col
    <3> QED
      BY <3>2, <3>4
  <2>3. ASSUME NEW m \in Nat, m \in S PROVE m + 1 \in S
    <3> SUFFICES ASSUME m + 2 <= l
                 PROVE  f[m + 2] \in Seq(T) /\ \E row, col : Flattened(s, m + 2, f[m + 2], row, col)
      OBVIOUS
    <3>1. PICK n \in Nat : n = m + 1
      OBVIOUS
    <3>2. n \in 1 .. l /\ n + 1 \in 1 .. l /\ n + 1 # 1 /\ (n + 1) - 1 = n /\ m + 2 = n + 1
      BY <1>1, <3>1
    <3>3. f[n] \in Seq(T) /\ \E row, col : Flattened(s, n, f[n], row, col)
      BY <2>3, <3>1, <3>2
    <3>4. PICK u \in Seq(T) : u = s[n + 1]
      BY <1>1, <3>2
    <3>5. f[n + 1] = f[n] \o u
      <4>1. f[n + 1] = FlattenStep(f, n + 1, s)
        BY <2>1, <3>2
      <4> QED
        BY <3>2, <3>4, <4>1 DEF FlattenStep
    <3>6. PICK t \in Seq(T) : t = f[n]
      BY <3>3
    <3>7. PICK row, col : Flattened(s, n, t, row, col)
      BY <3>3, <3>6
    <3>8. \E r, c : Flattened(s, n + 1, t \o u, r, c)
      BY <3>4, <3>7, FlattenedMore
    <3>9. t \o u \in Seq(T)
      OBVIOUS
    <3> QED
      BY <3>2, <3>5, <3>6, <3>8, <3>9
  <2>4. l - 1 \in Nat /\ (l - 1) + 1 = l
    BY <1>1, <1>3
  <2>5. l - 1 \in S
    <3> HIDE DEF S
    <3> QED
      BY <2>2, <2>3, <2>4, Induction
  <2>6. f[l] \in Seq(T) /\ \E row, col : Flattened(s, l, f[l], row, col)
    BY <2>4, <2>5
  <2> QED
    BY <1>1, <2>1, <2>6
<1> QED
  BY <1>2, <1>3

\* Different elements of sequences that share none are different elements of the whole.
LEMMA FlattenInjective ==
    ASSUME NEW T, NEW s \in Seq(Seq(T)),
           \A i \in DOMAIN s : IsInjective(s[i]),
           \A i, j \in DOMAIN s : \A k \in DOMAIN s[i], m \in DOMAIN s[j] : s[i][k] = s[j][m] => i = j
    PROVE  IsInjective(FlattenSeq(s))
<1>1. PICK t \in Seq(T) : t = FlattenSeq(s)
  BY FlattenFacts
<1>2. PICK row, col : Flattened(s, Len(s), t, row, col)
  BY <1>1, FlattenFacts
<1>3. DOMAIN s = 1 .. Len(s) /\ DOMAIN t = 1 .. Len(t) /\ Len(t) \in Nat
  OBVIOUS
<1> SUFFICES ASSUME NEW p \in DOMAIN t, NEW q \in DOMAIN t, t[p] = t[q], p # q PROVE FALSE
  BY <1>1 DEF IsInjective
<1>4. /\ row[p] \in DOMAIN s /\ row[q] \in DOMAIN s
      /\ col[p] \in DOMAIN s[row[p]] /\ col[q] \in DOMAIN s[row[q]]
      /\ t[p] = s[row[p]][col[p]] /\ t[q] = s[row[q]][col[q]]
  BY <1>2, <1>3 DEF Flattened
<1>5. row[p] = row[q]
  BY <1>4
<1>6. col[p] = col[q]
  BY <1>4, <1>5 DEF IsInjective
<1>7. p < q \/ q < p
  BY <1>3
<1>8. row[p] \in Nat /\ col[p] \in Nat
  BY <1>2, <1>3 DEF Flattened
<1>9. ASSUME NEW a \in DOMAIN t, NEW b \in DOMAIN t, a < b
      PROVE  row[a] < row[b] \/ (row[a] = row[b] /\ col[a] < col[b])
  BY <1>2, <1>9 DEF Flattened
<1>10. CASE p < q
  BY <1>5, <1>6, <1>8, <1>9, <1>10
<1>11. CASE q < p
  <2>1. row[q] < row[p] \/ (row[q] = row[p] /\ col[q] < col[p])
    BY <1>9, <1>11
  <2> QED
    BY <1>5, <1>6, <1>8, <2>1
<1> QED
  BY <1>7, <1>10, <1>11
=============================================================================
