-------------------------- MODULE CollectionFacts --------------------------
(***************************************************************************)
(* What the other proofs need to know of finite sets, sequences and sums:  *)
(* induction over a finite set, for a set of its subsets in place of a     *)
(* predicate; the elements of a sequence to which one is added at either   *)
(* end, from which the last is taken, or from which one is removed         *)
(* wherever it is; and SumFunctionOnSet when a value changes.              *)
(***************************************************************************)
EXTENDS SequencesExt, FiniteSetTheorems, SequenceTheorems, WellFoundedInduction, TLAPS

-----------------------------------------------------------------------------
(* Induction *)

(* A set of natural numbers has a least one.                               *)
LEMMA LeastIsIn ==
    ASSUME NEW I \in SUBSET Nat, I # {}
    PROVE  Min(I) \in I /\ \A y \in I : Min(I) <= y
<1>1. \E x \in I : \A y \in I : ~ (<<y, x>> \in OpToRel(<, Nat))
  BY NatLessThanWellFounded, WFMin
<1>2. ASSUME NEW x \in Nat, NEW y \in Nat, y < x PROVE <<y, x>> \in OpToRel(<, Nat)
  <2>1. OpToRel(<, Nat) = {ss \in Nat \X Nat : ss[1] < ss[2]}
    BY Zenon DEF OpToRel
  <2> QED
    BY <1>2, <2>1
<1>3. \E x \in I : \A y \in I : x <= y
  <2>1. PICK x \in I : \A y \in I : ~ (<<y, x>> \in OpToRel(<, Nat))
    BY <1>1
  <2>2. ASSUME NEW y \in I PROVE x <= y
    <3>1. ~ (y < x)
      BY <1>2, <2>1
    <3> QED
      BY <3>1
  <2> QED
    BY <2>2
<1> QED
  BY <1>3 DEF Min

(* A set with zero and with every successor has all natural numbers.       *)
LEMMA NaturalInduction ==
    ASSUME NEW G, 0 \in G, \A n \in Nat : n \in G => n + 1 \in G
    PROVE  \A n \in Nat : n \in G
<1> DEFINE Others == {n \in Nat : n \notin G}
<1>1. SUFFICES ASSUME Others # {} PROVE FALSE
  OBVIOUS
<1>2. Min(Others) \in Others /\ \A m \in Others : Min(Others) <= m
  BY <1>1, LeastIsIn
<1> DEFINE n == Min(Others)
<1>3. n \in Nat /\ n \notin G /\ n # 0
  BY <1>2
<1>4. n - 1 \in Nat /\ n - 1 \notin Others
  BY <1>2, <1>3
<1> QED
  BY <1>3, <1>4

(* A set of subsets of S has S itself, if it has the empty set, and every  *)
(* subset all of whose subsets with one element less it has.               *)
LEMMA FiniteInduction ==
    ASSUME NEW S, IsFiniteSet(S), NEW G, {} \in G,
           \A T \in SUBSET S : T # {} /\ (\A x \in T : T \ {x} \in G) => T \in G
    PROVE  S \in G
<1> DEFINE Sizes == {n \in Nat : \E T \in SUBSET S : T \notin G /\ Cardinality(T) = n}
<1>1. \A T \in SUBSET S : IsFiniteSet(T) /\ Cardinality(T) \in Nat
  BY FS_Subset, FS_CardinalityType
<1>2. SUFFICES ASSUME S \notin G PROVE FALSE
  OBVIOUS
<1>3. Sizes \in SUBSET Nat /\ Sizes # {}
  BY <1>1, <1>2
<1> DEFINE n == Min(Sizes)
<1>4. n \in Sizes /\ \A m \in Sizes : n <= m
  BY <1>3, LeastIsIn
<1>5. PICK T \in SUBSET S : T \notin G /\ Cardinality(T) = n
  BY <1>4
<1>6. T # {}
  BY <1>5
<1>7. ASSUME NEW x \in T PROVE T \ {x} \in G
  <2>1. Cardinality(T \ {x}) = n - 1 /\ n \in Nat /\ T \ {x} \in SUBSET S
    BY <1>1, <1>4, <1>5, FS_RemoveElement
  <2>2. n - 1 \notin Sizes
    BY <1>4, <2>1
  <2>3. n - 1 \in Nat
    BY <1>1, <2>1
  <2> QED
    BY <2>1, <2>2, <2>3
<1> QED
  BY <1>5, <1>6, <1>7

(* A finite set of natural numbers has a greatest one.                     *)
LEMMA GreatestIsIn ==
    ASSUME NEW S \in SUBSET Nat, IsFiniteSet(S), S # {}
    PROVE  \E x \in S : \A y \in S : y <= x
<1> DEFINE Good == {T \in SUBSET S : T = {} \/ \E x \in T : \A y \in T : y <= x}
<1>1. {} \in Good
  OBVIOUS
<1>2. ASSUME NEW T \in SUBSET S, T # {}, \A x \in T : T \ {x} \in Good
      PROVE  T \in Good
  <2>1. PICK a \in T : TRUE
    BY <1>2
  <2>2. CASE T \ {a} = {}
    <3>1. \A y \in T : y <= a
      BY <2>1, <2>2
    <3> QED
      BY <2>1, <3>1
  <2>3. CASE T \ {a} # {}
    <3>1. PICK x \in T \ {a} : \A y \in T \ {a} : y <= x
      BY <1>2, <2>1, <2>3
    <3>2. x \in Nat /\ a \in Nat
      BY <2>1, <3>1
    <3>3. CASE x <= a
      <4>1. \A y \in T : y <= a
        BY <3>1, <3>2, <3>3
      <4> QED
        BY <4>1
    <3>4. CASE a <= x
      <4>1. \A y \in T : y <= x
        BY <3>1, <3>2, <3>4
      <4> QED
        BY <4>1
    <3> QED
      BY <3>2, <3>3, <3>4
  <2> QED
    BY <2>2, <2>3
<1> HIDE DEF Good
<1>3. S \in Good
  BY <1>1, <1>2, FiniteInduction
<1> QED
  BY <1>3 DEF Good

-----------------------------------------------------------------------------
(* Sequences *)

(* A sequence without its last element, place by place.                    *)
LEMMA FrontByPlace ==
    ASSUME NEW S, NEW s \in Seq(S), s # <<>>
    PROVE  /\ Len(s) \in Nat \ {0} /\ Last(s) = s[Len(s)]
           /\ Front(s) \in Seq(S) /\ Len(Front(s)) = Len(s) - 1
           /\ \A i \in 1 .. Len(s) - 1 : Front(s)[i] = s[i]
<1> DEFINE n == Len(s) - 1
<1>1. Len(s) \in Nat \ {0} /\ Last(s) = s[Len(s)] /\ n = Len(s) - 1 /\ n \in Nat
  BY DEF Last
<1>2. \A i \in 1 .. n : s[i] \in S
  BY <1>1
<1>3. Front(s) = SubSeq(s, 1, n)
  BY DEF Front
<1> HIDE DEF n
<1>4. /\ SubSeq(s, 1, n) \in Seq(S)
      /\ Len(SubSeq(s, 1, n)) = IF 1 <= n THEN n - 1 + 1 ELSE 0
      /\ \A i \in 1 .. n - 1 + 1 : SubSeq(s, 1, n)[i] = s[1 + i - 1]
  BY <1>1, <1>2, SubSeqProperties
<1> DEFINE f == SubSeq(s, 1, n)
<1>5. Front(s) = f /\ f \in Seq(S) /\ Len(f) = n /\ \A i \in 1 .. n : f[i] = s[i]
  BY <1>1, <1>3, <1>4
<1> HIDE DEF f
<1> QED
  BY <1>1, <1>5

(* The elements of a sequence without its last, and with one more.         *)
LEMMA LastAndFront ==
    ASSUME NEW S, NEW s \in Seq(S), s # <<>>
    PROVE  /\ Last(s) \in S
           /\ Front(s) \in Seq(S)
           /\ ToSet(s) = ToSet(Front(s)) \cup {Last(s)}
<1>1. Len(s) \in Nat \ {0} /\ Last(s) = s[Len(s)]
  BY FrontByPlace
<1>2. Front(s) \in Seq(S) /\ Len(Front(s)) = Len(s) - 1 /\ \A i \in 1 .. Len(s) - 1 : Front(s)[i] = s[i]
  BY FrontByPlace
<1>4. Last(s) \in S
  BY <1>1
<1>5. ASSUME NEW e PROVE e \in ToSet(s) <=> e \in ToSet(Front(s)) \cup {Last(s)}
  <2>1. e \in ToSet(s) <=> \E i \in 1 .. Len(s) : e = s[i]
    BY DEF ToSet
  <2>2. e \in ToSet(Front(s)) <=> \E i \in 1 .. Len(s) - 1 : e = s[i]
    BY <1>2 DEF ToSet
  <2> QED
    BY <1>1, <2>1, <2>2
<1> QED
  BY <1>2, <1>4, <1>5

LEMMA HeadAndTail ==
    ASSUME NEW S, NEW s \in Seq(S), s # <<>>
    PROVE  /\ Head(s) \in S
           /\ Tail(s) \in Seq(S)
           /\ ToSet(s) = ToSet(Tail(s)) \cup {Head(s)}
<1> DEFINE t == Tail(s)
<1>1. Len(s) \in Nat \ {0} /\ Head(s) = s[1] /\ Head(s) \in S
  OBVIOUS
<1>2. t \in Seq(S) /\ Len(t) = Len(s) - 1 /\ \A i \in 1 .. Len(s) - 1 : t[i] = s[i + 1]
  OBVIOUS
<1> HIDE DEF t
<1>3. ASSUME NEW e PROVE e \in ToSet(s) <=> e \in ToSet(t) \cup {Head(s)}
  <2>1. e \in ToSet(s) <=> \E i \in 1 .. Len(s) : e = s[i]
    BY DEF ToSet
  <2>2. e \in ToSet(t) <=> \E i \in 1 .. Len(s) - 1 : e = s[i + 1]
    <3>1. DOMAIN t = 1 .. Len(s) - 1
      BY <1>2
    <3>2. e \in ToSet(t) <=> \E i \in DOMAIN t : e = t[i]
      BY DEF ToSet
    <3> QED
      BY <1>2, <3>1, <3>2
  <2>3. \A i \in 1 .. Len(s) : i = 1 \/ (i - 1 \in 1 .. Len(s) - 1 /\ s[i] = s[(i - 1) + 1])
    BY <1>1
  <2>4. 1 \in 1 .. Len(s) /\ \A i \in 1 .. Len(s) - 1 : i + 1 \in 1 .. Len(s)
    BY <1>1
  <2> QED
    BY <1>1, <2>1, <2>2, <2>3, <2>4
<1> QED
  BY <1>1, <1>2, <1>3 DEF t

LEMMA Appended ==
    ASSUME NEW S, NEW s \in Seq(S), NEW e \in S
    PROVE  Append(s, e) \in Seq(S) /\ ToSet(Append(s, e)) = ToSet(s) \cup {e}
<1>1. Append(s, e) \in Seq(S) /\ Len(Append(s, e)) = Len(s) + 1 /\ Append(s, e)[Len(s) + 1] = e
  OBVIOUS
<1>2. \A i \in 1 .. Len(s) : Append(s, e)[i] = s[i]
  OBVIOUS
<1>3. ASSUME NEW x PROVE x \in ToSet(Append(s, e)) <=> x \in ToSet(s) \cup {e}
  <2>1. x \in ToSet(s) <=> \E i \in 1 .. Len(s) : x = s[i]
    BY DEF ToSet
  <2>2. x \in ToSet(Append(s, e)) <=> \E i \in 1 .. Len(s) + 1 : x = Append(s, e)[i]
    BY <1>1 DEF ToSet
  <2> QED
    BY <1>1, <1>2, <2>1, <2>2
<1> QED
  BY <1>1, <1>3

LEMMA Prepended ==
    ASSUME NEW S, NEW s \in Seq(S), NEW e \in S
    PROVE  <<e>> \o s \in Seq(S) /\ ToSet(<<e>> \o s) = ToSet(s) \cup {e}
<1> DEFINE t == <<e>> \o s
<1>1. t \in Seq(S) /\ Len(t) = Len(s) + 1 /\ t[1] = e
  OBVIOUS
<1>2. \A i \in 1 .. Len(s) : t[i + 1] = s[i]
  OBVIOUS
<1>3. ASSUME NEW x PROVE x \in ToSet(t) <=> x \in ToSet(s) \cup {e}
  <2>1. x \in ToSet(s) <=> \E i \in 1 .. Len(s) : x = s[i]
    BY DEF ToSet
  <2>2. x \in ToSet(t) <=> \E i \in 1 .. Len(s) + 1 : x = t[i]
    BY <1>1 DEF ToSet
  <2>3. \A i \in 1 .. Len(s) + 1 : i = 1 \/ (i - 1 \in 1 .. Len(s) /\ t[i] = s[i - 1])
    BY <1>2
  <2>4. \A i \in 1 .. Len(s) : i + 1 \in 1 .. Len(s) + 1
    OBVIOUS
  <2> HIDE DEF t
  <2> QED
    BY <1>1, <1>2, <2>1, <2>2, <2>3, <2>4
<1> QED
  BY <1>1, <1>3

(* Removing the first e: nothing, or one place that had e.                 *)
LEMMA RemovedByPlace ==
    ASSUME NEW S, NEW s \in Seq(S), NEW e
    PROVE  /\ RemoveFirst(s, e) \in Seq(S)
           /\ \/ RemoveFirst(s, e) = s /\ \A i \in 1 .. Len(s) : s[i] # e
              \/ /\ Len(RemoveFirst(s, e)) = Len(s) - 1
                 /\ \E k \in 1 .. Len(s) :
                        /\ s[k] = e
                        /\ \A i \in 1 .. k - 1 : RemoveFirst(s, e)[i] = s[i]
                        /\ \A i \in k .. Len(s) - 1 : RemoveFirst(s, e)[i] = s[i + 1]
<1> DEFINE I == {i \in 1 .. Len(s) : s[i] = e}
<1>1. CASE I = {}
  <2>1. RemoveFirst(s, e) = s
    BY <1>1 DEF RemoveFirst
  <2>2. \A i \in 1 .. Len(s) : s[i] # e
    BY <1>1
  <2> QED
    BY <2>1, <2>2
<1>2. CASE I # {}
  <2>1. SelectInSeq(s, LAMBDA v : v = e) = Min(I)
    BY <1>2 DEF SelectInSeq
  <2> DEFINE k == Min(I)
  <2>2. k \in 1 .. Len(s) /\ s[k] = e
    <3>1. I \in SUBSET Nat
      OBVIOUS
    <3>2. k \in I
      BY <1>2, <3>1, LeastIsIn
    <3> QED
      BY <3>2
  <2>3. RemoveFirst(s, e) = SubSeq(s, 1, k - 1) \o SubSeq(s, k + 1, Len(s))
    BY <1>2, <2>1 DEF RemoveFirst, RemoveAt
  <2> DEFINE f == SubSeq(s, 1, k - 1)
              g == SubSeq(s, k + 1, Len(s))
  <2> HIDE DEF k, I
  <2>4. /\ f \in Seq(S) /\ Len(f) = k - 1 /\ \A i \in 1 .. k - 1 : f[i] = s[i]
        /\ g \in Seq(S) /\ Len(g) = Len(s) - k /\ \A i \in 1 .. Len(s) - k : g[i] = s[k + i]
    <3>1. \A i \in 1 .. Len(s) : s[i] \in S
      OBVIOUS
    <3>2. \A m, n \in Int : 1 <= m /\ n <= Len(s) =>
              /\ SubSeq(s, m, n) \in Seq(S)
              /\ Len(SubSeq(s, m, n)) = IF m <= n THEN n - m + 1 ELSE 0
              /\ \A i \in 1 .. n - m + 1 : SubSeq(s, m, n)[i] = s[m + i - 1]
      <4> TAKE m, n \in Int
      <4> HAVE 1 <= m /\ n <= Len(s)
      <4>1. \A i \in m .. n : s[i] \in S
        BY <3>1
      <4> QED
        BY <4>1, SubSeqProperties
    <3>3. k \in Int /\ k - 1 \in Int /\ k + 1 \in Int /\ Len(s) \in Int /\ 1 \in Int
      BY <2>2
    <3>4. f \in Seq(S) /\ Len(f) = k - 1 /\ \A i \in 1 .. k - 1 : f[i] = s[i]
      BY <2>2, <3>2, <3>3
    <3>5. g \in Seq(S) /\ Len(g) = Len(s) - k /\ \A i \in 1 .. Len(s) - k : g[i] = s[k + i]
      BY <2>2, <3>2, <3>3
    <3> QED
      BY <3>4, <3>5
  <2> DEFINE t == f \o g
  <2> HIDE DEF f, g
  <2>5. t \in Seq(S) /\ Len(t) = Len(s) - 1
    <3>1. t \in Seq(S) /\ Len(t) = Len(f) + Len(g)
      BY <2>4, ConcatProperties
    <3> QED
      BY <2>2, <2>4, <3>1
  <2>6. /\ \A i \in 1 .. k - 1 : t[i] = s[i]
        /\ \A i \in k .. Len(s) - 1 : t[i] = s[i + 1]
    <3>1. \A i \in 1 .. Len(f) + Len(g) : t[i] = IF i <= Len(f) THEN f[i] ELSE g[i - Len(f)]
      BY <2>4, ConcatProperties
    <3>2. ASSUME NEW i \in 1 .. k - 1 PROVE t[i] = s[i]
      BY <2>2, <2>4, <2>5, <3>1
    <3>3. ASSUME NEW i \in k .. Len(s) - 1 PROVE t[i] = s[i + 1]
      <4>1. i \in 1 .. Len(f) + Len(g) /\ ~ (i <= Len(f)) /\ i - Len(f) = i - k + 1
        BY <2>2, <2>4
      <4>2. i - k + 1 \in 1 .. Len(s) - k /\ k + (i - k + 1) = i + 1
        BY <2>2
      <4>3. t[i] = g[i - k + 1]
        BY <3>1, <4>1
      <4> QED
        BY <2>4, <4>2, <4>3
    <3> QED
      BY <3>2, <3>3
  <2>7. RemoveFirst(s, e) = t
    BY <2>3 DEF f, g
  <2> HIDE DEF t
  <2> QED
    BY <2>2, <2>5, <2>6, <2>7
<1> QED
  BY <1>1, <1>2

(* Removing the first e leaves every other element.                        *)
LEMMA FirstRemoved ==
    ASSUME NEW S, NEW s \in Seq(S), NEW e
    PROVE  RemoveFirst(s, e) \in Seq(S) /\ ToSet(s) \subseteq ToSet(RemoveFirst(s, e)) \cup {e}
<1> DEFINE t == RemoveFirst(s, e)
<1>1. t \in Seq(S)
  BY RemovedByPlace
<1>2. t = s \/ \E k \in 1 .. Len(s) :
                 /\ Len(t) = Len(s) - 1 /\ s[k] = e
                 /\ \A i \in 1 .. k - 1 : t[i] = s[i]
                 /\ \A i \in k .. Len(s) - 1 : t[i] = s[i + 1]
  BY RemovedByPlace
<1> HIDE DEF t
<1>3. ASSUME t # s, NEW x \in ToSet(s), x # e PROVE x \in ToSet(t)
  <2>1. PICK k \in 1 .. Len(s) :
                 /\ Len(t) = Len(s) - 1 /\ s[k] = e
                 /\ \A i \in 1 .. k - 1 : t[i] = s[i]
                 /\ \A i \in k .. Len(s) - 1 : t[i] = s[i + 1]
    BY <1>2, <1>3
  <2>2. PICK i \in 1 .. Len(s) : x = s[i]
    BY <1>3 DEF ToSet
  <2>3. i \in 1 .. k - 1 \/ (i - 1 \in k .. Len(s) - 1 /\ (i - 1) + 1 = i)
    BY <1>3, <2>1, <2>2
  <2>4. \E n \in 1 .. Len(t) : x = t[n]
    <3>1. CASE i \in 1 .. k - 1
      BY <2>1, <2>2, <3>1
    <3>2. CASE i - 1 \in k .. Len(s) - 1 /\ (i - 1) + 1 = i
      <4>1. t[i - 1] = s[i] /\ i - 1 \in 1 .. Len(t)
        BY <2>1, <3>2
      <4> QED
        BY <2>2, <4>1
    <3> QED
      BY <2>3, <3>1, <3>2
  <2> QED
    BY <1>1, <2>4 DEF ToSet
<1>4. t \in Seq(S) /\ ToSet(s) \subseteq ToSet(t) \cup {e}
  BY <1>1, <1>3
<1> QED
  BY <1>4 DEF t

(* A list as long as a finite set, without repetition, has all of it.      *)
LEMMA EachListedOnce ==
    ASSUME NEW S, IsFiniteSet(S), NEW s \in [1 .. Cardinality(S) -> S],
           \A i, k \in DOMAIN s : i # k => s[i] # s[k]
    PROVE  s \in Seq(S) /\ DOMAIN s = 1 .. Len(s) /\ ToSet(s) = S
<1>1. Cardinality(S) \in Nat
  BY FS_CardinalityType
<1> DEFINE n == Cardinality(S)
<1>2. Cardinality(1 .. n) = n /\ IsFiniteSet(1 .. n)
  BY <1>1, FS_Interval
<1> HIDE DEF n
<1>3. s \in Injection(1 .. n, S)
  BY DEF Injection, IsInjective, n
<1>4. s \in Surjection(1 .. n, S)
  BY <1>2, <1>3, FS_Injection DEF n
<1>5. ToSet(s) = S
  BY <1>4 DEF Surjection, ToSet
<1>6. s \in Seq(S)
  BY <1>1, SeqDef DEF n
<1> QED
  BY <1>5, <1>6

-----------------------------------------------------------------------------
(* Sums: what MapThenFoldSet computes exists, and depends on nothing but   *)
(* the values added.                                                       *)
SomeOf(s) == CHOOSE x \in s : TRUE
Adds(g, f, D) == g = [s \in SUBSET D |-> IF s = {} THEN 0 ELSE f[SomeOf(s)] + g[s \ {SomeOf(s)}]]

LEMMA AddsExists ==
    ASSUME NEW f, NEW D, IsFiniteSet(D)
    PROVE  \E g : Adds(g, f, D)
<1> DEFINE Within(n) == {s \in SUBSET D : Cardinality(s) <= n}
           Good == {n \in Nat : \E g : g = [s \in Within(n) |->
                        IF s = {} THEN 0 ELSE f[SomeOf(s)] + g[s \ {SomeOf(s)}]]}
<1>1. \A s \in SUBSET D : IsFiniteSet(s) /\ Cardinality(s) \in Nat /\ (Cardinality(s) = 0 <=> s = {})
  BY FS_Subset, FS_CardinalityType, FS_EmptySet
<1>2. \A s \in SUBSET D : s # {} =>
          s \ {SomeOf(s)} \in SUBSET D /\ Cardinality(s \ {SomeOf(s)}) = Cardinality(s) - 1
  BY <1>1, FS_RemoveElement DEF SomeOf
<1>3. 0 \in Good
  <2> DEFINE g == [s \in Within(0) |-> 0]
  <2>1. \A s \in Within(0) : s = {}
    BY <1>1
  <2>2. g = [s \in Within(0) |-> IF s = {} THEN 0 ELSE f[SomeOf(s)] + g[s \ {SomeOf(s)}]]
    BY <2>1
  <2> HIDE DEF g
  <2> QED
    BY <2>2
<1>4. ASSUME NEW n \in Nat, n \in Good PROVE n + 1 \in Good
  <2>1. PICK g : g = [s \in Within(n) |-> IF s = {} THEN 0 ELSE f[SomeOf(s)] + g[s \ {SomeOf(s)}]]
    BY <1>4
  <2> DEFINE h == [s \in Within(n + 1) |-> IF s = {} THEN 0 ELSE f[SomeOf(s)] + g[s \ {SomeOf(s)}]]
  <2>2. \A s \in Within(n) : s \in Within(n + 1) /\ h[s] = g[s]
    <3> SUFFICES ASSUME NEW s \in Within(n) PROVE s \in Within(n + 1) /\ h[s] = g[s]
      OBVIOUS
    <3>1. s \in Within(n + 1)
      BY <1>1
    <3>2. g[s] = IF s = {} THEN 0 ELSE f[SomeOf(s)] + g[s \ {SomeOf(s)}]
      BY <2>1
    <3> QED
      BY <3>1, <3>2
  <2>3. \A s \in Within(n + 1) : s # {} => s \ {SomeOf(s)} \in Within(n)
    BY <1>1, <1>2
  <2>4. \A s \in Within(n + 1) : h[s] = IF s = {} THEN 0 ELSE f[SomeOf(s)] + h[s \ {SomeOf(s)}]
    BY <2>2, <2>3
  <2>5. h = [s \in Within(n + 1) |-> h[s]]
    OBVIOUS
  <2> HIDE DEF h
  <2>6. h = [s \in Within(n + 1) |-> IF s = {} THEN 0 ELSE f[SomeOf(s)] + h[s \ {SomeOf(s)}]]
    BY <2>4, <2>5
  <2>7. \E k : k = [s \in Within(n + 1) |-> IF s = {} THEN 0 ELSE f[SomeOf(s)] + k[s \ {SomeOf(s)}]]
    BY <2>6
  <2>8. n + 1 \in Nat
    OBVIOUS
  <2> HIDE DEF Within
  <2> QED
    BY <2>7, <2>8
<1> HIDE DEF Good
<1>5. \A n \in Nat : n \in Good
  BY <1>3, <1>4, NaturalInduction
<1>6. Cardinality(D) \in Nat
  BY FS_CardinalityType
<1>7. Within(Cardinality(D)) = SUBSET D
  BY <1>1, FS_Subset
<1> QED
  BY <1>5, <1>6, <1>7 DEF Good, Adds

LEMMA AddsAgree ==
    ASSUME NEW f, NEW D, NEW E, NEW g, NEW h, Adds(g, f, D), Adds(h, f, E),
           NEW S \in SUBSET (D \cap E), IsFiniteSet(S)
    PROVE  g[S] = h[S]
<1> DEFINE Good == {T \in SUBSET S : g[T] = h[T]}
<1>1. \A T \in SUBSET S :
          /\ g[T] = IF T = {} THEN 0 ELSE f[SomeOf(T)] + g[T \ {SomeOf(T)}]
          /\ h[T] = IF T = {} THEN 0 ELSE f[SomeOf(T)] + h[T \ {SomeOf(T)}]
  BY DEF Adds
<1>2. {} \in Good
  BY <1>1
<1>3. \A T \in SUBSET S : T # {} /\ (\A x \in T : T \ {x} \in Good) => T \in Good
  BY <1>1 DEF SomeOf
<1> HIDE DEF Good
<1>4. S \in Good
  BY <1>2, <1>3, FiniteInduction
<1> QED
  BY <1>4 DEF Good

LEMMA SumAdds ==
    ASSUME NEW f, NEW D, \E g : Adds(g, f, D)
    PROVE  \E g : Adds(g, f, D) /\ SumFunctionOnSet(f, D) = g[D]
  BY Zenon DEF SumFunctionOnSet, FoldFunctionOnSet, MapThenFoldSet, Adds, SomeOf

LEMMA SumOfNone == ASSUME NEW f PROVE SumFunctionOnSet(f, {}) = 0
<1>1. PICK g : Adds(g, f, {}) /\ SumFunctionOnSet(f, {}) = g[{}]
  BY FS_EmptySet, AddsExists, SumAdds
<1> QED
  BY <1>1 DEF Adds

LEMMA SumOfAny ==
    ASSUME NEW f, NEW S, IsFiniteSet(S), S # {}
    PROVE  SomeOf(S) \in S /\ SumFunctionOnSet(f, S) = f[SomeOf(S)] + SumFunctionOnSet(f, S \ {SomeOf(S)})
<1> DEFINE R == S \ {SomeOf(S)}
<1>1. PICK g : Adds(g, f, S) /\ SumFunctionOnSet(f, S) = g[S]
  BY AddsExists, SumAdds
<1>2. IsFiniteSet(R)
  BY FS_RemoveElement
<1>3. PICK h : Adds(h, f, R) /\ SumFunctionOnSet(f, R) = h[R]
  BY <1>2, AddsExists, SumAdds
<1>4. g[R] = h[R]
  BY <1>1, <1>2, <1>3, AddsAgree
<1>5. g[S] = f[SomeOf(S)] + g[R]
  BY <1>1 DEF Adds
<1> QED
  BY <1>1, <1>3, <1>4, <1>5 DEF SomeOf

LEMMA SumIsInt ==
    ASSUME NEW f, NEW S, IsFiniteSet(S), \A x \in S : f[x] \in Int
    PROVE  SumFunctionOnSet(f, S) \in Int
<1> DEFINE Good == {T \in SUBSET S : SumFunctionOnSet(f, T) \in Int}
<1>1. {} \in Good
  BY SumOfNone
<1>2. \A T \in SUBSET S : T # {} /\ (\A x \in T : T \ {x} \in Good) => T \in Good
  <2> SUFFICES ASSUME NEW T \in SUBSET S, T # {}, \A x \in T : T \ {x} \in Good
               PROVE  SumFunctionOnSet(f, T) \in Int
    OBVIOUS
  <2>1. IsFiniteSet(T)
    BY FS_Subset
  <2>2. /\ SomeOf(T) \in T
        /\ SumFunctionOnSet(f, T) = f[SomeOf(T)] + SumFunctionOnSet(f, T \ {SomeOf(T)})
    BY <2>1, SumOfAny
  <2> QED
    BY <2>2
<1> HIDE DEF Good
<1>3. S \in Good
  BY <1>1, <1>2, FiniteInduction
<1> QED
  BY <1>3 DEF Good

(* The sum with one element put aside.                                     *)
LEMMA SumWithout ==
    ASSUME NEW f, NEW S, IsFiniteSet(S), \A x \in S : f[x] \in Int, NEW x \in S
    PROVE  /\ SumFunctionOnSet(f, S) = f[x] + SumFunctionOnSet(f, S \ {x})
           /\ SumFunctionOnSet(f, S) \in Int /\ SumFunctionOnSet(f, S \ {x}) \in Int
<1> DEFINE Sum(T) == SumFunctionOnSet(f, T)
           Good == {T \in SUBSET S : \A y \in T : Sum(T) = f[y] + Sum(T \ {y})}
<1>1. \A T \in SUBSET S : IsFiniteSet(T) /\ Sum(T) \in Int
  BY FS_Subset, SumIsInt
<1>2. {} \in Good
  OBVIOUS
<1>3. ASSUME NEW T \in SUBSET S, T # {}, \A y \in T : T \ {y} \in Good
      PROVE  T \in Good
  <2>1. PICK a \in T : Sum(T) = f[a] + Sum(T \ {a})
    <3>1. /\ SomeOf(T) \in T
          /\ SumFunctionOnSet(f, T) = f[SomeOf(T)] + SumFunctionOnSet(f, T \ {SomeOf(T)})
      BY <1>1, <1>3, SumOfAny
    <3> QED
      BY <3>1
  <2>2. ASSUME NEW y \in T PROVE Sum(T) = f[y] + Sum(T \ {y})
    <3> HIDE DEF Sum
    <3>1. CASE y = a
      BY <2>1, <3>1
    <3>2. CASE y # a
      <4>1. Sum(T \ {a}) = f[y] + Sum((T \ {a}) \ {y})
        BY <1>3, <3>2
      <4>2. Sum(T \ {y}) = f[a] + Sum((T \ {y}) \ {a})
        BY <1>3, <3>2
      <4>3. (T \ {a}) \ {y} = (T \ {y}) \ {a}
        OBVIOUS
      <4>4. Sum((T \ {y}) \ {a}) \in Int /\ f[a] \in Int /\ f[y] \in Int
        BY <1>1 DEF Sum
      <4> QED
        <5> DEFINE rest == Sum((T \ {y}) \ {a})
        <5>1. Sum(T) = f[a] + (f[y] + rest) /\ Sum(T \ {y}) = f[a] + rest
          BY <2>1, <4>1, <4>2, <4>3
        <5>2. rest \in Int
          BY <4>4
        <5> HIDE DEF rest
        <5> QED
          BY <4>4, <5>1, <5>2
    <3> QED
      BY <3>1, <3>2
  <2> QED
    BY <2>2
<1> HIDE DEF Good
<1>4. S \in Good
  BY <1>2, <1>3, FiniteInduction
<1> QED
  BY <1>1, <1>4 DEF Good

LEMMA SumOfEqual ==
    ASSUME NEW f, NEW g, NEW S, IsFiniteSet(S), \A x \in S : f[x] = g[x]
    PROVE  SumFunctionOnSet(f, S) = SumFunctionOnSet(g, S)
<1> DEFINE Good == {T \in SUBSET S : SumFunctionOnSet(f, T) = SumFunctionOnSet(g, T)}
<1>1. {} \in Good
  BY SumOfNone
<1>2. \A T \in SUBSET S : T # {} /\ (\A x \in T : T \ {x} \in Good) => T \in Good
  <2> SUFFICES ASSUME NEW T \in SUBSET S, T # {}, \A x \in T : T \ {x} \in Good
               PROVE  SumFunctionOnSet(f, T) = SumFunctionOnSet(g, T)
    OBVIOUS
  <2>1. IsFiniteSet(T)
    BY FS_Subset
  <2>2. /\ SomeOf(T) \in T
        /\ SumFunctionOnSet(f, T) = f[SomeOf(T)] + SumFunctionOnSet(f, T \ {SomeOf(T)})
        /\ SumFunctionOnSet(g, T) = g[SomeOf(T)] + SumFunctionOnSet(g, T \ {SomeOf(T)})
    BY <2>1, SumOfAny
  <2> QED
    BY <2>2
<1> HIDE DEF Good
<1>3. S \in Good
  BY <1>1, <1>2, FiniteInduction
<1> QED
  BY <1>3 DEF Good

LEMMA SumOfZeros ==
    ASSUME NEW f, NEW S, IsFiniteSet(S), \A x \in S : f[x] = 0
    PROVE  SumFunctionOnSet(f, S) = 0
<1> DEFINE Good == {T \in SUBSET S : SumFunctionOnSet(f, T) = 0}
<1>1. {} \in Good
  BY SumOfNone
<1>2. \A T \in SUBSET S : T # {} /\ (\A x \in T : T \ {x} \in Good) => T \in Good
  <2> SUFFICES ASSUME NEW T \in SUBSET S, T # {}, \A x \in T : T \ {x} \in Good
               PROVE  SumFunctionOnSet(f, T) = 0
    OBVIOUS
  <2>1. IsFiniteSet(T)
    BY FS_Subset
  <2>2. /\ SomeOf(T) \in T
        /\ SumFunctionOnSet(f, T) = f[SomeOf(T)] + SumFunctionOnSet(f, T \ {SomeOf(T)})
    BY <2>1, SumOfAny
  <2> QED
    BY <2>2
<1> HIDE DEF Good
<1>3. S \in Good
  BY <1>1, <1>2, FiniteInduction
<1> QED
  BY <1>3 DEF Good

(* The sum after one value has changed.                                    *)
LEMMA SumChanged ==
    ASSUME NEW f, NEW g, NEW S, IsFiniteSet(S), NEW x \in S,
           \A y \in S : f[y] \in Int /\ g[y] \in Int,
           \A y \in S \ {x} : f[y] = g[y]
    PROVE  /\ SumFunctionOnSet(g, S) = SumFunctionOnSet(f, S) - f[x] + g[x]
           /\ SumFunctionOnSet(f, S) \in Int
<1>1. IsFiniteSet(S \ {x})
  BY FS_RemoveElement
<1>2. SumFunctionOnSet(f, S \ {x}) = SumFunctionOnSet(g, S \ {x})
  BY <1>1, SumOfEqual
<1>3. /\ SumFunctionOnSet(f, S) = f[x] + SumFunctionOnSet(f, S \ {x})
      /\ SumFunctionOnSet(f, S) \in Int /\ SumFunctionOnSet(f, S \ {x}) \in Int
  BY SumWithout
<1>4. SumFunctionOnSet(g, S) = g[x] + SumFunctionOnSet(g, S \ {x})
  BY SumWithout
<1> QED
  BY <1>2, <1>3, <1>4

(* A sum over a part is the sum over the whole with zeros elsewhere.       *)
LEMMA SumOfPart ==
    ASSUME NEW f, NEW g, NEW S, IsFiniteSet(S), NEW P \in SUBSET S,
           \A x \in S : f[x] \in Int, \A x \in S : g[x] = IF x \in P THEN f[x] ELSE 0
    PROVE  SumFunctionOnSet(f, P) = SumFunctionOnSet(g, S)
<1> DEFINE Good == {T \in SUBSET S : SumFunctionOnSet(f, P \cap T) = SumFunctionOnSet(g, T)}
<1>1. {} \in Good
  BY SumOfNone
<1>2. \A T \in SUBSET S : T # {} /\ (\A x \in T : T \ {x} \in Good) => T \in Good
  <2> SUFFICES ASSUME NEW T \in SUBSET S, T # {}, \A x \in T : T \ {x} \in Good
               PROVE  SumFunctionOnSet(f, P \cap T) = SumFunctionOnSet(g, T)
    OBVIOUS
  <2>1. PICK x \in T : TRUE
    OBVIOUS
  <2>2. IsFiniteSet(T) /\ IsFiniteSet(P \cap T) /\ \A y \in T : g[y] \in Int
    BY FS_Subset
  <2>3. SumFunctionOnSet(f, P \cap (T \ {x})) = SumFunctionOnSet(g, T \ {x})
    BY <2>1
  <2>4. /\ SumFunctionOnSet(g, T) = g[x] + SumFunctionOnSet(g, T \ {x})
        /\ SumFunctionOnSet(g, T \ {x}) \in Int
    BY <2>1, <2>2, SumWithout
  <2>5. CASE x \in P
    <3>1. SumFunctionOnSet(f, P \cap T) = f[x] + SumFunctionOnSet(f, (P \cap T) \ {x})
      <4>1. x \in P \cap T /\ \A y \in P \cap T : f[y] \in Int
        BY <2>1, <2>5
      <4> QED
        BY <2>2, <4>1, SumWithout
    <3>2. (P \cap T) \ {x} = P \cap (T \ {x})
      OBVIOUS
    <3> QED
      BY <2>1, <2>3, <2>4, <2>5, <3>1, <3>2
  <2>6. CASE x \notin P
    <3>1. P \cap T = P \cap (T \ {x}) /\ g[x] = 0
      BY <2>1, <2>6
    <3> QED
      BY <2>3, <2>4, <3>1
  <2> QED
    BY <2>5, <2>6
<1> HIDE DEF Good
<1>3. S \in Good /\ P \cap S = P
  BY <1>1, <1>2, FiniteInduction
<1> QED
  BY <1>3 DEF Good

(* One more element of a set with the sums over its parts.                 *)
LEMMA SumOfPartWith ==
    ASSUME NEW f, NEW S, IsFiniteSet(S), \A x \in S : f[x] \in Int, NEW m \in S,
           NEW g, \A x \in S \ {m} : g[x] = f[x], NEW T \in SUBSET S, NEW R, R = T \ {m}
    PROVE  /\ SumFunctionOnSet(g, R) \in Int
           /\ SumFunctionOnSet(f, T) =
                IF m \in T THEN SumFunctionOnSet(g, R) + f[m] ELSE SumFunctionOnSet(g, R)
<1>1. IsFiniteSet(T) /\ IsFiniteSet(R)
  BY FS_Subset
<1>2. SumFunctionOnSet(f, R) = SumFunctionOnSet(g, R)
  BY <1>1, SumOfEqual
<1>3. SumFunctionOnSet(f, R) \in Int
  BY <1>1, SumIsInt
<1>4. CASE m \in T
  <2>1. SumFunctionOnSet(f, T) = f[m] + SumFunctionOnSet(f, R)
    BY <1>1, <1>4, SumWithout
  <2> QED
    BY <1>2, <1>3, <1>4, <2>1
<1>5. CASE m \notin T
  <2>1. R = T
    BY <1>5
  <2> QED
    BY <1>2, <1>3, <1>5, <2>1
<1> QED
  BY <1>4, <1>5

LEMMA SumOfOne ==
    ASSUME NEW f, NEW x, f[x] \in Int
    PROVE  SumFunctionOnSet(f, {x}) = f[x]
<1>1. IsFiniteSet({x}) /\ {x} \ {x} = {}
  BY FS_Singleton
<1>2. SumFunctionOnSet(f, {x}) = f[x] + SumFunctionOnSet(f, {x} \ {x})
  BY <1>1, SumWithout
<1> QED
  BY <1>1, <1>2, SumOfNone

(* Summands that are not negative add up to one that is not, and to no     *)
(* less than any of them.                                                  *)
LEMMA SumOfNaturals ==
    ASSUME NEW f, NEW S, IsFiniteSet(S), \A x \in S : f[x] \in Nat
    PROVE  /\ SumFunctionOnSet(f, S) \in Nat
           /\ \A x \in S : f[x] <= SumFunctionOnSet(f, S)
<1> DEFINE Good == {T \in SUBSET S : SumFunctionOnSet(f, T) \in Nat}
<1>1. {} \in Good
  BY SumOfNone
<1>2. \A T \in SUBSET S : T # {} /\ (\A x \in T : T \ {x} \in Good) => T \in Good
  <2> SUFFICES ASSUME NEW T \in SUBSET S, T # {}, \A x \in T : T \ {x} \in Good
               PROVE  SumFunctionOnSet(f, T) \in Nat
    OBVIOUS
  <2>1. IsFiniteSet(T)
    BY FS_Subset
  <2>2. /\ SomeOf(T) \in T
        /\ SumFunctionOnSet(f, T) = f[SomeOf(T)] + SumFunctionOnSet(f, T \ {SomeOf(T)})
    BY <2>1, SumOfAny
  <2> QED
    BY <2>2
<1> HIDE DEF Good
<1>3. \A T \in SUBSET S : T \in Good
  <2> SUFFICES ASSUME NEW T \in SUBSET S PROVE T \in Good
    OBVIOUS
  <2>1. IsFiniteSet(T)
    BY FS_Subset
  <2>2. \A U \in SUBSET T : U # {} /\ (\A x \in U : U \ {x} \in Good) => U \in Good
    BY <1>2
  <2> QED
    BY <1>1, <2>1, <2>2, FiniteInduction
<1>4. ASSUME NEW x \in S PROVE f[x] <= SumFunctionOnSet(f, S)
  <2>1. SumFunctionOnSet(f, S) = f[x] + SumFunctionOnSet(f, S \ {x})
    BY SumWithout
  <2>2. SumFunctionOnSet(f, S \ {x}) \in Nat
    BY <1>3 DEF Good
  <2> QED
    BY <2>1, <2>2
<1> QED
  BY <1>3, <1>4 DEF Good
=============================================================================
