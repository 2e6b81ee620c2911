--------------------------- MODULE SequenceLemmas ---------------------------
(***************************************************************************)
(* Facts about sequences that the proofs about queues rest on: how often an *)
(* element occurs in a queue after something was appended or taken, and     *)
(* what happens to the elements of a queue and to their order.              *)
(***************************************************************************)
EXTENDS SequencesExt, Integers, FiniteSetTheorems, SequenceTheorems,
        WellFoundedInduction, TLAPS

(* The positions at which e occurs in s.                                    *)
Positions(s, e) == {i \in DOMAIN s : s[i] = e}

(* A sequence has finitely many of them.                                    *)
LEMMA PositionsFinite ==
    ASSUME NEW S, NEW s \in Seq(S), NEW e
    PROVE  /\ IsFiniteSet(Positions(s, e))
           /\ Cardinality(Positions(s, e)) \in Nat
<1>1. Positions(s, e) \in SUBSET (1..Len(s)) /\ Len(s) \in Nat
  BY DEF Positions
<1>2. IsFiniteSet(1..Len(s))
  BY <1>1, FS_Interval
<1>3. QED
  BY <1>1, <1>2, FS_Subset, FS_CardinalityType

(* The empty sequence has none.                                             *)
LEMMA PositionsEmpty ==
    ASSUME NEW e
    PROVE  Cardinality(Positions(<<>>, e)) = 0
<1>1. Positions(<<>>, e) = {}
  BY DEF Positions
<1>2. QED
  BY <1>1, FS_EmptySet

(* Append adds one occurrence, of the element that is appended.             *)
LEMMA PositionsAppend ==
    ASSUME NEW S, NEW s \in Seq(S), NEW x \in S, NEW e
    PROVE  Cardinality(Positions(Append(s, x), e)) =
               Cardinality(Positions(s, e)) + (IF x = e THEN 1 ELSE 0)
<1>1. CASE x = e
  <2>1. /\ Positions(Append(s, x), e) = Positions(s, e) \cup {Len(s) + 1}
        /\ Len(s) + 1 \notin Positions(s, e)
    BY <1>1 DEF Positions
  <2>2. QED
    BY <1>1, <2>1, PositionsFinite, FS_AddElement
<1>2. CASE x # e
  <2>1. Positions(Append(s, x), e) = Positions(s, e)
    BY <1>2 DEF Positions
  <2>2. QED
    BY <1>2, <2>1, PositionsFinite
<1>3. QED
  BY <1>1, <1>2

(* Tail removes one, of the element that was the first.                     *)
LEMMA PositionsTail ==
    ASSUME NEW S, NEW s \in Seq(S), NEW e, s # <<>>
    PROVE  Cardinality(Positions(Tail(s), e)) =
               Cardinality(Positions(s, e)) - (IF Head(s) = e THEN 1 ELSE 0)
<1> DEFINE P == Positions(s, e) \ {1}
           T == Positions(Tail(s), e)
           f == [i \in P |-> i - 1]
<1>1. /\ Tail(s) \in Seq(S) /\ Len(Tail(s)) = Len(s) - 1
      /\ Len(s) \in Nat /\ Len(s) > 0
      /\ \A i \in 1..(Len(s) - 1) : Tail(s)[i] = s[i + 1]
  BY EmptySeq, HeadTailProperties
<1>2. IsFiniteSet(P) /\ Cardinality(P) =
          Cardinality(Positions(s, e)) - (IF Head(s) = e THEN 1 ELSE 0)
  <2>1. 1 \in Positions(s, e) <=> Head(s) = e
    BY <1>1 DEF Positions
  <2>2. QED
    BY <2>1, PositionsFinite, FS_RemoveElement
<1>3. \A i \in P : i \in Int /\ i - 1 \in T
  BY <1>1 DEF Positions
<1>4. \A j \in T : j \in Int /\ j + 1 \in P
  BY <1>1 DEF Positions
<1>5. f \in [P -> T]
  BY <1>3
<1>6. \A i, k \in P : f[i] = f[k] => i = k
  BY <1>3
<1>7. \A j \in T : \E i \in P : f[i] = j
  <2> TAKE j \in T
  <2>1. j + 1 \in P /\ f[j + 1] = j
    BY <1>4
  <2>2. QED
    BY <2>1
<1>8. f \in Bijection(P, T)
  BY <1>5, <1>6, <1>7 DEF Bijection, Injection, Surjection, IsInjective
<1>9. ExistsBijection(P, T)
  BY <1>8 DEF ExistsBijection
<1>10. QED
  BY <1>2, <1>9, FS_Bijection
-----------------------------------------------------------------------------
(* Induction                                                                *)

(* A set of natural numbers has a least element: what the proofs by         *)
(* induction below rest on.                                                 *)
LEMMA LeastNatural ==
    ASSUME NEW T \in SUBSET Nat, T # {}
    PROVE  \E n \in T : \A m \in T : n <= m
<1> DEFINE R == OpToRel(<, Nat)
<1>1. IsWellFoundedOn(R, Nat)
  BY NatLessThanWellFounded
<1>2. \A x, y \in Nat : <<x, y>> \in R <=> x < y
  BY DEF OpToRel
<1> HIDE DEF R
<1>3. PICK x \in T : \A y \in T : ~ (<<y, x>> \in R)
  BY <1>1, WFMin
<1>4. \A y \in T : x \in Nat /\ y \in Nat /\ ~(y < x)
  BY <1>2, <1>3
<1>5. QED
  BY <1>4
-----------------------------------------------------------------------------
(* Elements and their order                                                 *)

(* a occurs before b in s.                                                  *)
Precedes(s, a, b) == \E i, j \in DOMAIN s : i < j /\ s[i] = a /\ s[j] = b

(* The elements of a concatenation, position by position.                   *)
LEMMA ConcatElements ==
    ASSUME NEW S, NEW s \in Seq(S), NEW t \in Seq(S)
    PROVE  /\ s \o t \in Seq(S)
           /\ Len(s) \in Nat /\ Len(t) \in Nat
           /\ DOMAIN s = 1..Len(s) /\ DOMAIN t = 1..Len(t)
           /\ Len(s \o t) = Len(s) + Len(t)
           /\ DOMAIN (s \o t) = 1..(Len(s) + Len(t))
           /\ \A i \in 1..Len(s) : (s \o t)[i] = s[i]
           /\ \A i \in 1..Len(t) : (s \o t)[Len(s) + i] = t[i]
           /\ \A i \in 1..(Len(s) + Len(t)) :
                 i <= Len(s) \/ i - Len(s) \in 1..Len(t)
  BY ConcatProperties

(* A concatenation has the elements of both parts, and if it has none of    *)
(* them twice then the parts have none in common.                           *)
LEMMA ConcatSet ==
    ASSUME NEW S, NEW s \in Seq(S), NEW t \in Seq(S)
    PROVE  /\ ToSet(s \o t) = ToSet(s) \cup ToSet(t)
           /\ IsInjective(s \o t) => /\ IsInjective(s) /\ IsInjective(t)
                                     /\ ToSet(s) \cap ToSet(t) = {}
<1> DEFINE u == s \o t
<1>1. /\ DOMAIN s = 1..Len(s) /\ DOMAIN t = 1..Len(t)
      /\ DOMAIN u = 1..(Len(s) + Len(t))
      /\ Len(s) \in Nat /\ Len(t) \in Nat
      /\ \A i \in 1..Len(s) : u[i] = s[i]
      /\ \A i \in 1..Len(t) : u[Len(s) + i] = t[i]
      /\ \A i \in 1..(Len(s) + Len(t)) :
            i <= Len(s) \/ i - Len(s) \in 1..Len(t)
  BY ConcatElements
<1> HIDE DEF u
<1>2. \A i \in 1..Len(t) : Len(s) + i \in 1..(Len(s) + Len(t))
  BY <1>1
<1>3. \A i \in 1..Len(s) : i \in 1..(Len(s) + Len(t))
  BY <1>1
<1>4. ToSet(u) \subseteq ToSet(s) \cup ToSet(t)
  <2> SUFFICES ASSUME NEW i \in DOMAIN u
               PROVE  u[i] \in ToSet(s) \cup ToSet(t)
    BY DEF ToSet
  <2>1. CASE i <= Len(s)
    <3>1. i \in 1..Len(s)
      BY <1>1, <2>1
    <3>2. QED
      BY <1>1, <3>1 DEF ToSet
  <2>2. CASE i - Len(s) \in 1..Len(t)
    <3>1. Len(s) + (i - Len(s)) = i
      BY <1>1
    <3>2. u[i] = t[i - Len(s)]
      BY <1>1, <2>2, <3>1
    <3>3. QED
      BY <1>1, <2>2, <3>2 DEF ToSet
  <2>3. QED
    BY <1>1, <2>1, <2>2
<1>5. ToSet(s) \subseteq ToSet(u)
  BY <1>1, <1>3 DEF ToSet
<1>6. ToSet(t) \subseteq ToSet(u)
  BY <1>1, <1>2 DEF ToSet
<1>7. ASSUME IsInjective(u) PROVE IsInjective(s)
  BY <1>1, <1>3, <1>7 DEF IsInjective
<1>8. ASSUME IsInjective(u) PROVE IsInjective(t)
  <2> SUFFICES ASSUME NEW i \in 1..Len(t), NEW j \in 1..Len(t), t[i] = t[j]
               PROVE  i = j
    BY <1>1 DEF IsInjective
  <2>1. Len(s) + i = Len(s) + j
    BY <1>1, <1>2, <1>8 DEF IsInjective
  <2>2. QED
    BY <1>1, <2>1
<1>9. ASSUME IsInjective(u) PROVE ToSet(s) \cap ToSet(t) = {}
  <2> SUFFICES ASSUME NEW i \in 1..Len(s), NEW j \in 1..Len(t), s[i] = t[j]
               PROVE  FALSE
    BY <1>1 DEF ToSet
  <2>1. i = Len(s) + j
    BY <1>1, <1>2, <1>3, <1>9 DEF IsInjective
  <2>2. QED
    BY <1>1, <2>1
<1>10. QED
  BY <1>4, <1>5, <1>6, <1>7, <1>8, <1>9 DEF u

(* Taking a prefix away leaves the order of what remains as it was.         *)
LEMMA SuffixOrder ==
    ASSUME NEW S, NEW s \in Seq(S), NEW t \in Seq(S), IsInjective(s \o t),
           NEW a \in ToSet(t), NEW b \in ToSet(t), Precedes(s \o t, a, b)
    PROVE  Precedes(t, a, b)
<1> DEFINE u == s \o t
<1>1. /\ DOMAIN t = 1..Len(t) /\ DOMAIN u = 1..(Len(s) + Len(t))
      /\ Len(s) \in Nat /\ Len(t) \in Nat
      /\ \A i \in 1..Len(t) : u[Len(s) + i] = t[i]
  BY ConcatElements
<1> HIDE DEF u
<1>2. IsInjective(u) /\ Precedes(u, a, b)
  BY DEF u
<1>3. PICK i \in 1..Len(t), j \in 1..Len(t) : t[i] = a /\ t[j] = b
  BY <1>1 DEF ToSet
<1>4. PICK k \in DOMAIN u, l \in DOMAIN u : k < l /\ u[k] = a /\ u[l] = b
  BY <1>2 DEF Precedes
<1>5. Len(s) + i \in DOMAIN u /\ Len(s) + j \in DOMAIN u
  BY <1>1
<1>6. k = Len(s) + i /\ l = Len(s) + j
  BY <1>1, <1>2, <1>3, <1>4, <1>5 DEF IsInjective
<1>7. i < j
  BY <1>1, <1>4, <1>6
<1>8. QED
  BY <1>1, <1>3, <1>7 DEF Precedes

(* Appending to the second part of a concatenation.                         *)
LEMMA ConcatAppend ==
    ASSUME NEW S, NEW s \in Seq(S), NEW t \in Seq(S), NEW x \in S
    PROVE  s \o Append(t, x) = Append(s \o t, x)
<1>1. /\ <<x>> \in Seq(S) /\ s \o t \in Seq(S)
      /\ Append(t, x) = t \o <<x>>
      /\ Append(s \o t, x) = (s \o t) \o <<x>>
  BY AppendIsConcat, ConcatProperties
<1>2. QED
  BY <1>1, ConcatAssociative

(* Inserting an element somewhere.                                          *)
LEMMA InsertElements ==
    ASSUME NEW S, NEW s \in Seq(S), NEW t \in Seq(S), NEW x \in S
    PROVE  LET u == s \o t
               v == Append(s, x) \o t
           IN  /\ u \in Seq(S) /\ v \in Seq(S) /\ Len(u) \in Nat
               /\ Len(v) = Len(u) + 1
               /\ DOMAIN u = 1..Len(u) /\ DOMAIN v = 1..(Len(u) + 1)
               /\ Len(s) \in 0..Len(u)
               /\ \A i \in 1..Len(s) : v[i] = u[i]
               /\ v[Len(s) + 1] = x
               /\ \A i \in (Len(s) + 1)..Len(u) : v[i + 1] = u[i]
<1> DEFINE u == s \o t
           r == Append(s, x)
           v == r \o t
<1>1. r \in Seq(S) /\ Len(r) = Len(s) + 1 /\ r[Len(s) + 1] = x
      /\ \A i \in 1..Len(s) : r[i] = s[i]
  BY AppendProperties
<1>2. /\ u \in Seq(S) /\ Len(s) \in Nat /\ Len(t) \in Nat
      /\ Len(u) = Len(s) + Len(t) /\ DOMAIN u = 1..(Len(s) + Len(t))
      /\ \A i \in 1..Len(s) : u[i] = s[i]
      /\ \A i \in 1..Len(t) : u[Len(s) + i] = t[i]
  BY ConcatElements
<1> HIDE DEF r
<1>r. r \in Seq(S)
  BY <1>1
<1>3. /\ v \in Seq(S)
      /\ Len(v) = Len(r) + Len(t) /\ DOMAIN v = 1..(Len(r) + Len(t))
      /\ \A i \in 1..Len(r) : v[i] = r[i]
      /\ \A i \in 1..Len(t) : v[Len(r) + i] = t[i]
  BY <1>r, ConcatElements
<1> HIDE DEF u, v
<1>4. /\ Len(v) = Len(u) + 1 /\ Len(u) \in Nat /\ Len(s) \in 0..Len(u)
      /\ DOMAIN u = 1..Len(u) /\ DOMAIN v = 1..(Len(u) + 1)
  BY <1>1, <1>2, <1>3
<1>5. \A i \in 1..Len(s) : v[i] = u[i]
  BY <1>1, <1>2, <1>3
<1>6. v[Len(s) + 1] = x
  BY <1>1, <1>2, <1>3
<1>7. ASSUME NEW i \in (Len(s) + 1)..Len(u) PROVE v[i + 1] = u[i]
  <2>1. i - Len(s) \in 1..Len(t) /\ Len(s) + (i - Len(s)) = i
        /\ Len(r) + (i - Len(s)) = i + 1
    BY <1>1, <1>2
  <2>2. u[i] = t[i - Len(s)]
    BY <1>2, <2>1
  <2>3. v[i + 1] = t[i - Len(s)]
    BY <1>3, <2>1
  <2>4. QED
    BY <2>2, <2>3
<1>8. QED
  BY <1>2, <1>3, <1>4, <1>5, <1>6, <1>7 DEF u, v, r

(* The element that is inserted is the only new one.                        *)
LEMMA InsertSet ==
    ASSUME NEW S, NEW s \in Seq(S), NEW t \in Seq(S), NEW x \in S
    PROVE  ToSet(Append(s, x) \o t) = ToSet(s \o t) \cup {x}
<1>1. Append(s, x) \in Seq(S)
  BY AppendProperties
<1>2. ToSet(Append(s, x)) = ToSet(s) \cup {x}
  <2>1. /\ DOMAIN Append(s, x) = 1..(Len(s) + 1) /\ DOMAIN s = 1..Len(s)
        /\ Len(s) \in Nat /\ Append(s, x)[Len(s) + 1] = x
        /\ \A i \in 1..Len(s) : Append(s, x)[i] = s[i]
    BY AppendProperties
  <2>2. ToSet(Append(s, x)) \subseteq ToSet(s) \cup {x}
    <3> SUFFICES ASSUME NEW i \in 1..(Len(s) + 1)
                 PROVE  Append(s, x)[i] \in ToSet(s) \cup {x}
      BY <2>1 DEF ToSet
    <3>1. i \in 1..Len(s) \/ i = Len(s) + 1
      BY <2>1
    <3>2. QED
      BY <2>1, <3>1 DEF ToSet
  <2>3. ToSet(s) \subseteq ToSet(Append(s, x))
    <3> SUFFICES ASSUME NEW i \in 1..Len(s)
                 PROVE  s[i] \in ToSet(Append(s, x))
      BY <2>1 DEF ToSet
    <3>1. i \in DOMAIN Append(s, x) /\ Append(s, x)[i] = s[i]
      BY <2>1
    <3>2. QED
      BY <3>1 DEF ToSet
  <2>4. x \in ToSet(Append(s, x))
    <3>1. Len(s) + 1 \in DOMAIN Append(s, x)
      BY <2>1
    <3>2. QED
      BY <2>1, <3>1 DEF ToSet
  <2>5. QED
    BY <2>2, <2>3, <2>4
<1>3. ToSet(Append(s, x) \o t) = ToSet(Append(s, x)) \cup ToSet(t)
  BY <1>1, ConcatSet, Zenon
<1>4. ToSet(s \o t) = ToSet(s) \cup ToSet(t)
  BY ConcatSet, Zenon
<1>5. QED
  BY ONLY <1>2, <1>3, <1>4

(* Inserting an element that is not there keeps all elements different.     *)
LEMMA InsertInjective ==
    ASSUME NEW S, NEW s \in Seq(S), NEW t \in Seq(S), NEW x \in S,
           IsInjective(s \o t), x \notin ToSet(s \o t)
    PROVE  IsInjective(Append(s, x) \o t)
<1> DEFINE u == s \o t
           v == Append(s, x) \o t
           n == Len(s)
<1>1. /\ Len(u) \in Nat /\ n \in 0..Len(u)
      /\ DOMAIN u = 1..Len(u) /\ DOMAIN v = 1..(Len(u) + 1)
      /\ \A i \in 1..n : v[i] = u[i]
      /\ v[n + 1] = x
      /\ \A i \in (n + 1)..Len(u) : v[i + 1] = u[i]
  BY InsertElements
<1>2. IsInjective(u) /\ \A i \in 1..Len(u) : u[i] # x
  BY <1>1 DEF ToSet
<1> DEFINE old(i) == IF i <= n THEN i ELSE i - 1
<1> HIDE DEF u, v, n
<1>3. ASSUME NEW i \in 1..(Len(u) + 1), i # n + 1
      PROVE  old(i) \in 1..Len(u) /\ v[i] = u[old(i)]
  <2>1. CASE i <= n
    BY <1>1, <2>1
  <2>2. CASE i > n
    <3>1. i - 1 \in (n + 1)..Len(u) /\ (i - 1) + 1 = i
      BY <1>1, <1>3, <2>2
    <3>2. v[i] = u[i - 1]
      BY <1>1, <3>1
    <3>3. QED
      BY <1>1, <2>2, <3>1, <3>2
  <2>3. QED
    BY <1>1, <2>1, <2>2
<1>4. ASSUME NEW i \in 1..(Len(u) + 1), NEW j \in 1..(Len(u) + 1), v[i] = v[j]
      PROVE  i = j
  <2>1. CASE i # n + 1 /\ j # n + 1
    <3>1. old(i) = old(j)
      BY <1>1, <1>2, <1>3, <1>4, <2>1 DEF IsInjective
    <3>2. QED
      BY <1>1, <2>1, <3>1
  <2>2. CASE i = n + 1 /\ j # n + 1
    BY <1>1, <1>2, <1>3, <1>4, <2>2
  <2>3. CASE i # n + 1 /\ j = n + 1
    BY <1>1, <1>2, <1>3, <1>4, <2>3
  <2>4. QED
    BY <2>1, <2>2, <2>3
<1>5. IsInjective(v)
  BY <1>1, <1>4 DEF IsInjective
<1>6. QED
  BY <1>5 DEF v

(* Inserting an element leaves the order of the others as it was.           *)
LEMMA InsertOrder ==
    ASSUME NEW S, NEW s \in Seq(S), NEW t \in Seq(S), NEW x \in S,
           NEW a, NEW b, Precedes(s \o t, a, b)
    PROVE  Precedes(Append(s, x) \o t, a, b)
<1> DEFINE u == s \o t
           v == Append(s, x) \o t
           n == Len(s)
           new(i) == IF i <= n THEN i ELSE i + 1
<1>1. /\ Len(u) \in Nat /\ n \in 0..Len(u)
      /\ DOMAIN u = 1..Len(u) /\ DOMAIN v = 1..(Len(u) + 1)
      /\ \A i \in 1..n : v[i] = u[i]
      /\ \A i \in (n + 1)..Len(u) : v[i + 1] = u[i]
  BY InsertElements
<1>2. PICK i \in DOMAIN u, j \in DOMAIN u : i < j /\ u[i] = a /\ u[j] = b
  BY DEF Precedes
<1> HIDE DEF u, v, n
<1>3. ASSUME NEW k \in DOMAIN u
      PROVE  new(k) \in DOMAIN v /\ v[new(k)] = u[k]
  BY <1>1
<1>4. new(i) < new(j)
  BY <1>1, <1>2
<1>5. Precedes(v, a, b)
  <2> HIDE DEF new
  <2>1. QED
    BY <1>2, <1>3, <1>4 DEF Precedes
<1>6. QED
  BY <1>5 DEF v

(* A sequence without repetition has as many elements as positions.         *)
LEMMA InjectiveCardinality ==
    ASSUME NEW S, NEW s \in Seq(S), IsInjective(s)
    PROVE  IsFiniteSet(ToSet(s)) /\ Cardinality(ToSet(s)) = Len(s)
<1>1. Len(s) \in Nat /\ DOMAIN s = 1..Len(s)
  OBVIOUS
<1>2. s \in [1..Len(s) -> ToSet(s)]
  <2>1. \A i \in 1..Len(s) : s[i] \in ToSet(s)
    BY <1>1 DEF ToSet
  <2>2. s = [i \in 1..Len(s) |-> s[i]]
    BY <1>1
  <2>3. QED
    BY <2>1, <2>2
<1>3. \A e \in ToSet(s) : \E i \in 1..Len(s) : s[i] = e
  BY <1>1 DEF ToSet
<1>4. \A i, j \in 1..Len(s) : s[i] = s[j] => i = j
  BY <1>1 DEF IsInjective
<1>5. ExistsBijection(1..Len(s), ToSet(s))
  <2>1. s \in Bijection(1..Len(s), ToSet(s))
    BY <1>2, <1>3, <1>4 DEF Bijection, Injection, Surjection, IsInjective
  <2>2. QED
    BY <2>1 DEF ExistsBijection
<1>6. IsFiniteSet(1..Len(s)) /\ Cardinality(1..Len(s)) = Len(s)
  BY <1>1, FS_Interval
<1>7. QED
  BY <1>5, <1>6, FS_Bijection

(* Two sequences without repetition that have nothing in common.            *)
LEMMA ConcatInjective ==
    ASSUME NEW S, NEW s \in Seq(S), NEW t \in Seq(S), IsInjective(s),
           IsInjective(t), ToSet(s) \cap ToSet(t) = {}
    PROVE  IsInjective(s \o t)
<1> DEFINE u == s \o t
<1>1. /\ DOMAIN s = 1..Len(s) /\ DOMAIN t = 1..Len(t)
      /\ DOMAIN u = 1..(Len(s) + Len(t))
      /\ Len(s) \in Nat /\ Len(t) \in Nat
      /\ \A i \in 1..Len(s) : u[i] = s[i]
      /\ \A i \in 1..Len(t) : u[Len(s) + i] = t[i]
      /\ \A i \in 1..(Len(s) + Len(t)) :
            i <= Len(s) \/ i - Len(s) \in 1..Len(t)
  BY ConcatElements
<1> HIDE DEF u
<1>2. ASSUME NEW i \in DOMAIN u
      PROVE  \/ i \in 1..Len(s) /\ u[i] = s[i] /\ s[i] \in ToSet(s)
             \/ /\ i - Len(s) \in 1..Len(t) /\ u[i] = t[i - Len(s)]
                /\ t[i - Len(s)] \in ToSet(t)
  <2>1. CASE i <= Len(s)
    <3>1. i \in 1..Len(s)
      BY <1>1, <2>1
    <3>2. QED
      BY <1>1, <3>1 DEF ToSet
  <2>2. CASE i - Len(s) \in 1..Len(t)
    <3>1. Len(s) + (i - Len(s)) = i
      BY <1>1
    <3>2. u[i] = t[i - Len(s)]
      BY <1>1, <2>2, <3>1
    <3>3. QED
      BY <1>1, <2>2, <3>2 DEF ToSet
  <2>3. QED
    BY <1>1, <2>1, <2>2
<1>3. ASSUME NEW i \in DOMAIN u, NEW j \in DOMAIN u, u[i] = u[j]
      PROVE  i = j
  <2>1. CASE i \in 1..Len(s) /\ j \in 1..Len(s)
    BY <1>1, <1>3, <2>1 DEF IsInjective
  <2>2. CASE i - Len(s) \in 1..Len(t) /\ j - Len(s) \in 1..Len(t)
    <3>1. /\ Len(s) + (i - Len(s)) = i /\ Len(s) + (j - Len(s)) = j
          /\ i \in Int /\ j \in Int
      BY <1>1
    <3>2. t[i - Len(s)] = t[j - Len(s)]
      BY <1>1, <1>3, <2>2, <3>1
    <3>3. i - Len(s) = j - Len(s)
      BY <1>1, <2>2, <3>2 DEF IsInjective
    <3>4. QED
      BY <1>1, <3>1, <3>3
  <2>3. CASE i \in 1..Len(s) /\ j - Len(s) \in 1..Len(t)
    <3>1. Len(s) + (j - Len(s)) = j
      BY <1>1
    <3>2. s[i] = t[j - Len(s)]
      BY <1>1, <1>3, <2>3, <3>1
    <3>3. QED
      BY <1>1, <2>3, <3>2 DEF ToSet
  <2>4. CASE i - Len(s) \in 1..Len(t) /\ j \in 1..Len(s)
    <3>1. Len(s) + (i - Len(s)) = i
      BY <1>1
    <3>2. s[j] = t[i - Len(s)]
      BY <1>1, <1>3, <2>4, <3>1
    <3>3. QED
      BY <1>1, <2>4, <3>2 DEF ToSet
  <2>5. QED
    BY <1>2, <2>1, <2>2, <2>3, <2>4
<1>4. QED
  BY <1>3 DEF u, IsInjective

(* A new first element.                                                     *)
LEMMA ConsProperties ==
    ASSUME NEW S, NEW x \in S, NEW s \in Seq(S)
    PROVE  /\ <<x>> \o s \in Seq(S) /\ <<x>> \o s # <<>>
           /\ Len(<<x>> \o s) = Len(s) + 1 /\ Len(s) \in Nat
           /\ (<<x>> \o s)[1] = x
           /\ \A i \in 1..Len(s) : (<<x>> \o s)[i + 1] = s[i]
           /\ ToSet(<<x>> \o s) = ToSet(s) \cup {x}
           /\ IsInjective(s) /\ x \notin ToSet(s) => IsInjective(<<x>> \o s)
<1>1. /\ <<x>> \in Seq(S) /\ Len(<<x>>) = 1 /\ <<x>>[1] = x
      /\ ToSet(<<x>>) = {x} /\ IsInjective(<<x>>)
  BY DEF ToSet, IsInjective
<1>2. /\ <<x>> \o s \in Seq(S) /\ Len(<<x>> \o s) = 1 + Len(s)
      /\ Len(s) \in Nat /\ (<<x>> \o s)[1] = x
      /\ \A i \in 1..Len(s) : (<<x>> \o s)[1 + i] = s[i]
  BY <1>1, ConcatElements
<1>3. ToSet(<<x>> \o s) = ToSet(<<x>>) \cup ToSet(s)
  BY <1>1, ConcatSet, Zenon
<1>4. ASSUME IsInjective(s), x \notin ToSet(s) PROVE IsInjective(<<x>> \o s)
  <2>1. ToSet(<<x>>) \cap ToSet(s) = {}
    BY <1>1, <1>4
  <2>2. QED
    BY <1>1, <1>4, <2>1, ConcatInjective
<1>5. <<x>> \o s # <<>>
  BY <1>2
<1>6. \A i \in 1..Len(s) : (<<x>> \o s)[i + 1] = s[i]
  BY <1>2
<1>7. QED
  BY <1>1, <1>2, <1>3, <1>4, <1>5, <1>6

(* The rest of a sequence.                                                  *)
LEMMA TailProperties ==
    ASSUME NEW S, NEW s \in Seq(S), s # <<>>
    PROVE  /\ Head(s) \in S /\ Tail(s) \in Seq(S) /\ Head(s) = s[1]
           /\ s = <<Head(s)>> \o Tail(s)
           /\ Len(s) \in Nat /\ Len(s) > 0 /\ Len(Tail(s)) = Len(s) - 1
           /\ \A i \in 1..(Len(s) - 1) : Tail(s)[i] = s[i + 1]
           /\ ToSet(s) = ToSet(Tail(s)) \cup {Head(s)}
           /\ IsInjective(s) => /\ IsInjective(Tail(s))
                                /\ Head(s) \notin ToSet(Tail(s))
<1>1. /\ Head(s) \in S /\ Tail(s) \in Seq(S) /\ Head(s) = s[1]
      /\ Len(s) \in Nat /\ Len(s) > 0 /\ Len(Tail(s)) = Len(s) - 1
      /\ \A i \in 1..(Len(s) - 1) : Tail(s)[i] = s[i + 1]
  BY EmptySeq, HeadTailProperties
<1>2. s = <<Head(s)>> \o Tail(s)
  BY SMTT(30)
<1>3. ToSet(<<Head(s)>> \o Tail(s)) = ToSet(Tail(s)) \cup {Head(s)}
  <2>1. Head(s) \in S /\ Tail(s) \in Seq(S)
    BY <1>1
  <2>2. QED
    BY <2>1, ConsProperties, Zenon
<1>4. ASSUME IsInjective(s)
      PROVE  IsInjective(Tail(s)) /\ Head(s) \notin ToSet(Tail(s))
  <2>1. <<Head(s)>> \in Seq(S) /\ ToSet(<<Head(s)>>) = {Head(s)}
    BY <1>1 DEF ToSet
  <2>2. IsInjective(<<Head(s)>> \o Tail(s))
    BY <1>2, <1>4
  <2>3. /\ IsInjective(Tail(s))
        /\ ToSet(<<Head(s)>>) \cap ToSet(Tail(s)) = {}
    BY <1>1, <2>1, <2>2, ConcatSet
  <2>4. QED
    BY <2>1, <2>3
<1>5. ToSet(s) = ToSet(Tail(s)) \cup {Head(s)}
  BY <1>2, <1>3
<1>6. QED
  BY <1>1, <1>2, <1>4, <1>5

(* Reversing a sequence puts its first element last.                        *)
LEMMA ReverseProperties ==
    ASSUME NEW S, NEW s \in Seq(S)
    PROVE  /\ Reverse(s) \in Seq(S) /\ Len(Reverse(s)) = Len(s)
           /\ Reverse(s) = <<>> <=> s = <<>>
           /\ ToSet(Reverse(s)) = ToSet(s)
           /\ \A x \in S : Reverse(<<x>> \o s) = Reverse(s) \o <<x>>
<1>1. /\ Len(s) \in Nat /\ DOMAIN s = 1..Len(s)
      /\ \A i \in 1..Len(s) : s[i] \in S /\ (Len(s) - i) + 1 \in 1..Len(s)
      /\ \A i \in 1..Len(s) : (Len(s) - ((Len(s) - i) + 1)) + 1 = i
  OBVIOUS
<1>2. /\ Reverse(s) \in Seq(S) /\ Len(Reverse(s)) = Len(s)
      /\ DOMAIN Reverse(s) = 1..Len(s)
      /\ \A i \in 1..Len(s) : Reverse(s)[i] = s[(Len(s) - i) + 1]
  BY <1>1 DEF Reverse
<1>3. Reverse(s) = <<>> <=> s = <<>>
  BY <1>1, <1>2, EmptySeq
<1>4. ToSet(Reverse(s)) = ToSet(s)
  <2>1. ToSet(Reverse(s)) \subseteq ToSet(s)
    BY <1>1, <1>2 DEF ToSet
  <2>2. ASSUME NEW i \in 1..Len(s) PROVE s[i] \in ToSet(Reverse(s))
    <3>1. Reverse(s)[(Len(s) - i) + 1] = s[i]
      BY <1>1, <1>2
    <3>2. QED
      BY <1>1, <1>2, <3>1 DEF ToSet
  <2>3. QED
    BY <1>1, <2>1, <2>2 DEF ToSet
<1>5. ASSUME NEW x \in S PROVE Reverse(<<x>> \o s) = Reverse(s) \o <<x>>
  <2> DEFINE u == <<x>> \o s
             v == Reverse(s) \o <<x>>
  <2>1. /\ u \in Seq(S) /\ Len(u) = Len(s) + 1 /\ u[1] = x
        /\ \A i \in 1..Len(s) : u[i + 1] = s[i]
    BY ConsProperties
  <2>2. <<x>> \in Seq(S) /\ Len(<<x>>) = 1 /\ <<x>>[1] = x
    OBVIOUS
  <2>3. /\ v \in Seq(S) /\ Len(v) = Len(s) + 1 /\ v[Len(s) + 1] = x
        /\ \A i \in 1..Len(s) : v[i] = Reverse(s)[i]
    <3>1. /\ v \in Seq(S) /\ Len(v) = Len(Reverse(s)) + Len(<<x>>)
          /\ \A i \in 1..Len(Reverse(s)) : v[i] = Reverse(s)[i]
          /\ \A i \in 1..Len(<<x>>) : v[Len(Reverse(s)) + i] = <<x>>[i]
      BY <1>2, <2>2, ConcatElements
    <3>2. QED
      BY <1>1, <1>2, <2>2, <3>1
  <2> HIDE DEF u, v
  <2>4. Reverse(u) = [i \in 1..(Len(s) + 1) |-> u[((Len(s) + 1) - i) + 1]]
    BY <2>1 DEF Reverse
  <2>5. ASSUME NEW i \in 1..(Len(s) + 1)
        PROVE  u[((Len(s) + 1) - i) + 1] = v[i]
    <3>1. CASE i = Len(s) + 1
      BY <1>1, <2>1, <2>3, <3>1
    <3>2. CASE i \in 1..Len(s)
      <4>1. /\ ((Len(s) + 1) - i) + 1 = ((Len(s) - i) + 1) + 1
            /\ (Len(s) - i) + 1 \in 1..Len(s)
        BY <1>1, <3>2
      <4>2. u[((Len(s) - i) + 1) + 1] = s[(Len(s) - i) + 1]
        BY <2>1, <4>1
      <4>3. QED
        BY <1>2, <2>3, <3>2, <4>1, <4>2
    <3>3. QED
      BY <1>1, <3>1, <3>2
  <2>6. v = [i \in 1..(Len(s) + 1) |-> v[i]]
    BY <2>3
  <2>7. Reverse(u) = v
    BY <2>4, <2>5, <2>6
  <2>8. QED
    BY <2>7 DEF u, v
<1>6. QED
  BY <1>2, <1>3, <1>4, <1>5
=============================================================================
