----------------------- MODULE IntrusiveQueuesProofs -----------------------
(***************************************************************************)
(* The pointers of IntrusiveQueues implement the abstract queues, for any   *)
(* number of producers and of operations.                                   *)
(*                                                                          *)
(* The proofs never look at a pointer twice: five sequences, one for every  *)
(* list, describe what the next members link together.  A step changes one  *)
(* or two of them at an end, and that the sequences stay disjoint from each *)
(* other, from free memory and from what producers are enqueueing is what   *)
(* keeps a stale pointer harmless.                                          *)
(***************************************************************************)
EXTENDS IntrusiveQueues, SequenceLemmas
-----------------------------------------------------------------------------
(* Lists                                                                    *)

(* The links lead from the pointer through the operations of s to NULL.     *)
Linked(links, pointer, s) ==
    /\ pointer = IF s = <<>> THEN NULL ELSE s[1]
    /\ \A i \in 1..Len(s) :
          links[s[i]] = IF i = Len(s) THEN NULL ELSE s[i + 1]

(* A sequence of different operations is not longer than there are          *)
(* operations.                                                              *)
LEMMA InjectiveIsShort ==
    ASSUME NEW s \in Seq(Ops), IsInjective(s)
    PROVE  /\ Len(s) \in Nat /\ Cardinality(Ops) \in Nat
           /\ Len(s) <= Cardinality(Ops)
<1>1. IsFiniteSet(Ops)
  BY PointersAssumption
<1>2. IsFiniteSet(ToSet(s)) /\ Cardinality(ToSet(s)) = Len(s)
  BY InjectiveCardinality
<1>3. ToSet(s) \in SUBSET Ops
  BY DEF ToSet
<1>4. Cardinality(ToSet(s)) <= Cardinality(Ops) /\ Cardinality(Ops) \in Nat
  BY <1>1, <1>3, FS_Subset, FS_CardinalityType
<1>5. QED
  BY <1>2, <1>4

(* Following the links step by step visits the operations of the list, and  *)
(* then NULL: by induction on the number of steps.                          *)
LEMMA HopsOfList ==
    ASSUME NEW links, NEW pointer, NEW s \in Seq(Ops), IsInjective(s),
           Linked(links, pointer, s)
    PROVE  Hops(links, pointer) = [n \in 0..Cardinality(Ops) |->
                                      IF n < Len(s) THEN s[n + 1] ELSE NULL]
<1> DEFINE N == 0..Cardinality(Ops)
           g == [n \in N |-> IF n < Len(s) THEN s[n + 1] ELSE NULL]
           Body(f) == [n \in N |-> IF n = 0 THEN pointer
                                   ELSE IF f[n - 1] = NULL THEN NULL
                                        ELSE links[f[n - 1]]]
           h == Hops(links, pointer)
<1>1. Len(s) \in Nat /\ Cardinality(Ops) \in Nat /\ Len(s) <= Cardinality(Ops)
  BY InjectiveIsShort
<1>2. \A i \in 1..Len(s) : s[i] \in Ops /\ s[i] # NULL
  BY PointersAssumption
<1>3. g = Body(g)
  <2>1. ASSUME NEW n \in N
        PROVE  g[n] = IF n = 0 THEN pointer
                      ELSE IF g[n - 1] = NULL THEN NULL ELSE links[g[n - 1]]
    <3>1. CASE n = 0
      BY <1>1, <3>1 DEF Linked
    <3>2. CASE n # 0 /\ n - 1 < Len(s)
      <4>1. n \in 1..Len(s) /\ n - 1 \in N /\ g[n - 1] = s[n]
        BY <1>1, <3>2
      <4>2. links[s[n]] = IF n = Len(s) THEN NULL ELSE s[n + 1]
        BY <4>1 DEF Linked
      <4>3. g[n] = links[s[n]]
        BY <1>1, <4>1, <4>2
      <4>4. QED
        BY <1>2, <3>2, <4>1, <4>3
    <3>3. CASE n # 0 /\ ~(n - 1 < Len(s))
      BY <1>1, <3>3
    <3>4. QED
      BY <3>1, <3>2, <3>3
  <2>2. QED
    BY <2>1
<1>4. h = Body(h)
  <2>1. h = CHOOSE f : f = Body(f)
    BY DEF Hops
  <2> HIDE DEF g, h, Body
  <2>2. QED
    BY <1>3, <2>1, Zenon
<1> HIDE DEF g, h
<1>5. ASSUME NEW n \in N, h[n] # g[n] PROVE FALSE
  <2> DEFINE T == {m \in N : h[m] # g[m]}
  <2>1. T \in SUBSET Nat /\ T # {}
    BY <1>1, <1>5
  <2>2. PICK m \in T : \A k \in T : m <= k
    BY <2>1, LeastNatural
  <2>3. CASE m = 0
    BY <1>1, <1>3, <1>4, <2>2, <2>3
  <2>4. CASE m # 0
    <3>1. m \in N /\ m - 1 \in N /\ m - 1 \notin T
      BY <1>1, <2>2, <2>4
    <3>2. h[m - 1] = g[m - 1]
      BY <3>1
    <3>3. h[m] = g[m]
      BY <1>3, <1>4, <2>4, <3>1, <3>2
    <3>4. QED
      BY <3>3
  <2>5. QED
    BY <2>3, <2>4
<1>6. h = g
  <2>1. DOMAIN h = N /\ DOMAIN g = N
    BY <1>3, <1>4
  <2>2. h = [n \in N |-> h[n]] /\ g = [n \in N |-> g[n]]
    BY <1>3, <1>4
  <2>3. QED
    BY <1>5, <2>2
<1>7. QED
  BY <1>6 DEF g, h

(* Hence the path from the pointer is the list.                             *)
LEMMA PathOfList ==
    ASSUME NEW links, NEW pointer, NEW s \in Seq(Ops), IsInjective(s),
           Linked(links, pointer, s)
    PROVE  Path(links, pointer) = s
<1> DEFINE h == Hops(links, pointer)
<1>1. Len(s) \in Nat /\ Cardinality(Ops) \in Nat /\ Len(s) <= Cardinality(Ops)
  BY InjectiveIsShort
<1>2. h = [n \in 0..Cardinality(Ops) |->
              IF n < Len(s) THEN s[n + 1] ELSE NULL]
  BY HopsOfList
<1>3. \A i \in 1..Len(s) : s[i] \in Ops /\ s[i] # NULL
  BY PointersAssumption
<1> HIDE DEF h
<1>4. {n \in DOMAIN h : h[n] # NULL} = 0..(Len(s) - 1)
  BY <1>1, <1>2, <1>3
<1>5. Cardinality(0..(Len(s) - 1)) = Len(s)
  <2>1. CASE Len(s) = 0
    <3>1. 0..(Len(s) - 1) = {}
      BY <2>1
    <3>2. QED
      BY <2>1, <3>1, FS_EmptySet
  <2>2. CASE Len(s) > 0
    <3>1. Len(s) - 1 \in Int /\ 0 \in Int /\ ~(0 > Len(s) - 1)
          /\ (Len(s) - 1) - 0 + 1 = Len(s)
      BY <1>1, <2>2
    <3>2. QED
      BY <3>1, FS_Interval
  <2>3. QED
    BY <1>1, <2>1, <2>2
<1>6. Path(links, pointer) = [i \in 1..Len(s) |-> h[i - 1]]
  BY <1>4, <1>5 DEF Path, h
<1>7. \A i \in 1..Len(s) : h[i - 1] = s[i]
  BY <1>1, <1>2
<1>8. s = [i \in 1..Len(s) |-> s[i]]
  OBVIOUS
<1>9. QED
  BY <1>6, <1>7, <1>8

(* A list does not change unless a link of one of its operations does.      *)
LEMMA LinkedFrame ==
    ASSUME NEW links, NEW links2, NEW pointer, NEW s \in Seq(Ops),
           Linked(links, pointer, s),
           \A op \in ToSet(s) : links2[op] = links[op]
    PROVE  Linked(links2, pointer, s)
<1>1. \A i \in 1..Len(s) : s[i] \in ToSet(s)
  BY DEF ToSet
<1>2. QED
  BY <1>1 DEF Linked

(* A list is empty if and only if its pointer is NULL.                      *)
LEMMA LinkedEmpty ==
    ASSUME NEW links, NEW pointer, NEW s \in Seq(Ops),
           Linked(links, pointer, s)
    PROVE  /\ pointer = NULL <=> s = <<>>
           /\ pointer # NULL => pointer = Head(s) /\ pointer \in ToSet(s)
<1>1. CASE s = <<>>
  BY <1>1 DEF Linked
<1>2. CASE s # <<>>
  <2>1. Head(s) = s[1] /\ Head(s) \in Ops /\ Head(s) \in ToSet(s)
    <3>1. ToSet(s) = ToSet(Tail(s)) \cup {Head(s)}
      BY <1>2, TailProperties, Zenon
    <3>2. Head(s) = s[1] /\ Head(s) \in Ops
      BY <1>2, TailProperties, Zenon
    <3>3. QED
      BY <3>1, <3>2
  <2>2. QED
    BY <1>2, <2>1, PointersAssumption DEF Linked
<1>3. QED
  BY <1>1, <1>2

(* The empty list.                                                          *)
LEMMA LinkedNull ==
    ASSUME NEW links
    PROVE  Linked(links, NULL, <<>>)
  BY DEF Linked

(* A new operation in front.                                                *)
LEMMA LinkedCons ==
    ASSUME NEW links, NEW pointer, NEW s \in Seq(Ops), NEW x \in Ops,
           Linked(links, pointer, s), links[x] = pointer
    PROVE  Linked(links, x, <<x>> \o s)
<1> DEFINE t == <<x>> \o s
<1>1. /\ t # <<>> /\ Len(t) = Len(s) + 1 /\ Len(s) \in Nat /\ t[1] = x
      /\ \A i \in 1..Len(s) : t[i + 1] = s[i]
  BY ConsProperties
<1> HIDE DEF t
<1>2. ASSUME NEW i \in 1..Len(t)
      PROVE  links[t[i]] = IF i = Len(t) THEN NULL ELSE t[i + 1]
  <2>1. CASE i = 1
    <3>1. CASE Len(s) = 0
      <4>1. s = <<>>
        BY <3>1
      <4>2. QED
        BY <1>1, <2>1, <3>1, <4>1 DEF Linked
    <3>2. CASE Len(s) # 0
      <4>1. s # <<>> /\ 1 \in 1..Len(s)
        BY <1>1, <3>2
      <4>2. pointer = s[1] /\ t[1 + 1] = s[1]
        BY <1>1, <4>1 DEF Linked
      <4>3. QED
        BY <1>1, <2>1, <3>2, <4>2
    <3>3. QED
      BY <3>1, <3>2
  <2>2. CASE i # 1
    <3>1. i - 1 \in 1..Len(s) /\ (i - 1) + 1 = i /\ i \in Int
      BY <1>1, <2>2
    <3>2. links[s[i - 1]] = IF i - 1 = Len(s) THEN NULL ELSE s[(i - 1) + 1]
      BY <3>1 DEF Linked
    <3>3. t[i] = s[i - 1]
      BY <1>1, <3>1
    <3>4. i # Len(t) => i \in 1..Len(s) /\ t[i + 1] = s[i]
      BY <1>1, <3>1
    <3>5. i = Len(t) <=> i - 1 = Len(s)
      BY <1>1, <3>1
    <3>6. QED
      BY <3>1, <3>2, <3>3, <3>4, <3>5
  <2>3. QED
    BY <2>1, <2>2
<1>3. QED
  BY <1>1, <1>2 DEF Linked, t

(* What the first operation leads to.                                       *)
LEMMA LinkedTail ==
    ASSUME NEW links, NEW pointer, NEW s \in Seq(Ops),
           Linked(links, pointer, s), pointer # NULL
    PROVE  /\ s # <<>> /\ pointer = Head(s)
           /\ Linked(links, links[pointer], Tail(s))
<1>1. s # <<>> /\ pointer = Head(s)
  BY LinkedEmpty
<1> DEFINE t == Tail(s)
<1>2. /\ Head(s) = s[1] /\ Len(s) \in Nat /\ Len(s) > 0
      /\ t \in Seq(Ops) /\ Len(t) = Len(s) - 1
      /\ \A i \in 1..(Len(s) - 1) : t[i] = s[i + 1]
  BY <1>1, TailProperties
<1> HIDE DEF t
<1>3. links[pointer] = IF t = <<>> THEN NULL ELSE t[1]
  <2>1. links[s[1]] = IF 1 = Len(s) THEN NULL ELSE s[1 + 1]
    BY <1>2 DEF Linked
  <2>2. t = <<>> <=> Len(s) = 1
    BY <1>2, EmptySeq
  <2>3. Len(s) # 1 => t[1] = s[1 + 1]
    BY <1>2
  <2>4. QED
    BY <1>1, <1>2, <2>1, <2>2, <2>3
<1>4. ASSUME NEW i \in 1..Len(t)
      PROVE  links[t[i]] = IF i = Len(t) THEN NULL ELSE t[i + 1]
  <2>1. i + 1 \in 1..Len(s) /\ i \in 1..(Len(s) - 1) /\ t[i] = s[i + 1]
    BY <1>2
  <2>2. links[s[i + 1]] = IF i + 1 = Len(s) THEN NULL ELSE s[(i + 1) + 1]
    BY <2>1 DEF Linked
  <2>3. i + 1 = Len(s) <=> i = Len(t)
    BY <1>2
  <2>4. i # Len(t) => t[i + 1] = s[(i + 1) + 1]
    BY <1>2, <2>1
  <2>5. QED
    BY <2>1, <2>2, <2>3, <2>4
<1>5. QED
  BY <1>1, <1>3, <1>4 DEF Linked, t

(* The tail pointer of a list.                                              *)
LastOf(s) == IF s = <<>> THEN NULL ELSE s[Len(s)]

(* The last operation of the list s is made to lead to the list t.          *)
Joins(links, links2, pointer, pointer2, s, t) ==
    /\ s \in Seq(Ops) /\ t \in Seq(Ops) /\ s # <<>> /\ IsInjective(s)
    /\ Linked(links, pointer, s)
    /\ Linked(links2, pointer2, t)
    /\ links2[LastOf(s)] = pointer2
    /\ \A op \in ToSet(s) \ {LastOf(s)} : links2[op] = links[op]

(* Then the pointer leads through both.                                     *)
LEMMA LinkedConcat ==
    ASSUME NEW links, NEW links2, NEW pointer, NEW pointer2, NEW s, NEW t,
           Joins(links, links2, pointer, pointer2, s, t)
    PROVE  Linked(links2, pointer, s \o t)
<1> SUFFICES ASSUME s \in Seq(Ops), t \in Seq(Ops), s # <<>>, IsInjective(s),
                    Linked(links, pointer, s), Linked(links2, pointer2, t),
                    links2[LastOf(s)] = pointer2,
                    \A op \in ToSet(s) \ {LastOf(s)} : links2[op] = links[op]
             PROVE  Linked(links2, pointer, s \o t)
  BY DEF Joins
<1> DEFINE u == s \o t
<1>1. /\ u \in Seq(Ops) /\ Len(s) \in Nat /\ Len(t) \in Nat
      /\ Len(u) = Len(s) + Len(t)
      /\ \A i \in 1..Len(s) : u[i] = s[i]
      /\ \A i \in 1..Len(t) : u[Len(s) + i] = t[i]
      /\ \A i \in 1..(Len(s) + Len(t)) :
            i <= Len(s) \/ i - Len(s) \in 1..Len(t)
  BY ConcatElements
<1>2. Len(s) > 0 /\ DOMAIN s = 1..Len(s)
  BY EmptySeq
<1>3. t # <<>> => Len(t) > 0
  BY EmptySeq
<1>n. t = <<>> <=> Len(t) = 0
  BY EmptySeq
<1> HIDE DEF u
<1>4. pointer = IF u = <<>> THEN NULL ELSE u[1]
  <2>1. u # <<>> /\ u[1] = s[1]
    BY <1>1, <1>2, EmptySeq
  <2>2. QED
    BY <2>1 DEF Linked
<1>5. LastOf(s) = s[Len(s)]
  BY DEF LastOf
<1>6. ASSUME NEW i \in 1..Len(u)
      PROVE  links2[u[i]] = IF i = Len(u) THEN NULL ELSE u[i + 1]
  <2>1. CASE i < Len(s)
    <3>1. /\ i \in 1..Len(s) /\ i + 1 \in 1..Len(s) /\ Len(s) \in 1..Len(s)
          /\ i # Len(u) /\ i # Len(s)
      BY <1>1, <2>1
    <3>2. s[i] \in ToSet(s)
      BY <1>2, <3>1 DEF ToSet
    <3>d. s[i] # s[Len(s)]
      BY <1>2, <3>1 DEF IsInjective
    <3>3. links2[s[i]] = links[s[i]] /\ links[s[i]] = s[i + 1]
      BY <1>5, <3>1, <3>2, <3>d DEF Linked
    <3>4. QED
      BY <1>1, <3>1, <3>3
  <2>2. CASE i = Len(s)
    <3>1. links2[u[i]] = pointer2
      BY <1>1, <1>2, <1>5, <2>2
    <3>2. CASE t = <<>>
      BY <1>1, <1>n, <2>2, <3>1, <3>2 DEF Linked
    <3>3. CASE t # <<>>
      <4>1. pointer2 = t[1] /\ 1 \in 1..Len(t)
        BY <1>1, <1>3, <3>3 DEF Linked
      <4>2. u[Len(s) + 1] = t[1]
        BY <1>1, <4>1
      <4>3. QED
        BY <1>1, <1>3, <2>2, <3>1, <3>3, <4>1, <4>2
    <3>4. QED
      BY <3>2, <3>3
  <2>3. CASE i > Len(s)
    <3>1. /\ i - Len(s) \in 1..Len(t) /\ Len(s) + (i - Len(s)) = i
          /\ i \in Int
      BY <1>1, <2>3
    <3>2. links2[t[i - Len(s)]] =
              IF i - Len(s) = Len(t) THEN NULL ELSE t[(i - Len(s)) + 1]
      BY <3>1 DEF Linked
    <3>3. u[i] = t[i - Len(s)]
      BY <1>1, <3>1
    <3>4. i - Len(s) = Len(t) <=> i = Len(u)
      BY <1>1, <3>1
    <3>5. i # Len(u) => /\ (i - Len(s)) + 1 \in 1..Len(t)
                        /\ Len(s) + ((i - Len(s)) + 1) = i + 1
      <4>1. Len(s) + ((i - Len(s)) + 1) = i + 1
        BY <1>1, <3>1
      <4>2. i - Len(s) # Len(t) => (i - Len(s)) + 1 \in 1..Len(t)
        BY ONLY <1>1, <3>1
      <4>3. QED
        BY <3>4, <4>1, <4>2
    <3>6. i # Len(u) => u[i + 1] = t[(i - Len(s)) + 1]
      BY <1>1, <3>5
    <3>7. QED
      BY <3>2, <3>3, <3>4, <3>6
  <2>4. QED
    BY <1>1, <2>1, <2>2, <2>3
<1>7. QED
  BY <1>4, <1>6 DEF Linked, u

(* The tail of a concatenation.                                             *)
LEMMA LastConcat ==
    ASSUME NEW s \in Seq(Ops), NEW t \in Seq(Ops), t # <<>>
    PROVE  LastOf(s \o t) = LastOf(t)
<1> DEFINE u == s \o t
<1>1. /\ u \in Seq(Ops) /\ Len(s) \in Nat /\ Len(t) \in Nat
      /\ Len(u) = Len(s) + Len(t)
      /\ \A i \in 1..Len(t) : u[Len(s) + i] = t[i]
  BY ConcatElements
<1>2. Len(t) > 0
  BY EmptySeq
<1> HIDE DEF u
<1>3. u # <<>>
  BY <1>1, <1>2, EmptySeq
<1>4. Len(t) \in 1..Len(t)
  BY <1>1, <1>2
<1>5. u[Len(u)] = t[Len(t)]
  BY <1>1, <1>4
<1>6. QED
  BY <1>3, <1>5 DEF LastOf, u
-----------------------------------------------------------------------------
(* The inductive invariant                                                  *)

(* What head leads to, the flag aside.                                      *)
First == IF head = INACTIVE THEN NULL ELSE head

(* The operations that a producer has not handed over yet.                  *)
Held == {item[p] : p \in Producers} \ {NULL}

(* The five sequences are what the pointers lead to: r the remote queue, l  *)
(* the local one, v what make_reversed has still to do, w what it has done, *)
(* and b the batch.                                                         *)
Lists(r, l, v, w, b) ==
    /\ Linked(next, First, r)
    /\ Linked(next, local.head, l)
    /\ Linked(next, list, v)
    /\ Linked(next, new_head, w)
    /\ Linked(next, batch.head, b)

Injective(r, l, v, w, b) ==
    /\ IsInjective(r)
    /\ IsInjective(l)
    /\ IsInjective(v)
    /\ IsInjective(w)
    /\ IsInjective(b)

Disjoint(R, L, V, W, B, F, H) ==
    /\ R \cap (L \cup V \cup W \cup B \cup F \cup H) = {}
    /\ L \cap (V \cup W \cup B \cup F \cup H) = {}
    /\ V \cap (W \cup B \cup F \cup H) = {}
    /\ W \cap (B \cup F \cup H) = {}
    /\ B \cap (F \cup H) = {}
    /\ F \cap H = {}

(* An operation is in one place: a list, free memory or a producer's hand.  *)
Separate(r, l, v, w, b) ==
    Disjoint(ToSet(r), ToSet(l), ToSet(v), ToSet(w), ToSet(b), free, Held)

(* The tail pointers, and what the consumer knows at its position.          *)
ConsumerInvariant(l, w) ==
    /\ local.tail = LastOf(l)
    /\ consumer # "reverse" => list = NULL /\ new_head = NULL
    /\ consumer = "reverse" /\ w = <<>> => list # NULL /\ new_tail = list
    /\ consumer = "reverse" /\ w # <<>> => new_tail = LastOf(w)
    /\ consumer = "mark_inactive" => head # INACTIVE
    /\ consumer = "exchange" => head \in Ops

(* What a producer will hand over leads to the value it compares head with. *)
ProducerInvariant ==
    \A p \in Producers :
       /\ item[p] = NULL <=> pc[p] = "idle"
       /\ \A q \in Producers : item[p] = item[q] /\ item[p] # NULL => p = q
       /\ pc[p] = "compare_exchange" =>
             next[item[p]] = IF old_value[p] = INACTIVE THEN NULL
                             ELSE old_value[p]

Shape(r, l, v, w, b) ==
    /\ Lists(r, l, v, w, b)
    /\ Injective(r, l, v, w, b)
    /\ Separate(r, l, v, w, b)
    /\ ConsumerInvariant(l, w)
    /\ ProducerInvariant

(* The sequences exist.                                                     *)
QueueInvariant ==
    /\ TypeOK
    /\ \E r, l, v, w, b \in Seq(Ops) : Shape(r, l, v, w, b)
-----------------------------------------------------------------------------
(* Types                                                                    *)

(* A step preserves the types: the flag value gets nowhere but into head    *)
(* and old_value, because the consumer exchanges head only after it has     *)
(* seen an operation in it.                                                 *)
LEMMA TypeStep ==
    ASSUME TypeOK, consumer = "exchange" => head \in Ops, [Next]_vars
    PROVE  TypeOK'
<1>1. CASE TryMarkActive
  BY <1>1 DEF TypeOK, TryMarkActive, producerVars, reverseVars, Pointer
<1>2. ASSUME NEW p \in Producers, NEW op \in Ops, EnqueueLoad(p, op)
      PROVE  TypeOK'
  BY <1>2 DEF TypeOK, EnqueueLoad, reverseVars, Pointer
<1>3. ASSUME NEW p \in Producers, EnqueueStoreNext(p) PROVE TypeOK'
  BY <1>3 DEF TypeOK, EnqueueStoreNext, reverseVars, Pointer
<1>4. ASSUME NEW p \in Producers, EnqueueSucceeds(p) PROVE TypeOK'
  BY <1>4 DEF TypeOK, EnqueueSucceeds, reverseVars, Pointer
<1>5. ASSUME NEW p \in Producers, EnqueueFails(p) PROVE TypeOK'
  BY <1>5 DEF TypeOK, EnqueueFails, reverseVars, Pointer
<1>6. CASE TryMarkInactiveLoad
  BY <1>6 DEF TypeOK, TryMarkInactiveLoad, producerVars, Pointer
<1>7. CASE TryMarkInactive
  BY <1>7 DEF TypeOK, TryMarkInactive, producerVars, Pointer
<1>8. CASE Exchange
  BY <1>8 DEF TypeOK, Exchange, ConsumerIs, producerVars, Pointer
<1>9. CASE ReverseStep
  BY <1>9 DEF TypeOK, ReverseStep, producerVars, Pointer
<1>10. CASE AppendReversed
  BY <1>10 DEF TypeOK, AppendReversed, producerVars, Pointer
<1>11. ASSUME NEW op \in Ops, PushBack(op) PROVE TypeOK'
  BY <1>11 DEF TypeOK, PushBack, producerVars, reverseVars, Pointer
<1>12. CASE TakeLocal
  BY <1>12
     DEF TypeOK, TakeLocal, EmptyQueue, producerVars, reverseVars, Pointer
<1>13. CASE PopFront
  BY <1>13
     DEF TypeOK, PopFront, EmptyQueue, producerVars, reverseVars, Pointer
<1>14. CASE DropBatch
  BY <1>14
     DEF TypeOK, DropBatch, EmptyQueue, producerVars, reverseVars, Pointer
<1>15. CASE UNCHANGED vars
  BY <1>15 DEF TypeOK, vars
<1>16. QED
  BY <1>1, <1>2, <1>3, <1>4, <1>5, <1>6, <1>7, <1>8, <1>9, <1>10, <1>11,
     <1>12, <1>13, <1>14, <1>15 DEF Next
-----------------------------------------------------------------------------
(* What the invariant says of the chains                                    *)

(* The chains are the sequences.                                            *)
LEMMA ChainsOfShape ==
    ASSUME NEW r \in Seq(Ops), NEW l \in Seq(Ops), NEW v \in Seq(Ops),
           NEW w \in Seq(Ops), NEW b \in Seq(Ops), Shape(r, l, v, w, b)
    PROVE  /\ RemoteChain = r
           /\ Chain(local.head) = l
           /\ Chain(list) = v
           /\ Chain(new_head) = w
           /\ Chain(batch.head) = b
<1>1. Lists(r, l, v, w, b) /\ Injective(r, l, v, w, b)
  BY DEF Shape
<1>2. Path(next, First) = r
  BY <1>1, PathOfList, Zenon DEF Lists, Injective
<1>3. /\ Path(next, local.head) = l /\ Path(next, list) = v
      /\ Path(next, new_head) = w /\ Path(next, batch.head) = b
  BY <1>1, PathOfList, Zenon DEF Lists, Injective
<1>4. RemoteChain = r
  <2>1. CASE head = INACTIVE
    <3>1. Linked(next, NULL, r)
      BY <1>1, <2>1 DEF Lists, First
    <3>2. r = <<>>
      BY <3>1, LinkedEmpty, Zenon
    <3>3. QED
      BY <2>1, <3>2 DEF RemoteChain
  <2>2. CASE head # INACTIVE
    BY <1>2, <2>2 DEF RemoteChain, Chain, First
  <2>3. QED
    BY <2>1, <2>2
<1>5. QED
  BY <1>3, <1>4 DEF Chain

(* The same after a step.                                                   *)
LEMMA ChainsOfShapePrime ==
    ASSUME NEW r \in Seq(Ops), NEW l \in Seq(Ops), NEW v \in Seq(Ops),
           NEW w \in Seq(Ops), NEW b \in Seq(Ops), Shape(r, l, v, w, b)'
    PROVE  /\ RemoteChain' = r
           /\ Chain(local.head)' = l
           /\ Chain(list)' = v
           /\ Chain(new_head)' = w
           /\ Chain(batch.head)' = b
<1>1. Lists(r, l, v, w, b)' /\ Injective(r, l, v, w, b)
  BY DEF Shape, Injective
<1>2. Path(next', First') = r
  BY <1>1, PathOfList, Zenon DEF Lists, Injective
<1>3. /\ Path(next', local'.head) = l /\ Path(next', list') = v
      /\ Path(next', new_head') = w /\ Path(next', batch'.head) = b
  BY <1>1, PathOfList, Zenon DEF Lists, Injective
<1>4. RemoteChain' = r
  <2>1. CASE head' = INACTIVE
    <3>1. Linked(next', NULL, r)
      BY <1>1, <2>1 DEF Lists, First
    <3>2. r = <<>>
      BY <3>1, LinkedEmpty, Zenon
    <3>3. QED
      BY <2>1, <3>2 DEF RemoteChain
  <2>2. CASE head' # INACTIVE
    BY <1>2, <2>2 DEF RemoteChain, Chain, First
  <2>3. QED
    BY <2>1, <2>2
<1>5. QED
  BY <1>3, <1>4 DEF Chain
-----------------------------------------------------------------------------
(* Producers                                                                *)

(* A list does not change if the only link that does is of an operation in  *)
(* another place.                                                           *)
LEMMA LinkedElsewhere ==
    ASSUME NEW links, NEW links2, NEW pointer, NEW s \in Seq(Ops), NEW x,
           Linked(links, pointer, s), x \notin ToSet(s),
           \A op \in Ops \ {x} : links2[op] = links[op]
    PROVE  Linked(links2, pointer, s)
<1>1. ToSet(s) \subseteq Ops
  BY DEF ToSet
<1>2. \A op \in ToSet(s) : links2[op] = links[op]
  BY <1>1
<1>3. QED
  BY <1>2, LinkedFrame, Zenon

(* What is held is an operation.                                            *)
LEMMA HeldProperties ==
    ASSUME TypeOK, ProducerInvariant
    PROVE  /\ Held \subseteq Ops
           /\ \A p \in Producers : pc[p] # "idle" => item[p] \in Held
           /\ NULL \notin Held
<1>1. \A p \in Producers : item[p] \in Ops \cup {NULL}
  BY DEF TypeOK, Pointer
<1>2. QED
  BY <1>1 DEF Held, ProducerInvariant

(* stop() and a producer that loads head, or finds it changed, change no    *)
(* list.                                                                    *)
LEMMA TryMarkActiveShape ==
    ASSUME NEW r \in Seq(Ops), NEW l \in Seq(Ops), NEW v \in Seq(Ops),
           NEW w \in Seq(Ops), NEW b \in Seq(Ops), TypeOK,
           Shape(r, l, v, w, b), TryMarkActive
    PROVE  Shape(r, l, v, w, b)'
<1>1. /\ head = INACTIVE /\ head' = NULL
      /\ next' = next /\ local' = local /\ batch' = batch /\ pc' = pc
      /\ item' = item /\ old_value' = old_value /\ consumer' = consumer
      /\ list' = list /\ new_head' = new_head /\ new_tail' = new_tail
      /\ free' = free
  BY DEF TryMarkActive, producerVars, reverseVars
<1>2. First' = First
  BY <1>1, PointersAssumption DEF TryMarkActive, First
<1>3. Lists(r, l, v, w, b)'
  BY <1>1, <1>2 DEF Shape, Lists
<1>4. Separate(r, l, v, w, b)'
  BY <1>1 DEF Shape, Separate, Held
<1>5. ConsumerInvariant(l, w)'
  BY <1>1, PointersAssumption DEF Shape, ConsumerInvariant, TryMarkActive
<1>6. ProducerInvariant'
  BY <1>1 DEF Shape, ProducerInvariant
<1>7. QED
  BY <1>3, <1>4, <1>5, <1>6 DEF Shape, Injective

(* enqueue allocates its operation and loads head.                          *)
LEMMA EnqueueLoadShape ==
    ASSUME NEW r \in Seq(Ops), NEW l \in Seq(Ops), NEW v \in Seq(Ops),
           NEW w \in Seq(Ops), NEW b \in Seq(Ops), TypeOK,
           Shape(r, l, v, w, b), NEW p \in Producers, NEW op \in Ops,
           EnqueueLoad(p, op)
    PROVE  Shape(r, l, v, w, b)'
<1>1. /\ next' = next /\ local' = local /\ batch' = batch /\ head' = head
      /\ consumer' = consumer /\ list' = list /\ new_head' = new_head
      /\ new_tail' = new_tail
  BY DEF EnqueueLoad, reverseVars
<1>2. /\ op \in free /\ free' = free \ {op} /\ pc[p] = "idle"
      /\ item' = [item EXCEPT ![p] = op]
      /\ pc' = [pc EXCEPT ![p] = "store_next"]
      /\ old_value' = [old_value EXCEPT ![p] = head]
  BY DEF EnqueueLoad
<1>3. /\ item'[p] = op /\ pc'[p] = "store_next"
      /\ \A q \in Producers \ {p} : /\ item'[q] = item[q] /\ pc'[q] = pc[q]
                                    /\ old_value'[q] = old_value[q]
  BY <1>2 DEF TypeOK
<1>4. op # NULL /\ item[p] = NULL
  BY <1>2, PointersAssumption DEF Shape, ProducerInvariant
<1>5. Held' = Held \cup {op}
  BY <1>3, <1>4 DEF Held
<1>6. Lists(r, l, v, w, b)'
  BY <1>1 DEF Shape, Lists, First
<1>7. Separate(r, l, v, w, b)'
  BY <1>2, <1>5 DEF Shape, Separate, Disjoint
<1>8. ConsumerInvariant(l, w)'
  BY <1>1 DEF Shape, ConsumerInvariant
<1>9. ProducerInvariant'
  <2>1. \A q \in Producers : item[q] # op
    <3>1. op \notin Held
      BY <1>2 DEF Shape, Separate, Disjoint
    <3>2. QED
      BY <1>4, <3>1 DEF Held
  <2>2. QED
    BY <1>1, <1>3, <1>4, <2>1 DEF Shape, ProducerInvariant
<1>10. QED
  BY <1>6, <1>7, <1>8, <1>9 DEF Shape, Injective

(* The operation is in no list yet, so that storing its next member changes *)
(* none.                                                                    *)
LEMMA EnqueueStoreNextShape ==
    ASSUME NEW r \in Seq(Ops), NEW l \in Seq(Ops), NEW v \in Seq(Ops),
           NEW w \in Seq(Ops), NEW b \in Seq(Ops), TypeOK,
           Shape(r, l, v, w, b), NEW p \in Producers, EnqueueStoreNext(p)
    PROVE  Shape(r, l, v, w, b)'
<1>1. /\ item' = item /\ local' = local /\ batch' = batch /\ head' = head
      /\ consumer' = consumer /\ list' = list /\ new_head' = new_head
      /\ new_tail' = new_tail /\ old_value' = old_value /\ free' = free
  BY DEF EnqueueStoreNext, reverseVars
<1>2. /\ pc[p] = "store_next"
      /\ pc' = [pc EXCEPT ![p] = "compare_exchange"]
      /\ next' = [next EXCEPT ![item[p]] =
                     IF old_value[p] = INACTIVE THEN NULL ELSE old_value[p]]
  BY DEF EnqueueStoreNext
<1>3. item[p] \in Held /\ item[p] \in Ops /\ item[p] # NULL
  BY <1>2, HeldProperties DEF Shape
<1>4. /\ \A op \in Ops \ {item[p]} : next'[op] = next[op]
      /\ next'[item[p]] = IF old_value[p] = INACTIVE THEN NULL
                          ELSE old_value[p]
  BY <1>2, <1>3 DEF TypeOK
<1>5. /\ item[p] \notin ToSet(r) /\ item[p] \notin ToSet(l)
      /\ item[p] \notin ToSet(v) /\ item[p] \notin ToSet(w)
      /\ item[p] \notin ToSet(b)
  BY <1>3 DEF Shape, Separate, Disjoint
<1>6. Lists(r, l, v, w, b)'
  <2>1. First' = First
    BY <1>1 DEF First
  <2>2. Lists(r, l, v, w, b)
    BY DEF Shape
  <2>3. /\ Linked(next', First, r) /\ Linked(next', local.head, l)
        /\ Linked(next', list, v) /\ Linked(next', new_head, w)
        /\ Linked(next', batch.head, b)
    BY <1>4, <1>5, <2>2, LinkedElsewhere, Zenon DEF Lists
  <2>4. QED
    BY <1>1, <2>1, <2>3 DEF Lists
<1>7. Separate(r, l, v, w, b)'
  BY <1>1 DEF Shape, Separate, Held
<1>8. ConsumerInvariant(l, w)'
  BY <1>1 DEF Shape, ConsumerInvariant
<1>9. ProducerInvariant'
  <2>1. /\ pc'[p] = "compare_exchange"
        /\ \A q \in Producers \ {p} : pc'[q] = pc[q]
    BY <1>2 DEF TypeOK
  <2>2. \A q \in Producers \ {p} :
           pc[q] = "compare_exchange" => next'[item[q]] = next[item[q]]
    <3>1. \A q \in Producers \ {p} : pc[q] = "compare_exchange" =>
             item[q] \in Ops /\ item[q] # item[p]
      BY <1>3, HeldProperties DEF Shape, ProducerInvariant
    <3>2. QED
      BY <1>4, <3>1
  <2>3. QED
    BY <1>1, <1>2, <1>3, <1>4, <2>1, <2>2 DEF Shape, ProducerInvariant
<1>10. QED
  BY <1>6, <1>7, <1>8, <1>9 DEF Shape, Injective

(* A compare_exchange that fails loads head again.                          *)
LEMMA EnqueueFailsShape ==
    ASSUME NEW r \in Seq(Ops), NEW l \in Seq(Ops), NEW v \in Seq(Ops),
           NEW w \in Seq(Ops), NEW b \in Seq(Ops), TypeOK,
           Shape(r, l, v, w, b), NEW p \in Producers, EnqueueFails(p)
    PROVE  Shape(r, l, v, w, b)'
<1>1. /\ item' = item /\ local' = local /\ batch' = batch /\ head' = head
      /\ consumer' = consumer /\ list' = list /\ new_head' = new_head
      /\ new_tail' = new_tail /\ next' = next /\ free' = free
  BY DEF EnqueueFails, reverseVars
<1>2. /\ pc[p] = "compare_exchange" /\ pc'[p] = "store_next"
      /\ \A q \in Producers \ {p} : pc'[q] = pc[q]
                                    /\ old_value'[q] = old_value[q]
  BY DEF EnqueueFails, TypeOK
<1>3. Lists(r, l, v, w, b)'
  BY <1>1 DEF Shape, Lists, First
<1>4. Separate(r, l, v, w, b)'
  BY <1>1 DEF Shape, Separate, Held
<1>5. ConsumerInvariant(l, w)'
  BY <1>1 DEF Shape, ConsumerInvariant
<1>6. ProducerInvariant'
  BY <1>1, <1>2 DEF Shape, ProducerInvariant
<1>7. QED
  BY <1>3, <1>4, <1>5, <1>6 DEF Shape, Injective

(* The compare_exchange that succeeds puts the operation in front of what   *)
(* head leads to now, which is what its next member leads to, even if head  *)
(* had other values in between.                                             *)
LEMMA EnqueueSucceedsShape ==
    ASSUME NEW r \in Seq(Ops), NEW l \in Seq(Ops), NEW v \in Seq(Ops),
           NEW w \in Seq(Ops), NEW b \in Seq(Ops), TypeOK,
           Shape(r, l, v, w, b), NEW p \in Producers, EnqueueSucceeds(p),
           NEW r2, r2 = <<item[p]>> \o r
    PROVE  Shape(r2, l, v, w, b)'
<1>1. /\ local' = local /\ batch' = batch /\ next' = next
      /\ consumer' = consumer /\ list' = list /\ new_head' = new_head
      /\ new_tail' = new_tail /\ free' = free /\ head' = item[p]
      /\ head = old_value[p] /\ pc[p] = "compare_exchange"
  BY DEF EnqueueSucceeds, reverseVars
<1>2. /\ item'[p] = NULL /\ pc'[p] = "idle"
      /\ \A q \in Producers \ {p} : /\ item'[q] = item[q] /\ pc'[q] = pc[q]
                                    /\ old_value'[q] = old_value[q]
  BY DEF EnqueueSucceeds, TypeOK
<1>3. item[p] \in Held /\ item[p] \in Ops /\ item[p] # NULL
  BY <1>1, HeldProperties DEF Shape
<1>4. Held' = Held \ {item[p]}
  <2>1. \A q \in Producers \ {p} : item[q] # item[p]
    BY <1>3 DEF Shape, ProducerInvariant
  <2>2. \A q \in Producers : item'[q] # NULL =>
            item'[q] = item[q] /\ item[q] # item[p]
    BY <1>2, <2>1
  <2>3. Held' \subseteq Held \ {item[p]}
    BY <2>2 DEF Held
  <2>4. Held \ {item[p]} \subseteq Held'
    BY <1>2 DEF Held
  <2>5. QED
    BY <2>3, <2>4
<1>5. item[p] \notin ToSet(r) /\ IsInjective(r)
  BY <1>3 DEF Shape, Separate, Disjoint, Injective
<1>6. ToSet(r2) = ToSet(r) \cup {item[p]} /\ IsInjective(r2)
  <2>1. /\ ToSet(<<item[p]>> \o r) = ToSet(r) \cup {item[p]}
        /\ IsInjective(r) /\ item[p] \notin ToSet(r) =>
              IsInjective(<<item[p]>> \o r)
    <3>1. ASSUME NEW x \in Ops
          PROVE  /\ ToSet(<<x>> \o r) = ToSet(r) \cup {x}
                 /\ IsInjective(r) /\ x \notin ToSet(r) =>
                       IsInjective(<<x>> \o r)
      BY ConsProperties
    <3>2. QED
      BY <1>3, <3>1, Zenon
  <2>2. QED
    BY <1>5, <2>1, Zenon
<1>7. Lists(r2, l, v, w, b)'
  <2>1. First' = item[p]
    BY <1>1, <1>3, PointersAssumption DEF First
  <2>2. next[item[p]] = First
    BY <1>1 DEF Shape, ProducerInvariant, First
  <2>3. Linked(next, First, r)
    BY DEF Shape, Lists
  <2>4. Linked(next, item[p], r2)
    BY <1>3, <2>2, <2>3, LinkedCons, Zenon
  <2>5. QED
    BY <1>1, <2>1, <2>4 DEF Shape, Lists
<1>8. Separate(r2, l, v, w, b)'
  <2>1. Disjoint(ToSet(r), ToSet(l), ToSet(v), ToSet(w), ToSet(b), free, Held)
    BY DEF Shape, Separate
  <2>2. Disjoint(ToSet(r2), ToSet(l), ToSet(v), ToSet(w), ToSet(b), free,
                 Held \ {item[p]})
    BY ONLY <1>3, <1>6, <2>1 DEF Disjoint
  <2>3. QED
    BY <1>1, <1>4, <2>2 DEF Separate
<1>9. ConsumerInvariant(l, w)'
  BY <1>1, <1>3, PointersAssumption DEF Shape, ConsumerInvariant
<1>10. ProducerInvariant'
  BY <1>1, <1>2, <1>3 DEF Shape, ProducerInvariant
<1>11. QED
  BY <1>6, <1>7, <1>8, <1>9, <1>10 DEF Shape, Injective
-----------------------------------------------------------------------------
(* The consumer                                                             *)

(* Producers do not notice a step that changes no link of what they hold.   *)
LEMMA ProducersElsewhere ==
    ASSUME TypeOK, ProducerInvariant, UNCHANGED producerVars,
           \A op \in Held : next'[op] = next[op]
    PROVE  ProducerInvariant' /\ Held' = Held
<1>1. pc' = pc /\ item' = item /\ old_value' = old_value
  BY DEF producerVars
<1>2. \A p \in Producers : pc[p] # "idle" => next'[item[p]] = next[item[p]]
  BY HeldProperties
<1>3. QED
  BY <1>1, <1>2 DEF ProducerInvariant, Held

(* The load and the compare_exchange of try_mark_inactive change no list;   *)
(* the consumer goes on to exchange only if head is an operation.           *)
LEMMA TryMarkInactiveLoadShape ==
    ASSUME NEW r \in Seq(Ops), NEW l \in Seq(Ops), NEW v \in Seq(Ops),
           NEW w \in Seq(Ops), NEW b \in Seq(Ops), TypeOK,
           Shape(r, l, v, w, b), TryMarkInactiveLoad
    PROVE  Shape(r, l, v, w, b)'
<1>1. /\ local' = local /\ batch' = batch /\ next' = next /\ head' = head
      /\ list' = list /\ new_head' = new_head /\ new_tail' = new_tail
      /\ free' = free /\ UNCHANGED producerVars
  BY DEF TryMarkInactiveLoad
<1>2. ProducerInvariant' /\ Held' = Held
  BY <1>1, ProducersElsewhere DEF Shape
<1>3. ConsumerInvariant(l, w)'
  BY <1>1 DEF Shape, ConsumerInvariant, TryMarkInactiveLoad, ConsumerIs,
              TypeOK, Pointer
<1>4. Lists(r, l, v, w, b)'
  BY <1>1 DEF Shape, Lists, First
<1>5. Separate(r, l, v, w, b)'
  BY <1>1, <1>2 DEF Shape, Separate
<1>6. QED
  BY <1>2, <1>3, <1>4, <1>5 DEF Shape, Injective

(* The flag is set only when head leads nowhere.                            *)
LEMMA TryMarkInactiveShape ==
    ASSUME NEW r \in Seq(Ops), NEW l \in Seq(Ops), NEW v \in Seq(Ops),
           NEW w \in Seq(Ops), NEW b \in Seq(Ops), TypeOK,
           Shape(r, l, v, w, b), TryMarkInactive
    PROVE  Shape(r, l, v, w, b)'
<1>1. /\ local' = local /\ batch' = batch /\ next' = next
      /\ list' = list /\ new_head' = new_head /\ new_tail' = new_tail
      /\ free' = free /\ UNCHANGED producerVars
  BY DEF TryMarkInactive
<1>2. ProducerInvariant' /\ Held' = Held
  BY <1>1, ProducersElsewhere DEF Shape
<1>3. ConsumerInvariant(l, w)'
  BY <1>1 DEF Shape, ConsumerInvariant, TryMarkInactive, ConsumerIs,
              TypeOK, Pointer
<1>4. First' = First
  BY PointersAssumption DEF TryMarkInactive, First
<1>5. Lists(r, l, v, w, b)'
  BY <1>1, <1>4 DEF Shape, Lists
<1>6. Separate(r, l, v, w, b)'
  BY <1>1, <1>2 DEF Shape, Separate
<1>7. QED
  BY <1>2, <1>3, <1>5, <1>6 DEF Shape, Injective

(* While the consumer is not reversing, nothing is.                         *)
LEMMA NothingReversed ==
    ASSUME NEW r \in Seq(Ops), NEW l \in Seq(Ops), NEW v \in Seq(Ops),
           NEW w \in Seq(Ops), NEW b \in Seq(Ops), Shape(r, l, v, w, b),
           consumer # "reverse"
    PROVE  v = <<>> /\ w = <<>> /\ list = NULL /\ new_head = NULL
<1>1. /\ list = NULL /\ new_head = NULL
      /\ Linked(next, list, v) /\ Linked(next, new_head, w)
  BY DEF Shape, ConsumerInvariant, Lists
<1>2. QED
  BY <1>1, LinkedEmpty, Zenon

(* Nothing is in the empty list.                                            *)
LEMMA EmptyList ==
    <<>> \in Seq(Ops) /\ ToSet(<<>>) = {} /\ IsInjective(<<>>)
  BY DEF ToSet, IsInjective

(* The exchange hands the whole remote queue to make_reversed.              *)
LEMMA ExchangeShape ==
    ASSUME NEW r \in Seq(Ops), NEW l \in Seq(Ops), NEW v \in Seq(Ops),
           NEW w \in Seq(Ops), NEW b \in Seq(Ops), TypeOK,
           Shape(r, l, v, w, b), Exchange
    PROVE  v = <<>> /\ w = <<>> /\ Shape(<<>>, l, r, <<>>, b)'
<1>1. /\ local' = local /\ batch' = batch /\ next' = next /\ head' = NULL
      /\ list' = head /\ new_head' = NULL /\ new_tail' = head
      /\ free' = free /\ UNCHANGED producerVars
      /\ consumer = "exchange" /\ consumer' = "reverse"
  BY DEF Exchange, ConsumerIs
<1>2. ProducerInvariant' /\ Held' = Held
  BY <1>1, ProducersElsewhere DEF Shape
<1>3. v = <<>> /\ w = <<>>
  BY <1>1, NothingReversed
<1>4. head \in Ops
  BY <1>1 DEF Shape, ConsumerInvariant
<1>5. ConsumerInvariant(l, <<>>)'
  BY <1>1, <1>4, PointersAssumption DEF Shape, ConsumerInvariant
<1>6. Lists(<<>>, l, r, <<>>, b)'
  <2>1. First = head /\ First' = NULL
    BY <1>1, <1>4, PointersAssumption DEF First
  <2>2. Linked(next, NULL, <<>>)
    BY LinkedNull
  <2>3. QED
    BY <1>1, <2>1, <2>2 DEF Shape, Lists
<1>7. Separate(<<>>, l, r, <<>>, b)'
  BY <1>1, <1>2, EmptyList DEF Shape, Separate, Disjoint
<1>8. QED
  BY <1>2, <1>3, <1>5, <1>6, <1>7, EmptyList DEF Shape, Injective

(* A new operation in front does not change the last one.                   *)
LEMMA LastCons ==
    ASSUME NEW s \in Seq(Ops), NEW x \in Ops
    PROVE  LastOf(<<x>> \o s) = IF s = <<>> THEN x ELSE LastOf(s)
<1> DEFINE t == <<x>> \o s
<1>1. /\ t # <<>> /\ Len(t) = Len(s) + 1 /\ Len(s) \in Nat /\ t[1] = x
      /\ \A i \in 1..Len(s) : t[i + 1] = s[i]
  BY ConsProperties
<1> HIDE DEF t
<1>2. s = <<>> <=> Len(s) = 0
  BY EmptySeq
<1>3. CASE s = <<>>
  BY <1>1, <1>2, <1>3 DEF LastOf, t
<1>4. CASE s # <<>>
  <2>1. Len(s) \in 1..Len(s)
    BY <1>1, <1>2, <1>4
  <2>2. t[Len(t)] = s[Len(s)]
    BY <1>1, <2>1
  <2>3. QED
    BY <1>1, <1>4, <2>2 DEF LastOf, t
<1>5. QED
  BY <1>3, <1>4

(* An iteration of make_reversed moves an operation from the front of one   *)
(* list to the front of the other.                                          *)
LEMMA ReverseStepShape ==
    ASSUME NEW r \in Seq(Ops), NEW l \in Seq(Ops), NEW v \in Seq(Ops),
           NEW w \in Seq(Ops), NEW b \in Seq(Ops), TypeOK,
           Shape(r, l, v, w, b), ReverseStep,
           NEW v2, v2 = Tail(v), NEW w2, w2 = <<list>> \o w
    PROVE  /\ v # <<>> /\ list = Head(v) /\ list \in Ops
           /\ v2 \in Seq(Ops) /\ w2 \in Seq(Ops)
           /\ Shape(r, l, v2, w2, b)'
<1>1. /\ local' = local /\ batch' = batch /\ head' = head
      /\ list # NULL /\ list' = next[list] /\ new_head' = list
      /\ next' = [next EXCEPT ![list] = new_head]
      /\ new_tail' = new_tail /\ consumer' = consumer
      /\ free' = free /\ UNCHANGED producerVars /\ consumer = "reverse"
  BY DEF ReverseStep, ConsumerIs
<1>2. /\ Linked(next, First, r) /\ Linked(next, local.head, l)
      /\ Linked(next, list, v) /\ Linked(next, new_head, w)
      /\ Linked(next, batch.head, b)
  BY DEF Shape, Lists
<1>3. v # <<>> /\ list = Head(v) /\ Linked(next, next[list], Tail(v))
  BY <1>1, <1>2, LinkedTail, Zenon
<1>4. /\ v2 \in Seq(Ops) /\ ToSet(v) = ToSet(v2) \cup {list}
      /\ IsInjective(v2) /\ list \notin ToSet(v2) /\ list \in Ops
  <2>1. IsInjective(v)
    BY DEF Shape, Injective
  <2>2. /\ Head(v) \in Ops /\ Tail(v) \in Seq(Ops)
        /\ ToSet(v) = ToSet(Tail(v)) \cup {Head(v)}
        /\ IsInjective(Tail(v)) /\ Head(v) \notin ToSet(Tail(v))
    BY <1>3, <2>1, TailProperties, Zenon
  <2>3. QED
    BY <1>3, <2>2, Zenon
<1>5. Disjoint(ToSet(r), ToSet(l), ToSet(v), ToSet(w), ToSet(b), free, Held)
  BY DEF Shape, Separate
<1>6. /\ list \notin ToSet(r) /\ list \notin ToSet(l) /\ list \notin ToSet(w)
      /\ list \notin ToSet(b) /\ list \notin Held
  BY ONLY <1>4, <1>5 DEF Disjoint
<1>7. /\ w2 \in Seq(Ops) /\ ToSet(w2) = ToSet(w) \cup {list}
      /\ IsInjective(w2) /\ w2 # <<>>
      /\ LastOf(w2) = IF w = <<>> THEN list ELSE LastOf(w)
  <2>1. ASSUME NEW x \in Ops
        PROVE  /\ <<x>> \o w \in Seq(Ops)
               /\ ToSet(<<x>> \o w) = ToSet(w) \cup {x}
               /\ <<x>> \o w # <<>>
               /\ IsInjective(w) /\ x \notin ToSet(w) =>
                     IsInjective(<<x>> \o w)
               /\ LastOf(<<x>> \o w) = IF w = <<>> THEN x ELSE LastOf(w)
    BY ConsProperties, LastCons
  <2>2. IsInjective(w)
    BY DEF Shape, Injective
  <2>3. QED
    BY <1>4, <1>6, <2>1, <2>2, Zenon
<1>8. /\ \A op \in Ops \ {list} : next'[op] = next[op]
      /\ next'[list] = new_head
  BY <1>1, <1>4 DEF TypeOK
<1>9. ProducerInvariant' /\ Held' = Held
  <2>1. \A op \in Held : next'[op] = next[op]
    BY <1>6, <1>8, HeldProperties DEF Shape
  <2>2. QED
    BY <1>1, <2>1, ProducersElsewhere DEF Shape
<1>10. ConsumerInvariant(l, w2)'
  BY <1>1, <1>7 DEF Shape, ConsumerInvariant
<1>11. Lists(r, l, v2, w2, b)'
  <2>1. /\ Linked(next', First, r) /\ Linked(next', local.head, l)
        /\ Linked(next', new_head, w) /\ Linked(next', batch.head, b)
    BY <1>2, <1>6, <1>8, LinkedElsewhere, Zenon
  <2>2. Linked(next', next[list], v2)
    BY <1>3, <1>4, <1>8, LinkedElsewhere, Zenon
  <2>3. Linked(next', list, w2)
    BY <1>4, <1>8, <2>1, LinkedCons, Zenon
  <2>4. First' = First
    BY <1>1 DEF First
  <2>5. QED
    BY <1>1, <2>1, <2>2, <2>3, <2>4 DEF Lists
<1>12. Separate(r, l, v2, w2, b)'
  <2>1. Disjoint(ToSet(r), ToSet(l), ToSet(v2), ToSet(w2), ToSet(b), free,
                 Held)
    BY ONLY <1>4, <1>5, <1>7 DEF Disjoint
  <2>2. QED
    BY <1>1, <1>9, <2>1 DEF Separate
<1>13. QED
  BY <1>3, <1>4, <1>7, <1>9, <1>10, <1>11, <1>12 DEF Shape, Injective

(* The tail pointer of a list points into it.                               *)
LEMMA LastInList ==
    ASSUME NEW s \in Seq(Ops)
    PROVE  /\ LastOf(s) = NULL <=> s = <<>>
           /\ s # <<>> => LastOf(s) \in ToSet(s) /\ LastOf(s) \in Ops
<1>1. CASE s = <<>>
  BY <1>1 DEF LastOf
<1>2. CASE s # <<>>
  <2>1. Len(s) \in 1..Len(s)
    BY <1>2, EmptySeq
  <2>2. s[Len(s)] \in ToSet(s) /\ s[Len(s)] \in Ops
    BY <2>1 DEF ToSet
  <2>3. QED
    BY <1>2, <2>2, PointersAssumption DEF LastOf
<1>3. QED
  BY <1>1, <1>2

(* Kept folded where a lemma is cited, which spares the provers the         *)
(* elements of the concatenation.                                           *)
Behind(s, t) == s \o t

(* append puts the reversed list behind the local queue.                    *)
LEMMA AppendReversedShape ==
    ASSUME NEW r \in Seq(Ops), NEW l \in Seq(Ops), NEW v \in Seq(Ops),
           NEW w \in Seq(Ops), NEW b \in Seq(Ops), TypeOK,
           Shape(r, l, v, w, b), AppendReversed, NEW l2, l2 = Behind(l, w)
    PROVE  /\ v = <<>> /\ l2 \in Seq(Ops)
           /\ Shape(r, l2, <<>>, <<>>, b)'
<1> USE DEF Behind
<1>1. /\ batch' = batch /\ head' = head /\ list = NULL /\ list' = list
      /\ new_head' = NULL /\ new_tail' = NULL
      /\ local' = [head |-> IF local.head = NULL THEN new_head
                            ELSE local.head,
                   tail |-> new_tail]
      /\ next' = IF local.head = NULL THEN next
                 ELSE [next EXCEPT ![local.tail] = new_head]
      /\ consumer = "reverse" /\ consumer' = "idle"
      /\ free' = free /\ UNCHANGED producerVars
  BY DEF AppendReversed, ConsumerIs
<1>2. /\ Linked(next, First, r) /\ Linked(next, local.head, l)
      /\ Linked(next, list, v) /\ Linked(next, new_head, w)
      /\ Linked(next, batch.head, b)
  BY DEF Shape, Lists
<1>3. v = <<>>
  BY <1>1, <1>2, LinkedEmpty, Zenon
<1>4. /\ w # <<>> /\ new_tail = LastOf(w) /\ local.tail = LastOf(l)
  BY <1>1 DEF Shape, ConsumerInvariant
<1>5. Disjoint(ToSet(r), ToSet(l), ToSet(v), ToSet(w), ToSet(b), free, Held)
  BY DEF Shape, Separate
<1>6. IsInjective(l) /\ IsInjective(w) /\ ToSet(l) \cap ToSet(w) = {}
  BY <1>5 DEF Shape, Injective, Disjoint
<1>7. /\ l2 \in Seq(Ops) /\ ToSet(l2) = ToSet(l) \cup ToSet(w)
      /\ IsInjective(l2)
  BY <1>6, ConcatElements, ConcatSet, ConcatInjective, Zenon
<1>8. local.head = NULL <=> l = <<>>
  BY <1>2, LinkedEmpty, Zenon
<1>9. /\ Linked(next', local'.head, l2) /\ local'.tail = LastOf(l2)
      /\ Linked(next', First, r) /\ Linked(next', batch.head, b)
      /\ \A op \in Held : next'[op] = next[op]
  <2>1. CASE l = <<>>
    <3>1. l2 = w
      BY <2>1
    <3>2. /\ local.head = NULL /\ next' = next
          /\ local'.head = new_head /\ local'.tail = new_tail
      BY <1>1, <1>8, <2>1
    <3>3. QED
      BY <1>2, <1>4, <3>1, <3>2
  <2>2. CASE l # <<>>
    <3> DEFINE x == LastOf(l)
    <3>1. x \in ToSet(l) /\ x \in Ops
      BY <2>2, LastInList, Zenon
    <3> HIDE DEF x
    <3>2. /\ next' = [next EXCEPT ![x] = new_head]
          /\ local'.head = local.head /\ local'.tail = new_tail
      BY <1>1, <1>4, <1>8, <2>2 DEF x
    <3>3. /\ next'[x] = new_head
          /\ \A op \in Ops \ {x} : next'[op] = next[op]
      BY <3>1, <3>2 DEF TypeOK
    <3>4. /\ x \notin ToSet(r) /\ x \notin ToSet(w) /\ x \notin ToSet(b)
          /\ x \notin Held
      BY ONLY <1>5, <3>1 DEF Disjoint
    <3>5. /\ Linked(next', First, r) /\ Linked(next', new_head, w)
          /\ Linked(next', batch.head, b)
      BY <1>2, <3>3, <3>4, LinkedElsewhere, Zenon
    <3>6. \A op \in ToSet(l) \ {x} : next'[op] = next[op]
      <4>1. ToSet(l) \subseteq Ops
        BY DEF ToSet
      <4>2. QED
        BY <3>3, <4>1
    <3>7. Linked(next', local.head, l \o w) /\ LastOf(l \o w) = LastOf(w)
      <4>1. /\ next'[LastOf(l)] = new_head
            /\ \A op \in ToSet(l) \ {LastOf(l)} : next'[op] = next[op]
        BY <3>3, <3>6, Zenon DEF x
      <4>2. QED
        <5>1. Joins(next, next', local.head, new_head, l, w)
          BY <1>2, <1>6, <2>2, <3>5, <4>1, Zenon DEF Joins
        <5>2. Linked(next', local.head, l \o w)
          BY <5>1, LinkedConcat, Zenon
        <5>3. LastOf(l \o w) = LastOf(w)
          BY <1>4, LastConcat, Zenon
        <5>4. QED
          BY <5>2, <5>3
    <3>8. \A op \in Held : next'[op] = next[op]
      BY <3>3, <3>4, HeldProperties DEF Shape
    <3>9. QED
      BY <1>4, <3>2, <3>5, <3>7, <3>8
  <2>3. QED
    BY <2>1, <2>2
<1>10. ProducerInvariant' /\ Held' = Held
  BY <1>1, <1>9, ProducersElsewhere DEF Shape
<1>11. ConsumerInvariant(l2, <<>>)'
  BY <1>1, <1>9 DEF ConsumerInvariant
<1>12. Lists(r, l2, <<>>, <<>>, b)'
  <2>1. Linked(next', NULL, <<>>)
    BY LinkedNull
  <2>2. First' = First
    BY <1>1 DEF First
  <2>3. QED
    BY <1>1, <1>9, <2>1, <2>2 DEF Lists
<1>13. Separate(r, l2, <<>>, <<>>, b)'
  <2>1. Disjoint(ToSet(r), ToSet(l2), {}, {}, ToSet(b), free, Held)
    BY ONLY <1>5, <1>7 DEF Disjoint
  <2>2. QED
    BY <1>1, <1>10, <2>1, EmptyList DEF Separate
<1>14. QED
  BY <1>3, <1>7, <1>10, <1>11, <1>12, <1>13, EmptyList DEF Shape, Injective

(* push_back puts an operation behind the local queue.                      *)
LEMMA PushBackShape ==
    ASSUME NEW r \in Seq(Ops), NEW l \in Seq(Ops), NEW v \in Seq(Ops),
           NEW w \in Seq(Ops), NEW b \in Seq(Ops), TypeOK,
           Shape(r, l, v, w, b), NEW op \in Ops, PushBack(op),
           NEW l2, l2 = Behind(l, <<op>>)
    PROVE  /\ v = <<>> /\ w = <<>> /\ l2 \in Seq(Ops)
           /\ Shape(r, l2, v, w, b)'
<1> USE DEF Behind
<1>1. /\ batch' = batch /\ head' = head /\ UNCHANGED reverseVars
      /\ op \in free /\ free' = free \ {op} /\ UNCHANGED producerVars
      /\ local' = [head |-> IF local.tail = NULL THEN op ELSE local.head,
                   tail |-> op]
      /\ next' = [q \in Ops |-> IF q = op THEN NULL
                                ELSE IF q = local.tail THEN op ELSE next[q]]
      /\ consumer = "idle"
  BY DEF PushBack, ConsumerIs
<1>2. /\ Linked(next, First, r) /\ Linked(next, local.head, l)
      /\ Linked(next, batch.head, b)
  BY DEF Shape, Lists
<1>3. v = <<>> /\ w = <<>> /\ list = NULL /\ new_head = NULL
  BY <1>1, NothingReversed
<1>4. local.tail = LastOf(l) /\ IsInjective(l)
  BY DEF Shape, ConsumerInvariant, Injective
<1>5. Disjoint(ToSet(r), ToSet(l), ToSet(v), ToSet(w), ToSet(b), free, Held)
  BY DEF Shape, Separate
<1> DEFINE s == <<op>>
<1>6. /\ s \in Seq(Ops) /\ ToSet(s) = {op} /\ IsInjective(s) /\ s # <<>>
      /\ Len(s) = 1 /\ s[1] = op
  BY DEF ToSet, IsInjective
<1>7. LastOf(s) = op
  BY <1>6 DEF LastOf
<1>8. Linked(next', op, s)
  <2>1. next'[op] = NULL
    BY <1>1
  <2>2. QED
    BY <1>6, <2>1 DEF Linked
<1>9. /\ op \notin ToSet(r) /\ op \notin ToSet(l) /\ op \notin ToSet(b)
      /\ op \notin Held
  BY <1>1, <1>5 DEF Disjoint
<1>10. l2 = l \o s
  OBVIOUS
<1> HIDE DEF s
<1>11. /\ l2 \in Seq(Ops) /\ ToSet(l2) = ToSet(l) \cup {op}
       /\ IsInjective(l2)
  <2>1. ToSet(l) \cap ToSet(s) = {}
    BY <1>6, <1>9
  <2>2. /\ l \o s \in Seq(Ops) /\ ToSet(l \o s) = ToSet(l) \cup ToSet(s)
        /\ IsInjective(l \o s)
    BY <1>4, <1>6, <2>1, ConcatElements, ConcatSet, ConcatInjective, Zenon
  <2>3. QED
    BY <1>6, <1>10, <2>2, Zenon
<1>12. /\ Linked(next', local'.head, l2) /\ LastOf(l2) = op
       /\ Linked(next', First, r) /\ Linked(next', batch.head, b)
       /\ \A q \in Held : next'[q] = next[q]
  <2>1. ASSUME NEW T, T \subseteq Ops, T \cap ToSet(l) = {}, op \notin T
        PROVE  \A q \in T : next'[q] = next[q]
    <3>1. \A q \in T : q # local.tail
      BY <1>4, <2>1, LastInList, PointersAssumption
    <3>2. QED
      BY <1>1, <2>1, <3>1
  <2>2. /\ ToSet(r) \subseteq Ops /\ ToSet(b) \subseteq Ops
        /\ ToSet(l) \subseteq Ops
    BY DEF ToSet
  <2>3. /\ ToSet(r) \cap ToSet(l) = {} /\ ToSet(b) \cap ToSet(l) = {}
        /\ Held \cap ToSet(l) = {}
    BY ONLY <1>5 DEF Disjoint
  <2>4. /\ \A q \in ToSet(r) : next'[q] = next[q]
        /\ \A q \in ToSet(b) : next'[q] = next[q]
    BY <1>9, <2>1, <2>2, <2>3, Zenon
  <2>5. \A q \in Held : next'[q] = next[q]
    <3>1. Held \subseteq Ops
      BY HeldProperties DEF Shape
    <3>2. QED
      BY <1>9, <2>1, <2>3, <3>1, Zenon
  <2>6. Linked(next', First, r) /\ Linked(next', batch.head, b)
    BY <1>2, <2>4, LinkedFrame, Zenon
  <2>7. Linked(next', local'.head, l2) /\ LastOf(l2) = op
    <3>1. CASE l = <<>>
      <4>1. l2 = s
        BY <1>6, <1>10, <3>1
      <4>2. local'.head = op
        BY <1>1, <1>4, <3>1, LastInList
      <4>3. QED
        BY <1>7, <1>8, <4>1, <4>2
    <3>2. CASE l # <<>>
      <4> DEFINE x == LastOf(l)
      <4>1. x \in ToSet(l) /\ x \in Ops /\ x # NULL
        BY <3>2, LastInList, PointersAssumption, Zenon
      <4> HIDE DEF x
      <4>2. local.tail = x
        BY <1>4 DEF x
      <4>3. next'[x] = op /\ local'.head = local.head
        BY <1>1, <1>9, <4>1, <4>2
      <4>4. \A q \in ToSet(l) \ {x} : next'[q] = next[q]
        BY <1>1, <1>9, <2>2, <4>2
      <4>5. /\ next'[LastOf(l)] = op
            /\ \A q \in ToSet(l) \ {LastOf(l)} : next'[q] = next[q]
        BY <4>3, <4>4, Zenon DEF x
      <4>6. Linked(next', local.head, l \o s) /\ LastOf(l \o s) = LastOf(s)
        <5>1. Joins(next, next', local.head, op, l, s)
          BY <1>2, <1>4, <1>6, <1>8, <3>2, <4>5, Zenon DEF Joins
        <5>2. Linked(next', local.head, l \o s)
          BY <5>1, LinkedConcat, Zenon
        <5>3. LastOf(l \o s) = LastOf(s)
          BY <1>6, LastConcat, Zenon
        <5>4. QED
          BY <5>2, <5>3
      <4>7. QED
        BY <1>6, <1>7, <1>10, <4>3, <4>6
    <3>3. QED
      BY <3>1, <3>2
  <2>8. QED
    BY <2>5, <2>6, <2>7
<1>13. ProducerInvariant' /\ Held' = Held
  BY <1>1, <1>12, ProducersElsewhere DEF Shape
<1>14. ConsumerInvariant(l2, w)'
  BY <1>1, <1>3, <1>12 DEF ConsumerInvariant, reverseVars
<1>15. Lists(r, l2, v, w, b)'
  <2>1. Linked(next', NULL, <<>>)
    BY LinkedNull
  <2>2. First' = First
    BY <1>1 DEF First
  <2>3. QED
    BY <1>1, <1>3, <1>12, <2>1, <2>2 DEF Lists, reverseVars
<1>16. Separate(r, l2, v, w, b)'
  <2>1. Disjoint(ToSet(r), ToSet(l2), ToSet(v), ToSet(w), ToSet(b),
                 free \ {op}, Held)
    BY ONLY <1>1, <1>5, <1>11 DEF Disjoint
  <2>2. QED
    BY <1>1, <1>13, <2>1 DEF Separate
<1>17. QED
  BY <1>3, <1>11, <1>13, <1>14, <1>15, <1>16 DEF Shape, Injective

(* The batch takes over the local queue.                                    *)
LEMMA TakeLocalShape ==
    ASSUME NEW r \in Seq(Ops), NEW l \in Seq(Ops), NEW v \in Seq(Ops),
           NEW w \in Seq(Ops), NEW b \in Seq(Ops), TypeOK,
           Shape(r, l, v, w, b), TakeLocal
    PROVE  /\ v = <<>> /\ w = <<>> /\ b = <<>>
           /\ Shape(r, <<>>, v, w, l)'
<1>1. /\ batch.head = NULL /\ batch' = local /\ local' = EmptyQueue
      /\ UNCHANGED reverseVars /\ UNCHANGED producerVars /\ next' = next
      /\ head' = head /\ free' = free /\ consumer = "idle"
  BY DEF TakeLocal, ConsumerIs
<1>2. ProducerInvariant' /\ Held' = Held
  BY <1>1, ProducersElsewhere DEF Shape
<1>3. v = <<>> /\ w = <<>>
  BY <1>1, NothingReversed
<1>4. b = <<>>
  <2>1. Linked(next, batch.head, b)
    BY DEF Shape, Lists
  <2>2. QED
    BY <1>1, <2>1, LinkedEmpty, Zenon
<1>5. ConsumerInvariant(<<>>, w)'
  BY <1>1 DEF Shape, ConsumerInvariant, EmptyQueue, LastOf, reverseVars
<1>6. Lists(r, <<>>, v, w, l)'
  <2>1. Linked(next, NULL, <<>>)
    BY LinkedNull
  <2>2. First' = First /\ local'.head = NULL /\ batch'.head = local.head
    BY <1>1 DEF First, EmptyQueue
  <2>3. QED
    BY <1>1, <2>1, <2>2 DEF Shape, Lists, reverseVars
<1>7. Separate(r, <<>>, v, w, l)'
  BY <1>1, <1>2, EmptyList DEF Shape, Separate, Disjoint
<1>8. QED
  BY <1>2, <1>3, <1>4, <1>5, <1>6, <1>7, EmptyList DEF Shape, Injective

(* pop_front leaves what the first operation leads to.                      *)
LEMMA PopFrontShape ==
    ASSUME NEW r \in Seq(Ops), NEW l \in Seq(Ops), NEW v \in Seq(Ops),
           NEW w \in Seq(Ops), NEW b \in Seq(Ops), TypeOK,
           Shape(r, l, v, w, b), PopFront, NEW b2, b2 = Tail(b)
    PROVE  /\ b # <<>> /\ b2 \in Seq(Ops)
           /\ Shape(r, l, v, w, b2)'
<1>1. /\ batch.head # NULL /\ local' = local /\ free' = free \cup {batch.head}
      /\ UNCHANGED reverseVars /\ UNCHANGED producerVars /\ next' = next
      /\ head' = head
      /\ batch' = IF next[batch.head] = NULL THEN EmptyQueue
                  ELSE [batch EXCEPT !.head = next[batch.head]]
  BY DEF PopFront
<1>2. ProducerInvariant' /\ Held' = Held
  BY <1>1, ProducersElsewhere DEF Shape
<1>3. Linked(next, batch.head, b) /\ IsInjective(b)
  BY DEF Shape, Lists, Injective
<1>4. /\ b # <<>> /\ batch.head = Head(b)
      /\ Linked(next, next[batch.head], b2)
  BY <1>1, <1>3, LinkedTail, Zenon
<1>5. /\ b2 \in Seq(Ops) /\ ToSet(b) = ToSet(b2) \cup {batch.head}
      /\ IsInjective(b2) /\ batch.head \notin ToSet(b2)
  <2>1. /\ Tail(b) \in Seq(Ops) /\ ToSet(b) = ToSet(Tail(b)) \cup {Head(b)}
        /\ IsInjective(Tail(b)) /\ Head(b) \notin ToSet(Tail(b))
    BY <1>3, <1>4, TailProperties, Zenon
  <2>2. QED
    BY <1>4, <2>1, Zenon
<1>6. ConsumerInvariant(l, w)'
  BY <1>1 DEF Shape, ConsumerInvariant, reverseVars
<1>7. Lists(r, l, v, w, b2)'
  <2>1. First' = First /\ batch'.head = next[batch.head]
    BY <1>1 DEF First, EmptyQueue, TypeOK
  <2>2. QED
    BY <1>1, <1>4, <2>1 DEF Shape, Lists, reverseVars
<1>8. Separate(r, l, v, w, b2)'
  <2>1. Disjoint(ToSet(r), ToSet(l), ToSet(v), ToSet(w), ToSet(b), free, Held)
    BY DEF Shape, Separate
  <2>2. Disjoint(ToSet(r), ToSet(l), ToSet(v), ToSet(w), ToSet(b2),
                 free \cup {batch.head}, Held)
    BY ONLY <1>5, <2>1 DEF Disjoint
  <2>3. QED
    BY <1>1, <1>2, <2>2 DEF Separate
<1>9. QED
  BY <1>2, <1>4, <1>5, <1>6, <1>7, <1>8 DEF Shape, Injective

(* A batch that is dropped is gone, and its memory is not free.             *)
LEMMA DropBatchShape ==
    ASSUME NEW r \in Seq(Ops), NEW l \in Seq(Ops), NEW v \in Seq(Ops),
           NEW w \in Seq(Ops), NEW b \in Seq(Ops), TypeOK,
           Shape(r, l, v, w, b), DropBatch
    PROVE  Shape(r, l, v, w, <<>>)'
<1>1. /\ local' = local /\ free' = free /\ batch' = EmptyQueue
      /\ UNCHANGED reverseVars /\ UNCHANGED producerVars /\ next' = next
      /\ head' = head
  BY DEF DropBatch
<1>2. ProducerInvariant' /\ Held' = Held
  BY <1>1, ProducersElsewhere DEF Shape
<1>3. ConsumerInvariant(l, w)'
  BY <1>1 DEF Shape, ConsumerInvariant, reverseVars
<1>4. Lists(r, l, v, w, <<>>)'
  <2>1. Linked(next, NULL, <<>>)
    BY LinkedNull
  <2>2. First' = First /\ batch'.head = NULL
    BY <1>1 DEF First, EmptyQueue
  <2>3. QED
    BY <1>1, <2>1, <2>2 DEF Shape, Lists, reverseVars
<1>5. Separate(r, l, v, w, <<>>)'
  BY <1>1, <1>2, EmptyList DEF Shape, Separate, Disjoint
<1>6. QED
  BY <1>2, <1>3, <1>4, <1>5, EmptyList DEF Shape, Injective
-----------------------------------------------------------------------------
(* Safety                                                                   *)

(* Initially every list is empty.                                           *)
LEMMA InitShape ==
    ASSUME Init
    PROVE  TypeOK /\ Shape(<<>>, <<>>, <<>>, <<>>, <<>>)
<1>1. TypeOK
  BY DEF Init, TypeOK, Pointer, EmptyQueue
<1>2. Linked(next, NULL, <<>>)
  BY LinkedNull
<1>3. Lists(<<>>, <<>>, <<>>, <<>>, <<>>)
  BY <1>2 DEF Init, Lists, First, EmptyQueue
<1>4. Held = {}
  BY DEF Init, Held
<1>5. Separate(<<>>, <<>>, <<>>, <<>>, <<>>)
  BY <1>4, EmptyList DEF Separate, Disjoint
<1>6. ConsumerInvariant(<<>>, <<>>)
  BY DEF Init, ConsumerInvariant, EmptyQueue, LastOf
<1>7. ProducerInvariant
  BY DEF Init, ProducerInvariant
<1>8. QED
  BY <1>1, <1>3, <1>5, <1>6, <1>7, EmptyList DEF Shape, Injective

(* A step that changes nothing.                                             *)
LEMMA StutterShape ==
    ASSUME NEW r, NEW l, NEW v, NEW w, NEW b, Shape(r, l, v, w, b),
           UNCHANGED vars
    PROVE  Shape(r, l, v, w, b)'
<1>1. Lists(r, l, v, w, b)' /\ Separate(r, l, v, w, b)'
  BY DEF vars, Shape, Lists, First, Separate, Held
<1>2. ConsumerInvariant(l, w)' /\ ProducerInvariant'
  BY DEF vars, Shape, ConsumerInvariant, ProducerInvariant
<1>3. QED
  BY <1>1, <1>2 DEF Shape, Injective

(* What the lists are after a step, in terms of what they were.             *)
ListStep(r, l, v, w, b, r2, l2, v2, w2, b2) ==
    \/ /\ TryMarkActive \/ TryMarkInactiveLoad \/ TryMarkInactive
          \/ UNCHANGED vars
          \/ \E p \in Producers : \/ \E op \in Ops : EnqueueLoad(p, op)
                                  \/ EnqueueStoreNext(p)
                                  \/ EnqueueFails(p)
       /\ r2 = r /\ l2 = l /\ v2 = v /\ w2 = w /\ b2 = b
    \/ /\ \E p \in Producers : EnqueueSucceeds(p) /\ r2 = <<item[p]>> \o r
       /\ l2 = l /\ v2 = v /\ w2 = w /\ b2 = b
    \/ /\ Exchange
       /\ v = <<>> /\ w = <<>>
       /\ r2 = <<>> /\ l2 = l /\ v2 = r /\ w2 = w /\ b2 = b
    \/ /\ ReverseStep
       /\ v # <<>> /\ list = Head(v)
       /\ r2 = r /\ l2 = l /\ v2 = Tail(v) /\ w2 = <<list>> \o w /\ b2 = b
    \/ /\ AppendReversed
       /\ v = <<>>
       /\ r2 = r /\ l2 = l \o w /\ v2 = v /\ w2 = <<>> /\ b2 = b
    \/ /\ \E op \in Ops : PushBack(op) /\ l2 = l \o <<op>>
       /\ v = <<>> /\ w = <<>>
       /\ r2 = r /\ v2 = v /\ w2 = w /\ b2 = b
    \/ /\ TakeLocal
       /\ v = <<>> /\ w = <<>> /\ b = <<>>
       /\ r2 = r /\ l2 = <<>> /\ v2 = v /\ w2 = w /\ b2 = l
    \/ /\ PopFront
       /\ b # <<>>
       /\ r2 = r /\ l2 = l /\ v2 = v /\ w2 = w /\ b2 = Tail(b)
    \/ /\ DropBatch
       /\ r2 = r /\ l2 = l /\ v2 = v /\ w2 = w /\ b2 = <<>>

(* Every step is such a step.                                               *)
LEMMA ShapeStep ==
    ASSUME NEW r \in Seq(Ops), NEW l \in Seq(Ops), NEW v \in Seq(Ops),
           NEW w \in Seq(Ops), NEW b \in Seq(Ops), TypeOK,
           Shape(r, l, v, w, b), [Next]_vars
    PROVE  \E r2, l2, v2, w2, b2 \in Seq(Ops) :
              /\ Shape(r2, l2, v2, w2, b2)'
              /\ ListStep(r, l, v, w, b, r2, l2, v2, w2, b2)
<1> DEFINE Goal == \E r2, l2, v2, w2, b2 \in Seq(Ops) :
                      /\ Shape(r2, l2, v2, w2, b2)'
                      /\ ListStep(r, l, v, w, b, r2, l2, v2, w2, b2)
<1> SUFFICES Goal
  OBVIOUS
<1>1. ASSUME NEW r2 \in Seq(Ops), NEW l2 \in Seq(Ops), NEW v2 \in Seq(Ops),
             NEW w2 \in Seq(Ops), NEW b2 \in Seq(Ops),
             Shape(r2, l2, v2, w2, b2)',
             ListStep(r, l, v, w, b, r2, l2, v2, w2, b2)
      PROVE  Goal
  BY <1>1, Zenon
<1> HIDE DEF Goal
<1>2. CASE TryMarkActive
  <2>1. Shape(r, l, v, w, b)'
    BY <1>2, TryMarkActiveShape
  <2>2. ListStep(r, l, v, w, b, r, l, v, w, b)
    BY <1>2, Zenon DEF ListStep
  <2>3. QED
    BY <1>1, <2>1, <2>2, Zenon
<1>3. ASSUME NEW p \in Producers, NEW op \in Ops, EnqueueLoad(p, op)
      PROVE  Goal
  <2>1. Shape(r, l, v, w, b)'
    BY <1>3, EnqueueLoadShape
  <2>2. ListStep(r, l, v, w, b, r, l, v, w, b)
    BY <1>3, Zenon DEF ListStep
  <2>3. QED
    BY <1>1, <2>1, <2>2, Zenon
<1>4. ASSUME NEW p \in Producers, EnqueueStoreNext(p) PROVE Goal
  <2>1. Shape(r, l, v, w, b)'
    BY <1>4, EnqueueStoreNextShape
  <2>2. ListStep(r, l, v, w, b, r, l, v, w, b)
    BY <1>4, Zenon DEF ListStep
  <2>3. QED
    BY <1>1, <2>1, <2>2, Zenon
<1>5. ASSUME NEW p \in Producers, EnqueueSucceeds(p) PROVE Goal
  <2>1. item[p] \in Ops
    BY <1>5, HeldProperties DEF Shape, EnqueueSucceeds
  <2>2. <<item[p]>> \o r \in Seq(Ops)
    BY <2>1, ConsProperties
  <2>3. PICK r2 \in Seq(Ops) : r2 = <<item[p]>> \o r
    BY <2>2
  <2>4. Shape(r2, l, v, w, b)'
    BY <1>5, <2>3, EnqueueSucceedsShape
  <2>5. ListStep(r, l, v, w, b, r2, l, v, w, b)
    BY <1>5, <2>3, Zenon DEF ListStep
  <2>6. QED
    BY <1>1, <2>4, <2>5, Zenon
<1>6. ASSUME NEW p \in Producers, EnqueueFails(p) PROVE Goal
  <2>1. Shape(r, l, v, w, b)'
    BY <1>6, EnqueueFailsShape
  <2>2. ListStep(r, l, v, w, b, r, l, v, w, b)
    BY <1>6, Zenon DEF ListStep
  <2>3. QED
    BY <1>1, <2>1, <2>2, Zenon
<1>7. CASE TryMarkInactiveLoad
  <2>1. Shape(r, l, v, w, b)'
    BY <1>7, TryMarkInactiveLoadShape
  <2>2. ListStep(r, l, v, w, b, r, l, v, w, b)
    BY <1>7, Zenon DEF ListStep
  <2>3. QED
    BY <1>1, <2>1, <2>2, Zenon
<1>8. CASE TryMarkInactive
  <2>1. Shape(r, l, v, w, b)'
    BY <1>8, TryMarkInactiveShape
  <2>2. ListStep(r, l, v, w, b, r, l, v, w, b)
    BY <1>8, Zenon DEF ListStep
  <2>3. QED
    BY <1>1, <2>1, <2>2, Zenon
<1>9. CASE Exchange
  <2>1. v = <<>> /\ w = <<>> /\ Shape(<<>>, l, r, <<>>, b)'
    BY <1>9, ExchangeShape
  <2>2. Shape(<<>>, l, r, w, b)'
    BY <2>1
  <2>3. ListStep(r, l, v, w, b, <<>>, l, r, w, b)
    BY <1>9, <2>1, Zenon DEF ListStep
  <2>4. QED
    BY <1>1, <2>2, <2>3, EmptyList, Zenon
<1>10. CASE ReverseStep
  <2>1. PICK v2 : v2 = Tail(v)
    OBVIOUS
  <2>2. PICK w2 : w2 = <<list>> \o w
    OBVIOUS
  <2>3. /\ v # <<>> /\ list = Head(v) /\ v2 \in Seq(Ops) /\ w2 \in Seq(Ops)
        /\ Shape(r, l, v2, w2, b)'
    BY <1>10, <2>1, <2>2, ReverseStepShape
  <2>4. ListStep(r, l, v, w, b, r, l, v2, w2, b)
    BY <1>10, <2>1, <2>2, <2>3, Zenon DEF ListStep
  <2>5. QED
    BY <1>1, <2>3, <2>4, Zenon
<1>11. CASE AppendReversed
  <2>1. PICK l2 : l2 = Behind(l, w)
    OBVIOUS
  <2>2. v = <<>> /\ l2 \in Seq(Ops) /\ Shape(r, l2, <<>>, <<>>, b)'
    BY <1>11, <2>1, AppendReversedShape
  <2>3. Shape(r, l2, v, <<>>, b)'
    BY <2>2
  <2>4. ListStep(r, l, v, w, b, r, l2, v, <<>>, b)
    BY <1>11, <2>1, <2>2, Zenon DEF ListStep, Behind
  <2>5. QED
    BY <1>1, <2>2, <2>3, <2>4, EmptyList, Zenon
<1>12. ASSUME NEW op \in Ops, PushBack(op) PROVE Goal
  <2>1. PICK l2 : l2 = Behind(l, <<op>>)
    OBVIOUS
  <2>2. /\ v = <<>> /\ w = <<>> /\ l2 \in Seq(Ops)
        /\ Shape(r, l2, v, w, b)'
    BY <1>12, <2>1, PushBackShape
  <2>3. ListStep(r, l, v, w, b, r, l2, v, w, b)
    BY <1>12, <2>1, <2>2, Zenon DEF ListStep, Behind
  <2>4. QED
    BY <1>1, <2>2, <2>3, Zenon
<1>13. CASE TakeLocal
  <2>1. v = <<>> /\ w = <<>> /\ b = <<>> /\ Shape(r, <<>>, v, w, l)'
    BY <1>13, TakeLocalShape
  <2>2. ListStep(r, l, v, w, b, r, <<>>, v, w, l)
    BY <1>13, <2>1, Zenon DEF ListStep
  <2>3. QED
    BY <1>1, <2>1, <2>2, EmptyList, Zenon
<1>14. CASE PopFront
  <2>1. PICK b2 : b2 = Tail(b)
    OBVIOUS
  <2>2. b # <<>> /\ b2 \in Seq(Ops) /\ Shape(r, l, v, w, b2)'
    BY <1>14, <2>1, PopFrontShape
  <2>3. ListStep(r, l, v, w, b, r, l, v, w, b2)
    BY <1>14, <2>1, <2>2, Zenon DEF ListStep
  <2>4. QED
    BY <1>1, <2>2, <2>3, Zenon
<1>15. CASE DropBatch
  <2>1. Shape(r, l, v, w, <<>>)'
    BY <1>15, DropBatchShape
  <2>2. ListStep(r, l, v, w, b, r, l, v, w, <<>>)
    BY <1>15, Zenon DEF ListStep
  <2>3. QED
    BY <1>1, <2>1, <2>2, EmptyList, Zenon
<1>16. CASE UNCHANGED vars
  <2>1. Shape(r, l, v, w, b)'
    BY <1>16, StutterShape
  <2>2. ListStep(r, l, v, w, b, r, l, v, w, b)
    BY <1>16, Zenon DEF ListStep
  <2>3. QED
    BY <1>1, <2>1, <2>2, Zenon
<1>17. QED
  BY <1>2, <1>3, <1>4, <1>5, <1>6, <1>7, <1>8, <1>9, <1>10, <1>11, <1>12,
     <1>13, <1>14, <1>15, <1>16, Zenon DEF Next

(* The invariant of the pointers.                                           *)
THEOREM QueueInvariantAlways == Spec => []QueueInvariant
<1>1. Init => QueueInvariant
  BY InitShape, EmptyList DEF QueueInvariant
<1>2. QueueInvariant /\ [Next]_vars => QueueInvariant'
  <2> SUFFICES ASSUME QueueInvariant, [Next]_vars PROVE QueueInvariant'
    OBVIOUS
  <2>1. TypeOK
    BY DEF QueueInvariant
  <2>2. PICK r \in Seq(Ops), l \in Seq(Ops), v \in Seq(Ops), w \in Seq(Ops),
             b \in Seq(Ops) : Shape(r, l, v, w, b)
    BY Zenon DEF QueueInvariant
  <2>3. TypeOK'
    <3>1. consumer = "exchange" => head \in Ops
      BY <2>2 DEF Shape, ConsumerInvariant
    <3>2. QED
      BY <2>1, <3>1, TypeStep
  <2>4. \E r2, l2, v2, w2, b2 \in Seq(Ops) : Shape(r2, l2, v2, w2, b2)'
    BY <2>1, <2>2, ShapeStep, Zenon
  <2>5. QED
    BY <2>3, <2>4, Zenon DEF QueueInvariant
<1>3. QED
  BY <1>1, <1>2, PTL DEF Spec

(* Pointers are operations or NULL, and the flag value never leaves head    *)
(* for a link, a queue or make_reversed.                                    *)
THEOREM TypeCorrect == Spec => []TypeOK
<1>1. QueueInvariant => TypeOK
  BY DEF QueueInvariant
<1>2. QED
  BY <1>1, QueueInvariantAlways, PTL

(* No queue reaches freed memory, or an operation that a producer is still  *)
(* enqueueing, and no operation is linked twice, whatever the interleaving  *)
(* of the CAS loops with the reuse of memory.                               *)
THEOREM NoDanglingLinkAlways == Spec => []NoDanglingLink
<1>1. QueueInvariant => NoDanglingLink
  <2> SUFFICES ASSUME QueueInvariant PROVE NoDanglingLink
    OBVIOUS
  <2>1. PICK r \in Seq(Ops), l \in Seq(Ops), v \in Seq(Ops), w \in Seq(Ops),
             b \in Seq(Ops) : Shape(r, l, v, w, b)
    BY Zenon DEF QueueInvariant
  <2>2. /\ RemoteChain = r /\ Chain(local.head) = l /\ Chain(list) = v
        /\ Chain(new_head) = w /\ Chain(batch.head) = b
    BY <2>1, ChainsOfShape
  <2>3. Reachable = (((r \o l) \o v) \o w) \o b
    BY <2>2 DEF Reachable
  <2>4. Disjoint(ToSet(r), ToSet(l), ToSet(v), ToSet(w), ToSet(b), free, Held)
    BY <2>1 DEF Shape, Separate
  <2>5. /\ IsInjective(r) /\ IsInjective(l) /\ IsInjective(v)
        /\ IsInjective(w) /\ IsInjective(b)
    BY <2>1 DEF Shape, Injective
  <2> DEFINE s1 == r \o l
             s2 == s1 \o v
             s3 == s2 \o w
             s4 == s3 \o b
  <2>6. /\ s1 \in Seq(Ops) /\ IsInjective(s1)
        /\ ToSet(s1) = ToSet(r) \cup ToSet(l)
    <3>1. ToSet(r) \cap ToSet(l) = {}
      BY <2>4 DEF Disjoint
    <3>2. QED
      BY <2>5, <3>1, ConcatElements, ConcatSet, ConcatInjective, Zenon
  <2> HIDE DEF s1
  <2>7. /\ s2 \in Seq(Ops) /\ IsInjective(s2)
        /\ ToSet(s2) = ToSet(s1) \cup ToSet(v)
    <3>1. ToSet(s1) \cap ToSet(v) = {}
      BY <2>4, <2>6 DEF Disjoint
    <3>2. QED
      BY <2>5, <2>6, <3>1, ConcatElements, ConcatSet, ConcatInjective, Zenon
  <2> HIDE DEF s2
  <2>8. /\ s3 \in Seq(Ops) /\ IsInjective(s3)
        /\ ToSet(s3) = ToSet(s2) \cup ToSet(w)
    <3>1. ToSet(s2) \cap ToSet(w) = {}
      BY <2>4, <2>6, <2>7 DEF Disjoint
    <3>2. QED
      BY <2>5, <2>7, <3>1, ConcatElements, ConcatSet, ConcatInjective, Zenon
  <2> HIDE DEF s3
  <2>9. /\ s4 \in Seq(Ops) /\ IsInjective(s4)
        /\ ToSet(s4) = ToSet(s3) \cup ToSet(b)
    <3>1. ToSet(s3) \cap ToSet(b) = {}
      BY <2>4, <2>6, <2>7, <2>8 DEF Disjoint
    <3>2. QED
      BY <2>5, <2>8, <3>1, ConcatElements, ConcatSet, ConcatInjective, Zenon
  <2> HIDE DEF s4
  <2>10. Reachable = s4
    BY <2>3 DEF s1, s2, s3, s4
  <2>11. ToSet(s4) \cap (free \cup Held) = {} /\ ToSet(s4) \subseteq Ops
    <3>1. /\ ToSet(r) \subseteq Ops /\ ToSet(l) \subseteq Ops
          /\ ToSet(v) \subseteq Ops /\ ToSet(w) \subseteq Ops
          /\ ToSet(b) \subseteq Ops
      BY DEF ToSet
    <3>2. QED
      BY <2>4, <2>6, <2>7, <2>8, <2>9, <3>1 DEF Disjoint
  <2>12. \A op \in ToSet(s4) :
            op \notin free /\ \A p \in Producers : item[p] # op
    BY <2>11, PointersAssumption DEF Held
  <2>13. QED
    BY <2>9, <2>10, <2>12 DEF NoDanglingLink
<1>2. QED
  BY <1>1, QueueInvariantAlways, PTL
-----------------------------------------------------------------------------
(* Refinement                                                               *)

(* The local queue of the contract: what is being reversed counts.          *)
LocalView(l, v, w) == l \o Reverse(v) \o w

(* The empty sequence is neutral, and its own reversal.                     *)
LEMMA ConcatEmpty ==
    ASSUME NEW s \in Seq(Ops)
    PROVE  s \o <<>> = s /\ <<>> \o s = s /\ Reverse(<<>>) = <<>>
<1>1. s \o <<>> = s /\ <<>> \o s = s
  BY ConcatEmptySeq
<1>2. Reverse(<<>>) = <<>>
  BY EmptyList, ReverseProperties
<1>3. QED
  BY <1>1, <1>2

(* Its elements.                                                            *)
LEMMA LocalViewElements ==
    ASSUME NEW l \in Seq(Ops), NEW v \in Seq(Ops), NEW w \in Seq(Ops)
    PROVE  /\ LocalView(l, v, w) \in Seq(Ops)
           /\ ToSet(LocalView(l, v, w)) = ToSet(l) \cup ToSet(v) \cup ToSet(w)
<1>1. Reverse(v) \in Seq(Ops) /\ ToSet(Reverse(v)) = ToSet(v)
  BY ReverseProperties
<1>2. l \o Reverse(v) \in Seq(Ops)
  BY <1>1, ConcatElements
<1>3. LocalView(l, v, w) \in Seq(Ops)
  BY <1>2, ConcatElements DEF LocalView
<1>4. ToSet(LocalView(l, v, w)) = ToSet(l) \cup ToSet(v) \cup ToSet(w)
  <2>1. ToSet(l \o Reverse(v)) = ToSet(l) \cup ToSet(Reverse(v))
    BY <1>1, ConcatSet, Zenon
  <2>2. ToSet((l \o Reverse(v)) \o w) = ToSet(l \o Reverse(v)) \cup ToSet(w)
    <3>1. ASSUME NEW s \in Seq(Ops)
          PROVE  ToSet(s \o w) = ToSet(s) \cup ToSet(w)
      BY ConcatSet
    <3>2. QED
      BY <1>2, <3>1, Zenon
  <2>3. QED
    BY <1>1, <2>1, <2>2, Zenon DEF LocalView
<1>5. QED
  BY <1>3, <1>4

(* The local queue before and after make_reversed.                          *)
LEMMA LocalViews ==
    ASSUME NEW l \in Seq(Ops), NEW v \in Seq(Ops), NEW w \in Seq(Ops)
    PROVE  /\ LocalView(l, <<>>, <<>>) = l
           /\ LocalView(l, v, <<>>) = l \o Reverse(v)
           /\ LocalView(l, <<>>, w) = l \o w
<1>1. Reverse(v) \in Seq(Ops) /\ ToSet(Reverse(v)) = ToSet(v)
  BY ReverseProperties
<1>2. l \o Reverse(v) \in Seq(Ops) /\ l \o w \in Seq(Ops)
  BY <1>1, ConcatElements
<1>3. LocalView(l, <<>>, <<>>) = l
  BY ConcatEmpty, EmptyList DEF LocalView
<1>4. LocalView(l, v, <<>>) = l \o Reverse(v)
  BY <1>2, ConcatEmpty DEF LocalView
<1>5. LocalView(l, <<>>, w) = l \o w
  BY ConcatEmpty DEF LocalView
<1>6. QED
  BY <1>3, <1>4, <1>5

(* An iteration of make_reversed does not change it.                        *)
LEMMA LocalViewReversing ==
    ASSUME NEW l \in Seq(Ops), NEW v \in Seq(Ops), NEW w \in Seq(Ops),
           v # <<>>
    PROVE  LocalView(l, Tail(v), <<Head(v)>> \o w) = LocalView(l, v, w)
<1>1. PICK x \in Ops, t \in Seq(Ops) :
         x = Head(v) /\ t = Tail(v) /\ v = <<x>> \o t
  <2>1. /\ Head(v) \in Ops /\ Tail(v) \in Seq(Ops)
        /\ v = <<Head(v)>> \o Tail(v)
    BY TailProperties, Zenon
  <2>2. QED
    BY <2>1, Zenon
<1>2. /\ Reverse(v) = Reverse(t) \o <<x>>
      /\ Reverse(t) \in Seq(Ops) /\ <<x>> \in Seq(Ops)
  <2>1. Reverse(<<x>> \o t) = Reverse(t) \o <<x>> /\ Reverse(t) \in Seq(Ops)
    BY ReverseProperties, Zenon
  <2>2. <<x>> \in Seq(Ops)
    OBVIOUS
  <2>3. QED
    BY <1>1, <2>1, <2>2, Zenon
<1> DEFINE u == Reverse(t)
           s == <<x>>
<1>3. l \o (u \o s) = (l \o u) \o s
  BY <1>2, ConcatAssociative
<1>4. l \o u \in Seq(Ops)
  BY <1>2, ConcatElements
<1>5. ((l \o u) \o s) \o w = (l \o u) \o (s \o w)
  BY <1>2, <1>4, ConcatAssociative
<1> HIDE DEF u, s
<1>6. Reverse(v) = u \o s
  BY <1>2 DEF u, s
<1>7. LocalView(l, v, w) = (l \o u) \o (s \o w)
  BY <1>3, <1>5, <1>6, Zenon DEF LocalView
<1>8. LocalView(l, t, s \o w) = (l \o u) \o (s \o w)
  BY Zenon DEF LocalView, u
<1>9. QED
  BY <1>1, <1>7, <1>8, Zenon DEF s

(* The values of the variables of the contract.                             *)
Views(R, L, B) ==
    /\ Reverse(RemoteChain) = R
    /\ Chain(local.head) \o Reverse(Chain(list)) \o Chain(new_head) = L
    /\ Chain(batch.head) = B

(* They follow from the lists.                                              *)
LEMMA ViewsOfShape ==
    ASSUME NEW r \in Seq(Ops), NEW l \in Seq(Ops), NEW v \in Seq(Ops),
           NEW w \in Seq(Ops), NEW b \in Seq(Ops), Shape(r, l, v, w, b)
    PROVE  Views(Reverse(r), LocalView(l, v, w), b)
  BY ChainsOfShape, Zenon DEF Views, LocalView

(* The same after a step.                                                   *)
LEMMA ViewsOfShapePrime ==
    ASSUME NEW r \in Seq(Ops), NEW l \in Seq(Ops), NEW v \in Seq(Ops),
           NEW w \in Seq(Ops), NEW b \in Seq(Ops), Shape(r, l, v, w, b)',
           NEW R, NEW L, R = Reverse(r), L = LocalView(l, v, w)
    PROVE  Views(R, L, b)'
<1>1. /\ RemoteChain' = r /\ Chain(local.head)' = l /\ Chain(list)' = v
      /\ Chain(new_head)' = w /\ Chain(batch.head)' = b
  BY ChainsOfShapePrime, Zenon
<1>2. QED
  BY <1>1, Zenon DEF Views, LocalView

(* What is in a queue of the contract is in a list.                         *)
LEMMA QueuedOfShape ==
    ASSUME NEW r \in Seq(Ops), NEW l \in Seq(Ops), NEW v \in Seq(Ops),
           NEW w \in Seq(Ops), NEW b \in Seq(Ops), Shape(r, l, v, w, b)
    PROVE  /\ Abstract!Queued =
                 ToSet(b) \cup (ToSet(l) \cup ToSet(v) \cup ToSet(w))
                          \cup ToSet(r)
           /\ Abstract!Queued \cap (free \cup Held) = {}
<1> DEFINE R == Reverse(r)
           L == LocalView(l, v, w)
<1>1. Views(R, L, b)
  BY ViewsOfShape
<1>2. /\ R \in Seq(Ops) /\ ToSet(R) = ToSet(r) /\ L \in Seq(Ops)
      /\ ToSet(L) = ToSet(l) \cup ToSet(v) \cup ToSet(w)
  <2>1. R \in Seq(Ops) /\ ToSet(R) = ToSet(r)
    BY ReverseProperties, Zenon
  <2>2. L \in Seq(Ops) /\ ToSet(L) = ToSet(l) \cup ToSet(v) \cup ToSet(w)
    BY LocalViewElements
  <2>3. QED
    BY <2>1, <2>2
<1> HIDE DEF R, L
<1>3. Abstract!Queued = ToSet((b \o L) \o R)
  <2>1. Abstract!Pipeline = (b \o L) \o R
    BY <1>1, Zenon DEF Abstract!Pipeline, Views
  <2>2. Abstract!Queued = ToSet(Abstract!Pipeline)
    BY Zenon DEF Abstract!Queued, Abstract!ToSet, ToSet
  <2>3. QED
    BY <2>1, <2>2, Zenon
<1>4. b \o L \in Seq(Ops) /\ ToSet(b \o L) = ToSet(b) \cup ToSet(L)
  BY <1>2, ConcatElements, ConcatSet, Zenon
<1>5. ToSet((b \o L) \o R) = ToSet(b \o L) \cup ToSet(R)
  <2>1. ASSUME NEW s \in Seq(Ops), NEW t \in Seq(Ops)
        PROVE  ToSet(s \o t) = ToSet(s) \cup ToSet(t)
    BY ConcatSet
  <2>2. QED
    BY <1>2, <1>4, <2>1, Zenon
<1>6. Abstract!Queued = ToSet(b) \cup (ToSet(l) \cup ToSet(v) \cup ToSet(w))
                                 \cup ToSet(r)
  BY <1>2, <1>3, <1>4, <1>5, Zenon
<1>7. Disjoint(ToSet(r), ToSet(l), ToSet(v), ToSet(w), ToSet(b), free, Held)
  BY DEF Shape, Separate
<1>8. Abstract!Queued \cap (free \cup Held) = {}
  BY ONLY <1>6, <1>7 DEF Disjoint
<1>9. QED
  BY <1>6, <1>8

(* A step that leaves the queues of the contract alone, and the flag, is a  *)
(* stuttering step of the contract.                                         *)
LEMMA ViewStutters ==
    ASSUME NEW R, NEW L, NEW B, Views(R, L, B), Views(R, L, B)',
           (head # INACTIVE)' = (head # INACTIVE)
    PROVE  UNCHANGED Abstract!queueVars
  BY Zenon DEF Views, Abstract!queueVars

(* Every step of the pointers is a step of the contract or changes nothing  *)
(* that the contract sees.                                                  *)
LEMMA RefinementStep ==
    ASSUME NEW r \in Seq(Ops), NEW l \in Seq(Ops), NEW v \in Seq(Ops),
           NEW w \in Seq(Ops), NEW b \in Seq(Ops), NEW r2 \in Seq(Ops),
           NEW l2 \in Seq(Ops), NEW v2 \in Seq(Ops), NEW w2 \in Seq(Ops),
           NEW b2 \in Seq(Ops), TypeOK, Shape(r, l, v, w, b),
           Shape(r2, l2, v2, w2, b2)',
           ListStep(r, l, v, w, b, r2, l2, v2, w2, b2)
    PROVE  [Abstract!QueueNext]_(Abstract!queueVars)
<1>1. PICK R : R = Reverse(r)
  OBVIOUS
<1>2. PICK R2 : R2 = Reverse(r2)
  OBVIOUS
<1>3. PICK L : L = LocalView(l, v, w)
  OBVIOUS
<1>4. PICK L2 : L2 = LocalView(l2, v2, w2)
  OBVIOUS
<1>5. Views(R, L, b)
  BY <1>1, <1>3, ViewsOfShape
<1>6. Views(R2, L2, b2)'
  BY <1>2, <1>4, ViewsOfShapePrime
<1>7. Linked(next, First, r)
  BY DEF Shape, Lists
<1>8. CASE TryMarkActive /\ r2 = r /\ l2 = l /\ v2 = v /\ w2 = w /\ b2 = b
  <2>1. ~(head # INACTIVE) /\ (head # INACTIVE)' = TRUE
    BY <1>8, PointersAssumption DEF TryMarkActive
  <2>2. R2 = R /\ L2 = L /\ b2 = b
    BY <1>1, <1>2, <1>3, <1>4, <1>8, Zenon
  <2>3. Abstract!MarkActive
    BY <1>5, <1>6, <2>1, <2>2, Zenon DEF Abstract!MarkActive, Views
  <2>4. QED
    BY <2>3, Zenon DEF Abstract!QueueNext
<1>9. CASE TryMarkInactive /\ r2 = r /\ l2 = l /\ v2 = v /\ w2 = w /\ b2 = b
  <2>1. R2 = R /\ L2 = L /\ b2 = b
    BY <1>1, <1>2, <1>3, <1>4, <1>9, Zenon
  <2>2. CASE head = NULL
    <3>1. (head # INACTIVE) = TRUE /\ (head # INACTIVE)' = FALSE
      BY <1>9, <2>2, PointersAssumption DEF TryMarkInactive
    <3>2. R = <<>>
      <4>1. Linked(next, NULL, r)
        BY <1>7, <2>2, PointersAssumption DEF First
      <4>2. r = <<>>
        BY <4>1, LinkedEmpty, Zenon
      <4>3. QED
        BY <1>1, <4>2, ConcatEmpty, EmptyList
    <3>3. Abstract!MarkInactive
      BY <1>5, <1>6, <2>1, <3>1, <3>2, Zenon DEF Abstract!MarkInactive, Views
    <3>4. QED
      BY <3>3, Zenon DEF Abstract!QueueNext
  <2>3. CASE head # NULL
    <3>1. (head # INACTIVE)' = (head # INACTIVE)
      BY <1>9, <2>3 DEF TryMarkInactive
    <3>2. QED
      BY <1>5, <1>6, <2>1, <3>1, ViewStutters, Zenon
  <2>4. QED
    BY <2>2, <2>3
<1>10. CASE /\ r2 = r /\ l2 = l /\ v2 = v /\ w2 = w /\ b2 = b
            /\ head' = head
  <2>1. R2 = R /\ L2 = L /\ b2 = b
    BY <1>1, <1>2, <1>3, <1>4, <1>10, Zenon
  <2>2. (head # INACTIVE)' = (head # INACTIVE)
    BY <1>10
  <2>3. QED
    BY <1>5, <1>6, <2>1, <2>2, ViewStutters, Zenon
<1>11. ASSUME NEW p \in Producers, EnqueueSucceeds(p), r2 = <<item[p]>> \o r,
              l2 = l, v2 = v, w2 = w, b2 = b
       PROVE  Abstract!QueueNext
  <2>1. item[p] \in Held /\ item[p] \in Ops
    BY <1>11, HeldProperties DEF Shape, EnqueueSucceeds
  <2>2. PICK x \in Ops : x = item[p]
    BY <2>1
  <2>3. x \in Ops \ Abstract!Queued
    <3>1. Abstract!Queued \cap (free \cup Held) = {}
      BY QueuedOfShape
    <3>2. QED
      BY <2>1, <2>2, <3>1
  <2>4. (head # INACTIVE)' = TRUE
    BY <1>11, <2>1, PointersAssumption DEF EnqueueSucceeds
  <2>5. L2 = L /\ b2 = b
    BY <1>3, <1>4, <1>11, Zenon
  <2>6. R2 = Append(R, x)
    <3>1. Reverse(<<x>> \o r) = Reverse(r) \o <<x>> /\ Reverse(r) \in Seq(Ops)
      BY ReverseProperties, Zenon
    <3>2. R2 = R \o <<x>> /\ R \in Seq(Ops)
      BY <1>1, <1>2, <1>11, <2>2, <3>1, Zenon
    <3>3. QED
      BY <3>2, AppendIsConcat
  <2>7. Abstract!Enqueue(x)
    BY <1>5, <1>6, <2>4, <2>5, <2>6, Zenon DEF Abstract!Enqueue, Views
  <2>8. QED
    BY <2>3, <2>7, Zenon DEF Abstract!QueueNext
<1>12. CASE /\ Exchange /\ v = <<>> /\ w = <<>>
            /\ r2 = <<>> /\ l2 = l /\ v2 = r /\ w2 = w /\ b2 = b
  <2>1. head \in Ops /\ head' = NULL
    BY <1>12 DEF Shape, ConsumerInvariant, Exchange, ConsumerIs
  <2>2. (head # INACTIVE) = TRUE /\ (head # INACTIVE)' = TRUE
    BY <2>1, PointersAssumption
  <2>3. R # <<>>
    <3>1. First # NULL
      BY <2>1, PointersAssumption DEF First
    <3>2. r # <<>>
      BY <1>7, <3>1, LinkedEmpty, Zenon
    <3>3. QED
      BY <1>1, <3>2, ReverseProperties
  <2>4. R2 = <<>>
    BY <1>2, <1>12, ConcatEmpty, EmptyList
  <2>5. L = l
    BY <1>3, <1>12, LocalViews
  <2>6. L2 = l \o Reverse(r)
    BY <1>4, <1>12, LocalViews
  <2>7. L2 = L \o R
    BY <1>1, <2>5, <2>6, Zenon
  <2>8. b2 = b
    BY <1>12
  <2>9. Abstract!DequeueAll
    <3>1. head # INACTIVE /\ Reverse(RemoteChain) # <<>>
      BY <1>5, <2>2, <2>3, Zenon DEF Views
    <3>2. Reverse(RemoteChain)' = <<>>
      BY <1>6, <2>4, Zenon DEF Views
    <3>3. UNCHANGED <<head # INACTIVE, Chain(batch.head)>>
      BY <1>5, <1>6, <2>2, <2>8, Zenon DEF Views
    <3>4. (Chain(local.head) \o Reverse(Chain(list)) \o Chain(new_head))' = L2
      BY <1>6, Zenon DEF Views
    <3>5. (Chain(local.head) \o Reverse(Chain(list)) \o Chain(new_head))
              \o Reverse(RemoteChain) = L \o R
      BY <1>5, Zenon DEF Views
    <3>6. QED
      BY <2>7, <3>1, <3>2, <3>3, <3>4, <3>5, Zenon DEF Abstract!DequeueAll
  <2>10. QED
    BY <2>9, Zenon DEF Abstract!QueueNext
<1>13. CASE /\ ReverseStep /\ v # <<>> /\ list = Head(v) /\ r2 = r
            /\ l2 = l /\ v2 = Tail(v) /\ w2 = <<list>> \o w /\ b2 = b
  <2>1. LocalView(l, Tail(v), <<Head(v)>> \o w) = LocalView(l, v, w)
    BY <1>13, LocalViewReversing
  <2>2. R2 = R /\ L2 = L /\ b2 = b
    BY <1>1, <1>2, <1>3, <1>4, <1>13, <2>1, Zenon
  <2>3. (head # INACTIVE)' = (head # INACTIVE)
    BY <1>13 DEF ReverseStep
  <2>4. QED
    BY <1>5, <1>6, <2>2, <2>3, ViewStutters, Zenon
<1>14. CASE /\ AppendReversed /\ v = <<>> /\ r2 = r /\ l2 = l \o w
            /\ v2 = v /\ w2 = <<>> /\ b2 = b
  <2>1. L = l \o w
    BY <1>3, <1>14, LocalViews
  <2>2. L2 = l2
    BY <1>4, <1>14, LocalViews
  <2>3. R2 = R /\ L2 = L /\ b2 = b
    BY <1>1, <1>2, <1>14, <2>1, <2>2, Zenon
  <2>4. (head # INACTIVE)' = (head # INACTIVE)
    BY <1>14 DEF AppendReversed
  <2>5. QED
    BY <1>5, <1>6, <2>3, <2>4, ViewStutters, Zenon
<1>15. ASSUME NEW op \in Ops, PushBack(op), l2 = l \o <<op>>,
              v = <<>>, w = <<>>, r2 = r, v2 = v, w2 = w, b2 = b
       PROVE  Abstract!QueueNext
  <2>1. op \in Ops \ Abstract!Queued
    <3>1. Abstract!Queued \cap (free \cup Held) = {}
      BY QueuedOfShape
    <3>2. QED
      BY <1>15, <3>1 DEF PushBack
  <2>2. L = l
    BY <1>3, <1>15, LocalViews
  <2>3. L2 = l2
    BY <1>4, <1>15, LocalViews
  <2>4. L2 = Append(L, op)
    BY <1>15, <2>2, <2>3, AppendIsConcat
  <2>5. R2 = R /\ b2 = b
    BY <1>1, <1>2, <1>15, Zenon
  <2>6. (head # INACTIVE)' = (head # INACTIVE)
    BY <1>15 DEF PushBack
  <2>7. Abstract!PushBack(op)
    BY <1>5, <1>6, <2>4, <2>5, <2>6, Zenon DEF Abstract!PushBack, Views
  <2>8. QED
    BY <2>1, <2>7, Zenon DEF Abstract!QueueNext
<1>16. CASE /\ TakeLocal /\ v = <<>> /\ w = <<>> /\ b = <<>> /\ r2 = r
            /\ l2 = <<>> /\ v2 = v /\ w2 = w /\ b2 = l
  <2>1. L = l
    BY <1>3, <1>16, LocalViews
  <2>2. L2 = <<>>
    BY <1>4, <1>16, LocalViews, EmptyList
  <2>3. R2 = R
    BY <1>1, <1>2, <1>16, Zenon
  <2>4. (head # INACTIVE)' = (head # INACTIVE)
    BY <1>16 DEF TakeLocal
  <2>5. Chain(batch.head) = <<>> /\ Abstract!TakeLocal
    BY <1>5, <1>6, <1>16, <2>1, <2>2, <2>3, <2>4, Zenon
       DEF Abstract!TakeLocal, Views
  <2>6. QED
    BY <2>5, Zenon DEF Abstract!QueueNext
<1>17. CASE /\ PopFront /\ b # <<>> /\ r2 = r /\ l2 = l /\ v2 = v /\ w2 = w
            /\ b2 = Tail(b)
  <2>1. R2 = R /\ L2 = L
    BY <1>1, <1>2, <1>3, <1>4, <1>17, Zenon
  <2>2. (head # INACTIVE)' = (head # INACTIVE)
    BY <1>17 DEF PopFront
  <2>3. Abstract!PopFront
    BY <1>5, <1>6, <1>17, <2>1, <2>2, Zenon DEF Abstract!PopFront, Views
  <2>4. QED
    BY <2>3, Zenon DEF Abstract!QueueNext
<1>18. CASE /\ DropBatch /\ r2 = r /\ l2 = l /\ v2 = v /\ w2 = w
            /\ b2 = <<>>
  <2>1. R2 = R /\ L2 = L
    BY <1>1, <1>2, <1>3, <1>4, <1>18, Zenon
  <2>2. (head # INACTIVE)' = (head # INACTIVE)
    BY <1>18 DEF DropBatch
  <2>3. Abstract!DropQueue
    BY <1>5, <1>6, <1>18, <2>1, <2>2, Zenon DEF Abstract!DropQueue, Views
  <2>4. QED
    BY <2>3, Zenon DEF Abstract!QueueNext
<1>19. \/ TryMarkInactiveLoad \/ UNCHANGED vars
       \/ \E p \in Producers : \/ \E op \in Ops : EnqueueLoad(p, op)
                               \/ EnqueueStoreNext(p)
                               \/ EnqueueFails(p)
       => head' = head
  BY DEF TryMarkInactiveLoad, EnqueueLoad, EnqueueStoreNext, EnqueueFails,
         vars
<1>20. QED
  BY <1>8, <1>9, <1>10, <1>11, <1>12, <1>13, <1>14, <1>15, <1>16, <1>17,
     <1>18, <1>19, Zenon DEF ListStep

(* The pointers implement the queues: operations leave a queue exactly once *)
(* and in the order of the successful CASes, and the remote queue turns     *)
(* inactive only when it is empty.                                          *)
THEOREM ImplementsQueues == Spec => Implements
<1>1. Init => Abstract!QueueInit
  <2> SUFFICES ASSUME Init PROVE Abstract!QueueInit
    OBVIOUS
  <2>1. Shape(<<>>, <<>>, <<>>, <<>>, <<>>)
    BY InitShape
  <2>2. /\ RemoteChain = <<>> /\ Chain(local.head) = <<>>
        /\ Chain(list) = <<>> /\ Chain(new_head) = <<>>
        /\ Chain(batch.head) = <<>>
    BY <2>1, EmptyList, ChainsOfShape
  <2>3. Reverse(<<>>) = <<>> /\ <<>> \o <<>> = <<>>
    BY ConcatEmpty, EmptyList
  <2>4. (head # INACTIVE) = FALSE
    BY DEF Init
  <2>5. QED
    BY <2>2, <2>3, <2>4, Zenon DEF Abstract!QueueInit
<1>2. QueueInvariant /\ [Next]_vars =>
          [Abstract!QueueNext]_(Abstract!queueVars)
  <2> SUFFICES ASSUME QueueInvariant, [Next]_vars
               PROVE  [Abstract!QueueNext]_(Abstract!queueVars)
    OBVIOUS
  <2>1. TypeOK
    BY DEF QueueInvariant
  <2>2. PICK r \in Seq(Ops), l \in Seq(Ops), v \in Seq(Ops), w \in Seq(Ops),
             b \in Seq(Ops) : Shape(r, l, v, w, b)
    BY Zenon DEF QueueInvariant
  <2>3. PICK r2 \in Seq(Ops), l2 \in Seq(Ops), v2 \in Seq(Ops),
             w2 \in Seq(Ops), b2 \in Seq(Ops) :
           /\ Shape(r2, l2, v2, w2, b2)'
           /\ ListStep(r, l, v, w, b, r2, l2, v2, w2, b2)
    BY <2>1, <2>2, ShapeStep, Zenon
  <2>4. QED
    BY <2>1, <2>2, <2>3, RefinementStep
<1>3. QED
  BY <1>1, <1>2, QueueInvariantAlways, PTL
     DEF Spec, Implements, Abstract!QueueSpec
=============================================================================
