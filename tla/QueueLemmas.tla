----------------------------- MODULE QueueLemmas -----------------------------
(***************************************************************************)
(* Waiting lists as sequences without repetition: what joining at the end  *)
(* and leaving at the front do to the set of those who wait.  And the      *)
(* least element of a set of numbers, on which the arguments by induction  *)
(* over a position in a list rest.                                         *)
(***************************************************************************)
EXTENDS Integers, Sequences, SequencesExt, FiniteSets, SequenceTheorems,
        FiniteSetTheorems, WellFoundedInduction, TLAPS

\* The empty list has no members.
LEMMA EmptyQueue == ToSet(<<>>) = {} /\ IsInjective(<<>>)
  BY DEF ToSet, IsInjective

\* Only the empty list has no members.
LEMMA NonEmptyQueue ==
  ASSUME NEW S, NEW q \in Seq(S)
  PROVE  /\ q = <<>> <=> ToSet(q) = {}
         /\ ToSet(q) \subseteq S
  <1>1. q # <<>> => 1 \in DOMAIN q
    OBVIOUS
  <1>2. q = <<>> => DOMAIN q = {}
    OBVIOUS
  <1>3. QED
    BY <1>1, <1>2 DEF ToSet

\* Somebody who is not on the list joins it at the end.
LEMMA Joins ==
  ASSUME NEW S, NEW q \in Seq(S), NEW x \in S
  PROVE  /\ Append(q, x) \in Seq(S)
         /\ Append(q, x) # <<>>
         /\ ToSet(Append(q, x)) = ToSet(q) \cup {x}
         /\ IsInjective(q) /\ x \notin ToSet(q) => IsInjective(Append(q, x))
  <1> DEFINE r == Append(q, x)
  <1>1. /\ r \in Seq(S) /\ r # <<>> /\ Len(r) = Len(q) + 1
        /\ \A i \in 1..Len(q) : r[i] = q[i]
        /\ r[Len(q) + 1] = x
    BY AppendProperties
  <1>2. /\ DOMAIN q = 1..Len(q) /\ DOMAIN r = 1..(Len(q) + 1)
        /\ Len(q) \in Nat
    BY <1>1
  <1> HIDE DEF r
  <1>3. ToSet(r) = ToSet(q) \cup {x}
    <2>1. ASSUME NEW y \in ToSet(r) PROVE y \in ToSet(q) \cup {x}
      <3>1. PICK i \in 1..(Len(q) + 1) : y = r[i]
        BY <1>2, <2>1 DEF ToSet
      <3>2. QED
        BY <1>1, <1>2, <3>1 DEF ToSet
    <2>2. ASSUME NEW y \in ToSet(q) \cup {x} PROVE y \in ToSet(r)
      <3>1. x \in ToSet(r)
        BY <1>1, <1>2 DEF ToSet
      <3>2. ASSUME y \in ToSet(q) PROVE y \in ToSet(r)
        <4>1. PICK i \in 1..Len(q) : y = q[i]
          BY <1>2, <3>2 DEF ToSet
        <4>2. i \in DOMAIN r /\ y = r[i]
          BY <1>1, <1>2, <4>1
        <4>3. QED
          BY <4>2 DEF ToSet
      <3>3. QED
        BY <2>2, <3>1, <3>2
    <2>3. QED
      BY <2>1, <2>2
  <1>4. ASSUME IsInjective(q), x \notin ToSet(q) PROVE IsInjective(r)
    <2>1. \A i \in 1..Len(q) : q[i] # x
      BY <1>2, <1>4 DEF ToSet
    <2>2. \A i, j \in 1..Len(q) : q[i] = q[j] => i = j
      BY <1>2, <1>4 DEF IsInjective
    <2>3. QED
      BY <1>1, <1>2, <2>1, <2>2 DEF IsInjective
  <1>5. QED
    BY <1>1, <1>3, <1>4 DEF r

\* The first one leaves the list.
LEMMA LeavesFirst ==
  ASSUME NEW S, NEW q \in Seq(S), q # <<>>
  PROVE  /\ Head(q) \in S /\ Head(q) \in ToSet(q)
         /\ Tail(q) \in Seq(S) /\ Len(Tail(q)) = Len(q) - 1
         /\ IsInjective(q) => /\ ToSet(Tail(q)) = ToSet(q) \ {Head(q)}
                              /\ IsInjective(Tail(q))
  <1> DEFINE r == Tail(q)
  <1>1. /\ Head(q) \in S /\ r \in Seq(S) /\ Len(r) = Len(q) - 1
        /\ \A i \in 1..Len(r) : r[i] = q[i + 1]
    BY HeadTailProperties
  <1>2. Len(q) \in Nat /\ Len(q) >= 1 /\ DOMAIN q = 1..Len(q) /\ Head(q) = q[1]
    OBVIOUS
  <1>3. DOMAIN r = 1..(Len(q) - 1)
    BY <1>1
  <1>4. Head(q) \in ToSet(q)
    BY <1>2 DEF ToSet
  <1> HIDE DEF r
  <1>5. ASSUME IsInjective(q) PROVE ToSet(r) = ToSet(q) \ {Head(q)} /\ IsInjective(r)
    <2>1. \A i, j \in 1..Len(q) : q[i] = q[j] => i = j
      BY <1>2, <1>5 DEF IsInjective
    <2>2. IsInjective(r)
      BY <1>1, <1>2, <1>3, <2>1 DEF IsInjective
    <2>3. ASSUME NEW y \in ToSet(r) PROVE y \in ToSet(q) \ {Head(q)}
      <3>1. PICK i \in 1..(Len(q) - 1) : y = r[i]
        BY <1>3, <2>3 DEF ToSet
      <3>2. y = q[i + 1] /\ i + 1 \in 1..Len(q) /\ i + 1 # 1
        BY <1>1, <1>2, <1>3, <3>1
      <3>3. QED
        BY <1>2, <2>1, <3>2 DEF ToSet
    <2>4. ASSUME NEW y \in ToSet(q) \ {Head(q)} PROVE y \in ToSet(r)
      <3>1. PICK i \in 1..Len(q) : y = q[i]
        BY <1>2, <2>4 DEF ToSet
      <3>2. i - 1 \in DOMAIN r /\ r[i - 1] = y
        BY <1>1, <1>2, <1>3, <2>4, <3>1
      <3>3. QED
        BY <3>2 DEF ToSet
    <2>5. QED
      BY <2>2, <2>3, <2>4
  <1>6. QED
    BY <1>1, <1>4, <1>5 DEF r

\* A list on which nobody is twice is as long as the set of its members is large.
LEMMA LengthCounts ==
  ASSUME NEW S, NEW q \in Seq(S), IsInjective(q)
  PROVE  /\ IsFiniteSet(ToSet(q))
         /\ Cardinality(ToSet(q)) = Len(q)
  <1>1. Len(q) \in Nat /\ DOMAIN q = 1..Len(q)
    OBVIOUS
  <1>2. q \in [1..Len(q) -> ToSet(q)]
    BY <1>1 DEF ToSet
  <1>3. q \in Injection(1..Len(q), ToSet(q))
    BY <1>1, <1>2 DEF Injection, IsInjective
  <1>4. q \in Surjection(1..Len(q), ToSet(q))
    BY <1>1, <1>2 DEF Surjection, ToSet
  <1>5. ExistsBijection(1..Len(q), ToSet(q))
    BY <1>3, <1>4 DEF ExistsBijection, Bijection
  <1>6. QED
    BY <1>1, <1>5, FS_CountingElements, FS_NatBijection

\* The list of nobody, and the list of one.
LEMMA ListOfOne ==
  ASSUME NEW x
  PROVE  SetToSeq({}) = <<>> /\ SetToSeq({x}) = <<x>>
  <1>1. SetToSeq({}) = <<>>
    <2>1. Cardinality({}) = 0
      BY FS_EmptySet
    <2>2. <<>> \in [1..0 -> {}] /\ IsInjective(<<>>)
      BY EmptyQueue
    <2>3. \A f \in [1..0 -> {}] : f = <<>>
      OBVIOUS
    <2>4. QED
      BY <2>1, <2>2, <2>3 DEF SetToSeq
  <1>2. SetToSeq({x}) = <<x>>
    <2>1. Cardinality({x}) = 1
      BY FS_Singleton
    <2>2. <<x>> \in [1..1 -> {x}] /\ IsInjective(<<x>>)
      BY DEF IsInjective
    <2>3. \A f \in [1..1 -> {x}] : f = <<x>>
      OBVIOUS
    <2>4. QED
      BY <2>1, <2>2, <2>3 DEF SetToSeq
  <1>3. QED
    BY <1>1, <1>2

\* A non-empty set of natural numbers has a least element.
LEMMA LeastElement ==
  ASSUME NEW T \in SUBSET Nat, T # {}
  PROVE  \E m \in T : \A k \in T : m <= k
  <1>1. PICK m \in T : \A k \in T : ~ (<<k, m>> \in OpToRel(<, Nat))
    BY NatLessThanWellFounded, WFMin
  <1>2. \A k \in T : ~ (k < m)
    BY <1>1 DEF OpToRel
  <1>3. QED
    BY <1>2
=============================================================================
