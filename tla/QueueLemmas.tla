----------------------------- MODULE QueueLemmas ----------------------------
(* Sequences used as queues without repetition: what adding an element and   *)
(* taking the first one do to the set of the elements; and how many jobs the *)
(* threads that are taken out of them can have.                              *)
EXTENDS SequencesExt, FiniteSetTheorems, TLAPS

LEMMA Appended ==
  ASSUME NEW S, NEW s \in Seq(S), NEW e \in S
  PROVE  /\ Append(s, e) \in Seq(S)
         /\ ToSet(Append(s, e)) = ToSet(s) \cup {e}
         /\ IsInjective(s) /\ e \notin ToSet(s) => IsInjective(Append(s, e))
<1>1. /\ Append(s, e) \in Seq(S)
      /\ DOMAIN Append(s, e) = DOMAIN s \cup {Len(s) + 1}
      /\ \A i \in DOMAIN s : Append(s, e)[i] = s[i]
      /\ Append(s, e)[Len(s) + 1] = e
  OBVIOUS
<1>2. ToSet(Append(s, e)) = ToSet(s) \cup {e}
  BY <1>1 DEF ToSet
<1>3. QED
  BY <1>1, <1>2 DEF ToSet, IsInjective

LEMMA Taken ==
  ASSUME NEW S, NEW s \in Seq(S), s # <<>>
  PROVE  /\ Head(s) \in S /\ Tail(s) \in Seq(S)
         /\ ToSet(s) = ToSet(Tail(s)) \cup {Head(s)}
         /\ IsInjective(s) => IsInjective(Tail(s)) /\ Head(s) \notin ToSet(Tail(s))
<1>1. /\ Head(s) \in S /\ Tail(s) \in Seq(S)
      /\ Head(s) = s[1] /\ 1 \in DOMAIN s
      /\ DOMAIN Tail(s) = 1 .. Len(s) - 1 /\ DOMAIN s = 1 .. Len(s)
      /\ Len(s) \in Nat
      /\ \A i \in DOMAIN Tail(s) : Tail(s)[i] = s[i + 1]
  OBVIOUS
<1>2. ToSet(s) = ToSet(Tail(s)) \cup {Head(s)}
  <2>1. \A i \in DOMAIN s : i # 1 => i - 1 \in DOMAIN Tail(s)
                                     /\ s[i] = Tail(s)[i - 1]
    BY <1>1
  <2>2. \A i \in DOMAIN Tail(s) : i + 1 \in DOMAIN s
    BY <1>1
  <2>3. ASSUME NEW i \in DOMAIN s
        PROVE  s[i] \in ToSet(Tail(s)) \cup {Head(s)}
    BY <1>1, <2>1, <2>3 DEF ToSet
  <2>4. ASSUME NEW i \in DOMAIN Tail(s)
        PROVE  Tail(s)[i] \in ToSet(s)
    BY <1>1, <2>2, <2>4 DEF ToSet
  <2>5. Head(s) \in ToSet(s)
    BY <1>1 DEF ToSet
  <2> QED
    BY <2>3, <2>4, <2>5 DEF ToSet
<1>3. ASSUME IsInjective(s)
      PROVE  IsInjective(Tail(s)) /\ Head(s) \notin ToSet(Tail(s))
  <2>1. ASSUME NEW i \in DOMAIN Tail(s), NEW k \in DOMAIN Tail(s),
               Tail(s)[i] = Tail(s)[k]
        PROVE  i = k
    <3>1. s[i + 1] = s[k + 1] /\ i + 1 \in DOMAIN s /\ k + 1 \in DOMAIN s
      <4>1. i \in 1 .. Len(s) - 1 /\ k \in 1 .. Len(s) - 1
        BY <1>1
      <4>2. i + 1 \in DOMAIN s /\ k + 1 \in DOMAIN s
        BY <1>1, <4>1
      <4> QED
        BY <1>1, <2>1, <4>2
    <3>2. i + 1 = k + 1
      BY <1>3, <3>1 DEF IsInjective
    <3> QED
      BY <1>1, <3>2
  <2>2. ASSUME NEW i \in DOMAIN Tail(s), Tail(s)[i] = Head(s)
        PROVE  FALSE
    <3>1. s[i + 1] = s[1] /\ i + 1 \in DOMAIN s
      BY <1>1, <2>2
    <3>2. i + 1 = 1
      BY <1>1, <1>3, <3>1 DEF IsInjective
    <3> QED
      BY <1>1, <3>2
  <2> QED
    BY <2>1, <2>2 DEF ToSet, IsInjective
<1>4. QED
  BY <1>1, <1>2, <1>3

LEMMA Concatenated ==
  ASSUME NEW S, NEW s \in Seq(S), NEW u \in Seq(S)
  PROVE  /\ s \o u \in Seq(S)
         /\ ToSet(s \o u) = ToSet(s) \cup ToSet(u)
         /\ IsInjective(s \o u) <=> /\ IsInjective(s) /\ IsInjective(u)
                                   /\ ToSet(s) \cap ToSet(u) = {}
<1>1. /\ s \o u \in Seq(S)
      /\ Len(s) \in Nat /\ Len(u) \in Nat
      /\ DOMAIN s = 1 .. Len(s) /\ DOMAIN u = 1 .. Len(u)
      /\ DOMAIN (s \o u) = 1 .. Len(s) + Len(u)
      /\ \A i \in DOMAIN s : (s \o u)[i] = s[i]
      /\ \A i \in DOMAIN u : (s \o u)[Len(s) + i] = u[i]
  OBVIOUS
<1> DEFINE c == s \o u
<1>2. \A i \in DOMAIN s : i \in DOMAIN c /\ c[i] = s[i]
  BY <1>1
<1>3. \A i \in DOMAIN u : Len(s) + i \in DOMAIN c /\ c[Len(s) + i] = u[i]
  BY <1>1
<1>4. ASSUME NEW i \in DOMAIN c, i \notin DOMAIN s
      PROVE  /\ i - Len(s) \in DOMAIN u
             /\ c[i] = u[i - Len(s)]
  <2>1. i - Len(s) \in DOMAIN u /\ Len(s) + (i - Len(s)) = i
    BY <1>1, <1>4
  <2> QED
    BY <1>3, <2>1
<1> HIDE DEF c
<1>5. ToSet(c) = ToSet(s) \cup ToSet(u)
  <2>1. ASSUME NEW i \in DOMAIN c PROVE c[i] \in ToSet(s) \cup ToSet(u)
    BY <1>2, <1>4 DEF ToSet
  <2>2. \A i \in DOMAIN s : s[i] \in ToSet(c)
    BY <1>2 DEF ToSet
  <2>3. \A i \in DOMAIN u : u[i] \in ToSet(c)
    BY <1>3 DEF ToSet
  <2> QED
    BY <2>1, <2>2, <2>3 DEF ToSet
<1>6. ASSUME IsInjective(c)
      PROVE  IsInjective(s) /\ IsInjective(u) /\ ToSet(s) \cap ToSet(u) = {}
  <2>1. IsInjective(s)
    BY <1>2, <1>6 DEF IsInjective
  <2>2. ASSUME NEW i \in DOMAIN u, NEW k \in DOMAIN u, u[i] = u[k] PROVE i = k
    <3>1. Len(s) + i = Len(s) + k
      BY <1>3, <1>6, <2>2 DEF IsInjective
    <3> QED
      BY <1>1, <3>1
  <2>3. ASSUME NEW i \in DOMAIN s, NEW k \in DOMAIN u, s[i] = u[k] PROVE FALSE
    <3>1. i = Len(s) + k
      BY <1>2, <1>3, <1>6, <2>3 DEF IsInjective
    <3> QED
      BY <1>1, <3>1
  <2> QED
    BY <2>1, <2>2, <2>3 DEF ToSet, IsInjective
<1>7. ASSUME IsInjective(s), IsInjective(u), ToSet(s) \cap ToSet(u) = {}
      PROVE  IsInjective(c)
  <2>1. ASSUME NEW i \in DOMAIN c, NEW k \in DOMAIN c, c[i] = c[k] PROVE i = k
    <3>1. CASE i \in DOMAIN s /\ k \in DOMAIN s
      BY <1>2, <1>7, <2>1, <3>1 DEF IsInjective
    <3>2. CASE i \notin DOMAIN s /\ k \notin DOMAIN s
      <4>1. i - Len(s) = k - Len(s)
        BY <1>4, <1>7, <2>1, <3>2 DEF IsInjective
      <4>2. i \in Int /\ k \in Int
        BY <1>1, <2>1 DEF c
      <4> QED
        BY <1>1, <4>1, <4>2
    <3>3. CASE i \in DOMAIN s /\ k \notin DOMAIN s
      <4>1. c[i] \in ToSet(s) /\ c[k] \in ToSet(u)
        BY <1>2, <1>4, <2>1, <3>3 DEF ToSet
      <4> QED
        BY <1>7, <2>1, <4>1
    <3>4. CASE i \notin DOMAIN s /\ k \in DOMAIN s
      <4>1. c[i] \in ToSet(u) /\ c[k] \in ToSet(s)
        BY <1>2, <1>4, <2>1, <3>4 DEF ToSet
      <4> QED
        BY <1>7, <2>1, <4>1
    <3> QED
      BY <3>1, <3>2, <3>3, <3>4
  <2> QED
    BY <2>1 DEF IsInjective
<1>8. QED
  BY <1>1, <1>5, <1>6, <1>7 DEF c

LEMMA NothingListed == ToSet(<<>>) = {} /\ IsInjective(<<>>)
BY DEF ToSet, IsInjective

(* Fewer jobs than threads are open when a thread has none. *)
LEMMA FewerJobs ==
  ASSUME NEW n \in Nat, NEW S \in SUBSET (1 .. n), NEW h \in 1 .. n,
         h \notin S, NEW T, NEW f \in Surjection(S, T)
  PROVE  IsFiniteSet(T) /\ Cardinality(T) < n
<1>1. IsFiniteSet(1 .. n) /\ Cardinality(1 .. n) = n
  BY FS_Interval
<1>2. /\ IsFiniteSet((1 .. n) \ {h})
      /\ Cardinality((1 .. n) \ {h}) = n - 1
  BY <1>1, FS_RemoveElement
<1>3. S \in SUBSET ((1 .. n) \ {h})
  OBVIOUS
<1>4. IsFiniteSet(S) /\ Cardinality(S) <= n - 1 /\ Cardinality(S) \in Nat
  <2>1. IsFiniteSet(S) /\ Cardinality(S) <= Cardinality((1 .. n) \ {h})
    BY <1>2, <1>3, FS_Subset
  <2>2. Cardinality(S) \in Nat
    BY <2>1, FS_CardinalityType
  <2>3. QED
    BY <1>2, <2>1, <2>2
<1>5. IsFiniteSet(T) /\ Cardinality(T) <= Cardinality(S)
  BY <1>4, FS_Surjection
<1>6. Cardinality(T) \in Nat
  BY <1>5, FS_CardinalityType
<1>7. QED
  BY <1>4, <1>5, <1>6
=============================================================================
