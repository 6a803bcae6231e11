--------------------------- MODULE SequenceLemmas ---------------------------
(***************************************************************************)
(* What the proofs need of sequences, whatever they hold: appending,       *)
(* cutting, joining and flattening, and their sets of members.             *)
(***************************************************************************)
EXTENDS SequencesExt, WellFoundedInduction, SequenceTheorems, TLAPS

LEMMA LeastNumber ==
    ASSUME NEW T, T \subseteq Nat, T # {}
    PROVE  \E x \in T : \A y \in T : x <= y
<1>1. \E x \in T : \A y \in T : <<y, x>> \notin OpToRel(<, Nat)
  BY NatLessThanWellFounded, WFMin, Zenon
<1>2. PICK x \in T : \A y \in T : <<y, x>> \notin OpToRel(<, Nat)
  BY <1>1
<1>3. ASSUME NEW y \in T
      PROVE  x <= y
  <2>1. ~(y < x)
    BY <1>2 DEF OpToRel
  <2>. QED  BY <2>1
<1>. QED  BY <1>3

LEMMA FunctionIsSeq ==
    ASSUME NEW n \in Nat, NEW S, NEW f \in [1..n -> S] PROVE f \in Seq(S) /\ Len(f) = n
OBVIOUS

-----------------------------------------------------------------------------
(* Appending and cutting *)

LEMMA AppendIs ==
    ASSUME NEW S, NEW q \in Seq(S), NEW e \in S
    PROVE  /\ Append(q, e) \in Seq(S) /\ Len(Append(q, e)) = Len(q) + 1
           /\ \A i \in 1..Len(q) : Append(q, e)[i] = q[i]
           /\ Append(q, e)[Len(q) + 1] = e
  OBVIOUS

LEMMA LastOfAppend ==
    ASSUME NEW S, NEW q \in Seq(S), NEW e \in S
    PROVE  /\ Append(q, e) \in Seq(S) /\ Append(q, e) # <<>>
           /\ Append(q, e)[Len(Append(q, e))] = e
<1>1. /\ Append(q, e) \in Seq(S) /\ Len(Append(q, e)) = Len(q) + 1
      /\ Append(q, e)[Len(q) + 1] = e
  OBVIOUS
<1>2. Len(q) + 1 # 0 /\ Len(<<>>) = 0
  OBVIOUS
<1>. QED  BY <1>1, <1>2

LEMMA RestOfSequence ==
    ASSUME NEW S, NEW q \in Seq(S), q # <<>>
    PROVE  /\ Head(q) \in S /\ Tail(q) \in Seq(S)
           /\ Tail(q) = <<>> => Head(q) = q[Len(q)]
           /\ Tail(q) # <<>> => Tail(q)[Len(Tail(q))] = q[Len(q)]
<1>1. Head(q) = q[1] /\ Head(q) \in S /\ Tail(q) \in Seq(S)
  OBVIOUS
<1>2. Len(Tail(q)) = Len(q) - 1 /\ Len(q) \in Nat \ {0}
  OBVIOUS
<1>3. Tail(q) = <<>> <=> Len(Tail(q)) = 0
  BY <1>1, EmptySeq
<1>4. \A i \in 1..(Len(q) - 1) : Tail(q)[i] = q[i + 1]
  OBVIOUS
<1>5. ASSUME Tail(q) # <<>>
      PROVE  Tail(q)[Len(Tail(q))] = q[Len(q)]
  <2>1. Len(q) - 1 \in 1..(Len(q) - 1) /\ Len(q) - 1 + 1 = Len(q)
    BY <1>2, <1>3, <1>5
  <2>. QED  BY <1>2, <1>4, <2>1
<1>6. Tail(q) = <<>> => Len(q) = 1
  BY <1>2, <1>3
<1>. QED  BY <1>1, <1>5, <1>6

-----------------------------------------------------------------------------
(* Members of sequences *)

LEMMA SetWithin == ASSUME NEW S, NEW ts \in Seq(S) PROVE ToSet(ts) \subseteq S
BY DEF ToSet

LEMMA SetOfJoin ==
    ASSUME NEW X, NEW r \in Seq(X), NEW s \in Seq(X)
    PROVE  r \o s \in Seq(X) /\ ToSet(r \o s) = ToSet(r) \cup ToSet(s)
<1>1. /\ r \o s \in Seq(X) /\ Len(r) \in Nat /\ Len(s) \in Nat
      /\ DOMAIN r = 1..Len(r) /\ DOMAIN s = 1..Len(s) /\ DOMAIN (r \o s) = 1..Len(r) + Len(s)
      /\ \A i \in 1..Len(r) + Len(s) :
            (r \o s)[i] = IF i <= Len(r) THEN r[i] ELSE s[i - Len(r)]
  OBVIOUS
<1>2. ASSUME NEW i \in 1..Len(r) PROVE i \in 1..Len(r) + Len(s) /\ (r \o s)[i] = r[i]
  BY <1>1
<1>3. ASSUME NEW i \in 1..Len(s)
      PROVE  Len(r) + i \in 1..Len(r) + Len(s) /\ (r \o s)[Len(r) + i] = s[i]
  <2>1. Len(r) + i \in 1..Len(r) + Len(s) /\ ~(Len(r) + i <= Len(r)) /\ Len(r) + i - Len(r) = i
    BY <1>1
  <2> QED BY <1>1, <2>1
<1>4. ASSUME NEW i \in 1..Len(r) + Len(s) PROVE (r \o s)[i] \in ToSet(r) \cup ToSet(s)
  <2>1. CASE i <= Len(r)
    BY <1>1, <2>1 DEF ToSet
  <2>2. CASE ~(i <= Len(r))
    <3>1. i - Len(r) \in 1..Len(s)
      BY <1>1, <2>2
    <3> QED BY <1>1, <2>2, <3>1 DEF ToSet
  <2> QED BY <2>1, <2>2
<1>5. /\ ToSet(r) = {r[i] : i \in 1..Len(r)} /\ ToSet(s) = {s[i] : i \in 1..Len(s)}
      /\ ToSet(r \o s) = {(r \o s)[i] : i \in 1..Len(r) + Len(s)}
  BY <1>1 DEF ToSet
<1>6. \A x \in ToSet(r) : x \in ToSet(r \o s)
  BY <1>2, <1>5
<1>7. \A x \in ToSet(s) : x \in ToSet(r \o s)
  BY <1>3, <1>5
<1>8. \A x \in ToSet(r \o s) : x \in ToSet(r) \cup ToSet(s)
  BY <1>4, <1>5
<1> QED BY <1>1, <1>6, <1>7, <1>8

LEMMA SetOfRest ==
    ASSUME NEW X, NEW s \in Seq(X), s # <<>>
    PROVE  /\ Tail(s) \in Seq(X) /\ Head(s) \in X
           /\ ToSet(s) = {Head(s)} \cup ToSet(Tail(s))
<1>1. /\ Len(s) \in Nat /\ Len(s) > 0 /\ DOMAIN s = 1..Len(s) /\ Head(s) = s[1]
      /\ Tail(s) \in Seq(X) /\ DOMAIN Tail(s) = 1..Len(s) - 1
      /\ \A i \in 1..Len(s) - 1 : Tail(s)[i] = s[i + 1]
  OBVIOUS
<1>2. ASSUME NEW i \in 1..Len(s), i # 1 PROVE i - 1 \in 1..Len(s) - 1 /\ Tail(s)[i - 1] = s[i]
  <2>1. i - 1 \in 1..Len(s) - 1 /\ i - 1 + 1 = i
    BY <1>1, <1>2
  <2> QED BY <1>1, <2>1
<1>3. \A i \in 1..Len(s) - 1 : i + 1 \in 1..Len(s)
  BY <1>1
<1>4. 1 \in 1..Len(s) /\ s[1] \in X
  BY <1>1
<1>5. ToSet(s) = {s[i] : i \in 1..Len(s)} /\ ToSet(Tail(s)) = {Tail(s)[i] : i \in 1..Len(s) - 1}
  BY <1>1 DEF ToSet
<1>6. \A x \in ToSet(s) : x \in {Head(s)} \cup ToSet(Tail(s))
  BY <1>1, <1>2, <1>5
<1>7. \A x \in ToSet(Tail(s)) : x \in ToSet(s)
  BY <1>1, <1>3, <1>5
<1>8. Head(s) \in ToSet(s) /\ Head(s) \in X
  BY <1>1, <1>4, <1>5
<1> QED BY <1>1, <1>6, <1>7, <1>8

LEMMA SetOfEmpty == ToSet(<<>>) = {}
BY DEF ToSet

LEMMA SetOfOne == ASSUME NEW x PROVE ToSet(<<x>>) = {x}
BY DEF ToSet

LEMMA SetOfAppend ==
    ASSUME NEW X, NEW s \in Seq(X), NEW x \in X
    PROVE  Append(s, x) \in Seq(X) /\ ToSet(Append(s, x)) = ToSet(s) \cup {x}
<1>1. /\ Len(s) \in Nat /\ DOMAIN s = 1..Len(s) /\ DOMAIN Append(s, x) = 1..Len(s) + 1
      /\ Append(s, x)[Len(s) + 1] = x /\ Append(s, x) \in Seq(X)
      /\ \A i \in 1..Len(s) : Append(s, x)[i] = s[i]
  OBVIOUS
<1>2. \A i \in 1..Len(s) + 1 : i \in 1..Len(s) \/ i = Len(s) + 1
  BY <1>1
<1>3. \A i \in 1..Len(s) : i \in 1..Len(s) + 1
  BY <1>1
<1>4. Len(s) + 1 \in 1..Len(s) + 1
  BY <1>1
<1> QED BY <1>1, <1>2, <1>3, <1>4 DEF ToSet

-----------------------------------------------------------------------------
(* Flattening *)

\* The function that FlattenSeq recurs through.
Flattens(f, ss) ==
    f = [i \in 1..Len(ss) |-> IF i = 1 THEN ss[i] ELSE f[i - 1] \o ss[i]]

\* There is one for every sequence of sequences.
LEMMA FlattensSome ==
    ASSUME NEW X, NEW ss \in Seq(X)
    PROVE  \E f : Flattens(f, ss)
<1> DEFINE Upto(f, n) == f = [i \in 1..n |-> IF i = 1 THEN ss[i] ELSE f[i - 1] \o ss[i]]
           Bad == {n \in Nat : ~\E f : Upto(f, n)}
<1>1. SUFFICES Bad = {}
  <2>1. Len(ss) \in Nat
    OBVIOUS
  <2> QED BY <1>1, <2>1 DEF Flattens
<1>2. Bad # {} => \E n \in Bad : \A k \in Bad : n <= k
  BY LeastNumber
<1>3. \E f : Upto(f, 0)
  <2>1. Upto([i \in 1..0 |-> <<>>], 0)
    OBVIOUS
  <2> QED BY <2>1
<1>4. ASSUME NEW n \in Nat, NEW f, Upto(f, n) PROVE \E g : Upto(g, n + 1)
  <2> DEFINE g == [i \in 1..n + 1 |->
                      IF i = n + 1 THEN IF i = 1 THEN ss[i] ELSE f[i - 1] \o ss[i] ELSE f[i]]
  <2>1. ASSUME NEW i \in 1..n + 1
        PROVE  g[i] = IF i = 1 THEN ss[i] ELSE g[i - 1] \o ss[i]
    <3>1. CASE i = n + 1 /\ i = 1
      BY <3>1
    <3>2. CASE i = n + 1 /\ i # 1
      <4>1. i - 1 \in 1..n + 1 /\ i - 1 # n + 1 /\ i - 1 = n
        BY <3>2
      <4> QED BY <3>2, <4>1
    <3>3. CASE i # n + 1 /\ i = 1
      <4>1. i \in 1..n
        BY <3>3
      <4>2. f[i] = ss[i]
        BY <1>4, <3>3, <4>1
      <4> QED BY <3>3, <4>2
    <3>4. CASE i # n + 1 /\ i # 1
      <4>1. i \in 1..n /\ i - 1 \in 1..n + 1 /\ i - 1 # n + 1
        BY <3>4
      <4>2. f[i] = f[i - 1] \o ss[i]
        BY <1>4, <3>4, <4>1
      <4> QED BY <3>4, <4>1, <4>2
    <3> QED BY <3>1, <3>2, <3>3, <3>4
  <2>2. Upto(g, n + 1)
    BY <2>1
  <2> QED BY <2>2
<1>5. ASSUME NEW n \in Bad, \A k \in Bad : n <= k PROVE FALSE
  <2>1. n \in Nat /\ n # 0
    BY <1>3
  <2>2. n - 1 \in Nat /\ n - 1 \notin Bad
    <3>1. n - 1 \in Nat /\ ~(n <= n - 1)
      BY <2>1
    <3> QED BY <1>5, <3>1
  <2>3. PICK f : Upto(f, n - 1)
    BY <2>2
  <2>4. \E g : Upto(g, n - 1 + 1)
    BY <2>2, <2>3, <1>4
  <2>5. n - 1 + 1 = n
    BY <2>1
  <2> QED BY <2>4, <2>5
<1> QED BY <1>2, <1>5

\* Flattening keeps the members of the members, and no others.
LEMMA SetOfFlatten ==
    ASSUME NEW X, NEW ss \in Seq(Seq(X))
    PROVE  /\ FlattenSeq(ss) \in Seq(X)
           /\ ToSet(FlattenSeq(ss)) = UNION {ToSet(ss[i]) : i \in 1..Len(ss)}
           /\ Len(ss) = 1 => FlattenSeq(ss) = ss[1]
<1>1. Len(ss) \in Nat
  OBVIOUS
<1>2. CASE Len(ss) = 0
  <2>1. ss = <<>> /\ FlattenSeq(ss) = <<>>
    BY <1>2 DEF FlattenSeq
  <2>2. 1..Len(ss) = {}
    BY <1>2
  <2>3. <<>> \in Seq(X)
    OBVIOUS
  <2>4. UNION {ToSet(ss[i]) : i \in 1..Len(ss)} = {}
    BY <2>2
  <2>5. FlattenSeq(ss) \in Seq(X)
    BY <2>1, <2>3
  <2>6. ToSet(FlattenSeq(ss)) = {}
    <3>1. FlattenSeq(ss) = <<>>
      BY <2>1
    <3> QED BY <3>1, SetOfEmpty, Zenon
  <2>7. ~(Len(ss) = 1)
    BY <1>2
  <2> QED BY <2>4, <2>5, <2>6, <2>7
<1>3. CASE Len(ss) # 0
  <2> DEFINE f == CHOOSE f : Flattens(f, ss)
             Kept(n) == /\ f[n] \in Seq(X)
                        /\ ToSet(f[n]) = UNION {ToSet(ss[i]) : i \in 1..n}
             Bad == {n \in Nat : n \in 1..Len(ss) /\ ~Kept(n)}
  <2>1. Flattens(f, ss)
    BY FlattensSome
  <2>2. FlattenSeq(ss) = f[Len(ss)]
    BY <1>3 DEF FlattenSeq, Flattens
  <2> HIDE DEF f
  <2>3. \A i \in 1..Len(ss) : f[i] = IF i = 1 THEN ss[i] ELSE f[i - 1] \o ss[i]
    BY <2>1 DEF Flattens
  <2>4. ASSUME NEW n \in Bad, \A k \in Bad : n <= k PROVE FALSE
    <3>1. n \in 1..Len(ss) /\ ~Kept(n) /\ n \in Nat /\ ss[n] \in Seq(X)
      OBVIOUS
    <3>2. n # 1
      <4>1. ASSUME n = 1 PROVE Kept(n)
        <5>1. f[1] = ss[1] /\ 1..1 = {1} /\ 1 \in 1..Len(ss)
          BY <2>3, <3>1, <4>1
        <5> QED BY <3>1, <4>1, <5>1
      <4> QED BY <3>1, <4>1
    <3>3. n - 1 \in 1..Len(ss) /\ n - 1 \in Nat /\ ~(n <= n - 1)
      BY <3>1, <3>2
    <3>4. Kept(n - 1)
      BY <2>4, <3>3
    <3>5. f[n] = f[n - 1] \o ss[n]
      BY <2>3, <3>1, <3>2
    <3>6. 1..n = 1..(n - 1) \cup {n}
      BY <3>1, <3>3
    <3>7. f[n] \in Seq(X) /\ ToSet(f[n]) = ToSet(f[n - 1]) \cup ToSet(ss[n])
      BY <3>1, <3>4, <3>5, SetOfJoin
    <3>8. Kept(n)
      BY <3>4, <3>6, <3>7
    <3> QED BY <3>1, <3>8
  <2>5. Bad = {}
    BY <2>4, LeastNumber
  <2>6. Len(ss) \in 1..Len(ss)
    BY <1>1, <1>3
  <2>7. Kept(Len(ss))
    BY <1>1, <2>5, <2>6
  <2>8. Len(ss) = 1 => f[Len(ss)] = ss[1]
    BY <2>3, <2>6
  <2> QED BY <2>2, <2>7, <2>8
<1> QED BY <1>2, <1>3
=============================================================================
