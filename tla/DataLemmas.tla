------------------------------- MODULE DataLemmas -------------------------------
(***************************************************************************)
(* Facts about numbers, sequences and sums the proofs of the components    *)
(* share: induction over a set of numbers, what FlattenSeq yields, what    *)
(* SumFunction yields.  The induction theorems of the library take an      *)
(* operator; these take a set, which the provers can instantiate.          *)
(***************************************************************************)
EXTENDS Integers, SequencesExt, FiniteSetTheorems, SequenceTheorems, TLAPS

(* Smaller ones of a set of numbers; a least number has none. *)
Below(x, S) == {y \in S : y < x}

LEMMA LeastExists ==
  ASSUME NEW S \in SUBSET Nat, S # {}
  PROVE  Min(S) \in S /\ \A y \in S : Min(S) <= y
<1> DEFINE T == {Below(x, S) : x \in S}
<1>1. ASSUME NEW x \in S PROVE Below(x, S) \in FiniteSubsetsOf(Nat)
  <2>1. IsFiniteSet(0 .. x)
    BY FS_Interval
  <2>2. Below(x, S) \in SUBSET (0 .. x)
    <3>1. x \in Nat /\ \A y \in S : y \in Nat
      OBVIOUS
    <3>2. \A y \in S : y < x => y \in 0 .. x
      BY <3>1
    <3> QED
      BY <3>2 DEF Below
  <2>3. IsFiniteSet(Below(x, S))
    BY <2>1, <2>2, FS_Subset
  <2> QED
    BY <2>3 DEF FiniteSubsetsOf, Below
<1>2. T \subseteq FiniteSubsetsOf(Nat) /\ T # {}
  BY <1>1
<1>3. IsWellFoundedOn(StrictSubsetOrdering(Nat), FiniteSubsetsOf(Nat))
  BY FS_StrictSubsetOrderingWellFounded
<1> HIDE DEF T
<1>4. PICK B \in T : \A C \in T : ~ (<<C, B>> \in StrictSubsetOrdering(Nat))
  BY <1>2, <1>3, WFMin
<1>5. PICK x \in S : B = Below(x, S)
  BY <1>4 DEF T
<1>6. ASSUME NEW y \in S, y < x PROVE FALSE
  <2>1. Below(y, S) \in T
    BY DEF T
  <2>2. Below(y, S) \subseteq B /\ y \in B /\ y \notin Below(y, S)
    <3>1. \A z \in S : z < y => z < x
      BY <1>6
    <3>2. ~ (y < y)
      BY <1>6
    <3> QED
      BY <1>5, <1>6, <3>1, <3>2 DEF Below
  <2>3. Below(y, S) \in SUBSET Nat /\ B \in SUBSET Nat /\ Below(y, S) # B
    BY <2>2, <1>5 DEF Below
  <2>4. <<Below(y, S), B>> \in StrictSubsetOrdering(Nat)
    BY <2>2, <2>3 DEF StrictSubsetOrdering
  <2> QED
    BY <1>4, <2>1, <2>4
<1>7. \A y \in S : x <= y
  BY <1>6
<1> QED
  BY <1>7 DEF Min

(* Induction over the numbers of which something holds, given as a set. *)
LEMMA Induction ==
  ASSUME NEW P, 0 \in P, \A n \in Nat : n \in P => n + 1 \in P
  PROVE  \A n \in Nat : n \in P
<1> SUFFICES ASSUME Nat \ P # {} PROVE FALSE
  OBVIOUS
<1>1. /\ Min(Nat \ P) \in Nat \ P
      /\ \A y \in Nat \ P : Min(Nat \ P) <= y
  BY LeastExists
<1>2. PICK m \in Nat \ P : \A y \in Nat \ P : m <= y
  BY <1>1
<1>3. m # 0 /\ m - 1 \in Nat /\ ~ (m <= m - 1)
  BY <1>2
<1>4. m - 1 \in P
  BY <1>2, <1>3
<1>5. (m - 1) + 1 = m
  BY <1>3
<1> QED
  BY <1>3, <1>4, <1>5

-----------------------------------------------------------------------------
(* Elements of a concatenation. *)
LEMMA ConcatAt ==
  ASSUME NEW S, NEW s \in Seq(S), NEW t \in Seq(S)
  PROVE  /\ s \o t \in Seq(S) /\ Len(s \o t) = Len(s) + Len(t)
         /\ \A k \in 1 .. Len(s) : (s \o t)[k] = s[k]
         /\ \A k \in 1 .. Len(t) : (s \o t)[Len(s) + k] = t[k]
<1>1. Len(s) \in Nat /\ Len(t) \in Nat
  BY LenProperties
<1>2. /\ s \o t \in Seq(S) /\ Len(s \o t) = Len(s) + Len(t)
      /\ \A k \in 1 .. Len(s) + Len(t) : (s \o t)[k] = IF k <= Len(s) THEN s[k] ELSE t[k - Len(s)]
  BY ConcatProperties
<1>3. \A k \in 1 .. Len(s) : k \in 1 .. Len(s) + Len(t) /\ k <= Len(s)
  BY <1>1
<1>4. \A k \in 1 .. Len(t) : /\ Len(s) + k \in 1 .. Len(s) + Len(t)
                             /\ ~ (Len(s) + k <= Len(s)) /\ (Len(s) + k) - Len(s) = k
  BY <1>1
<1> QED
  BY <1>1, <1>2, <1>3, <1>4

LEMMA AppendToOne ==
  ASSUME NEW S, NEW x \in S, NEW y \in S
  PROVE  Append(<<x>>, y) = <<x, y>> /\ <<x>> \o <<y>> = <<x, y>>
<1>1. <<x>> \in Seq(S) /\ <<x, y>> \in Seq(S) /\ Len(<<x>>) = 1 /\ Len(<<x, y>>) = 2
  OBVIOUS
<1> DEFINE s == Append(<<x>>, y)
           t == <<x, y>>
<1>2. s \in Seq(S) /\ Len(s) = 2 /\ s[1] = x /\ s[2] = y
  OBVIOUS
<1>3. t \in Seq(S) /\ Len(t) = 2 /\ t[1] = x /\ t[2] = y
  OBVIOUS
<1>4. \A k \in 1 .. 2 : k = 1 \/ k = 2
  OBVIOUS
<1> HIDE DEF s, t
<1>5. \A k \in 1 .. Len(s) : s[k] = t[k]
  BY <1>2, <1>3, <1>4
<1>6. s = t
  BY <1>2, <1>3, <1>5, SeqEqual
<1> QED
  BY <1>1, <1>6, AppendIsConcat DEF s, t

-----------------------------------------------------------------------------
(* The function FlattenSeq takes its result from exists, and is what its   *)
(* equation says.                                                          *)
Flattens(f, ss, n) ==
  f = [i \in 1 .. n |-> IF i = 1 THEN ss[i] ELSE f[i - 1] \o ss[i]]

LEMMA FlattenFunction ==
  ASSUME NEW ss
  PROVE  \A n \in Nat : \E f : Flattens(f, ss, n)
<1> DEFINE P == {n \in Nat : \E f : Flattens(f, ss, n)}
<1>1. 0 \in P
  <2> DEFINE f == [i \in 1 .. 0 |-> <<>>]
  <2>1. f = [i \in 1 .. 0 |-> IF i = 1 THEN ss[i] ELSE f[i - 1] \o ss[i]]
    OBVIOUS
  <2> QED
    BY <2>1 DEF Flattens
<1>2. ASSUME NEW n \in Nat, n \in P PROVE n + 1 \in P
  <2>1. PICK f : Flattens(f, ss, n)
    BY <1>2
  <2> DEFINE g == [i \in 1 .. n + 1 |->
                     IF i <= n THEN f[i] ELSE IF i = 1 THEN ss[i] ELSE f[n] \o ss[i]]
  <2>2. ASSUME NEW i \in 1 .. n + 1
        PROVE  g[i] = IF i = 1 THEN ss[i] ELSE g[i - 1] \o ss[i]
    <3>1. CASE i <= n
      <4>1. i \in 1 .. n /\ (i # 1 => i - 1 \in 1 .. n)
        BY <3>1
      <4>2. f[i] = IF i = 1 THEN ss[i] ELSE f[i - 1] \o ss[i]
        BY <2>1, <4>1 DEF Flattens
      <4> QED
        BY <3>1, <4>1, <4>2
    <3>2. CASE i = n + 1
      BY <3>2
    <3> QED
      BY <3>1, <3>2
  <2>3. g = [i \in 1 .. n + 1 |-> IF i = 1 THEN ss[i] ELSE g[i - 1] \o ss[i]]
    <3> DEFINE h == [i \in 1 .. n + 1 |-> IF i = 1 THEN ss[i] ELSE g[i - 1] \o ss[i]]
    <3>1. DOMAIN h = 1 .. n + 1 /\ DOMAIN g = 1 .. n + 1 /\ \A i \in 1 .. n + 1 : g[i] = h[i]
      BY <2>2
    <3> HIDE DEF h
    <3>2. g = [i \in 1 .. n + 1 |-> g[i]] /\ h = [i \in 1 .. n + 1 |-> h[i]]
      BY DEF h
    <3>3. g = h
      BY <3>1, <3>2
    <3> QED
      BY <3>3 DEF h
  <2> HIDE DEF g
  <2>4. Flattens(g, ss, n + 1)
    BY <2>3 DEF Flattens
  <2> QED
    BY <2>4
<1> HIDE DEF P
<1>3. \A n \in Nat : n \in P
  BY <1>1, <1>2, Induction
<1> QED
  BY <1>3 DEF P

LEMMA FlattenFunctionUnique ==
  ASSUME NEW ss, NEW tt, NEW m \in Nat, NEW n \in Nat, m <= n,
         \A i \in 1 .. m : ss[i] = tt[i],
         NEW f, Flattens(f, ss, m), NEW g, Flattens(g, tt, n)
  PROVE  \A i \in 1 .. m : f[i] = g[i]
<1> DEFINE P == {k \in Nat : k \in 1 .. m => f[k] = g[k]}
<1>1. 0 \in P
  OBVIOUS
<1>2. ASSUME NEW k \in Nat, k \in P PROVE k + 1 \in P
  <2>1. CASE k + 1 \in 1 .. m
    <3>1. k + 1 \in 1 .. n /\ ss[k + 1] = tt[k + 1] /\ (k + 1 # 1 => k \in 1 .. m) /\ (k + 1) - 1 = k
      BY <2>1
    <3>2. f[k + 1] = IF k + 1 = 1 THEN ss[k + 1] ELSE f[(k + 1) - 1] \o ss[k + 1]
      BY <2>1 DEF Flattens
    <3>3. g[k + 1] = IF k + 1 = 1 THEN tt[k + 1] ELSE g[(k + 1) - 1] \o tt[k + 1]
      BY <3>1 DEF Flattens
    <3> QED
      BY <1>2, <3>1, <3>2, <3>3
  <2> QED
    BY <2>1
<1> HIDE DEF P
<1>3. \A k \in Nat : k \in P
  BY <1>1, <1>2, Induction
<1> QED
  BY <1>3 DEF P

(* FlattenSeq is the last value of any such function. *)
LEMMA FlattenIsLast ==
  ASSUME NEW ss, Len(ss) \in Nat \ {0}, NEW f, Flattens(f, ss, Len(ss))
  PROVE  FlattenSeq(ss) = f[Len(ss)]
<1> DEFINE g == CHOOSE h : h = [i \in 1 .. Len(ss) |-> IF i = 1 THEN ss[i] ELSE h[i - 1] \o ss[i]]
<1>1. Flattens(g, ss, Len(ss))
  BY FlattenFunction DEF Flattens
<1>2. FlattenSeq(ss) = g[Len(ss)]
  BY DEF FlattenSeq
<1> HIDE DEF g
<1>3. Len(ss) \in 1 .. Len(ss)
  OBVIOUS
<1> QED
  BY <1>1, <1>2, <1>3, FlattenFunctionUnique

LEMMA FlattenEmpty == FlattenSeq(<<>>) = <<>>
BY DEF FlattenSeq

LEMMA FlattenAppendFirst ==
  ASSUME NEW S, NEW s \in Seq(S)
  PROVE  FlattenSeq(Append(<<>>, s)) = s
<1> DEFINE ss == Append(<<>>, s)
<1>1. Len(ss) = 1 /\ ss[1] = s
  OBVIOUS
<1>2. PICK f : Flattens(f, ss, 1)
  BY FlattenFunction
<1> HIDE DEF ss
<1>3. f[1] = ss[1]
  BY <1>2 DEF Flattens
<1>4. Flattens(f, ss, Len(ss)) /\ Len(ss) \in Nat \ {0}
  BY <1>1, <1>2
<1>5. FlattenSeq(ss) = f[1]
  BY <1>1, <1>4, FlattenIsLast
<1>6. FlattenSeq(ss) = s
  BY <1>1, <1>3, <1>5
<1> QED
  BY <1>6 DEF ss

LEMMA FlattenAppendLater ==
  ASSUME NEW S, NEW ss \in Seq(S), Len(ss) > 0, NEW s \in S
  PROVE  FlattenSeq(Append(ss, s)) = FlattenSeq(ss) \o s
<1> DEFINE tt == Append(ss, s)
           n == Len(ss)
<1>1. /\ n \in Nat \ {0} /\ Len(tt) = n + 1 /\ tt[n + 1] = s
      /\ \A i \in 1 .. n : ss[i] = tt[i]
  OBVIOUS
<1> HIDE DEF tt
<1>2. PICK f : Flattens(f, ss, n)
  BY <1>1, FlattenFunction
<1>3. PICK g : Flattens(g, tt, n + 1)
  <2>1. n + 1 \in Nat
    BY <1>1
  <2> QED
    BY <2>1, FlattenFunction
<1>4. g[n + 1] = g[n] \o tt[n + 1]
  <2>1. n + 1 \in 1 .. n + 1 /\ n + 1 # 1 /\ (n + 1) - 1 = n
    BY <1>1
  <2> QED
    BY <1>3, <2>1 DEF Flattens
<1> HIDE DEF n
<1>5. n \in 1 .. n /\ n <= n + 1 /\ n + 1 \in Nat
  BY <1>1
<1>6. f[n] = g[n]
  BY <1>1, <1>2, <1>3, <1>5, FlattenFunctionUnique
<1>7. FlattenSeq(ss) = f[n]
  BY <1>1, <1>2, FlattenIsLast DEF n
<1>8. FlattenSeq(tt) = g[n + 1]
  BY <1>1, <1>3, <1>5, FlattenIsLast
<1> QED
  BY <1>1, <1>4, <1>6, <1>7, <1>8 DEF tt

(* Flattening appends, and stays within the elements it was given. *)
LEMMA FlattenAppend ==
  ASSUME NEW S, NEW ss \in Seq(Seq(S)), NEW s \in Seq(S), FlattenSeq(ss) \in Seq(S)
  PROVE  /\ FlattenSeq(Append(ss, s)) = FlattenSeq(ss) \o s
         /\ FlattenSeq(Append(ss, s)) \in Seq(S)
<1> DEFINE T == Seq(S)
<1>1. CASE ss = <<>>
  <2>1. FlattenSeq(Append(<<>>, s)) = s
    BY FlattenAppendFirst
  <2> QED
    BY <1>1, <2>1, FlattenEmpty, ConcatEmptySeq
<1>2. CASE ss # <<>>
  <2>1. ss \in Seq(T) /\ s \in T
    OBVIOUS
  <2> HIDE DEF T
  <2>2. Len(ss) > 0
    BY <1>2, <2>1, EmptySeq
  <2>3. FlattenSeq(Append(ss, s)) = FlattenSeq(ss) \o s
    BY <2>1, <2>2, FlattenAppendLater
  <2> QED
    BY <2>3, ConcatProperties
<1> QED
  BY <1>1, <1>2

LEMMA FlattenType ==
  ASSUME NEW S, NEW ss \in Seq(Seq(S))
  PROVE  FlattenSeq(ss) \in Seq(S)
<1> DEFINE T == Seq(S)
           P == {n \in Nat : \A tt \in Seq(T) : Len(tt) = n => FlattenSeq(tt) \in T}
<1>1. 0 \in P
  <2>1. <<>> \in T
    OBVIOUS
  <2> HIDE DEF T
  <2>2. \A tt \in Seq(T) : Len(tt) = 0 => tt = <<>>
    BY EmptySeq
  <2> QED
    BY <2>1, <2>2, FlattenEmpty
<1>2. ASSUME NEW n \in Nat, n \in P PROVE n + 1 \in P
  <2> SUFFICES ASSUME NEW tt \in Seq(T), Len(tt) = n + 1 PROVE FlattenSeq(tt) \in T
    OBVIOUS
  <2>1. PICK uu \in Seq(T), u \in T : tt = Append(uu, u)
    <3> HIDE DEF T
    <3>1. tt # <<>>
      <4>1. Len(tt) # 0
        OBVIOUS
      <4> QED
        BY <4>1, EmptySeq
    <3> QED
      BY <3>1, SequenceEmptyOrAppend
  <2>2. Len(uu) = n
    <3> HIDE DEF T
    <3>1. Len(Append(uu, u)) = Len(uu) + 1 /\ Len(uu) \in Nat
      BY AppendProperties, LenProperties
    <3> QED
      BY <2>1, <3>1
  <2>3. FlattenSeq(uu) \in T
    BY <1>2, <2>2
  <2> QED
    BY <2>1, <2>3, FlattenAppend
<1> HIDE DEF P
<1>3. \A n \in Nat : n \in P
  BY <1>1, <1>2, Induction
<1>4. Len(ss) \in Nat
  BY LenProperties
<1> QED
  BY <1>3, <1>4 DEF P

-----------------------------------------------------------------------------
(* What is flattened up to the i-th of the sequences. *)
FlattenTo(F, i) == FlattenSeq([j \in 1 .. i |-> F[j]])

LEMMA FlattenToStep ==
  ASSUME NEW S, NEW F \in Seq(Seq(S))
  PROVE  /\ FlattenTo(F, 0) = <<>> /\ FlattenTo(F, Len(F)) = FlattenSeq(F)
         /\ \A i \in 0 .. Len(F) : FlattenTo(F, i) \in Seq(S)
         /\ \A i \in 0 .. Len(F) - 1 : FlattenTo(F, i + 1) = FlattenTo(F, i) \o F[i + 1]
<1> DEFINE T == Seq(S)
<1>1. F \in Seq(T) /\ Len(F) \in Nat
  OBVIOUS
<1> HIDE DEF T
<1>2. FlattenTo(F, 0) = <<>>
  <2>1. [j \in 1 .. 0 |-> F[j]] = <<>>
    OBVIOUS
  <2> QED
    BY <2>1, FlattenEmpty DEF FlattenTo
<1>3. [j \in 1 .. Len(F) |-> F[j]] = F
  BY <1>1
<1>4. ASSUME NEW i \in 0 .. Len(F) PROVE [j \in 1 .. i |-> F[j]] \in Seq(T)
  <2>1. \A j \in 1 .. i : F[j] \in T
    BY <1>1
  <2> QED
    BY <2>1
<1>5. ASSUME NEW i \in 0 .. Len(F) PROVE FlattenTo(F, i) \in Seq(S)
  BY <1>4, FlattenType DEF FlattenTo, T
<1>6. ASSUME NEW i \in 0 .. Len(F) - 1
      PROVE  FlattenTo(F, i + 1) = FlattenTo(F, i) \o F[i + 1]
  <2> DEFINE G == [j \in 1 .. i |-> F[j]]
             H == [j \in 1 .. i + 1 |-> F[j]]
  <2>1. i \in 0 .. Len(F) /\ i + 1 \in 0 .. Len(F) /\ i + 1 \in 1 .. Len(F)
    BY <1>1
  <2>2. G \in Seq(T) /\ H \in Seq(T) /\ F[i + 1] \in T
    BY <1>1, <1>4, <2>1
  <2>3. Len(G) = i /\ Len(H) = i + 1 /\ \A j \in 1 .. i : H[j] = G[j]
    OBVIOUS
  <2>4. H[i + 1] = F[i + 1]
    OBVIOUS
  <2> HIDE DEF G, H
  <2>5. Append(G, F[i + 1]) \in Seq(T) /\ Len(Append(G, F[i + 1])) = i + 1
        /\ \A j \in 1 .. i : Append(G, F[i + 1])[j] = G[j]
        /\ Append(G, F[i + 1])[i + 1] = F[i + 1]
    BY <2>2, <2>3, AppendProperties
  <2>6. \A j \in 1 .. i + 1 : j \in 1 .. i \/ j = i + 1
    OBVIOUS
  <2>7. H = Append(G, F[i + 1])
    BY <2>2, <2>3, <2>4, <2>5, <2>6, SeqEqual
  <2>8. FlattenSeq(G) \in Seq(S)
    BY <2>2, FlattenType DEF T
  <2>9. FlattenSeq(Append(G, F[i + 1])) = FlattenSeq(G) \o F[i + 1]
    BY <2>2, <2>8, FlattenAppend DEF T
  <2> QED
    BY <2>7, <2>9 DEF FlattenTo, G, H
<1> QED
  BY <1>2, <1>3, <1>5, <1>6 DEF FlattenTo

-----------------------------------------------------------------------------
(* Beginnings of sequences. *)
LEMMA PrefixByElement ==
  ASSUME NEW S, NEW s \in Seq(S), NEW t \in Seq(S)
  PROVE  IsPrefix(s, t) <=> Len(s) <= Len(t) /\ \A k \in 1 .. Len(s) : s[k] = t[k]
<1>1. Len(s) \in Nat /\ Len(t) \in Nat /\ SubSeq(s, 1, Len(s)) = s
  BY SubSeqFull, LenProperties
<1>2. ASSUME Len(s) <= Len(t)
      PROVE  s = SubSeq(t, 1, Len(s)) <=> \A k \in 1 .. Len(s) : s[k] = t[k]
  <2>1. \A k \in 1 .. Len(s) : t[k] \in S
    BY <1>1, <1>2, ElementOfSeq
  <2>2. /\ SubSeq(t, 1, Len(s)) \in Seq(S) /\ Len(SubSeq(t, 1, Len(s))) = Len(s)
        /\ \A k \in 1 .. Len(s) : SubSeq(t, 1, Len(s))[k] = t[k]
    <3>1. /\ SubSeq(t, 1, Len(s)) \in Seq(S)
          /\ Len(SubSeq(t, 1, Len(s))) = IF 1 <= Len(s) THEN Len(s) - 1 + 1 ELSE 0
          /\ \A k \in 1 .. Len(s) - 1 + 1 : SubSeq(t, 1, Len(s))[k] = t[1 + k - 1]
      BY <1>1, <2>1, SubSeqProperties
    <3>2. Len(s) - 1 + 1 = Len(s) /\ \A k \in 1 .. Len(s) : 1 + k - 1 = k
      BY <1>1
    <3> QED
      BY <1>1, <3>1, <3>2
  <2> QED
    BY <2>2, SeqEqual
<1> QED
  BY <1>1, <1>2 DEF IsPrefix

LEMMA PrefixOfConcat ==
  ASSUME NEW S, NEW s \in Seq(S), NEW t \in Seq(S)
  PROVE  IsPrefix(s, s \o t) /\ (\A u \in Seq(S) : IsPrefix(s, t) => IsPrefix(u \o s, u \o t))
<1>1. IsPrefix(s, s \o t)
  <2> DEFINE v == s \o t
  <2>1. /\ v \in Seq(S) /\ Len(v) = Len(s) + Len(t) /\ Len(s) \in Nat /\ Len(t) \in Nat
        /\ \A k \in 1 .. Len(s) + Len(t) : v[k] = IF k <= Len(s) THEN s[k] ELSE t[k - Len(s)]
    BY ConcatProperties, LenProperties
  <2> HIDE DEF v
  <2>2. Len(s) <= Len(v) /\ \A k \in 1 .. Len(s) : s[k] = v[k]
    BY <2>1
  <2>3. IsPrefix(s, v)
    BY <2>1, <2>2, PrefixByElement
  <2> QED
    BY <2>3 DEF v
<1>2. ASSUME NEW u \in Seq(S), IsPrefix(s, t) PROVE IsPrefix(u \o s, u \o t)
  <2>1. Len(s) \in Nat /\ Len(t) \in Nat /\ Len(u) \in Nat
    BY LenProperties
  <2>2. Len(s) <= Len(t) /\ \A k \in 1 .. Len(s) : s[k] = t[k]
    BY <1>2, PrefixByElement
  <2>3. /\ u \o s \in Seq(S) /\ u \o t \in Seq(S)
        /\ Len(u \o s) = Len(u) + Len(s) /\ Len(u \o t) = Len(u) + Len(t)
    BY ConcatProperties
  <2>4. ASSUME NEW k \in 1 .. Len(u) + Len(s) PROVE (u \o s)[k] = (u \o t)[k]
    <3>1. k \in 1 .. Len(u) + Len(t) /\ (k > Len(u) => k - Len(u) \in 1 .. Len(s))
      BY <2>1, <2>2
    <3>2. /\ (u \o s)[k] = IF k <= Len(u) THEN u[k] ELSE s[k - Len(u)]
          /\ (u \o t)[k] = IF k <= Len(u) THEN u[k] ELSE t[k - Len(u)]
      BY <3>1, ConcatProperties
    <3> QED
      BY <2>1, <2>2, <3>1, <3>2
  <2> DEFINE v == u \o s
             w == u \o t
  <2>5. /\ v \in Seq(S) /\ w \in Seq(S) /\ Len(v) <= Len(w)
        /\ \A k \in 1 .. Len(v) : v[k] = w[k]
    BY <2>1, <2>2, <2>3, <2>4
  <2> HIDE DEF v, w
  <2>6. IsPrefix(v, w)
    BY <2>5, PrefixByElement
  <2> QED
    BY <2>6 DEF v, w
<1> QED
  BY <1>1, <1>2

LEMMA PrefixTransitive ==
  ASSUME NEW S, NEW s \in Seq(S), NEW t \in Seq(S), NEW u \in Seq(S),
         IsPrefix(s, t), IsPrefix(t, u)
  PROVE  IsPrefix(s, u)
BY PrefixByElement, LenProperties

LEMMA FlattenToPrefix ==
  ASSUME NEW S, NEW F \in Seq(Seq(S)), NEW i \in 0 .. Len(F)
  PROVE  \A j \in i .. Len(F) : IsPrefix(FlattenTo(F, i), FlattenTo(F, j))
<1>1. Len(F) \in Nat
  OBVIOUS
<1> DEFINE P == {d \in Nat : i + d <= Len(F) => IsPrefix(FlattenTo(F, i), FlattenTo(F, i + d))}
<1>2. 0 \in P
  <2>1. FlattenTo(F, i) \in Seq(S) /\ i + 0 = i
    BY <1>1, FlattenToStep
  <2> QED
    BY <2>1, PrefixByElement, LenProperties
<1>3. ASSUME NEW d \in Nat, d \in P PROVE d + 1 \in P
  <2> SUFFICES ASSUME i + (d + 1) <= Len(F)
               PROVE  IsPrefix(FlattenTo(F, i), FlattenTo(F, i + (d + 1)))
    OBVIOUS
  <2>1. i + (d + 1) = (i + d) + 1 /\ i + d \in 0 .. Len(F) - 1 /\ i + d \in 0 .. Len(F)
        /\ i + d + 1 \in 1 .. Len(F)
    BY <1>1
  <2>2. /\ FlattenTo(F, i) \in Seq(S) /\ FlattenTo(F, i + d) \in Seq(S)
        /\ FlattenTo(F, (i + d) + 1) = FlattenTo(F, i + d) \o F[i + d + 1]
    BY <2>1, FlattenToStep
  <2>3. F[i + d + 1] \in Seq(S)
    BY <2>1
  <2>4. /\ IsPrefix(FlattenTo(F, i + d), FlattenTo(F, i + d) \o F[i + d + 1])
        /\ FlattenTo(F, i + d) \o F[i + d + 1] \in Seq(S)
    BY <2>2, <2>3, PrefixOfConcat, ConcatProperties
  <2>5. IsPrefix(FlattenTo(F, i), FlattenTo(F, i + d))
    BY <1>3, <2>1
  <2>6. IsPrefix(FlattenTo(F, i), FlattenTo(F, i + d) \o F[i + d + 1])
    BY <2>2, <2>4, <2>5, PrefixTransitive
  <2> QED
    BY <2>1, <2>2, <2>6
<1> HIDE DEF P
<1>4. \A d \in Nat : d \in P
  BY <1>2, <1>3, Induction
<1>5. ASSUME NEW j \in i .. Len(F) PROVE j - i \in Nat /\ i + (j - i) = j /\ j <= Len(F)
  BY <1>1
<1> QED
  BY <1>4, <1>5 DEF P

-----------------------------------------------------------------------------
(* Flattening in two parts, and of single elements. *)
LEMMA FlattenConcat ==
  ASSUME NEW S, NEW ss \in Seq(Seq(S)), NEW tt \in Seq(Seq(S))
  PROVE  FlattenSeq(ss \o tt) = FlattenSeq(ss) \o FlattenSeq(tt)
<1> DEFINE T == Seq(S)
           uu == ss \o tt
           n  == Len(ss)
           m  == Len(tt)
<1>1. ss \in Seq(T) /\ tt \in Seq(T) /\ n \in Nat /\ m \in Nat
  OBVIOUS
<1> HIDE DEF T
<1>2. /\ uu \in Seq(T) /\ Len(uu) = n + m
      /\ \A k \in 1 .. n + m : uu[k] = IF k <= n THEN ss[k] ELSE tt[k - n]
  BY <1>1, ConcatProperties
<1> HIDE DEF uu
<1>3. FlattenTo(uu, n) = FlattenSeq(ss)
  <2>1. ASSUME NEW k \in 1 .. n PROVE uu[k] = ss[k]
    <3> HIDE DEF n, m
    <3>1. k \in 1 .. n + m /\ k <= n
      BY <1>1
    <3> QED
      BY <1>2, <3>1
  <2>2. [k \in 1 .. n |-> uu[k]] = ss
    BY <1>1, <2>1
  <2> QED
    BY <2>2 DEF FlattenTo
<1> DEFINE P == {d \in Nat : d <= m => FlattenTo(uu, n + d) = FlattenSeq(ss) \o FlattenTo(tt, d)}
<1>4. FlattenSeq(ss) \in Seq(S)
  BY FlattenType
<1>5. uu \in Seq(Seq(S))
  BY <1>2 DEF T
<1>6. 0 \in P
  <2>1. n + 0 = n /\ FlattenTo(tt, 0) = <<>>
    BY <1>1, FlattenToStep
  <2> QED
    BY <1>3, <1>4, <2>1, ConcatEmptySeq
<1>7. ASSUME NEW d \in Nat, d \in P PROVE d + 1 \in P
  <2> SUFFICES ASSUME d + 1 <= m
               PROVE  FlattenTo(uu, n + (d + 1)) = FlattenSeq(ss) \o FlattenTo(tt, d + 1)
    OBVIOUS
  <2> HIDE DEF n, m
  <2>1. /\ n + (d + 1) = (n + d) + 1 /\ n + d \in 0 .. Len(uu) - 1 /\ n + d + 1 \in 1 .. n + m
        /\ ~ (n + d + 1 <= n) /\ (n + d + 1) - n = d + 1 /\ d \in 0 .. m - 1 /\ d \in 0 .. m
        /\ d + 1 \in 1 .. m
    BY <1>1, <1>2
  <2>2. FlattenTo(uu, (n + d) + 1) = FlattenTo(uu, n + d) \o uu[n + d + 1]
    BY <1>5, <2>1, FlattenToStep
  <2>3. FlattenTo(tt, d + 1) = FlattenTo(tt, d) \o tt[d + 1] /\ FlattenTo(tt, d) \in Seq(S)
    BY <2>1, FlattenToStep DEF m
  <2>4. uu[n + d + 1] = tt[d + 1]
    BY <1>2, <2>1
  <2>5. tt[d + 1] \in Seq(S)
    BY <2>1 DEF m
  <2>6. FlattenTo(uu, n + d) = FlattenSeq(ss) \o FlattenTo(tt, d)
    BY <1>7, <2>1
  <2>7. (FlattenSeq(ss) \o FlattenTo(tt, d)) \o tt[d + 1] = FlattenSeq(ss) \o (FlattenTo(tt, d) \o tt[d + 1])
    <3> DEFINE a == FlattenSeq(ss)
               b == FlattenTo(tt, d)
               c == tt[d + 1]
    <3>1. a \in Seq(S) /\ b \in Seq(S) /\ c \in Seq(S)
      BY <1>4, <2>3, <2>5
    <3> HIDE DEF a, b, c
    <3>2. (a \o b) \o c = a \o (b \o c)
      BY <3>1, ConcatAssociative
    <3> QED
      BY <3>2 DEF a, b, c
  <2> QED
    BY <2>1, <2>2, <2>3, <2>4, <2>6, <2>7
<1> HIDE DEF P
<1>8. \A d \in Nat : d \in P
  BY <1>6, <1>7, Induction
<1>9. m \in P
  BY <1>1, <1>8
<1>10. FlattenTo(uu, n + m) = FlattenSeq(ss) \o FlattenTo(tt, m)
  BY <1>1, <1>9 DEF P
<1>11. FlattenTo(uu, n + m) = FlattenSeq(uu) /\ FlattenTo(tt, m) = FlattenSeq(tt)
  BY <1>2, <1>5, FlattenToStep
<1> QED
  BY <1>10, <1>11 DEF uu

LEMMA FlattenSingletons ==
  ASSUME NEW S, NEW s \in Seq(S)
  PROVE  FlattenSeq([k \in DOMAIN s |-> <<s[k]>>]) = s
<1> DEFINE F == [k \in DOMAIN s |-> <<s[k]>>]
           P == {d \in Nat : d <= Len(s) => FlattenTo(F, d) = SubSeq(s, 1, d)}
<1>1. /\ DOMAIN s = 1 .. Len(s) /\ Len(s) \in Nat /\ F \in Seq(Seq(S)) /\ Len(F) = Len(s)
      /\ \A k \in 1 .. Len(s) : F[k] = <<s[k]>>
  <2>1. DOMAIN s = 1 .. Len(s) /\ Len(s) \in Nat
    OBVIOUS
  <2>2. \A k \in 1 .. Len(s) : <<s[k]>> \in Seq(S)
    BY <2>1, ElementOfSeq
  <2> DEFINE T == Seq(S)
             G == [k \in 1 .. Len(s) |-> <<s[k]>>]
  <2>3. \A k \in 1 .. Len(s) : <<s[k]>> \in T
    BY <2>2
  <2> HIDE DEF T
  <2>4. G \in Seq(T) /\ Len(G) = Len(s)
    BY <2>1, <2>3
  <2>5. F = G
    BY <2>1
  <2> QED
    BY <2>1, <2>4, <2>5 DEF T
<1> HIDE DEF F
<1>2. 0 \in P
  <2>1. SubSeq(s, 1, 0) = <<>>
    BY SubSeqEmpty
  <2> QED
    BY <1>1, <2>1, FlattenToStep
<1>3. ASSUME NEW d \in Nat, d \in P PROVE d + 1 \in P
  <2> SUFFICES ASSUME d + 1 <= Len(s) PROVE FlattenTo(F, d + 1) = SubSeq(s, 1, d + 1)
    OBVIOUS
  <2>1. d \in 0 .. Len(F) - 1 /\ d + 1 \in 1 .. Len(s) /\ 1 \in 1 .. Len(s) /\ d <= Len(s)
        /\ (d + 1) - 1 = d
    BY <1>1
  <2>2. FlattenTo(F, d + 1) = FlattenTo(F, d) \o <<s[d + 1]>>
    BY <1>1, <2>1, FlattenToStep
  <2>3. SubSeq(s, 1, d + 1) = SubSeq(s, 1, (d + 1) - 1) \o <<s[d + 1]>>
    BY <2>1, SubSeqRecursiveSecond
  <2> QED
    BY <1>3, <2>1, <2>2, <2>3
<1> HIDE DEF P
<1>4. \A d \in Nat : d \in P
  BY <1>2, <1>3, Induction
<1>5. FlattenTo(F, Len(s)) = SubSeq(s, 1, Len(s))
  <2>1. Len(s) \in P /\ Len(s) <= Len(s)
    BY <1>1, <1>4
  <2> QED
    BY <2>1 DEF P
<1>6. FlattenTo(F, Len(s)) = FlattenSeq(F)
  BY <1>1, FlattenToStep
<1> QED
  BY <1>5, <1>6, SubSeqFull DEF F

-----------------------------------------------------------------------------
(* Where the i-th of the flattened sequences lies. *)
LEMMA FlattenAt ==
  ASSUME NEW S, NEW F \in Seq(Seq(S)), NEW i \in 1 .. Len(F)
  PROVE  LET base == Len(FlattenTo(F, i - 1))
         IN  /\ base \in Nat /\ Len(FlattenTo(F, i)) = base + Len(F[i])
             /\ base + Len(F[i]) <= Len(FlattenSeq(F))
             /\ \A k \in 1 .. Len(F[i]) : FlattenSeq(F)[base + k] = F[i][k]
<1> DEFINE h == FlattenTo(F, i - 1)
           f == FlattenTo(F, i)
           a == FlattenTo(F, Len(F))
           e == F[i]
<1>1. /\ i - 1 \in 0 .. Len(F) - 1 /\ i - 1 \in 0 .. Len(F) /\ i \in 0 .. Len(F) /\ (i - 1) + 1 = i
      /\ Len(F) \in i .. Len(F) /\ Len(F) \in 0 .. Len(F)
  OBVIOUS
<1>2. h \in Seq(S) /\ f \in Seq(S) /\ a \in Seq(S) /\ a = FlattenSeq(F) /\ f = h \o e
  <2>1. /\ \A j \in 0 .. Len(F) : FlattenTo(F, j) \in Seq(S)
        /\ \A j \in 0 .. Len(F) - 1 : FlattenTo(F, j + 1) = FlattenTo(F, j) \o F[j + 1]
        /\ FlattenTo(F, Len(F)) = FlattenSeq(F)
    BY FlattenToStep
  <2> QED
    BY <1>1, <2>1
<1>3. e \in Seq(S)
  OBVIOUS
<1>4. IsPrefix(f, a)
  BY <1>1, FlattenToPrefix
<1> HIDE DEF h, f, a, e
<1>5. /\ Len(f) = Len(h) + Len(e) /\ Len(h) \in Nat /\ Len(e) \in Nat
      /\ \A k \in 1 .. Len(e) : f[Len(h) + k] = e[k]
  <2>1. /\ Len(h \o e) = Len(h) + Len(e)
        /\ \A k \in 1 .. Len(e) : (h \o e)[Len(h) + k] = e[k]
    BY <1>2, <1>3, ConcatAt
  <2> QED
    BY <1>2, <1>3, <2>1, LenProperties
<1>6. Len(f) <= Len(a) /\ \A k \in 1 .. Len(f) : f[k] = a[k]
  <2>1. f \in Seq(S) /\ a \in Seq(S)
    BY <1>2
  <2> QED
    BY <1>4, <2>1, PrefixByElement
<1>7. \A k \in 1 .. Len(e) : Len(h) + k \in 1 .. Len(f)
  BY <1>5
<1>8. /\ Len(h) \in Nat /\ Len(f) = Len(h) + Len(e) /\ Len(h) + Len(e) <= Len(a)
      /\ \A k \in 1 .. Len(e) : a[Len(h) + k] = e[k]
  BY <1>5, <1>6, <1>7
<1> QED
  BY <1>2, <1>8 DEF h, f, e

-----------------------------------------------------------------------------
(* The function SumFunction takes its result from exists, for finitely     *)
(* many numbers.                                                           *)
Chosen(s) == CHOOSE x \in s : TRUE

UpTo(S, n) == {T \in SUBSET S : Cardinality(T) <= n}

SumsOver(f, fun, D) ==
  f = [s \in D |-> IF s = {} THEN 0 ELSE fun[Chosen(s)] + f[s \ {Chosen(s)}]]

LEMMA SumTake ==
  ASSUME NEW S, IsFiniteSet(S), NEW s \in SUBSET S, s # {}
  PROVE  /\ Chosen(s) \in s /\ Chosen(s) \in S /\ s \ {Chosen(s)} \in SUBSET S
         /\ IsFiniteSet(s) /\ Cardinality(s) \in Nat /\ Cardinality(s) > 0
         /\ Cardinality(s \ {Chosen(s)}) = Cardinality(s) - 1
<1>1. Chosen(s) \in s
  BY DEF Chosen
<1>2. IsFiniteSet(s)
  BY FS_Subset
<1>3. Cardinality(s) \in Nat /\ Cardinality(s) # 0
  BY <1>2, FS_CardinalityType, FS_EmptySet
<1>4. Cardinality(s \ {Chosen(s)}) = Cardinality(s) - 1
  BY <1>1, <1>2, FS_RemoveElement
<1> QED
  BY <1>1, <1>2, <1>3, <1>4

LEMMA UpToNothing ==
  ASSUME NEW S, IsFiniteSet(S), NEW s \in UpTo(S, 0)
  PROVE  s = {}
<1> SUFFICES ASSUME s # {} PROVE FALSE
  OBVIOUS
<1>1. s \in SUBSET S /\ Cardinality(s) <= 0
  BY DEF UpTo
<1>2. Cardinality(s) \in Nat /\ Cardinality(s) > 0
  BY <1>1, SumTake
<1> QED
  BY <1>1, <1>2

LEMMA SumExists ==
  ASSUME NEW S, IsFiniteSet(S), NEW fun
  PROVE  \E f : SumsOver(f, fun, SUBSET S)
<1> DEFINE P == {n \in Nat : \E f : SumsOver(f, fun, UpTo(S, n))}
<1>1. 0 \in P
  <2> DEFINE g == [s \in UpTo(S, 0) |-> 0]
  <2>1. \A s \in UpTo(S, 0) : s = {}
    BY UpToNothing
  <2>2. SumsOver(g, fun, UpTo(S, 0))
    BY <2>1 DEF SumsOver
  <2> QED
    BY <2>2
<1>2. ASSUME NEW n \in Nat, n \in P PROVE n + 1 \in P
  <2>1. PICK f : SumsOver(f, fun, UpTo(S, n))
    BY <1>2
  <2> DEFINE g == [s \in UpTo(S, n + 1) |->
                     IF s \in UpTo(S, n) THEN f[s]
                     ELSE IF s = {} THEN 0 ELSE fun[Chosen(s)] + f[s \ {Chosen(s)}]]
  <2>2. ASSUME NEW s \in UpTo(S, n + 1), s # {}
        PROVE  s \ {Chosen(s)} \in UpTo(S, n) /\ s \ {Chosen(s)} \in UpTo(S, n + 1)
    BY <2>2, SumTake DEF UpTo
  <2>3. ASSUME NEW s \in UpTo(S, n)
        PROVE  f[s] = IF s = {} THEN 0 ELSE fun[Chosen(s)] + f[s \ {Chosen(s)}]
    BY <2>1 DEF SumsOver
  <2>4. ASSUME NEW s \in UpTo(S, n + 1)
        PROVE  g[s] = IF s = {} THEN 0 ELSE fun[Chosen(s)] + g[s \ {Chosen(s)}]
    <3>1. CASE s = {}
      BY <2>3, <3>1
    <3>2. CASE s # {}
      <4>1. g[s \ {Chosen(s)}] = f[s \ {Chosen(s)}]
        BY <2>2, <3>2
      <4> QED
        BY <2>3, <3>2, <4>1
    <3> QED
      BY <3>1, <3>2
  <2>5. g = [s \in UpTo(S, n + 1) |-> g[s]]
    OBVIOUS
  <2> HIDE DEF g
  <2>6. SumsOver(g, fun, UpTo(S, n + 1))
    BY <2>4, <2>5 DEF SumsOver
  <2> QED
    BY <2>6
<1> HIDE DEF P
<1>3. \A n \in Nat : n \in P
  BY <1>1, <1>2, Induction
<1>4. Cardinality(S) \in Nat /\ \A s \in SUBSET S : Cardinality(s) <= Cardinality(S)
  BY FS_CardinalityType, FS_Subset
<1>5. UpTo(S, Cardinality(S)) = SUBSET S
  BY <1>4 DEF UpTo
<1> QED
  BY <1>3, <1>4, <1>5 DEF P

LEMMA SumIsSum ==
  ASSUME NEW S, IsFiniteSet(S), NEW fun, DOMAIN fun = S
  PROVE  \E f : SumsOver(f, fun, SUBSET S) /\ SumFunction(fun) = f[S]
<1> DEFINE F == CHOOSE f : SumsOver(f, fun, SUBSET S)
<1>1. SumsOver(F, fun, SUBSET S)
  BY SumExists
<1>2. SumFunction(fun) = F[S]
  BY DEF SumFunction, SumFunctionOnSet, FoldFunctionOnSet, MapThenFoldSet, SumsOver, Chosen
<1> QED
  BY <1>1, <1>2

(* A sum of natural numbers is one, and grows with any of them. *)
LEMMA SumGrows ==
  ASSUME NEW S, IsFiniteSet(S), NEW fun \in [S -> Nat], NEW x \in S
  PROVE  /\ SumFunction(fun) \in Nat
         /\ SumFunction([fun EXCEPT ![x] = @ + 1]) = SumFunction(fun) + 1
<1> DEFINE gun == [fun EXCEPT ![x] = @ + 1]
<1>1. DOMAIN fun = S /\ DOMAIN gun = S
  OBVIOUS
<1>2. \A y \in S : fun[y] \in Nat /\ gun[y] = fun[y] + IF y = x THEN 1 ELSE 0
  OBVIOUS
<1> HIDE DEF gun
<1>3. PICK f : SumsOver(f, fun, SUBSET S) /\ SumFunction(fun) = f[S]
  BY <1>1, SumIsSum
<1>4. PICK g : SumsOver(g, gun, SUBSET S) /\ SumFunction(gun) = g[S]
  BY <1>1, SumIsSum
<1>5. \A s \in SUBSET S : /\ f[s] = IF s = {} THEN 0 ELSE fun[Chosen(s)] + f[s \ {Chosen(s)}]
                          /\ g[s] = IF s = {} THEN 0 ELSE gun[Chosen(s)] + g[s \ {Chosen(s)}]
  BY <1>3, <1>4 DEF SumsOver
<1> DEFINE Right(s) == f[s] \in Nat /\ g[s] = f[s] + IF x \in s THEN 1 ELSE 0
           P == {n \in Nat : \A s \in UpTo(S, n) : Right(s)}
<1>6. Right({})
  <2>1. {} \in SUBSET S /\ x \notin {}
    OBVIOUS
  <2>2. f[{}] = 0 /\ g[{}] = 0
    BY <1>5, <2>1
  <2> QED
    BY <2>1, <2>2
<1>7. 0 \in P
  <2>1. \A s \in UpTo(S, 0) : s = {}
    BY UpToNothing
  <2> QED
    BY <1>6, <2>1
<1>8. ASSUME NEW n \in Nat, n \in P PROVE n + 1 \in P
  <2> HIDE DEF Right
  <2> SUFFICES ASSUME NEW s \in UpTo(S, n + 1), s # {} PROVE Right(s)
    BY <1>6
  <2> DEFINE c == Chosen(s)
             r == s \ {Chosen(s)}
  <2>1. s \in SUBSET S /\ Cardinality(s) <= n + 1
    BY DEF UpTo
  <2>2. c \in s /\ c \in S /\ r \in UpTo(S, n)
    BY <2>1, SumTake DEF UpTo
  <2>3. Right(r)
    BY <1>8, <2>2
  <2>4. f[s] = fun[c] + f[r] /\ g[s] = gun[c] + g[r]
    BY <1>5, <2>1
  <2>5. x \in s <=> x = c \/ x \in r
    BY <2>2
  <2>6. ~ (x = c /\ x \in r)
    OBVIOUS
  <2> HIDE DEF c, r
  <2> QED
    BY <1>2, <2>2, <2>3, <2>4, <2>5, <2>6 DEF Right
<1> HIDE DEF P
<1>9. \A n \in Nat : n \in P
  BY <1>7, <1>8, Induction
<1>10. Cardinality(S) \in Nat /\ S \in UpTo(S, Cardinality(S))
  BY FS_CardinalityType DEF UpTo
<1>11. Right(S)
  BY <1>9, <1>10 DEF P
<1> QED
  BY <1>3, <1>4, <1>11 DEF gun

(* A sum without one of its numbers is less by that number. *)
LEMMA SumSplit ==
  ASSUME NEW S, IsFiniteSet(S), NEW fun \in [S -> Nat], NEW x \in S
  PROVE  /\ SumFunction([y \in S \ {x} |-> fun[y]]) \in Nat
         /\ SumFunction(fun) = SumFunction([y \in S \ {x} |-> fun[y]]) + fun[x]
<1> DEFINE R == S \ {x}
           gun == [y \in S \ {x} |-> fun[y]]
<1>1. /\ DOMAIN fun = S /\ DOMAIN gun = R /\ IsFiniteSet(R) /\ R \in SUBSET S
      /\ \A y \in R : gun[y] = fun[y]
  BY FS_Subset
<1> HIDE DEF gun
<1>2. PICK f : SumsOver(f, fun, SUBSET S) /\ SumFunction(fun) = f[S]
  BY <1>1, SumIsSum
<1>3. PICK g : SumsOver(g, gun, SUBSET R) /\ SumFunction(gun) = g[R]
  BY <1>1, SumIsSum
<1> HIDE DEF R
<1>4. \A s \in SUBSET S : f[s] = IF s = {} THEN 0 ELSE fun[Chosen(s)] + f[s \ {Chosen(s)}]
  BY <1>2 DEF SumsOver
<1>5. \A s \in SUBSET R : g[s] = IF s = {} THEN 0 ELSE gun[Chosen(s)] + g[s \ {Chosen(s)}]
  BY <1>3 DEF SumsOver
<1> DEFINE Right(s) == f[s] \in Nat /\ \A y \in s : f[s] = f[s \ {y}] + fun[y]
           Same(s)  == s \in SUBSET R => g[s] = f[s]
           P == {n \in Nat : \A s \in UpTo(S, n) : Right(s) /\ Same(s)}
<1>6. Right({}) /\ Same({})
  <2>1. {} \in SUBSET S /\ {} \in SUBSET R
    OBVIOUS
  <2>2. f[{}] = 0 /\ g[{}] = 0
    BY <1>4, <1>5, <2>1
  <2> QED
    BY <2>2
<1>7. 0 \in P
  <2> HIDE DEF Right, Same
  <2>1. \A s \in UpTo(S, 0) : s = {}
    BY UpToNothing
  <2> QED
    BY <1>6, <2>1
<1>8. ASSUME NEW n \in Nat, n \in P PROVE n + 1 \in P
  <2> HIDE DEF Right, Same
  <2> SUFFICES ASSUME NEW s \in UpTo(S, n + 1), s # {} PROVE Right(s) /\ Same(s)
    BY <1>6
  <2> DEFINE c == Chosen(s)
             r == s \ {Chosen(s)}
  <2>1. s \in SUBSET S /\ IsFiniteSet(s) /\ Cardinality(s) \in Nat /\ Cardinality(s) <= n + 1
    BY SumTake DEF UpTo
  <2>2. c \in s /\ c \in S /\ r \in SUBSET S
    BY <2>1, SumTake
  <2>3. ASSUME NEW y \in s PROVE s \ {y} \in UpTo(S, n) /\ s \ {y} \in SUBSET S
    <3>1. Cardinality(s \ {y}) = Cardinality(s) - 1
      BY <2>1, FS_RemoveElement
    <3> QED
      BY <2>1, <3>1 DEF UpTo
  <2>4. f[s] = fun[c] + f[r] /\ (s \in SUBSET R => g[s] = gun[c] + g[r])
    BY <1>4, <1>5, <2>1
  <2>5. ASSUME NEW y \in s PROVE Right(s \ {y}) /\ Same(s \ {y})
    BY <1>8, <2>3
  <2>6. \A y \in s : fun[y] \in Nat /\ f[s \ {y}] \in Nat
    BY <2>1, <2>5 DEF Right
  <2>7. ASSUME NEW y \in s, y # c PROVE f[s] = f[s \ {y}] + fun[y]
    <3>1. y \in s \ {c} /\ c \in s \ {y} /\ (s \ {c}) \ {y} = (s \ {y}) \ {c}
      BY <2>2, <2>7
    <3> DEFINE q == (s \ {c}) \ {y}
    <3>2. f[s \ {c}] = f[q] + fun[y]
      BY <2>2, <2>5, <3>1 DEF Right
    <3>3. f[s \ {y}] = f[q] + fun[c]
      BY <2>5, <3>1 DEF Right
    <3>4. f[q] \in Nat
      <4>1. q \in UpTo(S, n)
        <5>1. s \ {c} \in UpTo(S, n) /\ IsFiniteSet(s \ {c}) /\ Cardinality(s \ {c}) \in Nat
          BY <2>1, <2>2, <2>3, FS_Subset, FS_CardinalityType
        <5>2. Cardinality(q) = Cardinality(s \ {c}) - 1
          BY <3>1, <5>1, FS_RemoveElement
        <5> QED
          BY <5>1, <5>2 DEF UpTo
      <4> QED
        BY <1>8, <4>1 DEF Right
    <3> HIDE DEF c, q
    <3>5. r = s \ {c}
      BY DEF c
    <3> HIDE DEF r
    <3> QED
      BY <2>2, <2>4, <2>6, <3>2, <3>3, <3>4, <3>5
  <2>8. Right(s)
    <3>1. f[r] \in Nat /\ fun[c] \in Nat
      BY <2>2, <2>6
    <3> HIDE DEF c, r
    <3>2. f[s] \in Nat /\ f[s] = f[r] + fun[c]
      BY <2>4, <3>1
    <3>3. r = s \ {c}
      BY DEF c, r
    <3> QED
      BY <2>7, <3>2, <3>3 DEF Right
  <2>9. Same(s)
    <3> SUFFICES ASSUME s \in SUBSET R PROVE g[s] = f[s]
      BY DEF Same
    <3>1. c \in R /\ r \in SUBSET R
      BY <2>2
    <3>2. g[r] = f[r] /\ gun[c] = fun[c]
      BY <1>1, <2>2, <2>5, <3>1 DEF Same
    <3> QED
      BY <2>4, <3>2
  <2> QED
    BY <2>8, <2>9
<1> HIDE DEF P
<1>9. \A n \in Nat : n \in P
  BY <1>7, <1>8, Induction
<1>10. Cardinality(S) \in Nat /\ S \in UpTo(S, Cardinality(S))
  BY FS_CardinalityType DEF UpTo
<1>11. Cardinality(R) \in Nat /\ R \in UpTo(S, Cardinality(R))
  BY <1>1, FS_CardinalityType DEF UpTo
<1>12. Right(S) /\ Right(R) /\ Same(R)
  BY <1>9, <1>10, <1>11 DEF P
<1>13. f[S] = f[R] + fun[x] /\ f[R] \in Nat /\ g[R] = f[R]
  BY <1>12 DEF R
<1> QED
  BY <1>2, <1>3, <1>13 DEF gun

LEMMA SumOfNothing == ASSUME NEW x PROVE SumFunction([y \in {} |-> x]) = 0
<1> DEFINE fun == [y \in {} |-> x]
<1>1. IsFiniteSet({}) /\ DOMAIN fun = {}
  BY FS_EmptySet
<1> HIDE DEF fun
<1>2. PICK f : SumsOver(f, fun, SUBSET {}) /\ SumFunction(fun) = f[{}]
  BY <1>1, SumIsSum
<1>3. f[{}] = 0
  BY <1>2 DEF SumsOver
<1> QED
  BY <1>2, <1>3 DEF fun
=============================================================================
