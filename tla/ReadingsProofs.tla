---------------------------- MODULE ReadingsProofs ----------------------------
(***************************************************************************)
(* Proofs about Readings, for messages, User-Agents, headers and rosters   *)
(* of any length.                                                          *)
(***************************************************************************)
EXTENDS Readings, FiniteSetTheorems, SequenceTheorems, TLAPS

-----------------------------------------------------------------------------
(* Induction.  What holds of 0 and passes from n to n + 1 is here a set    *)
(* that has 0 and is closed under successor.  The number that induction    *)
(* needs is the cardinality of the numbers that are below all of the set.  *)

(* A set of natural numbers has a least element. *)
LEMMA LeastElement ==
  ASSUME NEW S \in SUBSET Nat, S # {}
  PROVE  \E m \in S : \A n \in S : m <= n
<1>1. PICK n \in S : TRUE
  OBVIOUS
<1> DEFINE A == {k \in 0 .. n : \A j \in S : k <= j}
<1>2. IsFiniteSet(0 .. n)
  BY FS_Interval
<1>3. IsFiniteSet(A) /\ Cardinality(A) \in Nat
  BY <1>2, FS_Subset, FS_CardinalityType
<1>4. PICK c \in Nat : c = Cardinality(A)
  BY <1>3
<1>5. ASSUME NEW k \in A PROVE k < c
  <2>1. 0 .. k \subseteq A
    OBVIOUS
  <2>2. Cardinality(0 .. k) = k + 1
    BY FS_Interval
  <2>3. k + 1 <= c
    BY <2>1, <2>2, <1>3, <1>4, FS_Subset
  <2> QED
    BY <2>3
<1>6. 0 \in A
  BY SMT
<1>7. c > 0 /\ A \subseteq 0 .. c - 1
  BY <1>5, <1>6
<1>8. IsFiniteSet(0 .. c - 1) /\ Cardinality(0 .. c - 1) = c
  BY <1>7, FS_Interval
<1>9. A = 0 .. c - 1
  BY <1>4, <1>7, <1>8, FS_Subset
<1> HIDE DEF A
<1>10. c \notin A /\ c - 1 \in A
  BY <1>7, <1>9
<1>11. \A j \in S : c - 1 <= j
  BY <1>10 DEF A
<1>12. c - 1 \in S
  BY <1>1, <1>7, <1>10, <1>11 DEF A
<1> QED
  BY <1>11, <1>12

(* Induction up to N. *)
LEMMA Induction ==
  ASSUME NEW N \in Nat, NEW P,
         0 \in P, \A n \in 0 .. N : n < N /\ n \in P => n + 1 \in P
  PROVE  0 .. N \subseteq P
<1> SUFFICES ASSUME (0 .. N) \ P # {} PROVE FALSE
  OBVIOUS
<1> DEFINE S == (0 .. N) \ P
<1>1. S \in SUBSET Nat /\ S # {}
  OBVIOUS
<1>2. PICK m \in S : \A n \in S : m <= n
  <2> HIDE DEF S
  <2> QED
    BY <1>1, LeastElement
<1>3. m - 1 \in P /\ m - 1 \in 0 .. N
  BY <1>2
<1> QED
  BY <1>2, <1>3

(* A recursive definition has a solution: p takes N steps from base, the   *)
(* n-th of which is F[n].                                                  *)
StepsOn(S, N) == [1 .. N -> [S -> S]]
Solves(p, base, N, F) == p[0] = base /\ \A n \in 1 .. N : p[n] = F[n][p[n - 1]]
Solvable(S, base, N, F) == \E p \in [0 .. N -> S] : Solves(p, base, N, F)

LEMMA Recursion ==
  ASSUME NEW S, NEW base \in S, NEW N \in Nat, NEW F \in StepsOn(S, N)
  PROVE  Solvable(S, base, N, F)
<1> DEFINE P == {m \in 0 .. N : Solvable(S, base, m, F)}
<1>1. 0 \in P
  <2> DEFINE p == [n \in 0 .. 0 |-> base]
  <2>1. p \in [0 .. 0 -> S] /\ Solves(p, base, 0, F)
    BY DEF Solves
  <2> HIDE DEF p
  <2> QED
    BY <2>1 DEF Solvable
<1>2. ASSUME NEW m \in 0 .. N, m < N, m \in P PROVE m + 1 \in P
  <2>1. PICK p \in [0 .. m -> S] : Solves(p, base, m, F)
    BY <1>2 DEF Solvable
  <2> DEFINE q == [n \in 0 .. m + 1 |-> IF n <= m THEN p[n] ELSE F[m + 1][p[m]]]
  <2>2. q \in [0 .. m + 1 -> S]
    BY <1>2 DEF StepsOn
  <2>3. q[0] = base
    BY <2>1 DEF Solves
  <2>4. ASSUME NEW n \in 1 .. m + 1 PROVE q[n] = F[n][q[n - 1]]
    <3>1. CASE n <= m
      BY <3>1, <2>1 DEF Solves
    <3>2. CASE n = m + 1
      BY <3>2
    <3> QED
      BY <3>1, <3>2
  <2> HIDE DEF q
  <2>5. Solves(q, base, m + 1, F)
    BY <2>3, <2>4 DEF Solves
  <2>6. Solvable(S, base, m + 1, F)
    BY <2>2, <2>5 DEF Solvable
  <2> QED
    BY <1>2, <2>6
<1>3. 0 .. N \subseteq P
  <2> HIDE DEF P
  <2> QED
    BY <1>1, <1>2, Induction
<1> QED
  BY <1>3

(* The first of some positions is one of them. *)
LEMMA FirstIsOne ==
  ASSUME NEW S \in SUBSET Nat, S # {}
  PROVE  First(S) \in S /\ \A i \in S : First(S) <= i
BY LeastElement DEF First
-----------------------------------------------------------------------------
(* ServerTiming: the entries at some positions. *)

(* Kept is the last of the sequences that one entry after another leaves.  *)
KeptBy(p, s, I, T) ==
  /\ p \in [0 .. Len(s) -> Seq(T)] /\ p[0] = <<>> /\ p[Len(s)] = Kept(s, I)
  /\ \A n \in 0 .. Len(s) - 1 :
       /\ n + 1 \in I => p[n + 1] = Append(p[n], s[n + 1])
       /\ n + 1 \notin I => p[n + 1] = p[n]

LEMMA KeptSteps ==
  ASSUME NEW T, NEW s \in Seq(T), NEW I \in SUBSET DOMAIN s
  PROVE  \E p : KeptBy(p, s, I, T)
<1> DEFINE N == Len(s)
           base == <<>>
           Step(n, q) == IF n \in I THEN Append(q, s[n]) ELSE q
           F == [n \in 1 .. N |-> [q \in Seq(T) |-> Step(n, q)]]
           Body(p) == [n \in 0 .. N |-> IF n = 0 THEN base ELSE Step(n, p[n - 1])]
           c == CHOOSE p : p = Body(p)
<1>1. N \in Nat /\ base \in Seq(T)
  BY LenProperties, EmptySeq
<1>2. ASSUME NEW n \in 1 .. N, NEW q \in Seq(T) PROVE Step(n, q) \in Seq(T)
  BY ElementOfSeq, AppendProperties
<1>3. Kept(s, I) = c[N]
  BY DEF Kept
<1> HIDE DEF Step, N, base
<1>4. F \in StepsOn(Seq(T), N)
  BY <1>2 DEF StepsOn
<1>5. PICK p \in [0 .. N -> Seq(T)] : p[0] = base /\ \A n \in 1 .. N : p[n] = F[n][p[n - 1]]
  <2> HIDE DEF F
  <2>1. Solvable(Seq(T), base, N, F)
    BY <1>1, <1>4, Recursion
  <2> QED
    BY <2>1 DEF Solvable, Solves
<1>6. \A n \in 1 .. N : p[n] = Step(n, p[n - 1])
  <2> SUFFICES ASSUME NEW n \in 1 .. N PROVE p[n] = Step(n, p[n - 1])
    OBVIOUS
  <2>1. p[n - 1] \in Seq(T)
    BY <1>1
  <2> QED
    BY <1>5, <2>1
<1>7. p = Body(p)
  BY <1>1, <1>5, <1>6
<1>8. c = Body(c)
  <2> HIDE DEF Body
  <2> QED
    BY <1>7
<1> HIDE DEF c
<1>9. c[0] = base /\ \A n \in 1 .. N : c[n] = Step(n, c[n - 1])
  BY <1>1, <1>8
<1>10. \A n \in 0 .. N : c[n] \in Seq(T)
  <2> DEFINE P == {n \in 0 .. N : c[n] \in Seq(T)}
  <2>1. 0 \in P
    BY <1>1, <1>9
  <2>2. ASSUME NEW n \in 0 .. N, n < N, n \in P PROVE n + 1 \in P
    <3>1. c[n + 1] = Step(n + 1, c[n])
      BY <1>1, <1>9, <2>2
    <3> QED
      BY <1>1, <1>2, <2>2, <3>1
  <2>3. 0 .. N \subseteq P
    <3> HIDE DEF P
    <3> QED
      BY <1>1, <2>1, <2>2, Induction
  <2> QED
    BY <2>3
<1>11. c \in [0 .. N -> Seq(T)]
  BY <1>8, <1>10
<1>12. \A n \in 0 .. N - 1 : c[n + 1] = Step(n + 1, c[n])
  BY <1>1, <1>9
<1> QED
  BY <1>3, <1>9, <1>11, <1>12 DEF base, N, Step, KeptBy

(* The elements of a sequence, and of one with one more. *)
Elements(q) == {q[i] : i \in DOMAIN q}

LEMMA ElementsOfAppend ==
  ASSUME NEW T, NEW q \in Seq(T), NEW e \in T
  PROVE  /\ Append(q, e) \in Seq(T) /\ Len(q) \in Nat /\ Len(Append(q, e)) = Len(q) + 1
         /\ Elements(Append(q, e)) = Elements(q) \cup {e}
<1>1. /\ Append(q, e) \in Seq(T) /\ Len(Append(q, e)) = Len(q) + 1
      /\ \A i \in 1 .. Len(q) : Append(q, e)[i] = q[i]
      /\ Append(q, e)[Len(q) + 1] = e
  BY AppendProperties
<1>2. Len(q) \in Nat /\ DOMAIN q = 1 .. Len(q) /\ DOMAIN Append(q, e) = 1 .. Len(q) + 1
  BY <1>1, LenProperties
<1> QED
  BY <1>1, <1>2 DEF Elements

(* As many entries are kept as there are positions, and the same ones.     *)
LEMMA KeptFacts ==
  ASSUME NEW T, NEW s \in Seq(T), NEW I \in SUBSET DOMAIN s
  PROVE  /\ Kept(s, I) \in Seq(T)
         /\ IsFiniteSet(I) /\ Len(Kept(s, I)) = Cardinality(I)
         /\ Elements(Kept(s, I)) = {s[i] : i \in I}
<1> DEFINE U(n) == I \cap (1 .. n)
           Is(q, n) == /\ q \in Seq(T) /\ IsFiniteSet(U(n)) /\ Len(q) = Cardinality(U(n))
                       /\ Elements(q) = {s[i] : i \in U(n)}
           N == Len(s)
<1>1. N \in Nat /\ DOMAIN s = 1 .. N
  BY LenProperties
<1>2. PICK p : KeptBy(p, s, I, T)
  BY KeptSteps
<1> HIDE DEF N
<1>3. Is(p[0], 0)
  <2>1. U(0) = {}
    OBVIOUS
  <2>2. p[0] \in Seq(T) /\ Len(p[0]) = 0 /\ Elements(p[0]) = {}
    BY <1>2, EmptySeq DEF Elements, KeptBy
  <2> QED
    BY <2>1, <2>2, FS_EmptySet
<1>4. ASSUME NEW n \in 0 .. N, n < N, Is(p[n], n) PROVE Is(p[n + 1], n + 1)
  <2>1. n + 1 \in 1 .. N /\ n \in 0 .. Len(s) - 1
    BY <1>1, <1>4 DEF N
  <2> s[n + 1] \in T
    BY <2>1, ElementOfSeq DEF N
  <2>2. CASE n + 1 \in I
    <3>1. U(n + 1) = U(n) \cup {n + 1} /\ n + 1 \notin U(n)
      BY <2>1, <2>2
    <3>2. p[n + 1] = Append(p[n], s[n + 1])
      BY <1>2, <2>1, <2>2 DEF KeptBy
    <3>3. IsFiniteSet(U(n + 1)) /\ Cardinality(U(n + 1)) = Cardinality(U(n)) + 1
      <4> HIDE DEF U
      <4> QED
        BY <1>4, <3>1, FS_AddElement
    <3>4. {s[i] : i \in U(n + 1)} = {s[i] : i \in U(n)} \cup {s[n + 1]}
      <4> HIDE DEF U
      <4> QED
        BY <3>1
    <3>5. p[n] \in Seq(T)
      BY <1>4
    <3>6. /\ p[n + 1] \in Seq(T) /\ Len(p[n + 1]) = Len(p[n]) + 1
          /\ Elements(p[n + 1]) = Elements(p[n]) \cup {s[n + 1]}
      BY <3>2, <3>5, ElementsOfAppend
    <3> HIDE DEF U
    <3> QED
      BY <1>4, <3>3, <3>4, <3>6
  <2>3. CASE n + 1 \notin I
    <3>1. U(n + 1) = U(n)
      BY <2>1, <2>3
    <3>2. p[n + 1] = p[n]
      BY <1>2, <2>1, <2>3 DEF KeptBy
    <3> HIDE DEF U
    <3> QED
      BY <1>4, <3>1, <3>2
  <2> QED
    BY <2>2, <2>3
<1>5. Is(p[N], N)
  <2> DEFINE P == {n \in 0 .. N : Is(p[n], n)}
  <2> HIDE DEF Is
  <2>1. 0 \in P /\ \A n \in 0 .. N : n < N /\ n \in P => n + 1 \in P
    BY <1>1, <1>3, <1>4
  <2>2. 0 .. N \subseteq P
    <3> HIDE DEF P
    <3> QED
      BY <1>1, <2>1, Induction
  <2> QED
    BY <1>1, <2>2
<1>6. U(N) = I
  BY <1>1
<1> HIDE DEF U
<1> QED
  BY <1>2, <1>5, <1>6 DEF KeptBy, N

(* What follows an entry that is kept followed it before. *)
Follow(q, k, s, I, i) == \A l \in DOMAIN q : l > k => \E j \in I : j > i /\ q[l] = s[j]

LEMMA KeptOrder ==
  ASSUME NEW T, NEW s \in Seq(T), NEW I \in SUBSET DOMAIN s, NEW i \in I
  PROVE  \E k \in DOMAIN Kept(s, I) : Kept(s, I)[k] = s[i] /\ Follow(Kept(s, I), k, s, I, i)
<1> DEFINE N == Len(s)
           Is(q, n) == i <= n => \E k \in DOMAIN q : q[k] = s[i] /\ Follow(q, k, s, I, i)
<1>1. N \in Nat /\ DOMAIN s = 1 .. N /\ i \in 1 .. N
  BY LenProperties
<1>2. PICK p : KeptBy(p, s, I, T)
  BY KeptSteps
<1> HIDE DEF N
<1>3. Is(p[0], 0)
  BY <1>1
<1>4. ASSUME NEW n \in 0 .. N, n < N, Is(p[n], n) PROVE Is(p[n + 1], n + 1)
  <2>1. n + 1 \in 1 .. N /\ n \in 0 .. Len(s) - 1
    BY <1>1, <1>4 DEF N
  <2>2. s[n + 1] \in T
    BY <2>1, ElementOfSeq DEF N
  <2>3. CASE n + 1 \in I
    <3>1. p[n + 1] = Append(p[n], s[n + 1]) /\ p[n] \in Seq(T)
      BY <1>2, <2>1, <2>3 DEF KeptBy
    <3> DEFINE q == p[n]
               r == p[n + 1]
               L == Len(q)
    <3>2. /\ L \in Nat /\ DOMAIN q = 1 .. L /\ DOMAIN r = 1 .. L + 1
          /\ \A k \in 1 .. L : r[k] = q[k]
          /\ r[L + 1] = s[n + 1]
      <4>1. /\ Append(q, s[n + 1]) \in Seq(T) /\ Len(Append(q, s[n + 1])) = L + 1
            /\ \A k \in 1 .. L : Append(q, s[n + 1])[k] = q[k]
            /\ Append(q, s[n + 1])[L + 1] = s[n + 1]
        BY <2>2, <3>1, AppendProperties
      <4> QED
        BY <3>1, <4>1, LenProperties
    <3> HIDE DEF q, r, L
    <3>3. CASE i = n + 1
      <4>1. L + 1 \in DOMAIN r /\ r[L + 1] = s[i] /\ Follow(r, L + 1, s, I, i)
        BY <3>2, <3>3 DEF Follow
      <4> QED
        BY <4>1 DEF r
    <3>4. CASE i # n + 1 /\ i <= n + 1
      <4>1. PICK k \in DOMAIN q : q[k] = s[i] /\ Follow(q, k, s, I, i)
        BY <1>1, <1>4, <3>4 DEF q
      <4>2. r[k] = s[i] /\ k \in DOMAIN r
        BY <3>2, <4>1
      <4>3. Follow(r, k, s, I, i)
        BY <1>1, <2>3, <3>2, <3>4, <4>1 DEF Follow
      <4> QED
        BY <4>2, <4>3 DEF r
    <3> QED
      BY <3>3, <3>4
  <2>4. CASE n + 1 \notin I
    <3>1. p[n + 1] = p[n] /\ i # n + 1
      BY <1>2, <2>1, <2>4 DEF KeptBy
    <3> QED
      BY <1>1, <1>4, <3>1
  <2> QED
    BY <2>3, <2>4
<1>5. Is(p[N], N)
  <2> DEFINE P == {n \in 0 .. N : Is(p[n], n)}
  <2> HIDE DEF Is
  <2>1. 0 \in P /\ \A n \in 0 .. N : n < N /\ n \in P => n + 1 \in P
    BY <1>1, <1>3, <1>4
  <2>2. 0 .. N \subseteq P
    <3> HIDE DEF P
    <3> QED
      BY <1>1, <2>1, Induction
  <2> QED
    BY <1>1, <2>2
<1> QED
  BY <1>1, <1>2, <1>5 DEF KeptBy, N

(* ServerTiming: the legs that are merged.  No prover knows that a literal *)
(* is a STRING, so those the model names are listed.                       *)
Names == STRING \cup Steps \cup {"lml_total", "total"}
Leg == [name : Names, dur : Nat]
Distinct(q) == \A i, j \in DOMAIN q : q[i].name = q[j].name => i = j

(* A name that is there gets the new duration, any other is added, and the *)
(* rest stays.                                                             *)
LEMMA PutFacts ==
  ASSUME NEW q \in Seq(Leg), NEW leg \in Leg
  PROVE  /\ Put(q, leg) \in Seq(Leg)
         /\ leg \in Elements(Put(q, leg))
         /\ \A e \in Elements(q) : e.name # leg.name => e \in Elements(Put(q, leg))
         /\ Elements(Put(q, leg)) \subseteq Elements(q) \cup {leg}
         /\ Distinct(q) => Distinct(Put(q, leg))
<1> DEFINE L == Len(q)
<1>1. L \in Nat /\ DOMAIN q = 1 .. L /\ \A i \in 1 .. L : q[i] \in Leg
  BY LenProperties, ElementOfSeq
<1> HIDE DEF L
<1>2. CASE \E i \in DOMAIN q : q[i].name = leg.name
  <2> DEFINE r == [i \in 1 .. L |-> IF q[i].name = leg.name THEN leg ELSE q[i]]
  <2>1. Put(q, leg) = r
    BY <1>1, <1>2 DEF Put
  <2>2. r \in Seq(Leg)
    BY <1>1
  <2> QED
    BY <1>1, <1>2, <2>1, <2>2 DEF Elements, Distinct
<1>3. CASE ~ \E i \in DOMAIN q : q[i].name = leg.name
  <2>1. Put(q, leg) = Append(q, leg)
    BY <1>3 DEF Put
  <2> DEFINE r == Append(q, leg)
  <2>2. /\ r \in Seq(Leg) /\ Len(r) = L + 1 /\ r[L + 1] = leg
        /\ \A i \in 1 .. L : r[i] = q[i]
    BY AppendProperties DEF L
  <2>3. DOMAIN r = 1 .. L + 1
    BY <2>2, LenProperties
  <2> HIDE DEF r
  <2>4. Distinct(q) => Distinct(r)
    BY <1>1, <1>3, <2>2, <2>3 DEF Distinct
  <2>5. Elements(r) = Elements(q) \cup {leg}
    BY <1>1, <2>2, <2>3 DEF Elements
  <2> QED
    BY <2>1, <2>2, <2>4, <2>5 DEF r
<1> QED
  BY <1>2, <1>3
(* The leg that LML's entry becomes. *)
Renamed(e) == [name |-> Key(e.name), dur |-> e.dur]
(* Legs that are shown when the header is read, and are none of ours. *)
Fair(e) == e \in Leg /\ Usable(e) /\ e.name \notin Steps \cup {"total"}

LEMMA RenamedIsFair ==
  ASSUME NEW e \in Leg, Usable(e), Key(e.name) \notin Steps
  PROVE  Renamed(e) \in Leg /\ Fair(Renamed(e))
<1>1. e.name \in Names /\ e.dur \in Nat
  BY DEF Leg
<1>2. Key(e.name) \in Names \ {"total", BadName}
  BY <1>1 DEF Names, Key, Usable, BadName
<1>3. Renamed(e) = [name |-> Key(e.name), dur |-> e.dur]
  BY DEF Renamed
<1> HIDE DEF BadName
<1>4. Renamed(e).name = Key(e.name) /\ Renamed(e).dur = e.dur
  BY <1>3
<1>5. Renamed(e) \in Leg
  BY <1>1, <1>2, <1>3 DEF Leg
<1> QED
  BY <1>2, <1>4, <1>5 DEF Fair, Usable

(* What one more entry does to the legs that are merged. *)
Spared(q, e) == e \in Elements(q)
LEMMA MergeFacts ==
  ASSUME NEW q \in Seq(Leg), NEW e \in Leg
  PROVE  /\ Merge(q, e) \in Seq(Leg)
         /\ Distinct(q) => Distinct(Merge(q, e))
         /\ Key(e.name) \notin Steps => Spared(Merge(q, e), Renamed(e))
         /\ \A o \in Elements(q) : o.name # Key(e.name) => Spared(Merge(q, e), o)
         /\ (\A o \in Elements(q) : Fair(o)) /\ Usable(e)
              => \A o \in Elements(Merge(q, e)) : Fair(o)
<1>1. CASE Key(e.name) \in Steps
  BY <1>1 DEF Merge, Spared
<1>2. CASE Key(e.name) \notin Steps
  <2>1. Merge(q, e) = Put(q, Renamed(e))
    BY <1>2 DEF Merge, Renamed
  <2>2. Renamed(e) \in Leg /\ Renamed(e).name = Key(e.name)
    <3>1. e.name \in Names /\ e.dur \in Nat
      BY DEF Leg
    <3>2. Key(e.name) \in Names
      BY <3>1 DEF Names, Key
    <3> QED
      BY <3>1, <3>2 DEF Renamed, Leg
  <2>3. Usable(e) => Fair(Renamed(e))
    BY <1>2, RenamedIsFair
  <2> DEFINE leg == Renamed(e)
             r == Put(q, leg)
  <2> HIDE DEF leg
  <2>4. leg \in Leg
    BY <2>2 DEF leg
  <2>5. /\ r \in Seq(Leg) /\ leg \in Elements(r)
        /\ \A o \in Elements(q) : o.name # leg.name => o \in Elements(r)
        /\ Elements(r) \subseteq Elements(q) \cup {leg}
        /\ Distinct(q) => Distinct(r)
    BY <2>4, PutFacts
  <2> HIDE DEF r
  <2>6. Merge(q, e) = r /\ leg.name = Key(e.name) /\ (Usable(e) => Fair(leg))
    BY <2>1, <2>2, <2>3 DEF r, leg
  <2>7. (\A o \in Elements(q) : Fair(o)) /\ Usable(e) => \A o \in Elements(r) : Fair(o)
    BY <2>5, <2>6
  <2> QED
    BY <2>5, <2>6, <2>7 DEF Spared, leg
<1> QED
  BY <1>1, <1>2

(* Extra is the last of the sequences that one entry after another leaves. *)
ExtraBy(p, legs, extra) ==
  /\ p \in [0 .. Len(legs) -> Seq(Leg)] /\ p[0] = <<>> /\ p[Len(legs)] = extra
  /\ \A n \in 0 .. Len(legs) - 1 : p[n + 1] = Merge(p[n], legs[n + 1])

LEMMA ExtraSteps ==
  ASSUME NEW header, parse_server_timing(header) \in Seq(Leg)
  PROVE  \E p : ExtraBy(p, parse_server_timing(header), Extra(header))
<1> DEFINE legs == parse_server_timing(header)
           N == Len(legs)
           base == <<>>
           F == [n \in 1 .. N |-> [q \in Seq(Leg) |-> Merge(q, legs[n])]]
           Body(p) == [n \in 0 .. N |-> IF n = 0 THEN base ELSE Merge(p[n - 1], legs[n])]
           c == CHOOSE p : p = Body(p)
<1>1. N \in Nat /\ base \in Seq(Leg)
  BY LenProperties, EmptySeq
<1>2. ASSUME NEW n \in 1 .. N, NEW q \in Seq(Leg) PROVE Merge(q, legs[n]) \in Seq(Leg)
  BY ElementOfSeq, MergeFacts
<1>3. Extra(header) = c[N]
  BY DEF Extra
<1> HIDE DEF N, base, legs
<1>4. F \in StepsOn(Seq(Leg), N)
  BY <1>2 DEF StepsOn
<1>5. PICK p \in [0 .. N -> Seq(Leg)] : p[0] = base /\ \A n \in 1 .. N : p[n] = F[n][p[n - 1]]
  <2> HIDE DEF F
  <2>1. Solvable(Seq(Leg), base, N, F)
    BY <1>1, <1>4, Recursion
  <2> QED
    BY <2>1 DEF Solvable, Solves
<1>6. \A n \in 1 .. N : p[n] = Merge(p[n - 1], legs[n])
  <2> SUFFICES ASSUME NEW n \in 1 .. N PROVE p[n] = Merge(p[n - 1], legs[n])
    OBVIOUS
  <2>1. p[n - 1] \in Seq(Leg)
    BY <1>1
  <2> QED
    BY <1>5, <2>1
<1>7. p = Body(p)
  BY <1>1, <1>5, <1>6
<1>8. c = Body(c)
  <2> HIDE DEF Body
  <2> QED
    BY <1>7
<1> HIDE DEF c
<1>9. c[0] = base /\ \A n \in 1 .. N : c[n] = Merge(c[n - 1], legs[n])
  BY <1>1, <1>8
<1>10. \A n \in 0 .. N : c[n] \in Seq(Leg)
  <2> DEFINE P == {n \in 0 .. N : c[n] \in Seq(Leg)}
  <2>1. 0 \in P
    BY <1>1, <1>9
  <2>2. ASSUME NEW n \in 0 .. N, n < N, n \in P PROVE n + 1 \in P
    <3>1. c[n + 1] = Merge(c[n], legs[n + 1]) /\ n + 1 \in 1 .. N
      BY <1>1, <1>9, <2>2
    <3>2. Merge(c[n], legs[n + 1]) \in Seq(Leg)
      BY <1>2, <2>2, <3>1
    <3> QED
      BY <1>1, <3>1, <3>2
  <2>3. 0 .. N \subseteq P
    <3> HIDE DEF P
    <3> QED
      BY <1>1, <2>1, <2>2, Induction
  <2> QED
    BY <2>3
<1>11. c \in [0 .. N -> Seq(Leg)]
  BY <1>8, <1>10
<1>12. \A n \in 0 .. N - 1 : c[n + 1] = Merge(c[n], legs[n + 1])
  BY <1>1, <1>9
<1> QED
  BY <1>3, <1>9, <1>11, <1>12 DEF base, N, legs, ExtraBy

(* The last entry of a name, up to n. *)
LastOfKey(legs, i, n) == \A j \in i + 1 .. n : Key(legs[j].name) # Key(legs[i].name)

LEMMA ExtraFacts ==
  ASSUME NEW header,
         parse_server_timing(header) \in Seq(Leg),
         \A i \in DOMAIN parse_server_timing(header) : Usable(parse_server_timing(header)[i])
  PROVE  /\ Extra(header) \in Seq(Leg) /\ Distinct(Extra(header))
         /\ \A e \in Elements(Extra(header)) : Fair(e)
         /\ \A i \in DOMAIN parse_server_timing(header) :
              /\ LastOfKey(parse_server_timing(header), i, Len(parse_server_timing(header)))
              /\ Key(parse_server_timing(header)[i].name) \notin Steps
              => Spared(Extra(header), Renamed(parse_server_timing(header)[i]))
<1> DEFINE legs == parse_server_timing(header)
           N == Len(legs)
           There(q, n) == \A i \in 1 .. n :
             LastOfKey(legs, i, n) /\ Key(legs[i].name) \notin Steps => Spared(q, Renamed(legs[i]))
           Is(q, n) == /\ q \in Seq(Leg) /\ Distinct(q)
                       /\ \A e \in Elements(q) : Fair(e)
                       /\ There(q, n)
<1>1. N \in Nat /\ DOMAIN legs = 1 .. N
  BY LenProperties
<1>2. PICK p : ExtraBy(p, legs, Extra(header))
  BY ExtraSteps
<1> HIDE DEF N, legs
<1>3. Is(p[0], 0)
  BY <1>2, EmptySeq DEF Elements, ExtraBy, Distinct
<1>4. ASSUME NEW n \in 0 .. N, n < N, Is(p[n], n) PROVE Is(p[n + 1], n + 1)
  <2>1. n + 1 \in 1 .. N /\ n \in 0 .. Len(legs) - 1
    BY <1>1, <1>4 DEF N
  <2> DEFINE e == legs[n + 1]
             q == p[n]
             r == p[n + 1]
  <2>2. e \in Leg /\ Usable(e)
    BY <1>1, <2>1, ElementOfSeq DEF N, legs
  <2>3. r = Merge(q, e)
    BY <1>2, <2>1 DEF ExtraBy
  <2> HIDE DEF e, r
  <2>4. /\ r \in Seq(Leg) /\ Distinct(r)
        /\ \A o \in Elements(r) : Fair(o)
        /\ Key(e.name) \notin Steps => Spared(r, Renamed(e))
        /\ \A o \in Elements(q) : o.name # Key(e.name) => Spared(r, o)
    BY <1>4, <2>2, <2>3, MergeFacts
  <2>5. ASSUME NEW i \in 1 .. n + 1, LastOfKey(legs, i, n + 1), Key(legs[i].name) \notin Steps
        PROVE  Spared(r, Renamed(legs[i]))
    <3>1. CASE i = n + 1
      BY <2>4, <2>5, <3>1 DEF e
    <3>2. CASE i \in 1 .. n
      <4>1. LastOfKey(legs, i, n) /\ Key(e.name) # Key(legs[i].name)
        BY <2>5, <3>2 DEF LastOfKey, e
      <4>2. Renamed(legs[i]) \in Elements(q)
        BY <1>4, <2>5, <3>2, <4>1 DEF Spared
      <4>3. Renamed(legs[i]).name = Key(legs[i].name)
        BY DEF Renamed
      <4> QED
        BY <2>4, <4>1, <4>2, <4>3
    <3> QED
      BY <3>1, <3>2
  <2> QED
    BY <2>4, <2>5 DEF r
<1>5. Is(p[N], N)
  <2> DEFINE P == {n \in 0 .. N : Is(p[n], n)}
  <2> HIDE DEF Is
  <2>1. 0 \in P /\ \A n \in 0 .. N : n < N /\ n \in P => n + 1 \in P
    BY <1>1, <1>3, <1>4
  <2>2. 0 .. N \subseteq P
    <3> HIDE DEF P
    <3> QED
      BY <1>1, <2>1, Induction
  <2> QED
    BY <1>1, <2>2
<1> QED
  BY <1>1, <1>2, <1>5 DEF ExtraBy, N, legs
(* One sequence after another. *)
LEMMA Joined ==
  ASSUME NEW T, NEW q \in Seq(T), NEW r \in Seq(T)
  PROVE  /\ q \o r \in Seq(T)
         /\ Len(q) \in Nat /\ Len(r) \in Nat /\ Len(q \o r) = Len(q) + Len(r)
         /\ \A i \in 1 .. Len(q) : (q \o r)[i] = q[i]
         /\ \A i \in 1 .. Len(r) : (q \o r)[Len(q) + i] = r[i]
         /\ Elements(q \o r) = Elements(q) \cup Elements(r)
<1> DEFINE s == q \o r
           L == Len(q)
           R == Len(r)
<1>1. /\ s \in Seq(T) /\ Len(s) = L + R
      /\ \A i \in 1 .. L + R : s[i] = IF i <= L THEN q[i] ELSE r[i - L]
  BY ConcatProperties
<1>2. L \in Nat /\ R \in Nat /\ DOMAIN q = 1 .. L /\ DOMAIN r = 1 .. R /\ DOMAIN s = 1 .. L + R
  BY <1>1, LenProperties
<1> HIDE DEF s, L, R
<1>3. (\A i \in 1 .. L : s[i] = q[i]) /\ \A i \in 1 .. R : s[L + i] = r[i]
  BY <1>1, <1>2
<1>4. Elements(s) \subseteq Elements(q) \cup Elements(r)
  <2> SUFFICES ASSUME NEW i \in 1 .. L + R PROVE s[i] \in Elements(q) \cup Elements(r)
    BY <1>2 DEF Elements
  <2>1. CASE i <= L
    BY <1>2, <1>3, <2>1 DEF Elements
  <2>2. CASE i > L
    <3>1. i - L \in DOMAIN r /\ s[i] = r[i - L]
      BY <1>1, <1>2, <2>2
    <3> QED
      BY <3>1 DEF Elements
  <2> QED
    BY <1>2, <2>1, <2>2
<1>5. Elements(q) \subseteq Elements(s)
  BY <1>2, <1>3 DEF Elements
<1>6. Elements(r) \subseteq Elements(s)
  <2> SUFFICES ASSUME NEW i \in 1 .. R PROVE r[i] \in Elements(s)
    BY <1>2 DEF Elements
  <2>1. L + i \in DOMAIN s /\ s[L + i] = r[i]
    BY <1>2, <1>3
  <2> QED
    BY <2>1 DEF Elements
<1> QED
  BY <1>1, <1>2, <1>3, <1>4, <1>5, <1>6 DEF s, L, R

LEMMA JoinedDistinct ==
  ASSUME NEW q \in Seq(Leg), NEW r \in Seq(Leg), Distinct(q), Distinct(r),
         \A e \in Elements(q), f \in Elements(r) : e.name # f.name
  PROVE  Distinct(q \o r)
<1> DEFINE s == q \o r
           L == Len(q)
           R == Len(r)
<1>1. /\ s \in Seq(Leg) /\ Len(s) = L + R /\ L \in Nat /\ R \in Nat
      /\ \A i \in 1 .. L : s[i] = q[i]
      /\ \A i \in 1 .. R : s[L + i] = r[i]
  BY Joined
<1>2. DOMAIN q = 1 .. L /\ DOMAIN r = 1 .. R /\ DOMAIN s = 1 .. L + R
  BY <1>1, LenProperties
<1> HIDE DEF s, L, R
<1>3. \A i \in 1 .. L + R : i <= L \/ (i - L \in 1 .. R /\ s[i] = r[i - L])
  <2> SUFFICES ASSUME NEW i \in 1 .. L + R, i > L PROVE i - L \in 1 .. R /\ s[i] = r[i - L]
    BY <1>1
  <2>1. i - L \in 1 .. R /\ L + (i - L) = i
    BY <1>1
  <2> QED
    BY <1>1, <2>1
<1>4. \A i \in 1 .. L, j \in 1 .. R : q[i].name # r[j].name
  BY <1>2 DEF Elements
<1>5. \A i, j \in 1 .. L : q[i].name = q[j].name => i = j
  BY <1>2 DEF Distinct
<1>6. \A i, j \in 1 .. R : r[i].name = r[j].name => i = j
  BY <1>2 DEF Distinct
<1> SUFFICES ASSUME NEW i \in 1 .. L + R, NEW j \in 1 .. L + R, s[i].name = s[j].name PROVE i = j
  BY <1>2 DEF Distinct, s
<1>7. CASE i <= L /\ j <= L
  BY <1>1, <1>5, <1>7
<1>8. CASE i <= L /\ ~(j <= L)
  BY <1>1, <1>3, <1>4, <1>8
<1>9. CASE ~(i <= L) /\ j <= L
  BY <1>1, <1>3, <1>4, <1>9
<1>10. CASE ~(i <= L) /\ ~(j <= L)
  <2>1. i - L = j - L
    BY <1>3, <1>6, <1>10
  <2> QED
    BY <1>1, <2>1
<1> QED
  BY <1>1, <1>7, <1>8, <1>9, <1>10

LEMMA OwnFacts ==
  /\ Own \in Seq(Leg) /\ Len(Own) = 3 /\ Distinct(Own)
  /\ \A e \in Elements(Own) : Usable(e) /\ e.name \in Steps
  /\ \A name \in Steps : [name |-> name, dur |-> OwnDuration] \in Elements(Own)
<1>1. /\ DOMAIN Own = 1 .. 3
      /\ Own[1] = [name |-> "parse", dur |-> OwnDuration]
      /\ Own[2] = [name |-> "lookup_service", dur |-> OwnDuration]
      /\ Own[3] = [name |-> "slack_post", dur |-> OwnDuration]
  BY DEF Own
<1>2. Steps = {"parse", "lookup_service", "slack_post"}
  BY <1>1 DEF Steps
<1>3. \A i \in 1 .. 3 : i = 1 \/ i = 2 \/ i = 3
  OBVIOUS
<1>4. \A i \in 1 .. 3 : Own[i] \in Leg /\ Usable(Own[i]) /\ Own[i].name \in Steps
  <2>1. OwnDuration \in Nat /\ OwnDuration # NoDuration
    BY DEF OwnDuration, NoDuration
  <2>2. \A name \in Steps : name \in Names /\ name # BadName
    BY <1>2 DEF Names, BadName
  <2>3. \A i \in 1 .. 3 : \E name \in Steps : Own[i] = [name |-> name, dur |-> OwnDuration]
    BY <1>1, <1>2, <1>3
  <2> SUFFICES ASSUME NEW i \in 1 .. 3
               PROVE  Own[i] \in Leg /\ Usable(Own[i]) /\ Own[i].name \in Steps
    OBVIOUS
  <2>4. PICK name \in Steps : Own[i] = [name |-> name, dur |-> OwnDuration]
    BY <2>3
  <2>5. Own[i] \in Leg
    BY <2>1, <2>2, <2>4 DEF Leg
  <2>6. Own[i].name = name /\ Own[i].dur = OwnDuration
    BY <2>4
  <2> QED
    BY <2>1, <2>2, <2>5, <2>6 DEF Usable
<1>5. Own \in [1 .. 3 -> Leg]
  BY <1>4 DEF Own
<1>6. Own \in Seq(Leg) /\ Len(Own) = 3
  <2>1. Own \in Seq(Leg)
    <3>1. 3 \in Nat /\ Own \in [1 .. 3 -> Leg]
      BY <1>5
    <3> DEFINE q == Own
    <3> HIDE DEF q
    <3>2. \A n \in Nat : \A o \in [1 .. n -> Leg] : o \in Seq(Leg)
      OBVIOUS
    <3> QED
      BY <3>1, <3>2
  <2> QED
    BY <1>1, <2>1, LenProperties
<1>7. Distinct(Own)
  BY <1>1, <1>3 DEF Distinct
<1>8. \A name \in Steps : [name |-> name, dur |-> OwnDuration] \in Elements(Own)
  BY <1>1, <1>2 DEF Elements
<1> QED
  BY <1>1, <1>4, <1>6, <1>7, <1>8 DEF Elements

(* What is read of a header is usable, all of it if the header is. *)
LEMMA ReadFacts ==
  ASSUME NEW header \in Seq(Leg)
  PROVE  /\ parse_server_timing(header) \in Seq(Leg)
         /\ \A e \in Elements(parse_server_timing(header)) : Usable(e)
         /\ (\A e \in Elements(header) : Usable(e))
              => /\ Len(parse_server_timing(header)) = Len(header)
                 /\ Elements(parse_server_timing(header)) = Elements(header)
<1> DEFINE I == {i \in DOMAIN header : Usable(header[i])}
           legs == Kept(header, I)
<1>1. /\ legs \in Seq(Leg) /\ Len(legs) = Cardinality(I)
      /\ Elements(legs) = {header[i] : i \in I}
  BY KeptFacts
<1>2. parse_server_timing(header) = legs
  BY DEF parse_server_timing
<1>3. Len(header) \in Nat /\ DOMAIN header = 1 .. Len(header)
  BY LenProperties
<1>4. Cardinality(1 .. Len(header)) = Len(header)
  BY <1>3, FS_Interval
<1>5. \A e \in Elements(legs) : Usable(e)
  BY <1>1
<1>6. (\A e \in Elements(header) : Usable(e)) => I = DOMAIN header
  BY DEF Elements
<1> HIDE DEF legs
<1> QED
  BY <1>1, <1>2, <1>3, <1>4, <1>5, <1>6 DEF Elements

(* The merged header. *)
LEMMA MergedFacts ==
  ASSUME NEW header \in Seq(Leg)
  PROVE  /\ Merged(header) \in Seq(Leg) /\ Distinct(Merged(header))
         /\ \A e \in Elements(Merged(header)) : Usable(e)
         /\ Elements(Merged(header)) = Elements(Own) \cup Elements(Extra(header)) \cup {Total}
<1> DEFINE legs == parse_server_timing(header)
           extra == Extra(header)
           body == Own \o extra
           end == <<Total>>
<1>1. legs \in Seq(Leg) /\ \A i \in DOMAIN legs : Usable(legs[i])
  BY ReadFacts DEF Elements
<1>2. extra \in Seq(Leg) /\ Distinct(extra) /\ \A e \in Elements(extra) : Fair(e)
  BY <1>1, ExtraFacts
<1>3. Total \in Leg /\ Usable(Total) /\ Total.name = "total"
  BY DEF Total, Leg, Names, Usable, OwnDuration, NoDuration, BadName
<1>4. end \in Seq(Leg) /\ Distinct(end) /\ Elements(end) = {Total}
  BY <1>3 DEF Distinct, Elements
<1>5. Merged(header) = body \o end
  <2> HIDE DEF extra
  <2> QED
    BY <1>2, <1>4, OwnFacts DEF Merged, extra
<1> HIDE DEF legs, extra, end
<1>6. \A e \in Elements(Own) : e.name \in Steps /\ e.name # "total"
  BY OwnFacts DEF Steps, Own
<1>7. body \in Seq(Leg) /\ Elements(body) = Elements(Own) \cup Elements(extra)
  BY <1>2, OwnFacts, Joined
<1>8. Distinct(body)
  BY <1>2, <1>6, OwnFacts, JoinedDistinct DEF Fair
<1>9. \A e \in Elements(body) : Usable(e) /\ e.name # "total"
  BY <1>2, <1>6, <1>7, OwnFacts DEF Fair
<1> HIDE DEF body
<1>10. body \o end \in Seq(Leg) /\ Elements(body \o end) = Elements(body) \cup {Total}
  BY <1>4, <1>7, Joined
<1>11. Distinct(body \o end)
  BY <1>3, <1>4, <1>7, <1>8, <1>9, JoinedDistinct
<1> QED
  BY <1>3, <1>5, <1>7, <1>9, <1>10, <1>11 DEF extra
LEMMA Disjoint ==
  ASSUME NEW S, NEW T, IsFiniteSet(S), IsFiniteSet(T), S \cap T = {}
  PROVE  /\ IsFiniteSet(S \cup T) /\ Cardinality(S) \in Nat /\ Cardinality(T) \in Nat
         /\ Cardinality(S \cup T) = Cardinality(S) + Cardinality(T)
<1>1. /\ IsFiniteSet(S \cup T)
      /\ Cardinality(S \cup T) = Cardinality(S) + Cardinality(T) - Cardinality({})
  BY FS_Union
<1> QED
  BY <1>1, FS_EmptySet, FS_CardinalityType

(* The operator is shown every leg once, and one named total last. *)
LEMMA DisplayedFacts ==
  ASSUME NEW header \in Seq(Leg), \A e \in Elements(header) : Usable(e),
         \E e \in Elements(header) : e.name = "total"
  PROVE  /\ Displayed(header) \in Seq(Leg) /\ Len(Displayed(header)) = Len(header)
         /\ Elements(Displayed(header)) = Elements(header)
         /\ Displayed(header)[Len(Displayed(header))].name = "total"
<1> DEFINE legs == parse_server_timing(header)
           I == DOMAIN legs
           A == {i \in I : legs[i].name \notin ROLLUP_STAGES}
           B == {i \in I : legs[i].name = "lookup_service"}
           C == {i \in I : legs[i].name = "lml_wall"}
           D == {i \in I : legs[i].name = "lml_total"}
           E == {i \in I : legs[i].name = "total"}
           a == Kept(legs, A)
           b == Kept(legs, B)
           c == Kept(legs, C)
           d == Kept(legs, D)
           e == Kept(legs, E)
<1>1. legs \in Seq(Leg) /\ Len(legs) = Len(header) /\ Elements(legs) = Elements(header)
  BY ReadFacts
<1>2. Displayed(header) = (((a \o b) \o c) \o d) \o e
  BY DEF Displayed
<1>3. /\ Len(legs) \in Nat /\ I = 1 .. Len(legs)
      /\ IsFiniteSet(I) /\ Cardinality(I) = Len(legs)
  BY <1>1, LenProperties, FS_Interval
<1> HIDE DEF legs
<1>4. /\ I = (((A \cup B) \cup C) \cup D) \cup E
      /\ A \cap B = {} /\ (A \cup B) \cap C = {} /\ ((A \cup B) \cup C) \cap D = {}
      /\ (((A \cup B) \cup C) \cup D) \cap E = {}
  BY DEF ROLLUP_STAGES
<1>5. /\ A \in SUBSET I /\ B \in SUBSET I /\ C \in SUBSET I /\ D \in SUBSET I /\ E \in SUBSET I
  OBVIOUS
<1>6. \A i \in E : legs[i].name = "total"
  OBVIOUS
<1>7. E # {}
  BY <1>1 DEF Elements
<1> HIDE DEF A, B, C, D, E
<1>8. /\ IsFiniteSet(A) /\ IsFiniteSet(B) /\ IsFiniteSet(C) /\ IsFiniteSet(D) /\ IsFiniteSet(E)
  BY <1>3, <1>5, FS_Subset
<1>9. Cardinality(I) = Cardinality(A) + Cardinality(B) + Cardinality(C) + Cardinality(D)
                         + Cardinality(E)
  <2>1. IsFiniteSet(A \cup B) /\ Cardinality(A \cup B) = Cardinality(A) + Cardinality(B)
    BY <1>4, <1>8, Disjoint
  <2> DEFINE AB == A \cup B
  <2> HIDE DEF AB
  <2>2. IsFiniteSet(AB \cup C) /\ Cardinality(AB \cup C) = Cardinality(AB) + Cardinality(C)
    BY <1>4, <1>8, <2>1, Disjoint DEF AB
  <2> DEFINE AC == AB \cup C
  <2> HIDE DEF AC
  <2>3. IsFiniteSet(AC \cup D) /\ Cardinality(AC \cup D) = Cardinality(AC) + Cardinality(D)
    BY <1>4, <1>8, <2>2, Disjoint DEF AC, AB
  <2> DEFINE AD == AC \cup D
  <2> HIDE DEF AD
  <2>4. Cardinality(AD \cup E) = Cardinality(AD) + Cardinality(E)
    BY <1>4, <1>8, <2>3, Disjoint DEF AD, AC, AB
  <2> QED
    BY <1>4, <2>1, <2>2, <2>3, <2>4 DEF AD, AC, AB
<1>10. /\ a \in Seq(Leg) /\ Len(a) = Cardinality(A) /\ Elements(a) = {legs[i] : i \in A}
  BY <1>1, <1>5, KeptFacts
<1>11. /\ b \in Seq(Leg) /\ Len(b) = Cardinality(B) /\ Elements(b) = {legs[i] : i \in B}
  BY <1>1, <1>5, KeptFacts
<1>12. /\ c \in Seq(Leg) /\ Len(c) = Cardinality(C) /\ Elements(c) = {legs[i] : i \in C}
  BY <1>1, <1>5, KeptFacts
<1>13. /\ d \in Seq(Leg) /\ Len(d) = Cardinality(D) /\ Elements(d) = {legs[i] : i \in D}
  BY <1>1, <1>5, KeptFacts
<1>14. /\ e \in Seq(Leg) /\ Len(e) = Cardinality(E) /\ Elements(e) = {legs[i] : i \in E}
  BY <1>1, <1>5, KeptFacts
<1> HIDE DEF a, b, c, d, e
<1> DEFINE ab == a \o b
           ac == ab \o c
           ad == ac \o d
           ae == ad \o e
<1>15. /\ ab \in Seq(Leg) /\ Len(ab) = Len(a) + Len(b)
       /\ Elements(ab) = Elements(a) \cup Elements(b)
  <2>1. a \in Seq(Leg) /\ b \in Seq(Leg)
    BY <1>10, <1>11
  <2> QED
    BY <2>1, Joined
<1> HIDE DEF ab
<1>16. /\ ac \in Seq(Leg) /\ Len(ac) = Len(ab) + Len(c)
       /\ Elements(ac) = Elements(ab) \cup Elements(c)
  <2>1. ab \in Seq(Leg) /\ c \in Seq(Leg)
    BY <1>12, <1>15
  <2> QED
    BY <2>1, Joined
<1> HIDE DEF ac
<1>17. /\ ad \in Seq(Leg) /\ Len(ad) = Len(ac) + Len(d)
       /\ Elements(ad) = Elements(ac) \cup Elements(d)
  <2>1. ac \in Seq(Leg) /\ d \in Seq(Leg)
    BY <1>13, <1>16
  <2> QED
    BY <2>1, Joined
<1> HIDE DEF ad
<1>18. /\ ae \in Seq(Leg) /\ Len(ae) = Len(ad) + Len(e)
       /\ Elements(ae) = Elements(ad) \cup Elements(e)
       /\ Len(ad) \in Nat /\ Len(e) \in Nat
       /\ \A i \in 1 .. Len(e) : ae[Len(ad) + i] = e[i]
  <2>1. ad \in Seq(Leg) /\ e \in Seq(Leg)
    BY <1>14, <1>17
  <2> QED
    BY <2>1, Joined
<1> HIDE DEF ae
<1>19. Displayed(header) = ae
  BY <1>2 DEF ae, ad, ac, ab
<1>20. Len(ae) = Len(header)
  BY <1>1, <1>3, <1>9, <1>10, <1>11, <1>12, <1>13, <1>14, <1>15, <1>16, <1>17, <1>18
<1>21. Elements(ae) = {legs[i] : i \in I}
  BY <1>4, <1>10, <1>11, <1>12, <1>13, <1>14, <1>15, <1>16, <1>17, <1>18
<1>22. {legs[i] : i \in I} = Elements(legs)
  BY DEF Elements
<1>23. ae[Len(ae)].name = "total"
  <2>1. DOMAIN e = 1 .. Len(e)
    BY <1>14, LenProperties
  <2>2. Elements(e) # {}
    BY <1>7, <1>14
  <2>3. Len(e) > 0
    BY <1>18, <2>1, <2>2 DEF Elements
  <2>4. Len(e) \in DOMAIN e /\ ae[Len(ae)] = e[Len(e)]
    BY <1>18, <2>1, <2>3
  <2>5. e[Len(e)] \in {legs[i] : i \in E}
    BY <1>14, <2>4 DEF Elements
  <2> QED
    BY <1>6, <2>4, <2>5
<1> QED
  BY <1>1, <1>18, <1>19, <1>20, <1>21, <1>22, <1>23

(* Every last leg of a name is in the merged header. *)
SameName(a, b) == a.name = b.name \/ {a.name, b.name} = {"total", "lml_total"}
LEMMA SameNameSameKey ==
  ASSUME NEW a, NEW b
  PROVE  SameName(a, b) <=> Key(a.name) = Key(b.name)
<1>1. CASE a.name = "total"
  BY <1>1 DEF SameName, Key
<1>2. CASE a.name # "total"
  BY <1>2 DEF SameName, Key
<1> QED
  BY <1>1, <1>2

LEMMA LegsAreKept ==
  ASSUME NEW header \in Seq(Leg), NEW i \in DOMAIN header,
         Usable(header[i]), Key(header[i].name) \notin Steps,
         \A j \in i + 1 .. Len(header) : Usable(header[j]) => ~SameName(header[i], header[j])
  PROVE  Renamed(header[i]) \in Elements(Merged(header))
<1> DEFINE I == {j \in DOMAIN header : Usable(header[j])}
           legs == Kept(header, I)
<1>1. Len(header) \in Nat /\ DOMAIN header = 1 .. Len(header)
  BY LenProperties
<1>2. parse_server_timing(header) = legs /\ I \in SUBSET DOMAIN header /\ i \in I
  BY DEF parse_server_timing
<1>3. legs \in Seq(Leg) /\ \A j \in DOMAIN legs : Usable(legs[j])
  BY <1>2, ReadFacts DEF Elements
<1>4. \A j \in I : j > i => Key(header[j].name) # Key(header[i].name)
  BY <1>1, SameNameSameKey
<1> HIDE DEF I
<1>5. PICK k \in DOMAIN legs : legs[k] = header[i] /\ Follow(legs, k, header, I, i)
  BY <1>2, KeptOrder
<1>6. Len(legs) \in Nat /\ DOMAIN legs = 1 .. Len(legs)
  BY <1>3, LenProperties
<1> HIDE DEF legs
<1>7. LastOfKey(legs, k, Len(legs))
  <2> SUFFICES ASSUME NEW l \in k + 1 .. Len(legs) PROVE Key(legs[l].name) # Key(legs[k].name)
    BY DEF LastOfKey
  <2>1. l \in DOMAIN legs /\ l > k
    BY <1>6
  <2>2. PICK j \in I : j > i /\ legs[l] = header[j]
    BY <1>5, <2>1 DEF Follow
  <2> QED
    BY <1>4, <1>5, <2>2
<1>8. Spared(Extra(header), Renamed(legs[k]))
  BY <1>2, <1>3, <1>5, <1>7, ExtraFacts
<1> QED
  BY <1>5, <1>8, MergedFacts DEF Spared
-----------------------------------------------------------------------------
(* UserAgent: Python's order of tuples is the order of versions, as long   *)
(* as the version compared with does not end in a zero.                    *)
LEMMA VersionOrder ==
  ASSUME NEW v \in Seq(Nat), NEW f \in Seq(Nat), f # <<>> => f[Len(f)] > 0
  PROVE  AtLeast(v, f) <=> NotBelow(v, f)
<1> DEFINE D == {i \in DOMAIN f : Part(v, i) # f[i]}
<1>1. /\ Len(v) \in Nat /\ DOMAIN v = 1 .. Len(v) /\ \A i \in 1 .. Len(v) : v[i] \in Nat
      /\ Len(f) \in Nat /\ DOMAIN f = 1 .. Len(f) /\ \A i \in 1 .. Len(f) : f[i] \in Nat
  BY LenProperties, ElementOfSeq
<1>2. \A i : Part(v, i) \in Nat /\ (i \in 1 .. Len(v) => Part(v, i) = v[i])
  BY <1>1 DEF Part
<1>3. CASE D = {}
  <2>1. \A i \in 1 .. Len(f) : Part(v, i) = f[i]
    BY <1>1, <1>3
  <2>2. NotBelow(v, f)
    BY <1>1, <2>1 DEF NotBelow
  <2>3. Len(v) >= Len(f)
    <3>1. CASE f = <<>>
      BY <1>1, <3>1
    <3>2. CASE f # <<>>
      <4>1. Len(f) \in 1 .. Len(f)
        BY <1>1, <3>2, EmptySeq
      <4>2. Part(v, Len(f)) > 0
        BY <2>1, <3>2, <4>1
      <4> QED
        BY <1>1, <4>1, <4>2 DEF Part
    <3> QED
      BY <3>1, <3>2
  <2>4. AtLeast(v, f)
    BY <1>1, <1>2, <2>1, <2>3 DEF AtLeast
  <2> QED
    BY <2>2, <2>4
<1>4. CASE D # {}
  <2>1. D \in SUBSET Nat
    BY <1>1
  <2> HIDE DEF D
  <2>2. PICK m \in D : \A i \in D : m <= i
    BY <1>4, <2>1, LeastElement
  <2>3. m \in 1 .. Len(f) /\ Part(v, m) # f[m]
    BY <1>1, <2>2 DEF D
  <2>4. \A j \in 1 .. m - 1 : Part(v, j) = f[j]
    <3> SUFFICES ASSUME NEW j \in 1 .. m - 1, Part(v, j) # f[j] PROVE FALSE
      OBVIOUS
    <3>1. j \in DOMAIN f /\ j < m
      BY <1>1, <2>3
    <3>2. j \in D /\ ~(m <= j)
      BY <1>1, <2>3, <3>1 DEF D
    <3> QED
      BY <2>2, <3>2
  <2>5. NotBelow(v, f) <=> Part(v, m) > f[m]
    <3>1. ASSUME NotBelow(v, f) PROVE Part(v, m) > f[m]
      <4>1. ~ \E j \in 1 .. m - 1 : Part(v, j) > f[j]
        BY <1>1, <2>3, <2>4
      <4>2. ~(Part(v, m) < f[m])
        BY <1>1, <2>3, <3>1, <4>1 DEF NotBelow
      <4> QED
        BY <1>1, <1>2, <2>3, <4>2
    <3>2. ASSUME Part(v, m) > f[m] PROVE NotBelow(v, f)
      <4> SUFFICES ASSUME NEW i \in 1 .. Len(f), Part(v, i) < f[i]
                   PROVE  \E j \in 1 .. i - 1 : Part(v, j) > f[j]
        BY <1>1 DEF NotBelow
      <4>1. i \in D /\ i # m
        BY <1>1, <1>2, <2>3, <3>2 DEF D
      <4>2. m \in 1 .. i - 1
        BY <2>2, <2>3, <4>1
      <4> QED
        BY <3>2, <4>2
    <3> QED
      BY <3>1, <3>2
  <2>6. AtLeast(v, f) <=> Part(v, m) > f[m]
    <3>1. ~(Len(v) >= Len(f) /\ \A i \in DOMAIN f : v[i] = f[i])
      <4> SUFFICES ASSUME Len(v) >= Len(f), \A i \in DOMAIN f : v[i] = f[i] PROVE FALSE
        OBVIOUS
      <4>1. m \in 1 .. Len(v) /\ v[m] = f[m]
        BY <1>1, <2>3
      <4> QED
        BY <1>2, <2>3, <4>1
    <3>2. ASSUME NEW i \in DOMAIN v \intersect DOMAIN f, v[i] > f[i],
                 \A j \in 1 .. i - 1 : v[j] = f[j]
          PROVE  Part(v, m) > f[m]
      <4>1. i \in D
        BY <1>1, <1>2, <3>2 DEF D
      <4>2. ~(m < i)
        <5> SUFFICES ASSUME m < i PROVE FALSE
          OBVIOUS
        <5>1. m \in 1 .. i - 1 /\ m \in 1 .. Len(v)
          BY <1>1, <2>3, <3>2
        <5>2. v[m] = f[m]
          BY <3>2, <5>1
        <5> QED
          BY <1>2, <2>3, <5>1, <5>2
      <4>3. i = m
        BY <1>1, <2>2, <2>3, <4>1, <4>2
      <4> QED
        BY <1>1, <1>2, <3>2, <4>3
    <3>3. ASSUME Part(v, m) > f[m]
          PROVE  /\ m \in DOMAIN v \intersect DOMAIN f /\ v[m] > f[m]
                 /\ \A j \in 1 .. m - 1 : v[j] = f[j]
      <4>1. m \in 1 .. Len(v)
        BY <1>1, <2>3, <3>3 DEF Part
      <4>2. \A j \in 1 .. m - 1 : j \in 1 .. Len(v)
        BY <1>1, <4>1
      <4>3. \A j \in 1 .. m - 1 : v[j] = f[j]
        BY <1>2, <2>4, <4>2
      <4>4. v[m] > f[m]
        BY <1>2, <3>3, <4>1
      <4> QED
        BY <1>1, <2>3, <4>1, <4>3, <4>4
    <3> QED
      BY <3>1, <3>2, <3>3 DEF AtLeast
  <2> QED
    BY <2>5, <2>6
<1> QED
  BY <1>3, <1>4
-----------------------------------------------------------------------------
(* AlbumPrepass: a stretch of a message, and what comes before and after.  *)
LEMMA Stretch ==
  ASSUME NEW T, NEW s \in Seq(T), NEW p \in 1 .. Len(s) + 1, NEW q \in p - 1 .. Len(s)
  PROVE  /\ SubSeq(s, p, q) \in Seq(T) /\ Len(SubSeq(s, p, q)) = q - p + 1
         /\ \A k \in 1 .. q - p + 1 : SubSeq(s, p, q)[k] = s[p + k - 1]
<1>1. Len(s) \in Nat /\ p \in Int /\ q \in Int
  BY LenProperties
<1>2. \A i \in p .. q : s[i] \in T
  BY <1>1, ElementOfSeq
<1> QED
  BY <1>1, <1>2, SubSeqProperties

LEMMA FromFacts ==
  ASSUME NEW T, NEW s \in Seq(T), NEW p \in 1 .. Len(s) + 1
  PROVE  /\ From(s, p) \in Seq(T) /\ Len(From(s, p)) = Len(s) - p + 1
         /\ \A k \in 1 .. Len(s) - p + 1 : From(s, p)[k] = s[p + k - 1]
<1>1. Len(s) \in p - 1 .. Len(s)
  BY LenProperties
<1> QED
  BY <1>1, Stretch DEF From

LEMMA BeforeFacts ==
  ASSUME NEW T, NEW s \in Seq(T), NEW p \in 1 .. Len(s) + 1
  PROVE  /\ Before(s, p) \in Seq(T) /\ Len(Before(s, p)) = p - 1
         /\ \A k \in 1 .. p - 1 : Before(s, p)[k] = s[k]
<1>1. 1 \in 1 .. Len(s) + 1 /\ p - 1 \in 1 - 1 .. Len(s)
  BY LenProperties
<1>2. /\ SubSeq(s, 1, p - 1) \in Seq(T) /\ Len(SubSeq(s, 1, p - 1)) = p - 1 - 1 + 1
      /\ \A k \in 1 .. p - 1 - 1 + 1 : SubSeq(s, 1, p - 1)[k] = s[1 + k - 1]
  BY <1>1, Stretch
<1> QED
  BY <1>2 DEF Before

LEMMA FromOfFrom ==
  ASSUME NEW T, NEW s \in Seq(T), NEW p \in 1 .. Len(s) + 1, NEW q \in 1 .. Len(s) - p + 2
  PROVE  From(From(s, p), q) = From(s, p + q - 1)
<1> DEFINE r == From(s, p)
           a == From(r, q)
           b == From(s, p + q - 1)
<1>1. Len(s) \in Nat /\ p + q - 1 \in 1 .. Len(s) + 1
  BY LenProperties
<1>2. /\ r \in Seq(T) /\ Len(r) = Len(s) - p + 1
      /\ \A k \in 1 .. Len(s) - p + 1 : r[k] = s[p + k - 1]
  BY FromFacts
<1>3. /\ b \in Seq(T) /\ Len(b) = Len(s) - (p + q - 1) + 1
      /\ \A k \in 1 .. Len(s) - (p + q - 1) + 1 : b[k] = s[p + q - 1 + k - 1]
  BY <1>1, FromFacts
<1>4. q \in 1 .. Len(r) + 1
  BY <1>1, <1>2
<1> HIDE DEF r, b
<1>5. /\ a \in Seq(T) /\ Len(a) = Len(r) - q + 1
      /\ \A k \in 1 .. Len(r) - q + 1 : a[k] = r[q + k - 1]
  BY <1>2, <1>4, FromFacts
<1> HIDE DEF a
<1>6. Len(a) = Len(b)
  BY <1>1, <1>2, <1>3, <1>5
<1>7. \A k \in 1 .. Len(a) : a[k] = b[k]
  <2> SUFFICES ASSUME NEW k \in 1 .. Len(a) PROVE a[k] = b[k]
    OBVIOUS
  <2>1. q + k - 1 \in 1 .. Len(s) - p + 1 /\ k \in 1 .. Len(r) - q + 1
    BY <1>1, <1>2, <1>5
  <2>2. a[k] = s[p + (q + k - 1) - 1]
    BY <1>2, <1>5, <2>1
  <2>3. k \in 1 .. Len(s) - (p + q - 1) + 1
    BY <1>1, <1>2, <1>5
  <2> QED
    BY <1>1, <1>3, <2>2, <2>3
<1> QED
  BY <1>3, <1>5, <1>6, <1>7, SeqEqual DEF a, b, r

LEMMA BeforeAndFrom ==
  ASSUME NEW T, NEW s \in Seq(T), NEW p \in 1 .. Len(s) + 1
  PROVE  s = Before(s, p) \o From(s, p)
<1>1. Len(s) \in Nat /\ 1 \in 1 .. Len(s) + 1 /\ p - 1 \in 1 - 1 .. Len(s) /\ Len(s) \in p - 1 .. Len(s)
  BY LenProperties
<1>2. SubSeq(s, 1, p - 1) \o SubSeq(s, p - 1 + 1, Len(s)) = SubSeq(s, 1, Len(s))
  BY <1>1, ConcatAdjacentSubSeq
<1>3. p - 1 + 1 = p
  BY <1>1
<1> QED
  BY <1>2, <1>3, SubSeqFull DEF Before, From

LEMMA Prepositions ==
  \A w \in SUPPORTED_ALBUM_PREPOSITIONS : w \in Seq(Tokens) /\ Len(w) \in 1 .. 2
<1> DEFINE offof == <<"off", "of">>
           off == <<"off">>
           from == <<"from">>
           on == <<"on">>
<1>1. "off" \in Tokens /\ "of" \in Tokens /\ "from" \in Tokens /\ "on" \in Tokens
  BY DEF Tokens, Words
<1>2. offof \in Seq(Tokens) /\ Len(offof) \in 1 .. 2
  BY <1>1
<1>3. off \in Seq(Tokens) /\ Len(off) \in 1 .. 2
  BY <1>1
<1>4. from \in Seq(Tokens) /\ Len(from) \in 1 .. 2
  BY <1>1
<1>5. on \in Seq(Tokens) /\ Len(on) \in 1 .. 2
  BY <1>1
<1>6. SUPPORTED_ALBUM_PREPOSITIONS = {offof, off, from, on}
  BY DEF SUPPORTED_ALBUM_PREPOSITIONS
<1> HIDE DEF offof, off, from, on
<1> QED
  BY <1>2, <1>3, <1>4, <1>5, <1>6

(* The preposition that splits a message is one of those that are there.   *)
LEMMA PrepositionFacts ==
  ASSUME NEW m \in Seq(Tokens), Splits(m) # {}
  PROVE  /\ First(Splits(m)) \in 2 .. Len(m)
         /\ PrepositionAt(m, First(Splits(m))) \in SUPPORTED_ALBUM_PREPOSITIONS
         /\ IsPrefixAt(m, First(Splits(m)), PrepositionAt(m, First(Splits(m))))
<1> DEFINE i == First(Splits(m))
           W == PrepositionsAt(m, i)
           Longest(w) == \A v \in W : Len(v) <= Len(w)
<1>1. Splits(m) \in SUBSET Nat
  BY LenProperties DEF Splits
<1>2. i \in Splits(m)
  BY <1>1, FirstIsOne
<1>3. i \in 2 .. Len(m) /\ W # {}
  BY <1>2 DEF Splits
<1>4. \A w \in W : w \in SUPPORTED_ALBUM_PREPOSITIONS /\ IsPrefixAt(m, i, w)
  BY DEF PrepositionsAt
<1>5. \A w \in W : Len(w) \in 1 .. 2
  BY <1>4, Prepositions
<1>6. PrepositionAt(m, i) = CHOOSE w \in W : Longest(w)
  BY DEF PrepositionAt
<1> HIDE DEF i, W
<1>7. \E w \in W : Longest(w)
  <2>1. CASE \E w \in W : Len(w) = 2
    BY <1>5, <2>1
  <2>2. CASE ~ \E w \in W : Len(w) = 2
    <3>1. \A v \in W : Len(v) = 1
      BY <1>5, <2>2
    <3> QED
      BY <1>3, <3>1
  <2> QED
    BY <2>1, <2>2
<1> HIDE DEF Longest
<1>8. PrepositionAt(m, i) \in W
  BY <1>6, <1>7
<1> QED
  BY <1>3, <1>4, <1>8 DEF i
(* What a preposition leaves: the message up to it, itself, a descriptor   *)
(* or none, and a clause whose first token is no pause and closes nothing. *)
Descriptors == {<<>>, <<"album">>, <<"the", "album">>}
Clause(m, i, w, d, clause) ==
  /\ i + Len(w) + d \in 1 .. Len(m) /\ clause = From(m, i + Len(w) + d)
  /\ SubSeq(m, i, i + Len(w) - 1) = w
  /\ SubSeq(m, i + Len(w), i + Len(w) + d - 1) \in Descriptors
  /\ clause[1] \notin Pauses \union {"close"}

LEMMA ClauseFacts ==
  ASSUME NEW m \in Seq(Tokens), NEW i \in 2 .. Len(m),
         NEW w \in SUPPORTED_ALBUM_PREPOSITIONS, IsPrefixAt(m, i, w)
  PROVE  \E d \in 0 .. 2 : Clause(m, i, w, d, WithoutDescriptor(From(m, i + Len(w))))
<1> DEFINE p == i + Len(w)
           a == From(m, p)
<1>1. Len(m) \in Nat
  BY LenProperties
<1>2. w \in Seq(Tokens) /\ Len(w) \in 1 .. 2
  BY Prepositions
<1>3. /\ p \in 1 .. Len(m) /\ m[p] \notin Pauses \union {"close"}
      /\ \A j \in 1 .. Len(w) : m[i + j - 1] = w[j]
  BY <1>1, <1>2 DEF IsPrefixAt, SpaceBefore
<1>4. /\ a \in Seq(Tokens) /\ Len(a) = Len(m) - p + 1
      /\ \A k \in 1 .. Len(m) - p + 1 : a[k] = m[p + k - 1]
  BY <1>1, <1>3, FromFacts
<1>5. SubSeq(m, i, p - 1) = w
  <2>1. i \in 1 .. Len(m) + 1 /\ p - 1 \in i - 1 .. Len(m)
    BY <1>1, <1>2, <1>3
  <2>2. /\ SubSeq(m, i, p - 1) \in Seq(Tokens) /\ Len(SubSeq(m, i, p - 1)) = p - 1 - i + 1
        /\ \A k \in 1 .. p - 1 - i + 1 : SubSeq(m, i, p - 1)[k] = m[i + k - 1]
    BY <2>1, Stretch
  <2>3. p - 1 - i + 1 = Len(w)
    BY <1>1, <1>2
  <2> QED
    BY <1>2, <1>3, <2>2, <2>3, SeqEqual
<1> DEFINE Left(d) == SubSeq(m, p, p + d - 1)
<1>6. ASSUME NEW d \in 0 .. 2, p + d \in 1 .. Len(m)
      PROVE  /\ Left(d) \in Seq(Tokens) /\ Len(Left(d)) = d
             /\ \A k \in 1 .. d : Left(d)[k] = a[k]
             /\ From(a, d + 1) = From(m, p + d)
             /\ From(m, p + d)[1] = m[p + d] /\ m[p + d] = a[d + 1]
  <2>1. /\ p \in 1 .. Len(m) + 1 /\ p + d - 1 \in p - 1 .. Len(m) /\ p + d - 1 - p + 1 = d
        /\ d + 1 \in 1 .. Len(m) - p + 2 /\ p + (d + 1) - 1 = p + d
        /\ p + d \in 1 .. Len(m) + 1 /\ 1 \in 1 .. Len(m) - (p + d) + 1
        /\ p + d + 1 - 1 = p + d
    BY <1>1, <1>3, <1>6
  <2>2. \A k \in 1 .. d + 1 : k \in 1 .. Len(m) - p + 1
    BY <1>1, <1>3, <1>6
  <2> HIDE DEF p
  <2>3. /\ Left(d) \in Seq(Tokens) /\ Len(Left(d)) = d
        /\ \A k \in 1 .. d : Left(d)[k] = m[p + k - 1]
    <3> DEFINE q == p + d - 1
    <3>1. p \in 1 .. Len(m) + 1 /\ q \in p - 1 .. Len(m) /\ q - p + 1 = d
      BY <2>1
    <3> HIDE DEF q
    <3>2. /\ SubSeq(m, p, q) \in Seq(Tokens) /\ Len(SubSeq(m, p, q)) = d
          /\ \A k \in 1 .. d : SubSeq(m, p, q)[k] = m[p + k - 1]
      BY <3>1, Stretch
    <3> QED
      BY <3>2 DEF q
  <2>4. \A k \in 1 .. d + 1 : m[p + k - 1] = a[k]
    BY <1>4, <2>2
  <2>5. From(a, d + 1) = From(m, p + d)
    BY <2>1, FromOfFrom
  <2>6. From(m, p + d)[1] = m[p + d + 1 - 1]
    BY <2>1, FromFacts
  <2>7. m[p + d] = a[d + 1]
    BY <2>1, <2>4
  <2>8. \A k \in 1 .. d : Left(d)[k] = a[k]
    BY <2>3, <2>4
  <2> HIDE DEF Left, a
  <2> QED
    BY <2>1, <2>3, <2>5, <2>6, <2>7, <2>8
<1> HIDE DEF Left, a, p
<1>7. CASE Len(a) >= 3 /\ a[1] = "the" /\ a[2] = "album" /\ SpaceBefore(a, 2) /\ SpaceBefore(a, 3)
  <2>1. WithoutDescriptor(a) = From(a, 3)
    BY <1>7 DEF WithoutDescriptor
  <2>2. 2 \in 0 .. 2 /\ p + 2 \in 1 .. Len(m) /\ 2 + 1 = 3
    BY <1>1, <1>3, <1>4, <1>7
  <2>3. /\ Left(2) \in Seq(Tokens) /\ Len(Left(2)) = 2
        /\ Left(2)[1] = "the" /\ Left(2)[2] = "album"
        /\ From(a, 3) = From(m, p + 2) /\ From(m, p + 2)[1] = a[3]
    BY <1>6, <1>7, <2>2
  <2>4. Left(2) = <<"the", "album">>
    BY <2>3
  <2>5. a[3] \notin Pauses \union {"close"}
    BY <1>7 DEF SpaceBefore
  <2>6. Clause(m, i, w, 2, From(a, 3))
    BY <1>5, <2>2, <2>3, <2>4, <2>5 DEF Clause, Descriptors, Left, p
  <2> QED
    BY <2>1, <2>2, <2>6 DEF a, p
<1>8. CASE /\ ~(Len(a) >= 3 /\ a[1] = "the" /\ a[2] = "album" /\ SpaceBefore(a, 2) /\ SpaceBefore(a, 3))
           /\ Len(a) >= 2 /\ a[1] = "album" /\ SpaceBefore(a, 2) /\ a[2] # "of"
  <2>1. WithoutDescriptor(a) = From(a, 2)
    BY <1>8 DEF WithoutDescriptor
  <2>2. 1 \in 0 .. 2 /\ p + 1 \in 1 .. Len(m) /\ 1 + 1 = 2
    BY <1>1, <1>3, <1>4, <1>8
  <2>3. /\ Left(1) \in Seq(Tokens) /\ Len(Left(1)) = 1
        /\ Left(1)[1] = "album"
        /\ From(a, 2) = From(m, p + 1) /\ From(m, p + 1)[1] = a[2]
    BY <1>6, <1>8, <2>2
  <2>4. Left(1) = <<"album">>
    BY <2>3
  <2>5. a[2] \notin Pauses \union {"close"}
    BY <1>8 DEF SpaceBefore
  <2>6. Clause(m, i, w, 1, From(a, 2))
    BY <1>5, <2>2, <2>3, <2>4, <2>5 DEF Clause, Descriptors, Left, p
  <2> QED
    BY <2>1, <2>2, <2>6 DEF a, p
<1>9. CASE /\ ~(Len(a) >= 3 /\ a[1] = "the" /\ a[2] = "album" /\ SpaceBefore(a, 2) /\ SpaceBefore(a, 3))
           /\ ~(Len(a) >= 2 /\ a[1] = "album" /\ SpaceBefore(a, 2) /\ a[2] # "of")
  <2>1. WithoutDescriptor(a) = a
    BY <1>9 DEF WithoutDescriptor
  <2>2. 0 \in 0 .. 2 /\ p + 0 \in 1 .. Len(m) /\ p + 0 = p
    BY <1>1, <1>3
  <2>3. Left(0) \in Seq(Tokens) /\ Len(Left(0)) = 0 /\ From(m, p)[1] = m[p]
    BY <1>6, <2>2
  <2>4. Left(0) = <<>>
    BY <2>3, EmptySeq
  <2>5. Clause(m, i, w, 0, a)
    BY <1>3, <1>5, <2>2, <2>3, <2>4 DEF Clause, Descriptors, Left, p, a
  <2> QED
    BY <2>1, <2>2, <2>5 DEF a, p
<1> QED
  BY <1>7, <1>8, <1>9

(* Nothing is cut off a clause but courtesies and what follows them.       *)
Cut(c, a) ==
  /\ Len(a) \in 0 .. Len(c) /\ a = Before(c, Len(a) + 1)
  /\ OnlyCourtesies(c, Len(a))
Appended(c, k) ==
  k < Len(c) => k + 2 <= Len(c) /\ c[k + 1] \in Pauses /\ c[k + 2] = "please"

LEMMA Uncut ==
  ASSUME NEW c \in Seq(Tokens)
  PROVE  Cut(c, c)
<1>1. Len(c) \in Nat
  BY LenProperties
<1>2. Len(c) + 1 - 1 = Len(c)
  BY <1>1
<1>3. OnlyCourtesies(c, Len(c))
  BY <1>1 DEF OnlyCourtesies
<1> QED
  BY <1>1, <1>2, <1>3, SubSeqFull DEF Cut, Before

LEMMA CutBefore ==
  ASSUME NEW c \in Seq(Tokens), NEW k \in 1 .. Len(c), OnlyCourtesies(c, k - 1)
  PROVE  Cut(c, Before(c, k)) /\ Before(c, k) \in Seq(Tokens) /\ Len(Before(c, k)) = k - 1
<1>1. Len(c) \in Nat /\ k \in 1 .. Len(c) + 1
  BY LenProperties
<1>2. Before(c, k) \in Seq(Tokens) /\ Len(Before(c, k)) = k - 1
  BY <1>1, BeforeFacts
<1>3. k - 1 + 1 = k
  BY <1>1
<1> QED
  BY <1>1, <1>2, <1>3 DEF Cut

LEMMA TrimFacts ==
  ASSUME NEW c \in Seq(Tokens)
  PROVE  /\ WithoutPoliteness(WithoutFeedback(c)) \in Seq(Tokens)
         /\ Cut(c, WithoutPoliteness(WithoutFeedback(c)))
<1> DEFINE b == WithoutFeedback(c)
           cuts == {i \in 1 .. Len(c) - 1 : c[i] \in Pauses /\ c[i + 1] = "please"}
           end == IF Len(b) > 0 /\ b[Len(b)] = "stop" THEN Len(b) - 1 ELSE Len(b)
           a == WithoutPoliteness(b)
<1>1. Len(c) \in Nat
  BY LenProperties
<1>2. b \in Seq(Tokens) /\ Cut(c, b) /\ Appended(c, Len(b))
  <2>1. CASE cuts = {}
    <3>1. b = c
      BY <2>1 DEF WithoutFeedback
    <3> QED
      BY <1>1, <3>1, Uncut DEF Appended
  <2>2. CASE cuts # {}
    <3>1. b = Before(c, First(cuts))
      BY <2>2 DEF WithoutFeedback
    <3>2. First(cuts) \in cuts
      <4>1. cuts \in SUBSET Nat
        BY <1>1
      <4> HIDE DEF cuts
      <4> QED
        BY <2>2, <4>1, FirstIsOne
    <3>3. /\ First(cuts) \in 1 .. Len(c) - 1
          /\ c[First(cuts)] \in Pauses /\ c[First(cuts) + 1] = "please"
      BY <3>2
    <3> DEFINE k == First(cuts)
    <3> HIDE DEF k
    <3>4. /\ k \in 1 .. Len(c) /\ k - 1 + 1 = k /\ k - 1 + 2 = k + 1 /\ k + 1 <= Len(c)
          /\ c[k] \in Pauses /\ c[k + 1] = "please"
      BY <1>1, <3>3 DEF k
    <3>5. Appended(c, k - 1)
      BY <3>4 DEF Appended
    <3>6. OnlyCourtesies(c, k - 1)
      BY <1>1, <3>4, <3>5 DEF OnlyCourtesies, Appended
    <3>7. Cut(c, Before(c, k)) /\ Before(c, k) \in Seq(Tokens) /\ Len(Before(c, k)) = k - 1
      BY <3>4, <3>6, CutBefore
    <3> QED
      BY <3>1, <3>5, <3>7 DEF k
  <2> QED
    BY <2>1, <2>2
<1> HIDE DEF b
<1>3. Len(b) \in Nat /\ Len(b) <= Len(c) /\ b = Before(c, Len(b) + 1)
  BY <1>1, <1>2 DEF Cut
<1>4. \A k \in 1 .. Len(b) : b[k] = c[k]
  <2>1. Len(b) + 1 \in 1 .. Len(c) + 1 /\ Len(b) + 1 - 1 = Len(b)
    BY <1>1, <1>3
  <2> DEFINE p == Len(b) + 1
  <2> HIDE DEF p
  <2>2. \A k \in 1 .. p - 1 : Before(c, p)[k] = c[k]
    BY <2>1, BeforeFacts DEF p
  <2> QED
    BY <1>3, <2>1, <2>2 DEF p
<1>5. CASE end >= 2 /\ b[end] = "please" /\ SpaceBefore(b, end)
  <2>1. a = Before(b, end)
    BY <1>5 DEF WithoutPoliteness
  <2>2. /\ end \in 1 .. Len(b)
        /\ end = Len(b) \/ (end = Len(b) - 1 /\ b[Len(b)] = "stop")
    BY <1>3, <1>5
  <2> HIDE DEF end, a
  <2>3. end \in 1 .. Len(c) /\ c[end] = "please" /\ end - 1 + 1 = end
    BY <1>1, <1>3, <1>4, <1>5, <2>2
  <2>4. OnlyCourtesies(c, end - 1)
    <3> DEFINE n == end - 1
               k == Len(b)
    <3>1. /\ n \in Nat /\ n + 1 = end /\ k \in n .. Len(c)
          /\ k = n + 1 \/ (k = n + 2 /\ c[k] = "stop")
      BY <1>1, <1>3, <1>4, <2>2, <2>3
    <3>2. c[n + 1] = "please" /\ Appended(c, k)
      BY <1>2, <2>3, <3>1
    <3> HIDE DEF n, k
    <3>3. /\ k > n => c[n + 1] = "please" /\ (k = n + 1 \/ (k = n + 2 /\ c[k] = "stop"))
          /\ k < Len(c) => k + 2 <= Len(c) /\ c[k + 1] \in Pauses /\ c[k + 2] = "please"
      BY <3>1, <3>2 DEF Appended
    <3>4. OnlyCourtesies(c, n)
      BY <3>1, <3>3 DEF OnlyCourtesies
    <3> QED
      BY <3>4 DEF n
  <2>5. Cut(c, Before(c, end)) /\ Before(c, end) \in Seq(Tokens)
    BY <2>3, <2>4, CutBefore
  <2>6. Before(b, end) = Before(c, end)
    <3>1. end \in 1 .. Len(b) + 1 /\ end \in 1 .. Len(c) + 1
      BY <1>1, <1>3, <2>2, <2>3
    <3>2. /\ Before(b, end) \in Seq(Tokens) /\ Len(Before(b, end)) = end - 1
          /\ \A k \in 1 .. end - 1 : Before(b, end)[k] = b[k]
      BY <1>2, <3>1, BeforeFacts
    <3>3. /\ Before(c, end) \in Seq(Tokens) /\ Len(Before(c, end)) = end - 1
          /\ \A k \in 1 .. end - 1 : Before(c, end)[k] = c[k]
      BY <3>1, BeforeFacts
    <3>4. \A k \in 1 .. end - 1 : b[k] = c[k]
      BY <1>3, <1>4, <2>2
    <3>5. \A k \in 1 .. Len(Before(b, end)) : Before(b, end)[k] = Before(c, end)[k]
      BY <3>2, <3>3, <3>4
    <3> QED
      BY <3>2, <3>3, <3>5, SeqEqual
  <2> QED
    BY <2>1, <2>5, <2>6 DEF a, b
<1>6. CASE ~(end >= 2 /\ b[end] = "please" /\ SpaceBefore(b, end))
  <2>1. a = b
    BY <1>6 DEF WithoutPoliteness
  <2> QED
    BY <1>2, <2>1 DEF b
<1> QED
  BY <1>5, <1>6

(* What a clause makes of a message: an album and what Groq is asked. *)
Ends(before, clause, album, asked) ==
  LET rest == From(clause, Len(album) + 1)
  IN  /\ Len(album) \in 1 .. Len(clause)
      /\ \/ /\ clause = album \o rest
            /\ asked = before
            /\ OnlyCourtesies(clause, Len(album))
            /\ Has(clause, "by") => RequestSignal(before) \/ ArtistBehindCourtesy(clause)
         \/ /\ Len(clause) >= Len(album) + 2
            /\ clause[1] = "open" /\ rest[2] \in Marks
            /\ SubSeq(clause, 2, Len(album) + 1) = album
            /\ asked = before \o From(rest, 3)

(* An artist who is cut off a clause is named behind a courtesy.           *)
LEMMA OnlyBehindCourtesy ==
  ASSUME NEW c \in Seq(Tokens), NEW a \in Seq(Tokens), Cut(c, a), Has(c, "by"), ~Has(a, "by")
  PROVE  ArtistBehindCourtesy(c)
<1> DEFINE n == Len(a)
<1>1. Len(c) \in Nat /\ n \in 0 .. Len(c) /\ n + 1 \in 1 .. Len(c) + 1 /\ n + 1 - 1 = n
  BY LenProperties DEF Cut
<1>2. \A p \in 1 .. n : a[p] = c[p] /\ p \in DOMAIN a
  <2>1. a = Before(c, n + 1)
    BY DEF Cut
  <2>2. \A p \in 1 .. n : Before(c, n + 1)[p] = c[p]
    <3> DEFINE q == n + 1
    <3>1. q \in 1 .. Len(c) + 1 /\ q - 1 = n
      BY <1>1
    <3> HIDE DEF q
    <3>2. \A p \in 1 .. q - 1 : Before(c, q)[p] = c[p]
      BY <3>1, BeforeFacts
    <3> QED
      BY <3>1, <3>2 DEF q
  <2> QED
    BY <1>1, <2>1, <2>2, LenProperties
<1>3. PICK k \in n .. Len(c) :
        /\ k > n => c[n + 1] = "please" /\ (k = n + 1 \/ (k = n + 2 /\ c[k] = "stop"))
        /\ k < Len(c) => /\ k + 2 <= Len(c) /\ c[k + 1] \in Pauses /\ c[k + 2] = "please"
  BY DEF Cut, OnlyCourtesies
<1> HIDE DEF n
<1>4. \A p \in 1 .. k : c[p] # "by"
  <2>1. \A p \in 1 .. n : c[p] # "by"
    BY <1>2 DEF Has
  <2>2. ASSUME NEW p \in 1 .. k, ~(p <= n) PROVE c[p] # "by"
    <3>1. p = n + 1 \/ (p = n + 2 /\ p = k)
      BY <1>1, <1>3, <2>2
    <3>2. k > n /\ n + 2 # n + 1
      BY <1>1, <2>2
    <3> QED
      BY <1>3, <3>1, <3>2
  <2> QED
    BY <1>1, <2>1, <2>2
<1>5. k < Len(c)
  <2>1. PICK p \in DOMAIN c : c[p] = "by"
    BY DEF Has
  <2>2. p \in 1 .. Len(c) /\ ~(p \in 1 .. k)
    BY <1>4, <2>1, LenProperties
  <2> QED
    BY <1>1, <2>2
<1> DEFINE q == k + 1
<1>6. /\ q \in 1 .. Len(c) - 1 /\ q \in 1 .. Len(c) + 1 /\ q - 1 = k /\ q + 1 = k + 2
      /\ c[q] \in Pauses /\ c[q + 1] = "please"
  BY <1>1, <1>3, <1>5
<1> HIDE DEF q
<1>7. ~Has(Before(c, q), "by")
  <2>1. /\ Before(c, q) \in Seq(Tokens) /\ Len(Before(c, q)) = q - 1
        /\ \A p \in 1 .. q - 1 : Before(c, q)[p] = c[p]
    BY <1>6, BeforeFacts
  <2>2. DOMAIN Before(c, q) = 1 .. k
    BY <1>6, <2>1, LenProperties
  <2> QED
    BY <1>4, <1>6, <2>1, <2>2 DEF Has
<1> QED
  BY <1>6, <1>7 DEF ArtistBehindCourtesy

(* A title without marks. *)
LEMMA UnquotedFacts ==
  ASSUME NEW before, NEW w, NEW c \in Seq(Tokens), Unquoted(before, w, c) # None
  PROVE  Ends(before, c, Unquoted(before, w, c).album, Unquoted(before, w, c).message)
<1> DEFINE a == WithoutPoliteness(WithoutFeedback(c))
<1>1. a \in Seq(Tokens) /\ Cut(c, a)
  BY TrimFacts
<1>2. /\ Unquoted(before, w, c) = Peeled(a, before) /\ a # <<>>
      /\ Has(a, "by") => RequestSignal(before)
  BY DEF Unquoted
<1> HIDE DEF a
<1>3. Unquoted(before, w, c).album = a /\ Unquoted(before, w, c).message = before
  BY <1>2 DEF Peeled
<1> DEFINE n == Len(a)
           rest == From(c, n + 1)
<1>4. /\ n \in Nat \ {0} /\ n \in 0 .. Len(c) /\ Len(c) \in Nat
      /\ a = Before(c, n + 1) /\ OnlyCourtesies(c, n)
  BY <1>1, <1>2, EmptySeq, LenProperties DEF Cut
<1>5. n + 1 \in 1 .. Len(c) + 1
  BY <1>4
<1>6. c = a \o rest
  BY <1>4, <1>5, BeforeAndFrom DEF n
<1>7. Has(c, "by") /\ ~Has(a, "by") => ArtistBehindCourtesy(c)
  BY <1>1, <1>4, OnlyBehindCourtesy DEF n
<1>8. Has(c, "by") => RequestSignal(before) \/ ArtistBehindCourtesy(c)
  BY <1>2, <1>7
<1>9. Ends(before, c, a, before)
  BY <1>2, <1>4, <1>6, <1>8 DEF Ends
<1> QED
  BY <1>3, <1>9
(* A title between marks. *)
LEMMA QuotedFacts ==
  ASSUME NEW before, NEW c \in Seq(Tokens),
         c[1] \notin Pauses \union {"close"}, ClosingMarks(c) # {}
  PROVE  Ends(before, c, SubSeq(c, 2, First(ClosingMarks(c)) - 1),
              Rejoined(before, From(c, First(ClosingMarks(c)) + 1)))
<1> DEFINE e == First(ClosingMarks(c))
           album == SubSeq(c, 2, e - 1)
           n == Len(album)
           rest == From(c, n + 1)
<1>1. Len(c) \in Nat
  BY LenProperties
<1>2. /\ c[1] \in Marks
      /\ ClosingMarks(c) \subseteq {i \in 3 .. Len(c) : c[i] \in Marks}
  BY DEF ClosingMarks
<1>3. e \in ClosingMarks(c)
  <2>1. ClosingMarks(c) \in SUBSET Nat
    BY <1>1, <1>2
  <2> QED
    BY <2>1, FirstIsOne
<1>4. e \in 3 .. Len(c) /\ c[e] \in Marks
  BY <1>2, <1>3
<1>5. c[1] = "open"
  BY <1>2 DEF Marks
<1> HIDE DEF e
<1>6. album \in Seq(Tokens) /\ n = e - 2
  <2>1. 2 \in 1 .. Len(c) + 1 /\ e - 1 \in 2 - 1 .. Len(c) /\ e - 1 - 2 + 1 = e - 2
    BY <1>1, <1>4
  <2> DEFINE f == e - 1
  <2> HIDE DEF f
  <2>2. SubSeq(c, 2, f) \in Seq(Tokens) /\ Len(SubSeq(c, 2, f)) = f - 2 + 1
    BY <2>1, Stretch DEF f
  <2> QED
    BY <2>1, <2>2 DEF f
<1> HIDE DEF album
<1>7. n \in 1 .. Len(c) /\ Len(c) >= n + 2 /\ n + 1 = e - 1 /\ n + 1 \in 1 .. Len(c) + 1
  BY <1>1, <1>4, <1>6
<1>8. /\ Len(rest) = Len(c) - (n + 1) + 1
      /\ \A k \in 1 .. Len(c) - (n + 1) + 1 : rest[k] = c[n + 1 + k - 1]
  <2> HIDE DEF n
  <2> QED
    BY <1>7, FromFacts
<1>9. rest[2] = c[e]
  <2>1. 2 \in 1 .. Len(c) - (n + 1) + 1 /\ n + 1 + 2 - 1 = e
    BY <1>1, <1>4, <1>7
  <2> HIDE DEF n, rest
  <2> QED
    BY <1>8, <2>1
<1>10. From(rest, 3) = From(c, e + 1)
  <2>1. 3 \in 1 .. Len(c) - (n + 1) + 2 /\ n + 1 + 3 - 1 = e + 1
    BY <1>1, <1>4, <1>7
  <2> HIDE DEF n
  <2> QED
    BY <1>7, <2>1, FromOfFrom
<1>11. SubSeq(c, 2, n + 1) = album
  BY <1>7 DEF album
<1> HIDE DEF rest
<1>12. Ends(before, c, album, before \o From(rest, 3))
  BY <1>4, <1>5, <1>7, <1>9, <1>11 DEF Ends, rest
<1> QED
  BY <1>10, <1>12 DEF album, e, Rejoined

(* Whatever is peeled off a message. *)
Peeling(m, i, w, d, peeled) ==
  \E clause \in Seq(Tokens) : /\ Clause(m, i, w, d, clause)
                              /\ Ends(Before(m, i), clause, peeled.album, peeled.message)

LEMMA PeelingFacts ==
  ASSUME NEW m \in Seq(Tokens), extract_album_prefix(m) # None
  PROVE  \E i \in 2 .. Len(m), w \in SUPPORTED_ALBUM_PREPOSITIONS, d \in 0 .. 2 :
           Peeling(m, i, w, d, extract_album_prefix(m))
<1> DEFINE i == First(Splits(m))
           w == PrepositionAt(m, i)
           before == Before(m, i)
           c == WithoutDescriptor(From(m, i + Len(w)))
           peeled == extract_album_prefix(m)
           e == First(ClosingMarks(c))
<1>1. Splits(m) # {}
  BY DEF extract_album_prefix
<1>2. /\ i \in 2 .. Len(m) /\ w \in SUPPORTED_ALBUM_PREPOSITIONS
      /\ IsPrefixAt(m, i, w)
  BY <1>1, PrepositionFacts
<1>3. peeled = IF ClosingMarks(c) = {} THEN Unquoted(before, w, c)
               ELSE Peeled(SubSeq(c, 2, e - 1), Rejoined(before, From(c, e + 1)))
  BY <1>1 DEF extract_album_prefix
<1> HIDE DEF i, w
<1>4. PICK d \in 0 .. 2 : Clause(m, i, w, d, c)
  BY <1>2, ClauseFacts
<1>5. c \in Seq(Tokens) /\ c[1] \notin Pauses \union {"close"}
  <2>1. i + Len(w) + d \in 1 .. Len(m) /\ c = From(m, i + Len(w) + d)
    BY <1>4 DEF Clause
  <2>2. i + Len(w) + d \in 1 .. Len(m) + 1
    BY <2>1, LenProperties
  <2> DEFINE p == i + Len(w) + d
  <2> HIDE DEF p, c
  <2>3. c \in Seq(Tokens)
    BY <2>1, <2>2, FromFacts DEF p
  <2> QED
    BY <1>4, <2>3 DEF Clause
<1> HIDE DEF c, before, peeled
<1>6. Ends(before, c, peeled.album, peeled.message)
  <2>1. CASE ClosingMarks(c) = {}
    <3>1. peeled = Unquoted(before, w, c) /\ peeled # None
      BY <1>3, <2>1 DEF peeled
    <3> QED
      BY <1>5, <3>1, UnquotedFacts
  <2>2. CASE ClosingMarks(c) # {}
    <3>1. /\ peeled.album = SubSeq(c, 2, e - 1)
          /\ peeled.message = Rejoined(before, From(c, e + 1))
      BY <1>3, <2>2 DEF Peeled
    <3>2. Ends(before, c, SubSeq(c, 2, e - 1), Rejoined(before, From(c, e + 1)))
      BY <1>5, <2>2, QuotedFacts
    <3> QED
      BY <3>1, <3>2
  <2> QED
    BY <2>1, <2>2
<1>7. Peeling(m, i, w, d, peeled)
  BY <1>4, <1>5, <1>6 DEF Peeling, before
<1> QED
  BY <1>2, <1>7 DEF peeled
(* The same in the words of PeelIsFaithful. *)
PeeledFrom(m, asked, album) ==
  \E i \in 2 .. Len(m), prep \in SUPPORTED_ALBUM_PREPOSITIONS, d \in 0 .. 2 :
    LET clause == From(m, i + Len(prep) + d)
        rest == From(clause, Len(album) + 1)
        before == Before(m, i)
    IN  /\ i + Len(prep) + d + Len(album) <= Len(m) + 1
        /\ SubSeq(m, i, i + Len(prep) - 1) = prep
        /\ SubSeq(m, i + Len(prep), i + Len(prep) + d - 1)
             \in {<<>>, <<"album">>, <<"the", "album">>}
        /\ album # <<>> /\ before # <<>>
        /\ \/ /\ clause = album \o rest
              /\ asked = before
              /\ OnlyCourtesies(clause, Len(album))
              /\ Has(clause, "by") => RequestSignal(before) \/ ArtistBehindCourtesy(clause)
           \/ /\ Len(clause) >= Len(album) + 2
              /\ clause[1] = "open" /\ rest[2] \in Marks
              /\ SubSeq(clause, 2, Len(album) + 1) = album
              /\ asked = before \o From(rest, 3)

LEMMA PeeledFacts ==
  ASSUME NEW m \in Seq(Tokens), extract_album_prefix(m) # None
  PROVE  /\ PeeledFrom(m, extract_album_prefix(m).message, extract_album_prefix(m).album)
         /\ extract_album_prefix(m).album # <<>>
<1> DEFINE asked == extract_album_prefix(m).message
           album == extract_album_prefix(m).album
<1>1. PICK i \in 2 .. Len(m), w \in SUPPORTED_ALBUM_PREPOSITIONS, d \in 0 .. 2 :
        Peeling(m, i, w, d, extract_album_prefix(m))
  BY PeelingFacts
<1>2. PICK clause \in Seq(Tokens) :
        Clause(m, i, w, d, clause) /\ Ends(Before(m, i), clause, album, asked)
  BY <1>1 DEF Peeling
<1> HIDE DEF album, asked
<1>3. Len(m) \in Nat /\ Len(clause) \in Nat /\ Len(w) \in 1 .. 2
  BY LenProperties, Prepositions
<1>4. /\ i + Len(w) + d \in 1 .. Len(m) /\ clause = From(m, i + Len(w) + d)
      /\ SubSeq(m, i, i + Len(w) - 1) = w
      /\ SubSeq(m, i + Len(w), i + Len(w) + d - 1) \in {<<>>, <<"album">>, <<"the", "album">>}
  BY <1>2 DEF Clause, Descriptors
<1>5. Len(album) \in 1 .. Len(clause)
  BY <1>2 DEF Ends
<1>6. Len(clause) = Len(m) - (i + Len(w) + d) + 1
  <2> DEFINE p == i + Len(w) + d
  <2>1. p \in 1 .. Len(m) + 1 /\ clause = From(m, p)
    BY <1>3, <1>4
  <2> HIDE DEF p
  <2>2. Len(clause) = Len(m) - p + 1
    BY <2>1, FromFacts
  <2> QED
    BY <2>2 DEF p
<1>7. i + Len(w) + d + Len(album) <= Len(m) + 1
  BY <1>3, <1>4, <1>5, <1>6
<1>8. album # <<>>
  BY <1>5, EmptySeq
<1>9. Before(m, i) # <<>>
  <2>1. i \in 1 .. Len(m) + 1
    BY <1>3
  <2>2. Len(Before(m, i)) = i - 1
    BY <2>1, BeforeFacts
  <2> QED
    BY <1>3, <2>2, EmptySeq
<1> DEFINE rest == From(clause, Len(album) + 1)
<1>10. \/ /\ clause = album \o rest
          /\ asked = Before(m, i)
          /\ OnlyCourtesies(clause, Len(album))
          /\ Has(clause, "by") => RequestSignal(Before(m, i)) \/ ArtistBehindCourtesy(clause)
       \/ /\ Len(clause) >= Len(album) + 2
          /\ clause[1] = "open" /\ rest[2] \in Marks
          /\ SubSeq(clause, 2, Len(album) + 1) = album
          /\ asked = Before(m, i) \o From(rest, 3)
  BY <1>2 DEF Ends
<1>11. PeeledFrom(m, asked, album)
  BY <1>4, <1>7, <1>8, <1>9, <1>10 DEF PeeledFrom
<1> QED
  BY <1>8, <1>11 DEF album, asked

-----------------------------------------------------------------------------
(* The readings, as steps of Readings. *)

(* What is written is made of the pieces it is written with.               *)
TextOK ==
  /\ kind \in Kinds
  /\ kind = "message" => text \in Seq(Tokens)
  /\ kind = "agent" => text \in Seq(Products)
  /\ kind = "timing" => text \in Seq(Legs)
  /\ kind = "roster" => text \in Seq(UserIds \union BadRows)

LEMMA PeelStep ==
  ASSUME TextOK, Parse
  PROVE  PeelIsFaithful'
<1> DEFINE e == extract_album_prefix(text)
<1>1. /\ kind = "message" /\ kind' = kind /\ text' = text /\ text \in Seq(Tokens)
      /\ \E answer \in GroqAnswers : result' =
           [status |-> ParseStatus(text, answer), asked |-> Prepass(text).message,
            album |-> IF answer = "parse" THEN Overlay(text, <<"x">>) ELSE <<>>]
  BY DEF TextOK, Parse, Read
<1>2. PICK answer \in GroqAnswers : result' =
        [status |-> ParseStatus(text, answer), asked |-> Prepass(text).message,
         album |-> IF answer = "parse" THEN Overlay(text, <<"x">>) ELSE <<>>]
  BY <1>1
<1>3. /\ result'.status = ParseStatus(text, answer) /\ result'.asked = Prepass(text).message
      /\ result'.album = IF answer = "parse" THEN Overlay(text, <<"x">>) ELSE <<>>
  BY <1>2
<1>4. ASSUME result'.status = 200, result'.asked # text
      PROVE  PeeledFrom(text, result'.asked, result'.album)
  <2>1. answer = "parse"
    BY <1>3, <1>4 DEF ParseStatus
  <2>2. e # None
    <3>1. Peeled(<<>>, text).message = text
      BY DEF Peeled
    <3> HIDE DEF e
    <3> QED
      BY <1>3, <1>4, <3>1 DEF Prepass, e
  <2>3. PeeledFrom(text, e.message, e.album) /\ e.album # <<>>
    BY <1>1, <2>2, PeeledFacts
  <2>4. Prepass(text) = e
    BY <2>2 DEF Prepass
  <2> HIDE DEF e
  <2>5. Overlay(text, <<"x">>) = e.album
    BY <2>3, <2>4 DEF Overlay
  <2> QED
    BY <1>3, <2>1, <2>3, <2>4, <2>5
<1>5. result'.status = 200 /\ result'.asked # text => PeeledFrom(text, result'.asked, result'.album)
  BY <1>4
<1>6. PeeledFrom(text', result'.asked, result'.album) => PeelIsFaithful'
  BY Zenon DEF PeelIsFaithful, PeeledFrom
<1>7. ~(result'.status = 200 /\ result'.asked # text') => PeelIsFaithful'
  BY Zenon DEF PeelIsFaithful
<1> QED
  BY <1>1, <1>5, <1>6, <1>7
LEMMA StrictClients ==
  ASSUME NEW agent \in Seq(Products)
  PROVE  is_known_strict_client(agent) <=>
           \E i \in DOMAIN agent : /\ agent[i].product = "WXYC-iOS"
                                   /\ NotBelow(agent[i].version, Floor)
<1>1. Floor \in Seq(Nat) /\ Floor[Len(Floor)] > 0
  <2> 3 \in Nat /\ 2 \in Nat /\ <<3, 2>> \in Seq(Nat) /\ Len(<<3, 2>>) = 2
    OBVIOUS
  <2> QED
    BY DEF Floor
<1>2. ASSUME NEW i \in DOMAIN agent
      PROVE  AtLeast(agent[i].version, Floor) <=> NotBelow(agent[i].version, Floor)
  <2>1. agent[i] \in Products
    BY LenProperties, ElementOfSeq
  <2>2. agent[i].version \in Seq(Nat)
    BY <2>1, ReadingsConstants
  <2> QED
    BY <1>1, <2>2, VersionOrder
<1> QED
  BY <1>2, Zenon DEF is_known_strict_client, Registered

LEMMA CallersStep ==
  ASSUME TextOK, Gate
  PROVE  CallersAreToldApart'
<1> DEFINE known(t) == \E i \in DOMAIN t : /\ t[i].product = "WXYC-iOS"
                                           /\ NotBelow(t[i].version, Floor)
           event(device, strict) == IF Blocked(text, device, strict) THEN RequestBlocked(device)
                                    ELSE CallerProperties(device)
<1>1. /\ kind = "agent" /\ kind' = kind /\ text' = text /\ text \in Seq(Products)
      /\ \E device \in Devices, strict \in BOOLEAN : result' =
           [device |-> device, strict |-> strict, event |-> event(device, strict)]
  BY DEF TextOK, Gate, Read
<1>2. PICK device \in Devices, strict \in BOOLEAN : result' =
        [device |-> device, strict |-> strict, event |-> event(device, strict)]
  BY <1>1
<1>3. result'.device = device /\ result'.strict = strict /\ result'.event = event(device, strict)
  BY <1>2
<1>4. Blocked(text, device, strict) <=> strict /\ known(text) /\ device # "uuid"
  <2>1. is_known_strict_client(text) <=> known(text)
    BY <1>1, StrictClients
  <2> HIDE DEF known
  <2> QED
    BY <2>1, Zenon DEF Blocked, Normalizes
<1>5. /\ RequestBlocked(device).event = "request_blocked"
      /\ RequestBlocked(device).ban_reason = "ua_gate_missing_fingerprint" <=> device = "absent"
  BY DEF RequestBlocked
<1>6. /\ CallerProperties(device).event = "request_completed"
      /\ CallerProperties(device).has_fingerprint = (device = "uuid")
      /\ CallerProperties(device).fingerprint_malformed = (device \in {"empty", "junk"})
  BY DEF CallerProperties, FingerprintDisposition, Normalizes, Devices
<1>7. result'.event.event = "request_blocked" <=> Blocked(text, device, strict)
  BY <1>3, <1>5, <1>6
<1>8. Blocked(text, device, strict) =>
        (result'.event.ban_reason = "ua_gate_missing_fingerprint" <=> device = "absent")
  BY <1>3, <1>5
<1>9. ~Blocked(text, device, strict) =>
        /\ result'.event.has_fingerprint <=> device = "uuid"
        /\ result'.event.fingerprint_malformed <=> device \in {"empty", "junk"}
  BY <1>3, <1>6
<1>10. known(text') <=> known(text)
  BY <1>1
<1> QED
  BY <1>3, <1>4, <1>7, <1>8, <1>9, <1>10, Zenon DEF CallersAreToldApart

(* TimingKeepsEveryLeg, of the legs t, the header h and what is shown.     *)
TimingOf(t, h, shown) ==
  /\ Len(shown) = Len(h) /\ {shown[i] : i \in DOMAIN shown} = {h[i] : i \in DOMAIN h}
  /\ shown[Len(shown)].name = "total"
  /\ \A i, j \in DOMAIN h : h[i].name = h[j].name => i = j
  /\ \A name \in Steps \union {"total"} :
       \E i \in DOMAIN h : h[i] = [name |-> name, dur |-> OwnDuration]
  /\ \A i \in DOMAIN t :
       LET key == IF t[i].name = "total" THEN "lml_total" ELSE t[i].name
           usable(j) == t[j].name # BadName /\ t[j].dur # NoDuration
           same(j) == \/ t[j].name = t[i].name
                     \/ {t[i].name, t[j].name} = {"total", "lml_total"}
           last == \A j \in i + 1 .. Len(t) : usable(j) => ~same(j)
       IN  usable(i) /\ last /\ key \notin Steps =>
             \E j \in DOMAIN h : h[j] = [name |-> key, dur |-> t[i].dur]

LEMMA TimingStep ==
  ASSUME TextOK, Emit
  PROVE  TimingKeepsEveryLeg'
<1> DEFINE h == Merged(text)
           shown == Displayed(h)
<1>1. /\ kind = "timing" /\ kind' = kind /\ text' = text /\ text \in Seq(Legs)
      /\ result' = [header |-> h, shown |-> shown]
  BY DEF TextOK, Emit, Read
<1>2. text \in Seq(Leg)
  <2>1. Legs \subseteq Leg
    BY ReadingsConstants DEF Leg, Names
  <2> QED
    BY <1>1, <2>1, SeqMonotonic
<1>3. /\ h \in Seq(Leg) /\ Distinct(h) /\ \A e \in Elements(h) : Usable(e)
      /\ Elements(h) = Elements(Own) \cup Elements(Extra(text)) \cup {Total}
  BY <1>2, MergedFacts
<1>4. Total.name = "total" /\ Total = [name |-> "total", dur |-> OwnDuration]
  BY DEF Total
<1>5. /\ Len(shown) = Len(h) /\ Elements(shown) = Elements(h)
      /\ shown[Len(shown)].name = "total"
  <2> HIDE DEF h
  <2>1. \E e \in Elements(h) : e.name = "total"
    BY <1>3, <1>4
  <2> QED
    BY <1>3, <2>1, DisplayedFacts
<1>6. \A name \in Steps \union {"total"} : [name |-> name, dur |-> OwnDuration] \in Elements(h)
  BY <1>3, <1>4, OwnFacts
<1>7. ASSUME NEW i \in DOMAIN text, Usable(text[i]), Key(text[i].name) \notin Steps,
             \A j \in i + 1 .. Len(text) : Usable(text[j]) => ~SameName(text[i], text[j])
      PROVE  Renamed(text[i]) \in Elements(h)
  BY <1>2, <1>7, LegsAreKept
<1>8. result'.header = h /\ result'.shown = shown
  BY <1>1
<1> HIDE DEF h, shown
<1>9. \A i \in DOMAIN text :
         LET key == IF text[i].name = "total" THEN "lml_total" ELSE text[i].name
             usable(j) == text[j].name # BadName /\ text[j].dur # NoDuration
             same(j) == \/ text[j].name = text[i].name
                       \/ {text[i].name, text[j].name} = {"total", "lml_total"}
             last == \A j \in i + 1 .. Len(text) : usable(j) => ~same(j)
         IN  usable(i) /\ last /\ key \notin Steps =>
               \E j \in DOMAIN h : h[j] = [name |-> key, dur |-> text[i].dur]
  <2> SUFFICES ASSUME NEW i \in DOMAIN text, Usable(text[i]), Key(text[i].name) \notin Steps,
                      \A j \in i + 1 .. Len(text) :
                        Usable(text[j]) => ~(\/ text[j].name = text[i].name
                                             \/ {text[i].name, text[j].name} = {"total", "lml_total"})
               PROVE  \E j \in DOMAIN h : h[j] = [name |-> Key(text[i].name), dur |-> text[i].dur]
    BY Zenon DEF Usable, Key
  <2>1. \A j \in i + 1 .. Len(text) : Usable(text[j]) => ~SameName(text[i], text[j])
    BY DEF SameName
  <2>2. Renamed(text[i]) \in Elements(h)
    BY <1>7, <2>1
  <2> QED
    BY <2>2 DEF Elements, Renamed
<1>10. TimingOf(text, h, shown)
  <2>1. {shown[i] : i \in DOMAIN shown} = {h[i] : i \in DOMAIN h}
    BY <1>5 DEF Elements
  <2>2. \A i, j \in DOMAIN h : h[i].name = h[j].name => i = j
    BY <1>3 DEF Distinct
  <2>3. \A name \in Steps \union {"total"} :
          \E i \in DOMAIN h : h[i] = [name |-> name, dur |-> OwnDuration]
    BY <1>6 DEF Elements
  <2> QED
    BY <1>5, <1>9, <2>1, <2>2, <2>3, Zenon DEF TimingOf
<1>11. TimingOf(text', result'.header, result'.shown) => TimingKeepsEveryLeg'
  BY Zenon DEF TimingKeepsEveryLeg, TimingOf
<1> QED
  BY <1>1, <1>8, <1>10, <1>11

LEMMA RosterStep ==
  ASSUME TextOK, Authorize
  PROVE  RosterCountsWhole'
<1>1. /\ kind = "roster" /\ kind' = kind /\ text' = text
      /\ \E envelope \in Envelopes : result' =
           [envelope |-> envelope, authorized |-> ResolveAuthorizedUsers(envelope, text)]
  BY DEF Authorize, Read
<1>2. PICK envelope \in Envelopes : result'.authorized = ResolveAuthorizedUsers(envelope, text)
  BY <1>1
<1>3. CASE Readable(envelope, text)
  <2>1. /\ result'.authorized.users = BreakGlass \union ExtractIds(text)
        /\ result'.authorized.degraded = FALSE
    BY <1>2, <1>3 DEF ResolveAuthorizedUsers
  <2>2. /\ {text[i] : i \in DOMAIN text} \subseteq UserIds
        /\ ExtractIds(text) = {text[i] : i \in DOMAIN text}
        /\ Len(text) <= MAX_ROSTER_SIZE
    BY <1>3 DEF Readable, ExtractIds
  <2> QED
    BY <1>1, <2>1, <2>2 DEF RosterCountsWhole
<1>4. CASE ~Readable(envelope, text)
  <2>1. /\ result'.authorized.users = BreakGlass
        /\ result'.authorized.degraded = TRUE
    BY <1>2, <1>4 DEF ResolveAuthorizedUsers
  <2> QED
    BY <1>1, <2>1 DEF RosterCountsWhole
<1> QED
  BY <1>3, <1>4

(* What is written stays in order, and what is read is right. *)
Inv == TextOK /\ PeelIsFaithful /\ CallersAreToldApart /\ TimingKeepsEveryLeg /\ RosterCountsWhole

LEMMA WriteStep ==
  ASSUME TextOK, Say \/ Name \/ Time \/ List
  PROVE  TextOK' /\ result' = None
<1>1. CASE Say
  <2>1. /\ kind = "message" /\ kind' = kind /\ text \in Seq(Tokens) /\ result' = None
        /\ \E p \in {t \in Spoken : Follows(t)} : text' = Append(text, p)
    BY <1>1 DEF TextOK, Say, Write
  <2>2. PICK p \in Tokens : text' = Append(text, p)
    BY <2>1, ReadingsConstants
  <2> QED
    BY <2>1, <2>2, AppendProperties DEF TextOK, Kinds
<1>2. CASE Name
  <2>1. /\ kind = "agent" /\ kind' = kind /\ text \in Seq(Products) /\ result' = None
        /\ \E p \in Products : text' = Append(text, p)
    BY <1>2 DEF TextOK, Name, Write
  <2> QED
    BY <2>1, AppendProperties DEF TextOK, Kinds
<1>3. CASE Time
  <2>1. /\ kind = "timing" /\ kind' = kind /\ text \in Seq(Legs) /\ result' = None
        /\ \E p \in Legs : text' = Append(text, p)
    BY <1>3 DEF TextOK, Time, Write
  <2> QED
    BY <2>1, AppendProperties DEF TextOK, Kinds
<1>4. CASE List
  <2>1. /\ kind = "roster" /\ kind' = kind /\ text \in Seq(UserIds \union BadRows)
        /\ result' = None
        /\ \E p \in UserIds \union BadRows : text' = Append(text, p)
    BY <1>4 DEF TextOK, List, Write
  <2> QED
    BY <2>1, AppendProperties DEF TextOK, Kinds
<1> QED
  BY <1>1, <1>2, <1>3, <1>4

LEMMA InvHolds == Spec => []Inv
<1>1. Init => Inv
  <2> SUFFICES ASSUME Init PROVE Inv
    OBVIOUS
  <2>1. kind \in Kinds /\ result = None
    BY DEF Init
  <2>2. kind = "message" => text \in Seq(Tokens)
    BY ReadingsConstants DEF Init
  <2>3. kind # "message" => text = <<>>
    BY DEF Init
  <2>4. <<>> \in Seq(Products) /\ <<>> \in Seq(Legs) /\ <<>> \in Seq(UserIds \union BadRows)
    BY EmptySeq
  <2>5. TextOK
    BY <2>1, <2>2, <2>3, <2>4 DEF TextOK
  <2> QED
    BY <2>1, <2>5 DEF Inv, IsRead, PeelIsFaithful, CallersAreToldApart, TimingKeepsEveryLeg,
                      RosterCountsWhole
<1>2. Inv /\ [Next]_vars => Inv'
  <2> SUFFICES ASSUME Inv, [Next]_vars PROVE Inv'
    OBVIOUS
  <2>1. CASE Say \/ Name \/ Time \/ List
    <3>1. TextOK' /\ result' = None
      BY <2>1, WriteStep DEF Inv
    <3> QED
      BY <3>1 DEF Inv, IsRead, PeelIsFaithful, CallersAreToldApart, TimingKeepsEveryLeg,
                  RosterCountsWhole
  <2>2. ASSUME Parse \/ Gate \/ Emit \/ Authorize PROVE TextOK' /\ kind' = kind
    BY <2>2 DEF Parse, Gate, Emit, Authorize, Read, Inv, TextOK
  <2>3. CASE Parse
    <3>1. PeelIsFaithful' /\ kind' = "message" /\ TextOK'
      BY <2>2, <2>3, PeelStep DEF Inv, Parse, Read
    <3> QED
      BY <3>1 DEF Inv, IsRead, CallersAreToldApart, TimingKeepsEveryLeg, RosterCountsWhole
  <2>4. CASE Gate
    <3>1. CallersAreToldApart' /\ kind' = "agent" /\ TextOK'
      BY <2>2, <2>4, CallersStep DEF Inv, Gate, Read
    <3> QED
      BY <3>1 DEF Inv, IsRead, PeelIsFaithful, TimingKeepsEveryLeg, RosterCountsWhole
  <2>5. CASE Emit
    <3>1. TimingKeepsEveryLeg' /\ kind' = "timing" /\ TextOK'
      BY <2>2, <2>5, TimingStep DEF Inv, Emit, Read
    <3> QED
      BY <3>1 DEF Inv, IsRead, PeelIsFaithful, CallersAreToldApart, RosterCountsWhole
  <2>6. CASE Authorize
    <3>1. RosterCountsWhole' /\ kind' = "roster" /\ TextOK'
      BY <2>2, <2>6, RosterStep DEF Inv, Authorize, Read
    <3> QED
      BY <3>1 DEF Inv, IsRead, PeelIsFaithful, CallersAreToldApart, TimingKeepsEveryLeg
  <2>7. CASE UNCHANGED vars
    <3>1. kind' = kind /\ text' = text /\ result' = result
      BY <2>7 DEF vars
    <3>2. TextOK' /\ RosterCountsWhole'
      BY <3>1 DEF Inv, TextOK, IsRead, RosterCountsWhole
    <3>3. PeelIsFaithful'
      <4> DEFINE read == IsRead("message") /\ result.status = 200 /\ result.asked # text
                 from == PeeledFrom(text, result.asked, result.album)
      <4>1. PeelIsFaithful => (read => from)
        BY Zenon DEF PeelIsFaithful, PeeledFrom
      <4>2. (read' => from') => PeelIsFaithful'
        BY Zenon DEF PeelIsFaithful, PeeledFrom
      <4>3. (read' <=> read) /\ (from' <=> from)
        BY <3>1 DEF IsRead
      <4> QED
        BY <4>1, <4>2, <4>3 DEF Inv
    <3>4. CallersAreToldApart'
      BY <3>1, Zenon DEF Inv, IsRead, CallersAreToldApart
    <3>5. TimingKeepsEveryLeg'
      <4> DEFINE read == IsRead("timing")
                 of == TimingOf(text, result.header, result.shown)
      <4>1. TimingKeepsEveryLeg => (read => of)
        BY Zenon DEF TimingKeepsEveryLeg, TimingOf
      <4>2. (read' => of') => TimingKeepsEveryLeg'
        BY Zenon DEF TimingKeepsEveryLeg, TimingOf
      <4>3. (read' <=> read) /\ (of' <=> of)
        BY <3>1 DEF IsRead
      <4> QED
        BY <4>1, <4>2, <4>3 DEF Inv
    <3> QED
      BY <3>2, <3>3, <3>4, <3>5 DEF Inv
  <2> QED
    BY <2>1, <2>3, <2>4, <2>5, <2>6, <2>7 DEF Next
<1> QED
  BY <1>1, <1>2, PTL DEF Spec

(* What is peeled off a message of any length can be put back, and nothing *)
(* is lost but a courtesy.                                                 *)
THEOREM PeelCorrect == Spec => []PeelIsFaithful
BY InvHolds, PTL DEF Inv

(* Whatever versions and however many products a User-Agent has, Python's  *)
(* order of tuples turns away exactly the clients from the floor on.       *)
THEOREM CallersCorrect == Spec => []CallersAreToldApart
BY InvHolds, PTL DEF Inv

(* However many entries LML's header has, the merged one has every name    *)
(* once and loses no leg, and the operator is shown all of them.           *)
THEOREM TimingCorrect == Spec => []TimingKeepsEveryLeg
BY InvHolds, PTL DEF Inv

(* A roster of any length counts whole or not at all. *)
THEOREM RosterCorrect == Spec => []RosterCountsWhole
BY InvHolds, PTL DEF Inv
=============================================================================
