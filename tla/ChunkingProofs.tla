--------------------------- MODULE ChunkingProofs ---------------------------
(***************************************************************************)
(* Theorems about module Chunking: every text is cut cleanly, whatever its *)
(* words and however long a chunk may be.                                  *)
(*                                                                         *)
(* Pieces, the letters of a text and the sequence made of several are      *)
(* recursive functions with one recursive call, of data that has no end.   *)
(* RecursionExists shows for all of them that there is such a function, as *)
(* long as the calls come to an end; what is recursion's data is a set or  *)
(* a function there, not an operator, so that the provers can instantiate  *)
(* it.  In the same way an induction is an argument about a set: of what   *)
(* is in it, some element's call leads out of it.                          *)
(***************************************************************************)
EXTENDS Chunking, WellFoundedInduction, SequenceTheorems, FiniteSetTheorems, TLAPS

-----------------------------------------------------------------------------
(***************************************************************************)
(* Recursion and induction over data.                                      *)
(***************************************************************************)
\* Some numbers have a least one.
LEMMA LeastNumber ==
    ASSUME NEW T \in SUBSET Nat, T # {}
    PROVE  \E n \in T : \A m \in T : n <= m
<1>1. PICK n \in T : \A m \in T : ~ (<<m, n>> \in OpToRel(<, Nat))
  BY NatLessThanWellFounded, WFMin
<1>2. \A m \in T : m < n => <<m, n>> \in OpToRel(<, Nat)
  BY Zenon DEF OpToRel
<1>3. \A m \in T : ~(m < n)
  BY <1>1, <1>2
<1> QED BY <1>3

\* From wherever it starts, next comes to stop.
Ends(S, stop, next) ==
    \A T \in SUBSET S : T # {} => \E x \in T : x \in stop \/ next[x] \notin T

\* On D, g is the function that ends with base and goes on with step.
Solves(g, D, stop, next, base, step) ==
    \A x \in D : g[x] = IF x \in stop THEN base[x] ELSE step[<<x, g[next[x]]>>]

\* A part of such a function: it has what it calls.
Part(D, g, S, V, stop, next, base, step) ==
    /\ D \in SUBSET S /\ g \in [D -> V]
    /\ \A x \in D : x \in stop \/ next[x] \in D
    /\ Solves(g, D, stop, next, base, step)

\* Parts of the function are equal where they overlap.
LEMMA PartsAgree ==
    ASSUME NEW S, NEW V, NEW stop, NEW next, NEW base, NEW step,
           Ends(S, stop, next),
           NEW D, NEW g, Part(D, g, S, V, stop, next, base, step),
           NEW E, NEW h, Part(E, h, S, V, stop, next, base, step)
    PROVE  \A x \in D \cap E : g[x] = h[x]
<1> DEFINE T == {x \in D \cap E : g[x] # h[x]}
<1>1. SUFFICES ASSUME T # {} PROVE FALSE
  OBVIOUS
<1>2. T \in SUBSET S
  BY DEF Part
<1>3. PICK x \in T : x \in stop \/ next[x] \notin T
  BY <1>1, <1>2 DEF Ends
<1>4. x \notin stop => next[x] \in D \cap E /\ g[next[x]] = h[next[x]]
  BY <1>3 DEF Part
<1>5. g[x] = h[x]
  BY <1>4 DEF Part, Solves
<1> QED BY <1>5

\* There is a function that calls itself once, if the calls come to stop: each element
\* is in a part of it, and all the parts together are the function.
LEMMA RecursionExists ==
    ASSUME NEW S, NEW V, NEW stop, NEW next \in [S -> S], NEW base \in [S -> V],
           NEW step \in [S \X V -> V], Ends(S, stop, next)
    PROVE  \E g \in [S -> V] : Solves(g, S, stop, next, base, step)
<1> DEFINE Has(D, g) == Part(D, g, S, V, stop, next, base, step)
           Reach(x) == \E D \in SUBSET S : \E g \in [D -> V] : x \in D /\ Has(D, g)
           T == {x \in S : ~Reach(x)}
<1>1. T = {}
  <2>1. SUFFICES ASSUME T # {} PROVE FALSE
    OBVIOUS
  <2>2. PICK x \in T : x \in stop \/ next[x] \notin T
    BY <2>1 DEF Ends
  <2>3. CASE x \in stop
    <3> DEFINE g == [y \in {x} |-> base[x]]
    <3>1. {x} \in SUBSET S /\ g \in [{x} -> V]
      OBVIOUS
    <3>2. Has({x}, g)
      BY <2>3, <3>1 DEF Part, Solves
    <3>3. Reach(x)
      BY <3>1, <3>2
    <3> QED BY <3>3
  <2>4. CASE x \notin stop
    <3>1. next[x] \in S /\ Reach(next[x])
      BY <2>2, <2>4
    <3>2. PICK D \in SUBSET S : \E g \in [D -> V] : next[x] \in D /\ Has(D, g)
      BY <3>1
    <3>3. PICK g \in [D -> V] : next[x] \in D /\ Has(D, g)
      BY <3>2
    <3>4. x \notin D
      BY <3>3
    <3> DEFINE value == step[<<x, g[next[x]]>>]
               longer == [y \in D \cup {x} |-> IF y = x THEN value ELSE g[y]]
    <3>5. value \in V
      BY <3>3
    <3>6. D \cup {x} \in SUBSET S /\ longer \in [D \cup {x} -> V]
      BY <3>5
    <3>7. \A y \in D : y \notin stop => next[y] \in D
      BY <3>3 DEF Part
    <3>8. \A y \in D : longer[y] = g[y]
      BY <3>4
    <3>9. Solves(longer, D \cup {x}, stop, next, base, step)
      <4>1. ASSUME NEW y \in D
            PROVE  longer[y] = IF y \in stop THEN base[y] ELSE step[<<y, longer[next[y]]>>]
        <5>1. g[y] = IF y \in stop THEN base[y] ELSE step[<<y, g[next[y]]>>]
          BY <3>3 DEF Part, Solves
        <5>2. y \notin stop => longer[next[y]] = g[next[y]]
          BY <3>7, <3>8
        <5> QED BY <5>1, <5>2, <3>8
      <4>2. longer[x] = step[<<x, longer[next[x]]>>]
        BY <3>3, <3>8
      <4> QED BY <4>1, <4>2, <2>4 DEF Solves
    <3>10. Has(D \cup {x}, longer)
      BY <3>3, <3>6, <3>7, <3>9 DEF Part
    <3>11. Reach(x)
      BY <3>6, <3>10
    <3> QED BY <3>11
  <2> QED BY <2>3, <2>4
<1> DEFINE At(x, v) == \E D \in SUBSET S : \E g \in [D -> V] : x \in D /\ Has(D, g) /\ v = g[x]
           G == [x \in S |-> CHOOSE v \in V : At(x, v)]
<1>2. \A x \in S : G[x] \in V /\ At(x, G[x])
  <2>1. ASSUME NEW x \in S
        PROVE  \E v \in V : At(x, v)
    <3>1. Reach(x)
      BY <1>1
    <3>2. PICK D \in SUBSET S : \E g \in [D -> V] : x \in D /\ Has(D, g)
      BY <3>1
    <3>3. PICK g \in [D -> V] : x \in D /\ Has(D, g)
      BY <3>2
    <3>4. g[x] \in V /\ At(x, g[x])
      BY <3>3
    <3> QED BY <3>4
  <2> QED BY <2>1
<1>3. ASSUME NEW D \in SUBSET S, NEW g \in [D -> V], Has(D, g), NEW x \in D
      PROVE  G[x] = g[x]
  <2>1. PICK E \in SUBSET S : \E h \in [E -> V] : x \in E /\ Has(E, h) /\ G[x] = h[x]
    BY <1>2
  <2>2. PICK h \in [E -> V] : x \in E /\ Has(E, h) /\ G[x] = h[x]
    BY <2>1
  <2>3. g[x] = h[x]
    BY <1>3, <2>2, PartsAgree
  <2> QED BY <2>2, <2>3
<1>4. ASSUME NEW x \in S
      PROVE  G[x] = IF x \in stop THEN base[x] ELSE step[<<x, G[next[x]]>>]
  <2>1. PICK D \in SUBSET S : \E g \in [D -> V] : x \in D /\ Has(D, g)
    BY <1>2
  <2>2. PICK g \in [D -> V] : x \in D /\ Has(D, g)
    BY <2>1
  <2>3. G[x] = g[x]
    BY <1>3, <2>2
  <2>4. x \notin stop => next[x] \in D
    BY <2>2 DEF Part
  <2>5. x \notin stop => G[next[x]] = g[next[x]]
    BY <1>3, <2>2, <2>4
  <2>6. g[x] = IF x \in stop THEN base[x] ELSE step[<<x, g[next[x]]>>]
    BY <2>2 DEF Part, Solves
  <2> QED BY <2>3, <2>5, <2>6
<1>5. G \in [S -> V]
  BY <1>2
<1>6. Solves(G, S, stop, next, base, step)
  BY <1>4 DEF Solves
<1> QED BY <1>5, <1>6

\* What holds of all sequences: it holds of the empty one, and of one more.
LEMMA SequencesByAppend ==
    ASSUME NEW A, NEW T \in SUBSET Seq(A), <<>> \in T,
           \A s \in T, x \in A : Append(s, x) \in T
    PROVE  T = Seq(A)
<1> DEFINE N == {n \in Nat : \E s \in Seq(A) : s \notin T /\ Len(s) = n}
<1>1. SUFFICES ASSUME NEW t \in Seq(A), t \notin T PROVE FALSE
  OBVIOUS
<1>2. Len(t) \in N
  BY <1>1, LenProperties
<1>3. PICK n \in N : \A m \in N : n <= m
  <2>1. N \in SUBSET Nat /\ N # {}
    BY <1>2
  <2> QED BY <2>1, LeastNumber
<1>4. PICK s \in Seq(A) : s \notin T /\ Len(s) = n
  BY <1>3
<1>5. PICK r \in Seq(A), x \in A : s = Append(r, x)
  BY <1>4, SequenceEmptyOrAppend
<1>6. Len(r) \in Nat /\ Len(s) = Len(r) + 1
  BY <1>5, AppendProperties, LenProperties
<1>7. r \in T
  <2>1. SUFFICES ASSUME r \notin T PROVE FALSE
    OBVIOUS
  <2>2. Len(r) \in N
    BY <2>1, <1>6
  <2>3. n <= Len(r) /\ n = Len(r) + 1
    BY <2>2, <1>3, <1>4, <1>6
  <2> QED BY <2>3, <1>6
<1> QED BY <1>4, <1>5, <1>7

LEMMA ConcatOfAppend ==
    ASSUME NEW A, NEW s \in Seq(A), NEW t \in Seq(A), NEW x \in A
    PROVE  s \o Append(t, x) = Append(s \o t, x)
<1>1. /\ s \o t \in Seq(A) /\ <<x>> \in Seq(A)
      /\ Append(t, x) = t \o <<x>> /\ Append(s \o t, x) = (s \o t) \o <<x>>
  BY ConcatProperties, AppendIsConcat
<1> QED BY <1>1, ConcatAssociative

-----------------------------------------------------------------------------
(***************************************************************************)
(* Sequences put together (FlattenSeq).                                    *)
(***************************************************************************)
\* The first i of some sequences, as FlattenSeq puts them together.
Joined(seqs) ==
    CHOOSE flatten : flatten =
        [i \in 1 .. Len(seqs) |-> IF i = 1 THEN seqs[i] ELSE flatten[i - 1] \o seqs[i]]

LEMMA FlattenSeqIsJoined ==
    ASSUME NEW seqs
    PROVE  FlattenSeq(seqs) = IF Len(seqs) = 0 THEN seqs ELSE Joined(seqs)[Len(seqs)]
BY DEF FlattenSeq, Joined

\* The recursion of FlattenSeq is well defined, and keeps the elements' type.
LEMMA JoinedIsDefined ==
    ASSUME NEW A, NEW seqs \in Seq(Seq(A)), NEW i \in 1 .. Len(seqs)
    PROVE  /\ Joined(seqs)[i] \in Seq(A)
           /\ Joined(seqs)[i] = IF i = 1 THEN seqs[i] ELSE Joined(seqs)[i - 1] \o seqs[i]
<1> DEFINE S == 1 .. Len(seqs)
           V == Seq(A)
           next == [j \in S |-> IF j = 1 THEN 1 ELSE j - 1]
           base == [j \in S |-> seqs[j]]
           step == [p \in S \X V |-> p[2] \o seqs[p[1]]]
<1>1. Len(seqs) \in Nat /\ \A j \in S : seqs[j] \in V
  BY LenProperties
<1>2. next \in [S -> S] /\ base \in [S -> V]
  BY <1>1
<1>3. step \in [S \X V -> V]
  <2>1. \A p \in S \X V : p[2] \o seqs[p[1]] \in V
    BY <1>1, ConcatProperties
  <2> QED BY <2>1
<1>4. Ends(S, {1}, next)
  <2>1. ASSUME NEW T \in SUBSET S, T # {}
        PROVE  \E x \in T : x \in {1} \/ next[x] \notin T
    <3>1. PICK n \in T : \A m \in T : n <= m
      <4>1. T \in SUBSET Nat
        BY <1>1
      <4> QED BY <2>1, <4>1, LeastNumber
    <3>2. n # 1 => next[n] = n - 1
      BY <1>1
    <3> QED BY <3>1, <3>2, <1>1
  <2> QED BY <2>1 DEF Ends
<1>5. PICK g \in [S -> V] : Solves(g, S, {1}, next, base, step)
  BY <1>2, <1>3, <1>4, RecursionExists
<1>6. ASSUME NEW j \in S
      PROVE  g[j] = IF j = 1 THEN seqs[j] ELSE g[j - 1] \o seqs[j]
  <2>1. g[j] = IF j \in {1} THEN base[j] ELSE step[<<j, g[next[j]]>>]
    BY <1>5 DEF Solves
  <2>2. j # 1 => j - 1 \in S
    BY <1>1
  <2>3. j # 1 => step[<<j, g[j - 1]>>] = g[j - 1] \o seqs[j]
    BY <1>5, <2>2
  <2> QED BY <2>1, <2>2, <2>3
<1>7. g = [j \in S |-> IF j = 1 THEN seqs[j] ELSE g[j - 1] \o seqs[j]]
  BY <1>5, <1>6
<1>8. Joined(seqs) =
        [j \in S |-> IF j = 1 THEN seqs[j] ELSE Joined(seqs)[j - 1] \o seqs[j]]
  <2> DEFINE Is(f) == f = [j \in S |-> IF j = 1 THEN seqs[j] ELSE f[j - 1] \o seqs[j]]
  <2>1. Is(g)
    BY <1>7
  <2>2. Is(CHOOSE f : Is(f))
    <3> HIDE DEF Is
    <3> QED BY <2>1
  <2> QED BY <2>2 DEF Joined
<1>9. \A j \in S : Joined(seqs)[j] = IF j = 1 THEN seqs[j] ELSE Joined(seqs)[j - 1] \o seqs[j]
  BY <1>8
<1> DEFINE Not == {j \in S : Joined(seqs)[j] \notin V}
<1>10. Not = {}
  <2>1. SUFFICES ASSUME Not # {} PROVE FALSE
    OBVIOUS
  <2>2. PICK j \in Not : j = 1 \/ next[j] \notin Not
    BY <2>1, <1>4 DEF Ends
  <2>3. j # 1 => j - 1 \in S /\ Joined(seqs)[j - 1] \in V
    BY <1>1, <2>2
  <2>4. j # 1 => Joined(seqs)[j - 1] \o seqs[j] \in V
    BY <1>1, <2>3, ConcatProperties
  <2> QED BY <1>1, <1>9, <2>4
<1> QED BY <1>9, <1>10

\* What is in the sequences is what is in the one made of them.
LEMMA FlattenType ==
    ASSUME NEW A, NEW seqs \in Seq(Seq(A))
    PROVE  FlattenSeq(seqs) \in Seq(A)
<1>1. Len(seqs) \in Nat /\ (Len(seqs) = 0 => seqs = <<>>)
  BY LenProperties, EmptySeq
<1>2. CASE Len(seqs) = 0
  <2>1. FlattenSeq(seqs) = <<>>
    BY <1>1, <1>2, FlattenSeqIsJoined
  <2> QED BY <2>1, EmptySeq
<1>3. CASE Len(seqs) # 0
  <2>1. Joined(seqs)[Len(seqs)] \in Seq(A)
    BY <1>1, <1>3, JoinedIsDefined
  <2> QED BY <2>1, <1>3, FlattenSeqIsJoined
<1> QED BY <1>2, <1>3

LEMMA FlattenEmpty == FlattenSeq(<<>>) = <<>>
BY FlattenSeqIsJoined

\* One sequence more comes after the others; so do several.
LEMMA FlattenAppend ==
    ASSUME NEW A, NEW seqs \in Seq(Seq(A)), NEW x \in Seq(A)
    PROVE  FlattenSeq(Append(seqs, x)) = FlattenSeq(seqs) \o x
<1> DEFINE n == Len(seqs)
           more == Append(seqs, x)
           S == 1 .. n
           next == [j \in S |-> IF j = 1 THEN 1 ELSE j - 1]
           Not == {j \in S : Joined(more)[j] # Joined(seqs)[j]}
<1>1. /\ n \in Nat /\ more \in Seq(Seq(A)) /\ Len(more) = n + 1
      /\ \A i \in S : more[i] = seqs[i]
      /\ more[n + 1] = x
  BY AppendProperties, LenProperties
<1> HIDE DEF n, more
<1>2. \A i \in S : Joined(seqs)[i] = IF i = 1 THEN seqs[i] ELSE Joined(seqs)[i - 1] \o seqs[i]
  BY JoinedIsDefined DEF n
<1>3. \A i \in 1 .. n + 1 :
        Joined(more)[i] = IF i = 1 THEN more[i] ELSE Joined(more)[i - 1] \o more[i]
  BY <1>1, JoinedIsDefined
<1>4. Not = {}
  <2>1. SUFFICES ASSUME Not # {} PROVE FALSE
    OBVIOUS
  <2>2. PICK j \in Not : \A m \in Not : j <= m
    <3>1. Not \in SUBSET Nat
      BY <1>1
    <3> QED BY <2>1, <3>1, LeastNumber
  <2>3. j # 1 => j - 1 \in S /\ j - 1 \notin Not
    BY <1>1, <2>2
  <2>4. j # 1 => Joined(more)[j - 1] = Joined(seqs)[j - 1]
    BY <2>3
  <2> QED BY <1>1, <1>2, <1>3, <2>4
<1>5. CASE n = 0
  <2>1. seqs = <<>> /\ FlattenSeq(seqs) = <<>>
    BY <1>5, EmptySeq, FlattenSeqIsJoined DEF n
  <2>2. FlattenSeq(more) = x
    <3>1. Len(more) = 1 /\ Joined(more)[1] = more[1] /\ more[1] = x
      BY <1>1, <1>3, <1>5
    <3>2. FlattenSeq(more) = IF Len(more) = 0 THEN more ELSE Joined(more)[Len(more)]
      BY FlattenSeqIsJoined
    <3> QED BY <3>1, <3>2
  <2>3. <<>> \o x = x
    BY ConcatEmptySeq
  <2> QED BY <2>1, <2>2, <2>3 DEF more
<1>6. CASE n # 0
  <2>1. FlattenSeq(more) = Joined(more)[n] \o x
    <3>1. n \in Nat /\ Len(more) = n + 1 /\ more[n + 1] = x
      BY <1>1
    <3>2. n + 1 \in 1 .. n + 1 /\ n + 1 # 1 /\ (n + 1) - 1 = n /\ n + 1 # 0
      BY <3>1, <1>6
    <3>3. Joined(more)[n + 1] = Joined(more)[n] \o x
      BY <1>3, <3>1, <3>2
    <3>4. FlattenSeq(more) = IF Len(more) = 0 THEN more ELSE Joined(more)[Len(more)]
      BY FlattenSeqIsJoined
    <3> QED BY <3>1, <3>2, <3>3, <3>4
  <2>2. Joined(more)[n] = Joined(seqs)[n]
    <3>1. n \in S /\ n \notin Not
      BY <1>1, <1>4, <1>6
    <3> QED BY <3>1
  <2>3. FlattenSeq(seqs) = Joined(seqs)[n]
    BY <1>6, FlattenSeqIsJoined DEF n
  <2> QED BY <2>1, <2>2, <2>3 DEF more
<1> QED BY <1>5, <1>6

LEMMA FlattenConcat ==
    ASSUME NEW A, NEW s \in Seq(Seq(A)), NEW t \in Seq(Seq(A))
    PROVE  FlattenSeq(s \o t) = FlattenSeq(s) \o FlattenSeq(t)
<1> DEFINE T == {u \in Seq(Seq(A)) : FlattenSeq(s \o u) = FlattenSeq(s) \o FlattenSeq(u)}
<1>1. <<>> \in T
  <2>1. s \o <<>> = s /\ FlattenSeq(s) \o <<>> = FlattenSeq(s)
    BY FlattenType, ConcatEmptySeq
  <2> QED BY <2>1, FlattenEmpty, EmptySeq
<1>2. ASSUME NEW u \in T, NEW x \in Seq(A)
      PROVE  Append(u, x) \in T
  <2>1. u \in Seq(Seq(A)) /\ Append(u, x) \in Seq(Seq(A))
    BY AppendProperties
  <2>2. s \o Append(u, x) = Append(s \o u, x)
    BY <2>1, ConcatOfAppend
  <2>3. FlattenSeq(Append(s \o u, x)) = FlattenSeq(s \o u) \o x
    BY <2>1, ConcatProperties, FlattenAppend
  <2>4. FlattenSeq(Append(u, x)) = FlattenSeq(u) \o x
    BY <2>1, FlattenAppend
  <2>5. (FlattenSeq(s) \o FlattenSeq(u)) \o x = FlattenSeq(s) \o (FlattenSeq(u) \o x)
    BY <2>1, FlattenType, ConcatAssociative
  <2> QED BY <2>1, <2>2, <2>3, <2>4, <2>5
<1>3. T = Seq(Seq(A))
  BY <1>1, <1>2, SequencesByAppend
<1> QED BY <1>3

LEMMA FlattenOne ==
    ASSUME NEW A, NEW x \in Seq(A)
    PROVE  FlattenSeq(<<x>>) = x
<1>1. Append(<<>>, x) = <<x>> /\ <<>> \in Seq(Seq(A))
  BY EmptySeq
<1>2. FlattenSeq(<<x>>) = FlattenSeq(<<>>) \o x
  BY <1>1, FlattenAppend
<1> QED BY <1>2, FlattenEmpty, ConcatEmptySeq

-----------------------------------------------------------------------------
(***************************************************************************)
(* The letters of a text: a sum, in whatever order SumFunction goes.       *)
(***************************************************************************)
Some(s) == CHOOSE x \in s : TRUE
Sums(f, S) ==
    CHOOSE iter : iter =
        [s \in SUBSET S |-> IF s = {} THEN 0 ELSE f[Some(s)] + iter[s \ {Some(s)}]]

\* The letters are a sum over the places of a text.
LEMMA LettersAreSums ==
    ASSUME NEW words
    PROVE  Letters(words) = Sums(words, DOMAIN words)[DOMAIN words]
BY DEF Letters, SumFunction, SumFunctionOnSet, FoldFunctionOnSet, MapThenFoldSet, Sums, Some

Summable(f, S) == IsFiniteSet(S) /\ \A x \in S : f[x] \in Nat

\* Of some subsets of a finite set, one has no smaller one among them.
LEMMA SmallestSet ==
    ASSUME NEW S, IsFiniteSet(S), NEW T \in SUBSET (SUBSET S), T # {}
    PROVE  \E s \in T : \A x \in s : s \ {x} \notin T
<1> DEFINE N == {Cardinality(s) : s \in T}
<1>1. \A s \in T : IsFiniteSet(s) /\ Cardinality(s) \in Nat
  BY FS_Subset, FS_CardinalityType
<1>2. N \in SUBSET Nat /\ N # {}
  BY <1>1
<1>3. PICK n \in N : \A m \in N : n <= m
  BY <1>2, LeastNumber
<1>4. PICK s \in T : Cardinality(s) = n
  OBVIOUS
<1>5. ASSUME NEW x \in s, s \ {x} \in T
      PROVE  FALSE
  <2>1. Cardinality(s \ {x}) = Cardinality(s) - 1
    BY <1>1, FS_RemoveElement
  <2>2. n <= Cardinality(s \ {x})
    BY <1>3, <1>5
  <2> QED BY <1>1, <1>4, <2>1, <2>2
<1> QED BY <1>5

\* The recursion of SumFunction is well defined, and a number.
LEMMA SumsAreDefined ==
    ASSUME NEW f, NEW S, Summable(f, S),
           NEW s \in SUBSET S
    PROVE  /\ Sums(f, S)[s] \in Nat
           /\ s = {} => Sums(f, S)[s] = 0
           /\ s # {} => Sums(f, S)[s] = f[Some(s)] + Sums(f, S)[s \ {Some(s)}]
<1> USE DEF Summable
<1> DEFINE D == SUBSET S
           next == [t \in D |-> t \ {Some(t)}]
           base == [t \in D |-> 0]
           step == [p \in D \X Nat |-> IF p[1] = {} THEN 0 ELSE f[Some(p[1])] + p[2]]
<1>1. \A t \in D : t # {} => Some(t) \in t /\ f[Some(t)] \in Nat
  BY DEF Some
<1>2. next \in [D -> D] /\ base \in [D -> Nat]
  OBVIOUS
<1>3. step \in [D \X Nat -> Nat]
  <2>1. \A p \in D \X Nat : p[1] # {} => f[Some(p[1])] + p[2] \in Nat
    BY <1>1
  <2> QED BY <2>1
<1>4. Ends(D, {{}}, next)
  <2>1. ASSUME NEW T \in SUBSET D, T # {}
        PROVE  \E t \in T : t \in {{}} \/ next[t] \notin T
    <3>1. PICK t \in T : \A x \in t : t \ {x} \notin T
      BY <2>1, SmallestSet
    <3> QED BY <3>1, <1>1
  <2> QED BY <2>1 DEF Ends
<1>5. PICK g \in [D -> Nat] : Solves(g, D, {{}}, next, base, step)
  BY <1>2, <1>3, <1>4, RecursionExists
<1>6. ASSUME NEW t \in D
      PROVE  g[t] = IF t = {} THEN 0 ELSE f[Some(t)] + g[t \ {Some(t)}]
  <2>1. g[t] = IF t \in {{}} THEN base[t] ELSE step[<<t, g[next[t]]>>]
    BY <1>5 DEF Solves
  <2>2. t \ {Some(t)} \in D /\ g[t \ {Some(t)}] \in Nat
    BY <1>5
  <2> QED BY <2>1, <2>2
<1>7. g = [t \in D |-> IF t = {} THEN 0 ELSE f[Some(t)] + g[t \ {Some(t)}]]
  BY <1>5, <1>6
<1>8. Sums(f, S) =
        [t \in D |-> IF t = {} THEN 0 ELSE f[Some(t)] + Sums(f, S)[t \ {Some(t)}]]
  <2> DEFINE Is(h) == h = [t \in D |-> IF t = {} THEN 0 ELSE f[Some(t)] + h[t \ {Some(t)}]]
  <2>1. Is(g)
    BY <1>7
  <2>2. Is(CHOOSE h : Is(h))
    <3> HIDE DEF Is
    <3> QED BY <2>1
  <2> QED BY <2>2 DEF Sums
<1>9. \A t \in D :
        /\ t = {} => Sums(f, S)[t] = 0
        /\ t # {} => Sums(f, S)[t] = f[Some(t)] + Sums(f, S)[t \ {Some(t)}]
  BY <1>8
<1> DEFINE T == {t \in D : Sums(f, S)[t] \notin Nat}
<1>10. T = {}
  <2>1. SUFFICES ASSUME T # {} PROVE FALSE
    OBVIOUS
  <2>2. PICK t \in T : \A x \in t : t \ {x} \notin T
    BY <2>1, SmallestSet
  <2>3. t # {} => Sums(f, S)[t \ {Some(t)}] \in Nat
    BY <1>1, <2>2
  <2>4. t # {}
    <3>1. t = {} => Sums(f, S)[t] = 0
      BY <1>9
    <3> QED BY <3>1
  <2>5. Sums(f, S)[t] = f[Some(t)] + Sums(f, S)[t \ {Some(t)}]
    BY <1>9, <2>4
  <2>6. f[Some(t)] \in Nat
    BY <1>1, <2>4
  <2>7. Sums(f, S)[t] \in Nat
    BY <2>3, <2>4, <2>5, <2>6
  <2> QED BY <2>7
<1> QED BY <1>9, <1>10

\* Whichever is taken first, the sum is the same.
LEMMA SumsInAnyOrder ==
    ASSUME NEW f, NEW S, Summable(f, S),
           NEW s \in SUBSET S, NEW x \in s
    PROVE  Sums(f, S)[s] = f[x] + Sums(f, S)[s \ {x}]
<1> DEFINE T == {t \in SUBSET S : \E y \in t : Sums(f, S)[t] # f[y] + Sums(f, S)[t \ {y}]}
<1>1. SUFFICES ASSUME T # {} PROVE FALSE
  OBVIOUS
<1>2. PICK t \in T : \A y \in t : t \ {y} \notin T
  BY <1>1, SmallestSet DEF Summable
<1>3. PICK y \in t : Sums(f, S)[t] # f[y] + Sums(f, S)[t \ {y}]
  OBVIOUS
<1> DEFINE z == Some(t)
<1>4. z \in t
  BY <1>3 DEF Some
<1>5. Sums(f, S)[t] = f[z] + Sums(f, S)[t \ {z}]
  BY <1>4, SumsAreDefined
<1>6. y # z
  BY <1>3, <1>5
<1>7. Sums(f, S)[t \ {z}] = f[y] + Sums(f, S)[(t \ {z}) \ {y}]
  BY <1>2, <1>4, <1>6
<1>8. Sums(f, S)[t \ {y}] = f[z] + Sums(f, S)[(t \ {y}) \ {z}]
  BY <1>2, <1>4, <1>6
<1>9. (t \ {z}) \ {y} = (t \ {y}) \ {z} /\ (t \ {y}) \ {z} \in SUBSET S
  OBVIOUS
<1>10. f[y] \in Nat /\ f[z] \in Nat /\ Sums(f, S)[(t \ {y}) \ {z}] \in Nat
  BY <1>4, <1>9, SumsAreDefined DEF Summable
<1>11. f[y] + (f[z] + Sums(f, S)[(t \ {y}) \ {z}]) =
            f[z] + (f[y] + Sums(f, S)[(t \ {y}) \ {z}])
  BY <1>10
<1> QED BY <1>3, <1>5, <1>7, <1>8, <1>9, <1>11

\* The sum is that of the elements summed, whatever others there are.
LEMMA SumsAgree ==
    ASSUME NEW f, NEW S, Summable(f, S),
           NEW g, NEW R \in SUBSET S, \A x \in R : g[x] = f[x]
    PROVE  Sums(f, S)[R] = Sums(g, R)[R]
<1>1. Summable(g, R)
  BY FS_Subset DEF Summable
<1>2. \A t \in SUBSET S :
        /\ t = {} => Sums(f, S)[t] = 0
        /\ t # {} => Sums(f, S)[t] = f[Some(t)] + Sums(f, S)[t \ {Some(t)}]
  BY SumsAreDefined
<1>3. \A t \in SUBSET R :
        /\ t = {} => Sums(g, R)[t] = 0
        /\ t # {} => Sums(g, R)[t] = g[Some(t)] + Sums(g, R)[t \ {Some(t)}]
  BY <1>1, SumsAreDefined
<1> DEFINE T == {t \in SUBSET R : Sums(f, S)[t] # Sums(g, R)[t]}
<1>4. SUFFICES ASSUME T # {} PROVE FALSE
  OBVIOUS
<1>5. PICK t \in T : \A y \in t : t \ {y} \notin T
  BY <1>1, <1>4, SmallestSet DEF Summable
<1>6. t \in SUBSET S /\ t \in SUBSET R
  OBVIOUS
<1>7. t # {}
  BY <1>2, <1>3, <1>6
<1>8. Some(t) \in t /\ t \ {Some(t)} \in SUBSET R
  BY <1>7 DEF Some
<1>9. Sums(f, S)[t \ {Some(t)}] = Sums(g, R)[t \ {Some(t)}]
  BY <1>5, <1>8
<1>10. f[Some(t)] = g[Some(t)]
  BY <1>8
<1> QED BY <1>2, <1>3, <1>6, <1>7, <1>9, <1>10

LEMMA LettersType ==
    ASSUME NEW words \in Seq(Nat)
    PROVE  Letters(words) \in Nat
<1>1. /\ Len(words) \in Nat /\ DOMAIN words = 1 .. Len(words)
      /\ \A i \in DOMAIN words : words[i] \in Nat
  BY LenProperties
<1>2. Summable(words, DOMAIN words)
  BY <1>1, FS_Interval DEF Summable
<1> QED BY <1>1, <1>2, LettersAreSums, SumsAreDefined

LEMMA LettersEmpty == Letters(<<>>) = 0
<1>1. DOMAIN <<>> = {} /\ Summable(<<>>, {})
  BY FS_EmptySet DEF Summable
<1>2. Sums(<<>>, {})[{}] = 0
  BY <1>1, SumsAreDefined
<1> QED BY <1>1, <1>2, LettersAreSums

\* A word more has its letters more; so has a text more.
LEMMA LettersAppend ==
    ASSUME NEW words \in Seq(Nat), NEW n \in Nat
    PROVE  Letters(Append(words, n)) = Letters(words) + n
<1> DEFINE l == Len(words)
           more == Append(words, n)
           L == 1 .. l
           M == 1 .. l + 1
<1>1. /\ l \in Nat /\ DOMAIN words = L /\ \A i \in L : words[i] \in Nat
  BY LenProperties
<1>2. /\ DOMAIN more = M /\ more[l + 1] = n
      /\ \A i \in L : words[i] = more[i]
  BY AppendProperties, LenProperties
<1> HIDE DEF l, more
<1>3. Summable(more, M)
  <2>1. \A i \in M : more[i] \in Nat
    BY <1>1, <1>2
  <2>2. IsFiniteSet(M)
    BY <1>1, FS_Interval
  <2> QED BY <2>1, <2>2 DEF Summable
<1>4. L \in SUBSET M /\ l + 1 \in M /\ M \ {l + 1} = L
  BY <1>1
<1> HIDE DEF L, M
<1>5. Sums(more, M)[M] = n + Sums(more, M)[L]
  <2>1. M \in SUBSET M
    OBVIOUS
  <2>2. Sums(more, M)[M] = more[l + 1] + Sums(more, M)[M \ {l + 1}]
    BY <1>3, <1>4, <2>1, SumsInAnyOrder
  <2> QED BY <1>2, <1>4, <2>2
<1>6. Sums(more, M)[L] = Sums(words, L)[L]
  BY <1>2, <1>3, <1>4, SumsAgree
<1>7. Letters(more) = n + Letters(words)
  BY <1>1, <1>2, <1>5, <1>6, LettersAreSums
<1> QED BY <1>7, LettersType DEF more

LEMMA LettersOfOne ==
    ASSUME NEW n \in Nat
    PROVE  Letters(<<n>>) = n
<1>1. Append(<<>>, n) = <<n>> /\ <<>> \in Seq(Nat)
  BY EmptySeq
<1>2. Letters(<<n>>) = Letters(<<>>) + n
  BY <1>1, LettersAppend
<1> QED BY <1>2, LettersEmpty

LEMMA LettersConcat ==
    ASSUME NEW s \in Seq(Nat), NEW t \in Seq(Nat)
    PROVE  Letters(s \o t) = Letters(s) + Letters(t)
<1> DEFINE T == {u \in Seq(Nat) : Letters(s \o u) = Letters(s) + Letters(u)}
<1>1. <<>> \in T
  <2>1. s \o <<>> = s /\ Letters(s) + 0 = Letters(s)
    BY LettersType, ConcatEmptySeq
  <2> QED BY <2>1, LettersEmpty, EmptySeq
<1>2. ASSUME NEW u \in T, NEW n \in Nat
      PROVE  Append(u, n) \in T
  <2>1. u \in Seq(Nat) /\ Append(u, n) \in Seq(Nat)
    BY AppendProperties
  <2>2. s \o Append(u, n) = Append(s \o u, n)
    BY <2>1, ConcatOfAppend
  <2>3. Letters(Append(s \o u, n)) = Letters(s \o u) + n
    BY <2>1, ConcatProperties, LettersAppend
  <2>4. Letters(Append(u, n)) = Letters(u) + n
    BY <2>1, LettersAppend
  <2>5. Letters(s) \in Nat /\ Letters(u) \in Nat
    BY <2>1, LettersType
  <2>6. Letters(s \o Append(u, n)) = Letters(s) + Letters(Append(u, n))
    BY <2>2, <2>3, <2>4, <2>5
  <2> QED BY <2>1, <2>6
<1>3. T = Seq(Nat)
  BY <1>1, <1>2, SequencesByAppend
<1> QED BY <1>3

-----------------------------------------------------------------------------
(***************************************************************************)
(* One cut.                                                                *)
(***************************************************************************)
\* The texts a chunk can be; those that are left as they are; what is cut off of
\* others, and what is left of them.
Fitting == {words \in Seq(Nat) : words # <<>> /\ TextLength(words) <= MAX_CHUNK_CHARS}
Whole == {words \in Seq(Nat) : words = <<>> \/ TextLength(words) <= MAX_CHUNK_CHARS}
First(words) ==
    IF WordsThatFit(words) > 0 THEN SubSeq(words, 1, WordsThatFit(words))
    ELSE <<MAX_CHUNK_CHARS>>
Rest(words) ==
    IF WordsThatFit(words) > 0 THEN SubSeq(words, WordsThatFit(words) + 1, Len(words))
    ELSE LeftOf(Head(words), Tail(words))

\* No word is longer than a chunk may be.
Short(words) == \A i \in 1 .. Len(words) : words[i] <= MAX_CHUNK_CHARS

\* The length of a text counts the spaces between its words.
LEMMA TextLengthType ==
    ASSUME NEW words \in Seq(Nat)
    PROVE  /\ TextLength(words) \in Nat
           /\ words # <<>> => TextLength(words) = Letters(words) + Len(words) - 1
<1>1. Letters(words) \in Nat /\ (words # <<>> => Len(words) \in Nat \ {0})
  BY LettersType, EmptySeq
<1> QED BY <1>1 DEF TextLength

LEMMA TextLengthOfOne ==
    ASSUME NEW n \in Nat
    PROVE  /\ <<n>> \in Seq(Nat) /\ <<n>> # <<>>
           /\ TextLength(<<n>>) = n
<1>1. <<n>> \in Seq(Nat) /\ <<n>> # <<>> /\ Len(<<n>>) = 1
  OBVIOUS
<1>2. TextLength(<<n>>) = n + 1 - 1
  BY <1>1, LettersOfOne, TextLengthType
<1> QED BY <1>1, <1>2

\* Words are taken together as long as they fit, unless the first does not.
LEMMA WordsThatFitAre ==
    ASSUME NEW words \in Seq(Nat)
    PROVE  \/ /\ WordsThatFit(words) = 0
              /\ \A j \in 1 .. Len(words) - 1 :
                    ~(TextLength(SubSeq(words, 1, j)) < MAX_CHUNK_CHARS)
           \/ /\ WordsThatFit(words) \in 1 .. Len(words) - 1
              /\ TextLength(SubSeq(words, 1, WordsThatFit(words))) < MAX_CHUNK_CHARS
<1> DEFINE fit == {j \in 1 .. Len(words) - 1 :
                      TextLength(SubSeq(words, 1, j)) < MAX_CHUNK_CHARS}
<1>1. WordsThatFit(words) = IF fit = {} THEN 0 ELSE Max(fit)
  BY DEF WordsThatFit
<1>2. CASE fit = {}
  BY <1>1, <1>2
<1>3. CASE fit # {}
  <2> DEFINE Left == {Len(words) - j : j \in fit}
  <2>1. Len(words) \in Nat /\ \A j \in fit : j \in Nat /\ Len(words) - j \in Nat
    BY LenProperties
  <2>2. Left \in SUBSET Nat /\ Left # {}
    BY <1>3, <2>1
  <2>3. PICK n \in Left : \A m \in Left : n <= m
    BY <2>2, LeastNumber
  <2>4. PICK k \in fit : n = Len(words) - k
    OBVIOUS
  <2>5. ASSUME NEW j \in fit
        PROVE  k >= j
    <3>1. Len(words) - j \in Left
      OBVIOUS
    <3>2. Len(words) - k <= Len(words) - j
      BY <2>3, <2>4, <3>1
    <3>3. Len(words) \in Nat /\ j \in Nat /\ k \in Nat
      BY <2>1
    <3> HIDE DEF fit
    <3> QED BY <3>2, <3>3
  <2>6. Max(fit) \in fit
    <3> HIDE DEF fit
    <3> QED BY <2>4, <2>5 DEF Max
  <2> QED BY <1>1, <1>3, <2>6
<1> QED BY <1>2, <1>3

\* A text that does not fit is cut: something that fits comes off, and what is left
\* has fewer words, or as many and a shorter first one.
LEMMA CutTakesSome ==
    ASSUME NEW words \in Seq(Nat), words \notin Whole
    PROVE  /\ First(words) \in Fitting
           /\ Rest(words) \in Seq(Nat)
           /\ \/ Len(Rest(words)) < Len(words)
              \/ /\ Len(Rest(words)) = Len(words) /\ Rest(words) # <<>>
                 /\ Head(Rest(words)) < Head(words)
           /\ Letters(First(words)) + Letters(Rest(words)) = Letters(words)
           /\ Short(words) => Short(Rest(words)) /\ First(words) \o Rest(words) = words
<1> DEFINE n == Len(words)
           k == WordsThatFit(words)
           head == Head(words)
           tail == Tail(words)
<1> USE ChunkingAssumption
<1>1. /\ words # <<>> /\ n \in Nat \ {0}
      /\ TextLength(words) \in Nat /\ ~(TextLength(words) <= MAX_CHUNK_CHARS)
      /\ \A i \in 1 .. n : words[i] \in Nat
  BY EmptySeq, TextLengthType, LenProperties DEF Whole
<1>2. CASE k > 0
  <2>1. k \in 1 .. n - 1 /\ TextLength(SubSeq(words, 1, k)) < MAX_CHUNK_CHARS
    BY <1>2, WordsThatFitAre
  <2>2. First(words) = SubSeq(words, 1, k) /\ Rest(words) = SubSeq(words, k + 1, n)
    BY <1>2 DEF First, Rest
  <2> HIDE DEF k
  <2>3. /\ SubSeq(words, 1, k) \in Seq(Nat) /\ Len(SubSeq(words, 1, k)) = k
    BY <1>1, <2>1, SubSeqProperties
  <2>4. /\ SubSeq(words, k + 1, n) \in Seq(Nat) /\ Len(SubSeq(words, k + 1, n)) = n - k
        /\ \A i \in 1 .. n - k : SubSeq(words, k + 1, n)[i] = words[k + i]
    BY <1>1, <2>1, SubSeqProperties
  <2>5. SubSeq(words, 1, k) # <<>>
    BY <2>1, <2>3
  <2>6. SubSeq(words, 1, k) \in Fitting
    <3>1. TextLength(SubSeq(words, 1, k)) \in Nat
      BY <2>3, TextLengthType
    <3>2. TextLength(SubSeq(words, 1, k)) <= MAX_CHUNK_CHARS
      BY <2>1, <3>1
    <3> QED BY <2>3, <2>5, <3>2 DEF Fitting
  <2>7. SubSeq(words, 1, k) \o SubSeq(words, k + 1, n) = words
    <3>1. SubSeq(words, 1, k) \o SubSeq(words, k + 1, n) = SubSeq(words, 1, n)
      BY <1>1, <2>1, ConcatAdjacentSubSeq
    <3> QED BY <3>1, SubSeqFull
  <2>8. Letters(First(words)) + Letters(Rest(words)) = Letters(words)
    BY <2>2, <2>3, <2>4, <2>7, LettersConcat
  <2>9. Short(words) => Short(SubSeq(words, k + 1, n))
    BY <1>1, <2>1, <2>4 DEF Short
  <2>10. Len(Rest(words)) < n
    BY <1>1, <2>1, <2>2, <2>4
  <2> QED BY <2>2, <2>4, <2>6, <2>7, <2>8, <2>9, <2>10
<1>3. CASE ~(k > 0)
  <2>1. k = 0 /\ \A j \in 1 .. n - 1 :
                    ~(TextLength(SubSeq(words, 1, j)) < MAX_CHUNK_CHARS)
    BY <1>3, WordsThatFitAre
  <2>2. First(words) = <<MAX_CHUNK_CHARS>> /\ Rest(words) = LeftOf(head, tail)
    BY <1>3 DEF First, Rest
  <2>3. /\ head \in Nat /\ tail \in Seq(Nat) /\ Len(tail) = n - 1
        /\ \A i \in 1 .. n - 1 : tail[i] = words[i + 1]
        /\ head = words[1]
    BY <1>1, HeadTailProperties
  <2>4. words = <<head>> \o tail
    <3>1. words = SubSeq(words, 1, n) /\ tail = SubSeq(words, 2, n)
      BY <1>1, SubSeqFull, TailIsSubSeq
    <3>2. SubSeq(words, 1, n) = <<words[1]>> \o SubSeq(words, 1 + 1, n)
      BY <1>1, SubSeqRecursiveFirst
    <3> QED BY <2>3, <3>1, <3>2
  <2>5. Letters(words) = head + Letters(tail)
    <3>1. <<head>> \in Seq(Nat) /\ Letters(<<head>>) = head
      BY <2>3, TextLengthOfOne, LettersOfOne
    <3>2. Letters(<<head>> \o tail) = Letters(<<head>>) + Letters(tail)
      BY <2>3, <3>1, LettersConcat
    <3> QED BY <2>4, <3>1, <3>2
  <2>6. head >= MAX_CHUNK_CHARS
    <3>1. CASE n = 1
      <4>1. words = <<head>>
        BY <1>1, <2>3, <3>1
      <4>2. TextLength(words) = head
        BY <2>3, <4>1, TextLengthOfOne
      <4> QED BY <1>1, <2>3, <4>2
    <3>2. CASE n # 1
      <4>1. 1 \in 1 .. n - 1
        <5>1. n \in Nat \ {0}
          BY <1>1
        <5> HIDE DEF n
        <5> QED BY <3>2, <5>1
      <4>2. SubSeq(words, 1, 1) = <<head>>
        <5>1. SubSeq(words, 1, 1) = <<words[1]>> \o SubSeq(words, 1 + 1, 1)
          BY <1>1, SubSeqRecursiveFirst
        <5>2. SubSeq(words, 1 + 1, 1) = <<>>
          BY SubSeqEmpty
        <5>3. <<words[1]>> \o <<>> = <<words[1]>>
          BY <1>1, TextLengthOfOne, ConcatEmptySeq
        <5> QED BY <2>3, <5>1, <5>2, <5>3
      <4>3. TextLength(<<head>>) = head
        BY <2>3, TextLengthOfOne
      <4>4. ~(TextLength(SubSeq(words, 1, 1)) < MAX_CHUNK_CHARS)
        BY <2>1, <4>1
      <4>5. ~(head < MAX_CHUNK_CHARS) /\ head \in Nat
        BY <2>3, <4>2, <4>3, <4>4
      <4> QED BY <4>5
    <3> QED BY <3>1, <3>2
  <2>7. <<MAX_CHUNK_CHARS>> \in Fitting /\ Letters(<<MAX_CHUNK_CHARS>>) = MAX_CHUNK_CHARS
    BY TextLengthOfOne, LettersOfOne DEF Fitting
  <2>8. CASE head = MAX_CHUNK_CHARS
    <3>1. Rest(words) = tail
      BY <2>2, <2>8 DEF LeftOf
    <3>2. Len(tail) < n
      BY <1>1, <2>3
    <3>3. Letters(First(words)) + Letters(Rest(words)) = Letters(words)
      BY <2>2, <2>5, <2>7, <2>8, <3>1
    <3>4. Short(words) => Short(tail)
      BY <1>1, <2>3 DEF Short
    <3> QED BY <2>2, <2>3, <2>4, <2>7, <2>8, <3>1, <3>2, <3>3, <3>4
  <2>9. CASE head # MAX_CHUNK_CHARS
    <3> DEFINE left == head - MAX_CHUNK_CHARS
    <3>1. left \in Nat /\ left < head /\ head = MAX_CHUNK_CHARS + left
      BY <2>3, <2>6
    <3>2. Rest(words) = <<left>> \o tail
      BY <2>2, <2>9 DEF LeftOf
    <3> HIDE DEF left
    <3>3. <<left>> \in Seq(Nat) /\ Letters(<<left>>) = left
      BY <3>1, TextLengthOfOne, LettersOfOne
    <3>4. /\ <<left>> \o tail \in Seq(Nat)
          /\ Len(<<left>> \o tail) = n
          /\ Head(<<left>> \o tail) = left
      BY <1>1, <2>3, <3>1, <3>3, ConcatProperties
    <3>5. Letters(<<left>> \o tail) = left + Letters(tail)
      BY <2>3, <3>3, LettersConcat
    <3>6. Letters(First(words)) + Letters(Rest(words)) = Letters(words)
      <4>1. Letters(tail) \in Nat
        BY <2>3, LettersType
      <4>2. Letters(First(words)) = MAX_CHUNK_CHARS
        BY <2>2, <2>7
      <4>3. Letters(Rest(words)) = left + Letters(tail)
        BY <3>2, <3>5
      <4>4. MAX_CHUNK_CHARS + (left + Letters(tail)) = head + Letters(tail)
        BY <3>1, <4>1
      <4> QED BY <2>5, <4>2, <4>3, <4>4
    <3>7. ~Short(words)
      BY <1>1, <2>3, <2>6, <2>9 DEF Short
    <3>8. <<left>> \o tail # <<>>
      BY <1>1, <3>4
    <3> QED BY <2>2, <2>7, <3>1, <3>2, <3>4, <3>6, <3>7, <3>8
  <2> QED BY <2>8, <2>9
<1> QED BY <1>2, <1>3

-----------------------------------------------------------------------------
(***************************************************************************)
(* A paragraph.                                                            *)
(***************************************************************************)
\* Cutting comes to an end: in any set of texts, one is whole or its rest outside. It is
\* one of those with the fewest words, with the shortest first word.
LEMMA CuttingEnds ==
    ASSUME NEW T \in SUBSET Seq(Nat), T # {}
    PROVE  \E words \in T : words \in Whole \/ Rest(words) \notin T
<1> DEFINE Lengths == {Len(words) : words \in T}
<1>1. \A words \in T : Len(words) \in Nat
  BY LenProperties
<1>2. PICK n \in Lengths : \A m \in Lengths : n <= m
  <2>1. Lengths \in SUBSET Nat /\ Lengths # {}
    BY <1>1
  <2> QED BY <2>1, LeastNumber
<1> DEFINE Shortest == {words \in T : Len(words) = n}
           Heads == {Head(words) : words \in Shortest}
<1>3. PICK any \in Shortest : TRUE
  OBVIOUS
<1>4. CASE any = <<>>
  BY <1>4 DEF Whole
<1>5. CASE any # <<>>
  <2>1. n # 0
    BY <1>5, EmptySeq
  <2>2. \A words \in Shortest : Head(words) \in Nat
    <3>1. ASSUME NEW words \in Shortest
          PROVE  words # <<>>
      BY <2>1
    <3> QED BY <3>1, HeadTailProperties
  <2>3. PICK h \in Heads : \A g \in Heads : h <= g
    <3>1. Heads \in SUBSET Nat /\ Heads # {}
      BY <2>2, <1>3
    <3> QED BY <3>1, LeastNumber
  <2>4. PICK words \in Shortest : Head(words) = h
    OBVIOUS
  <2>5. SUFFICES ASSUME words \notin Whole, Rest(words) \in T PROVE FALSE
    BY <2>4
  <2>6. Len(Rest(words)) \in Nat /\ n <= Len(Rest(words)) /\ Len(words) = n
    BY <1>1, <1>2, <2>4, <2>5
  <2>7. Len(Rest(words)) = n /\ Head(Rest(words)) < Head(words)
    BY <1>1, <2>4, <2>5, <2>6, CutTakesSome
  <2>8. Rest(words) \in Shortest
    BY <2>5, <2>7
  <2>9. Head(Rest(words)) \in Nat /\ Head(words) \in Nat /\ Head(words) <= Head(Rest(words))
    BY <2>2, <2>3, <2>4, <2>8
  <2> QED BY <2>7, <2>9
<1> QED BY <1>4, <1>5

\* The cutting does what its definition says, and what it makes can be chunks.
LEMMA PiecesAreDefined ==
    ASSUME NEW words \in Seq(Nat)
    PROVE  /\ Pieces[words] \in Seq(Fitting)
           /\ words \in Whole =>
                 Pieces[words] = IF words = <<>> THEN <<>> ELSE <<words>>
           /\ words \notin Whole =>
                 Pieces[words] = <<First(words)>> \o Pieces[Rest(words)]
<1> DEFINE S == Seq(Nat)
           V == Seq(Fitting)
           next == [w \in S |-> IF w \in Whole THEN w ELSE Rest(w)]
           base == [w \in S |-> IF w = <<>> \/ w \notin Whole THEN <<>> ELSE <<w>>]
           step == [p \in S \X V |-> IF p[1] \in Whole THEN <<>> ELSE <<First(p[1])>> \o p[2]]
<1>1. \A w \in S : w \notin Whole => First(w) \in Fitting /\ Rest(w) \in S
  BY CutTakesSome
<1>2. next \in [S -> S]
  BY <1>1
<1>3. base \in [S -> V]
  <2>1. \A w \in Whole : w # <<>> => <<w>> \in V
    <3>1. \A w \in Whole : w # <<>> => w \in Fitting
      BY DEF Whole, Fitting
    <3> QED BY <3>1
  <2>2. <<>> \in V
    BY EmptySeq
  <2> QED BY <2>1, <2>2
<1>4. step \in [S \X V -> V]
  <2>1. ASSUME NEW p \in S \X V, p[1] \notin Whole
        PROVE  <<First(p[1])>> \o p[2] \in V
    <3>1. <<First(p[1])>> \in V /\ p[2] \in V
      BY <1>1, <2>1
    <3> QED BY <3>1, ConcatProperties
  <2>2. <<>> \in V
    BY EmptySeq
  <2> QED BY <2>1, <2>2
<1>5. Ends(S, Whole, next)
  <2>1. ASSUME NEW T \in SUBSET S, T # {}
        PROVE  \E w \in T : w \in Whole \/ next[w] \notin T
    <3>1. PICK w \in T : w \in Whole \/ Rest(w) \notin T
      BY <2>1, CuttingEnds
    <3> QED BY <3>1
  <2> QED BY <2>1 DEF Ends
<1>6. PICK g \in [S -> V] : Solves(g, S, Whole, next, base, step)
  BY <1>2, <1>3, <1>4, <1>5, RecursionExists
<1> DEFINE Cut(f, w) ==
              LET k == WordsThatFit(w) IN
              IF w = <<>> THEN <<>>
              ELSE IF TextLength(w) <= MAX_CHUNK_CHARS THEN <<w>>
              ELSE IF k > 0
              THEN <<SubSeq(w, 1, k)>> \o f[SubSeq(w, k + 1, Len(w))]
              ELSE <<<<MAX_CHUNK_CHARS>>>> \o f[LeftOf(Head(w), Tail(w))]
           Is(f) == f = [w \in S |-> Cut(f, w)]
<1>7. ASSUME NEW f, NEW w \in S
      PROVE  /\ w \in Whole => Cut(f, w) = IF w = <<>> THEN <<>> ELSE <<w>>
             /\ w \notin Whole => Cut(f, w) = <<First(w)>> \o f[Rest(w)]
  <2>1. w \in Whole <=> w = <<>> \/ TextLength(w) <= MAX_CHUNK_CHARS
    BY DEF Whole
  <2>2. CASE w \in Whole
    BY <2>1, <2>2
  <2>3. CASE w \notin Whole /\ WordsThatFit(w) > 0
    BY <2>1, <2>3 DEF First, Rest
  <2>4. CASE w \notin Whole /\ ~(WordsThatFit(w) > 0)
    BY <2>1, <2>4 DEF First, Rest
  <2> QED BY <2>2, <2>3, <2>4
<1> HIDE DEF Cut
<1>8. Is(g)
  <2>1. ASSUME NEW w \in S
        PROVE  g[w] = Cut(g, w)
    <3>1. g[w] = IF w \in Whole THEN base[w] ELSE step[<<w, g[next[w]]>>]
      BY <1>6 DEF Solves
    <3>2. CASE w \in Whole
      BY <1>7, <3>1, <3>2
    <3>3. CASE w \notin Whole
      <4>1. next[w] = Rest(w) /\ Rest(w) \in S /\ g[Rest(w)] \in V
        BY <1>1, <1>6, <3>3
      <4>2. step[<<w, g[Rest(w)]>>] = <<First(w)>> \o g[Rest(w)]
        BY <3>3, <4>1
      <4> QED BY <1>7, <3>1, <3>3, <4>1, <4>2
    <3> QED BY <3>2, <3>3
  <2> QED BY <1>6, <2>1
<1>9. Is(CHOOSE f : Is(f))
  <2> HIDE DEF Is
  <2> QED BY <1>8
<1>10. Is(Pieces)
  BY <1>9 DEF Pieces, Cut
<1>11. \A w \in S : Pieces[w] = Cut(Pieces, w)
  BY <1>10
<1>12. ASSUME NEW w \in S
       PROVE  /\ w \in Whole => Pieces[w] = base[w]
              /\ w \notin Whole => Pieces[w] = <<First(w)>> \o Pieces[Rest(w)]
  BY <1>7, <1>11
<1> DEFINE T == {w \in S : Pieces[w] \notin V}
<1>13. T = {}
  <2>1. SUFFICES ASSUME T # {} PROVE FALSE
    OBVIOUS
  <2>2. PICK w \in T : w \in Whole \/ Rest(w) \notin T
    <3>1. T \in SUBSET Seq(Nat)
      OBVIOUS
    <3> QED BY <2>1, <3>1, CuttingEnds
  <2>3. w \notin Whole
    BY <1>3, <1>12
  <2>4. <<First(w)>> \in V /\ Pieces[Rest(w)] \in V
    BY <1>1, <2>2, <2>3
  <2>5. <<First(w)>> \o Pieces[Rest(w)] \in V
    BY <2>4, ConcatProperties
  <2> QED BY <1>12, <2>3, <2>5
<1> QED BY <1>7, <1>11, <1>13

LEMMA PiecesType == ASSUME NEW words \in Seq(Nat) PROVE Pieces[words] \in Seq(Seq(Nat))
<1>1. Fitting \subseteq Seq(Nat)
  BY DEF Fitting
<1> QED BY <1>1, PiecesAreDefined, SeqMonotonic

\* The pieces of a paragraph have its letters, and, of short words, are the paragraph.
LEMMA PiecesHoldTheWords ==
    ASSUME NEW words \in Seq(Nat)
    PROVE  /\ Letters(FlattenSeq(Pieces[words])) = Letters(words)
           /\ Short(words) => FlattenSeq(Pieces[words]) = words
<1> DEFINE Held(w) == /\ Letters(FlattenSeq(Pieces[w])) = Letters(w)
                      /\ Short(w) => FlattenSeq(Pieces[w]) = w
           T == {w \in Seq(Nat) : ~Held(w)}
<1>1. SUFFICES ASSUME T # {} PROVE FALSE
  OBVIOUS
<1>2. PICK w \in T : w \in Whole \/ Rest(w) \notin T
  <2>1. T \in SUBSET Seq(Nat)
    OBVIOUS
  <2> QED BY <1>1, <2>1, CuttingEnds
<1>3. CASE w \in Whole
  <2>1. FlattenSeq(Pieces[w]) = w
    BY <1>3, PiecesAreDefined, FlattenEmpty, FlattenOne
  <2> QED BY <2>1
<1>4. CASE w \notin Whole
  <2>1. /\ First(w) \in Seq(Nat) /\ Rest(w) \in Seq(Nat)
        /\ Letters(First(w)) + Letters(Rest(w)) = Letters(w)
        /\ Short(w) => Short(Rest(w)) /\ First(w) \o Rest(w) = w
    BY <1>4, CutTakesSome DEF Fitting
  <2>2. Held(Rest(w))
    BY <1>2, <1>4, <2>1
  <2>3. FlattenSeq(Pieces[w]) = First(w) \o FlattenSeq(Pieces[Rest(w)])
    <3>1. Pieces[w] = <<First(w)>> \o Pieces[Rest(w)]
      BY <1>4, PiecesAreDefined
    <3>2. <<First(w)>> \in Seq(Seq(Nat)) /\ Pieces[Rest(w)] \in Seq(Seq(Nat))
      BY <2>1, PiecesType
    <3>3. FlattenSeq(<<First(w)>> \o Pieces[Rest(w)]) =
             FlattenSeq(<<First(w)>>) \o FlattenSeq(Pieces[Rest(w)])
      BY <3>2, FlattenConcat
    <3> QED BY <2>1, <3>1, <3>3, FlattenOne
  <2>4. Letters(FlattenSeq(Pieces[w])) =
           Letters(First(w)) + Letters(FlattenSeq(Pieces[Rest(w)]))
    <3>1. FlattenSeq(Pieces[Rest(w)]) \in Seq(Nat)
      BY <2>1, PiecesType, FlattenType
    <3> QED BY <2>1, <2>3, <3>1, LettersConcat
  <2>5. Letters(FlattenSeq(Pieces[w])) = Letters(w)
    BY <2>1, <2>2, <2>4
  <2>6. Short(w) => FlattenSeq(Pieces[w]) = w
    BY <2>1, <2>2, <2>3
  <2> QED BY <2>5, <2>6
<1> QED BY <1>3, <1>4

-----------------------------------------------------------------------------
(***************************************************************************)
(* A text.                                                                 *)
(***************************************************************************)
PiecesIn(body) == [i \in DOMAIN body |-> Pieces[body[i]]]

LEMMA PiecesInType ==
    ASSUME NEW body \in Seq(Seq(Nat))
    PROVE  PiecesIn(body) \in Seq(Seq(Fitting))
<1>1. /\ Len(body) \in Nat /\ DOMAIN body = 1 .. Len(body)
      /\ \A i \in 1 .. Len(body) : body[i] \in Seq(Nat)
  BY LenProperties
<1>2. \A i \in 1 .. Len(body) : Pieces[body[i]] \in Seq(Fitting)
  BY <1>1, PiecesAreDefined
<1>3. PiecesIn(body) \in [1 .. Len(body) -> Seq(Fitting)]
  BY <1>1, <1>2 DEF PiecesIn
<1>4. \A m \in Nat : \A V : [1 .. m -> V] \subseteq Seq(V)
  BY SeqDef
<1> QED BY <1>1, <1>3, <1>4

\* Whatever the text, the chunks it is cut into are no longer than they may be, and
\* none is empty.
LEMMA ChunksFit ==
    ASSUME NEW body \in Seq(Seq(Nat))
    PROVE  chunk_text(body) \in Seq(Fitting)
BY PiecesInType, FlattenType DEF chunk_text, PiecesIn

LEMMA ChunksType ==
    ASSUME NEW body \in Seq(Seq(Nat))
    PROVE  chunk_text(body) \in Seq(Seq(Nat))
<1>1. Fitting \subseteq Seq(Nat)
  BY DEF Fitting
<1> QED BY <1>1, ChunksFit, SeqMonotonic

\* A paragraph more, and its pieces come after the others.
LEMMA OneMoreParagraph ==
    ASSUME NEW body \in Seq(Seq(Nat)), NEW words \in Seq(Nat)
    PROVE  chunk_text(Append(body, words)) = chunk_text(body) \o Pieces[words]
<1> DEFINE n == Len(body)
           more == Append(body, words)
<1>1. /\ n \in Nat /\ DOMAIN body = 1 .. n
      /\ more \in Seq(Seq(Nat)) /\ DOMAIN more = 1 .. n + 1
      /\ \A i \in 1 .. n : more[i] = body[i]
      /\ more[n + 1] = words
  BY AppendProperties, LenProperties
<1>2. PiecesIn(more) = Append(PiecesIn(body), Pieces[words])
  <2>1. /\ PiecesIn(body) \in Seq(Seq(Fitting)) /\ Pieces[words] \in Seq(Fitting)
        /\ PiecesIn(more) \in Seq(Seq(Fitting))
    BY <1>1, PiecesInType, PiecesAreDefined
  <2>2. DOMAIN PiecesIn(body) = 1 .. n /\ DOMAIN PiecesIn(more) = 1 .. n + 1
    BY <1>1 DEF PiecesIn
  <2>3. Len(PiecesIn(body)) = n /\ Len(PiecesIn(more)) = n + 1
    BY <1>1, <2>1, <2>2, LenProperties
  <2>4. /\ \A i \in 1 .. n : PiecesIn(body)[i] = Pieces[body[i]]
        /\ \A i \in 1 .. n + 1 : PiecesIn(more)[i] = Pieces[more[i]]
    BY <1>1 DEF PiecesIn
  <2> DEFINE longer == Append(PiecesIn(body), Pieces[words])
  <2>5. /\ longer \in Seq(Seq(Fitting)) /\ Len(longer) = n + 1
        /\ \A i \in 1 .. n : longer[i] = PiecesIn(body)[i]
        /\ longer[n + 1] = Pieces[words]
    BY <2>1, <2>3, AppendProperties
  <2> HIDE DEF n, more, longer
  <2>6. ASSUME NEW i \in 1 .. n + 1
        PROVE  PiecesIn(more)[i] = longer[i]
    <3>1. PiecesIn(more)[i] = Pieces[more[i]]
      BY <2>4
    <3>2. CASE i = n + 1
      BY <1>1, <2>5, <3>1, <3>2
    <3>3. CASE i # n + 1
      <4>1. i \in 1 .. n
        BY <1>1, <3>3
      <4>2. more[i] = body[i] /\ longer[i] = Pieces[body[i]]
        BY <1>1, <2>4, <2>5, <4>1
      <4> QED BY <3>1, <4>2
    <3> QED BY <3>2, <3>3
  <2>7. PiecesIn(more) = longer
    BY <2>1, <2>3, <2>5, <2>6, SeqEqual
  <2> QED BY <2>7 DEF longer
<1>3. FlattenSeq(Append(PiecesIn(body), Pieces[words])) =
         FlattenSeq(PiecesIn(body)) \o Pieces[words]
  BY PiecesInType, PiecesAreDefined, FlattenAppend
<1> QED BY <1>2, <1>3 DEF chunk_text, PiecesIn

LEMMA ShortParts ==
    ASSUME NEW s \in Seq(Nat), NEW t \in Seq(Nat), Short(s \o t)
    PROVE  Short(s) /\ Short(t)
<1>1. /\ Len(s) \in Nat /\ Len(t) \in Nat /\ Len(s \o t) = Len(s) + Len(t)
      /\ \A i \in 1 .. Len(s) + Len(t) :
            (s \o t)[i] = IF i <= Len(s) THEN s[i] ELSE t[i - Len(s)]
  BY ConcatProperties, LenProperties
<1>2. ASSUME NEW i \in 1 .. Len(s)
      PROVE  s[i] <= MAX_CHUNK_CHARS
  <2>1. i \in 1 .. Len(s) + Len(t) /\ i <= Len(s)
    BY <1>1
  <2> QED BY <1>1, <2>1 DEF Short
<1>3. ASSUME NEW i \in 1 .. Len(t)
      PROVE  t[i] <= MAX_CHUNK_CHARS
  <2>1. /\ Len(s) + i \in 1 .. Len(s) + Len(t) /\ ~(Len(s) + i <= Len(s))
        /\ (Len(s) + i) - Len(s) = i
    BY <1>1
  <2>2. (s \o t)[Len(s) + i] = t[i]
    BY <1>1, <2>1
  <2> QED BY <1>1, <2>1, <2>2 DEF Short
<1> QED BY <1>2, <1>3 DEF Short

\* The chunks have the letters of the text, and, of short words, are the text.
LEMMA ChunksHoldTheWords ==
    ASSUME NEW body \in Seq(Seq(Nat))
    PROVE  /\ Letters(FlattenSeq(chunk_text(body))) = Letters(FlattenSeq(body))
           /\ Short(FlattenSeq(body)) =>
                 FlattenSeq(chunk_text(body)) = FlattenSeq(body)
<1> DEFINE Text(b) == FlattenSeq(chunk_text(b))
           Held(b) == /\ Letters(Text(b)) = Letters(FlattenSeq(b))
                      /\ Short(FlattenSeq(b)) => Text(b) = FlattenSeq(b)
           T == {b \in Seq(Seq(Nat)) : Held(b)}
<1>1. <<>> \in T
  <2>1. PiecesIn(<<>>) = <<>>
    BY DEF PiecesIn
  <2>2. chunk_text(<<>>) = <<>>
    BY <2>1, FlattenEmpty DEF chunk_text, PiecesIn
  <2> QED BY <2>2, FlattenEmpty, EmptySeq
<1>2. ASSUME NEW b \in T, NEW words \in Seq(Nat)
      PROVE  Append(b, words) \in T
  <2> DEFINE more == Append(b, words)
             last == FlattenSeq(Pieces[words])
  <2>1. b \in Seq(Seq(Nat)) /\ more \in Seq(Seq(Nat)) /\ Held(b)
    BY AppendProperties
  <2>2. /\ FlattenSeq(b) \in Seq(Nat) /\ Text(b) \in Seq(Nat) /\ last \in Seq(Nat)
    BY <2>1, PiecesType, ChunksType, FlattenType
  <2>3. FlattenSeq(more) = FlattenSeq(b) \o words
    BY <2>1, FlattenAppend
  <2>4. Text(more) = Text(b) \o last
    <3>1. chunk_text(more) = chunk_text(b) \o Pieces[words]
      BY <2>1, OneMoreParagraph
    <3>2. FlattenSeq(chunk_text(b) \o Pieces[words]) = Text(b) \o last
      BY <2>1, ChunksType, PiecesType, FlattenConcat
    <3> QED BY <3>1, <3>2
  <2>5. Letters(last) = Letters(words) /\ (Short(words) => last = words)
    BY PiecesHoldTheWords
  <2>6. Letters(Text(more)) = Letters(FlattenSeq(more))
    <3>1. Letters(Text(b) \o last) = Letters(Text(b)) + Letters(last)
      BY <2>2, LettersConcat
    <3>2. Letters(FlattenSeq(b) \o words) = Letters(FlattenSeq(b)) + Letters(words)
      BY <2>2, LettersConcat
    <3> QED BY <2>1, <2>3, <2>4, <2>5, <3>1, <3>2
  <2>7. ASSUME Short(FlattenSeq(more))
        PROVE  Text(more) = FlattenSeq(more)
    <3>1. Short(FlattenSeq(b)) /\ Short(words)
      BY <2>2, <2>3, <2>7, ShortParts
    <3> QED BY <2>1, <2>3, <2>4, <2>5, <3>1
  <2> HIDE DEF Text
  <2> QED BY <2>1, <2>6, <2>7
<1>3. T = Seq(Seq(Nat))
  BY <1>1, <1>2, SequencesByAppend
<1> QED BY <1>3

(***************************************************************************)
(* Every text is cut cleanly, whatever its paragraphs and words: no chunk  *)
(* is empty or longer than a chunk may be, no letter is lost or made up,   *)
(* and where no word is longer than a chunk the words are those of the     *)
(* text, in their order (chunk_text).                                      *)
(***************************************************************************)
THEOREM EveryTextIsCutCleanly == \A body \in Seq(Seq(Nat)) : CutsCleanly(body)
<1> SUFFICES ASSUME NEW body \in Seq(Seq(Nat)) PROVE CutsCleanly(body)
  OBVIOUS
<1> DEFINE pieces == chunk_text(body)
           words == FlattenSeq(body)
<1>1. pieces \in Seq(Fitting) /\ words \in Seq(Nat)
  BY ChunksFit, FlattenType
<1>2. \A i \in DOMAIN pieces : pieces[i] # <<>> /\ TextLength(pieces[i]) <= MAX_CHUNK_CHARS
  <2>1. \A i \in DOMAIN pieces : pieces[i] \in Fitting
    BY <1>1, LenProperties
  <2> QED BY <2>1 DEF Fitting
<1>3. Letters(FlattenSeq(pieces)) = Letters(words)
  BY ChunksHoldTheWords
<1>4. (\A j \in DOMAIN words : words[j] <= MAX_CHUNK_CHARS) => FlattenSeq(pieces) = words
  <2>1. DOMAIN words = 1 .. Len(words)
    BY <1>1, LenProperties
  <2> QED BY <2>1, ChunksHoldTheWords DEF Short
<1> QED BY <1>2, <1>3, <1>4 DEF CutsCleanly

=============================================================================
