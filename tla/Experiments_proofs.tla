------------------------- MODULE Experiments_proofs -------------------------
(***************************************************************************)
(* What the meta-layer compares and is judged by, and what the rules of    *)
(* selection choose, for every number of folds, revisions, scripts and     *)
(* fixtures, and for every table of losses.                                *)
(*                                                                         *)
(* The invariant is that a file of predictions, wherever it is, in place,  *)
(* about to be written or read by a calibration, holds the out-of-fold     *)
(* rows of some revision for each fold, whatever was stopped and in what   *)
(* order it was written; a calibration has read two of them that passed    *)
(* the checks of load_meta_predictions; and a decision is what its rule    *)
(* says of the losses it was given.                                        *)
(*                                                                         *)
(* The rules compare sums of losses and choose the least key.  What they   *)
(* choose is known only where sums are numbers and a least key exists,     *)
(* which is what the first section shows, by induction on finite sets.     *)
(***************************************************************************)
EXTENDS Experiments, FiniteSetTheorems, NaturalsInduction, WellFoundedInduction, TLAPS

IsPredictions(file) == \E revisionOf \in [Folds -> Revisions] : file = OutOfFold(revisionOf)

Reports == Families \cup {"calibration"}

DataOK ==
    /\ matches \in Revisions /\ artifacts \in [Folds -> Revisions]
    /\ revised \in 0 .. MaxRevised /\ scripts \in 0 .. MaxScripts

FilesOK ==
    /\ DOMAIN predictions = Families /\ DOMAIN summary = Reports
    /\ \A k \in Families : predictions[k] \in {None, Damaged} \/ IsPredictions(predictions[k])
    /\ \A report \in Reports : summary[report] \in {None, Damaged, Complete}

ScriptOK ==
    script # None =>
        /\ script.report \in Reports
        /\ script.left \in {<<"summary", "predictions">>, <<"predictions">>}
        /\ script.report # "calibration" => IsPredictions(script.file)

DecisionOK ==
    decision # None /\ decision.kind = "calibration" =>
        /\ Loadable(decision.outcome) /\ Loadable(decision.scoreline)
        /\ IsPredictions(decision.outcome) /\ IsPredictions(decision.scoreline)
        /\ MergesOneToOne(decision.outcome, decision.scoreline)
        /\ MetaFoldsInOrder

\* A decision is what the rules of selection say of its losses.
ChoiceOK ==
    decision # None =>
        /\ decision.kind \in Families =>
              /\ decision.pool \in Pools[decision.kind]
              /\ decision.chosen = Selected(decision.kind, decision.pool)
        /\ decision.kind = "calibration" =>
              /\ decision.table \in Tables
              /\ decision.selected = SelectedCandidate(decision.table)

IInv == DataOK /\ FilesOK /\ ScriptOK /\ DecisionOK /\ ChoiceOK

-----------------------------------------------------------------------------
(* Sums over finite sets, and least elements of them.                      *)

\* A set of naturals with 0 that is closed under successor has all of them.
LEMMA AllNaturals ==
    ASSUME NEW N \in SUBSET Nat, 0 \in N, \A n \in N : n + 1 \in N
    PROVE  N = Nat
  <1> DEFINE T == Nat \ N
  <1> SUFFICES ASSUME T # {} PROVE FALSE
    OBVIOUS
  <1>1. PICK n \in T : \A m \in T : ~(<<m, n>> \in OpToRel(<, Nat))
    <2>1. T \subseteq Nat
      OBVIOUS
    <2> HIDE DEF T
    <2> QED
      BY <2>1, WFMin, NatLessThanWellFounded
  <1>2. n # 0 /\ n - 1 \in Nat /\ n - 1 < n
    OBVIOUS
  <1>3. <<n - 1, n>> \in OpToRel(<, Nat)
    BY <1>2 DEF OpToRel
  <1>4. n - 1 \in N
    BY <1>1, <1>2, <1>3
  <1>5. QED
    BY <1>4, <1>2


Pick(s) == CHOOSE x \in s : TRUE

\* g is the recursive function by which the sums of F over D are defined.
SumsOver(F, D, g) ==
    g = [s \in D |-> IF s = {} THEN 0 ELSE F[Pick(s)] + g[s \ {Pick(s)}]]

UpTo(S, n) == {s \in SUBSET S : Cardinality(s) <= n}

LEMMA PickLemma ==
    ASSUME NEW s, s # {}, IsFiniteSet(s)
    PROVE  /\ Pick(s) \in s /\ IsFiniteSet(s \ {Pick(s)})
           /\ Cardinality(s) \in Nat \ {0}
           /\ Cardinality(s \ {Pick(s)}) = Cardinality(s) - 1
  <1>1. Pick(s) \in s
    BY DEF Pick
  <1>2. QED
    BY <1>1, FS_RemoveElement, FS_EmptySet, FS_CardinalityType

LEMMA SumsExist ==
    ASSUME NEW S, IsFiniteSet(S), NEW F
    PROVE  \E g : SumsOver(F, SUBSET S, g)
  <1> DEFINE N == {n \in Nat : \E g : SumsOver(F, UpTo(S, n), g)}
  <1>1. 0 \in N
    <2>1. \A s \in UpTo(S, 0) : s = {}
      BY FS_Subset, FS_EmptySet, FS_CardinalityType DEF UpTo
    <2>2. SumsOver(F, UpTo(S, 0), [s \in UpTo(S, 0) |-> 0])
      BY <2>1, Zenon DEF SumsOver
    <2>3. QED
      BY <2>2
  <1>2. ASSUME NEW n \in N PROVE n + 1 \in N
    <2>1. PICK g : SumsOver(F, UpTo(S, n), g)
      OBVIOUS
    <2> DEFINE h == [s \in UpTo(S, n + 1) |->
                        IF s = {} THEN 0 ELSE F[Pick(s)] + g[s \ {Pick(s)}]]
    <2>2. ASSUME NEW s \in UpTo(S, n + 1), s # {}
          PROVE  s \ {Pick(s)} \in UpTo(S, n) /\ s \ {Pick(s)} \in UpTo(S, n + 1)
      <3>1. s \subseteq S /\ IsFiniteSet(s) /\ Cardinality(s) <= n + 1
        BY FS_Subset DEF UpTo
      <3> DEFINE rest == s \ {Pick(s)}
      <3>2. n \in Nat
        OBVIOUS
      <3> HIDE DEF N, h
      <3>3. Cardinality(rest) = Cardinality(s) - 1 /\ Cardinality(s) \in Nat
        BY <2>2, <3>1, PickLemma
      <3>4. rest \subseteq S /\ Cardinality(rest) <= n /\ Cardinality(rest) <= n + 1
        BY <3>1, <3>2, <3>3
      <3>5. QED
        BY <3>4 DEF UpTo
    <2>3. ASSUME NEW s \in UpTo(S, n) PROVE h[s] = g[s]
      <3>1. s \in UpTo(S, n + 1)
        BY FS_Subset, FS_CardinalityType DEF UpTo
      <3>2. QED
        BY <2>1, <3>1 DEF SumsOver
    <2>4. SumsOver(F, UpTo(S, n + 1), h)
      <3>1. \A s \in UpTo(S, n + 1) : s # {} => h[s \ {Pick(s)}] = g[s \ {Pick(s)}]
        BY <2>2, <2>3
      <3> HIDE DEF h
      <3>2. h = [s \in UpTo(S, n + 1) |->
                    IF s = {} THEN 0 ELSE F[Pick(s)] + g[s \ {Pick(s)}]]
        BY DEF h
      <3>3. QED
        BY <3>1, <3>2 DEF SumsOver
    <2>5. QED
      BY <2>4
  <1>3. Cardinality(S) \in N
    <2>1. N \subseteq Nat
      OBVIOUS
    <2> HIDE DEF N
    <2>2. N = Nat
      BY <1>1, <1>2, <2>1, AllNaturals
    <2>3. QED
      BY <2>2, FS_CardinalityType
  <1>4. UpTo(S, Cardinality(S)) = SUBSET S
    BY FS_Subset DEF UpTo
  <1>5. QED
    BY <1>3, <1>4

LEMMA SumsUnique ==
    ASSUME NEW S, IsFiniteSet(S), NEW T \in SUBSET S, NEW F, NEW g, NEW h,
           SumsOver(F, SUBSET S, g), SumsOver(F, SUBSET T, h)
    PROVE  h[T] = g[T]
  <1> DEFINE N == {n \in Nat : \A s \in SUBSET T : Cardinality(s) = n => h[s] = g[s]}
  <1>0. \A s \in SUBSET T : IsFiniteSet(s) /\ Cardinality(s) \in Nat
    BY FS_Subset, FS_CardinalityType
  <1>e. \A s \in SUBSET T :
          /\ s = {} => g[s] = 0 /\ h[s] = 0
          /\ s # {} => /\ g[s] = F[Pick(s)] + g[s \ {Pick(s)}]
                       /\ h[s] = F[Pick(s)] + h[s \ {Pick(s)}]
    BY DEF SumsOver
  <1>1. 0 \in N
    BY <1>0, <1>e, FS_EmptySet
  <1>2. ASSUME NEW n \in N PROVE n + 1 \in N
    <2> SUFFICES ASSUME NEW s \in SUBSET T, Cardinality(s) = n + 1 PROVE h[s] = g[s]
      OBVIOUS
    <2>0. n \in Nat
      OBVIOUS
    <2>1. s # {}
      <3>1. n + 1 # 0
        BY <2>0
      <3> HIDE DEF N
      <3>2. QED
        BY <3>1, FS_EmptySet
    <2>2. s \ {Pick(s)} \in SUBSET T /\ Cardinality(s \ {Pick(s)}) = n
      BY <1>0, <2>1, PickLemma
    <2>3. h[s \ {Pick(s)}] = g[s \ {Pick(s)}]
      BY <2>2
    <2>4. QED
      BY <1>e, <2>1, <2>3
  <1>3. QED
    <2>1. N \subseteq Nat
      OBVIOUS
    <2>2. N = Nat
      <3> HIDE DEF N
      <3> QED
        BY <1>1, <1>2, <2>1, AllNaturals
    <2>3. QED
      BY <1>0, <2>2

LEMMA SumIs ==
    ASSUME NEW S, IsFiniteSet(S), NEW F
    PROVE  \E g : SumsOver(F, SUBSET S, g) /\ SumFunctionOnSet(F, S) = g[S]
  <1> DEFINE iter[s \in SUBSET S] ==
                IF s = {} THEN 0 ELSE F[Pick(s)] + iter[s \ {Pick(s)}]
  <1>1. SumFunctionOnSet(F, S) = iter[S]
    BY DEF SumFunctionOnSet, FoldFunctionOnSet, MapThenFoldSet, Pick
  <1>2. iter = CHOOSE g : SumsOver(F, SUBSET S, g)
    BY DEF SumsOver
  <1> HIDE DEF iter
  <1>3. SumsOver(F, SUBSET S, iter)
    BY <1>2, SumsExist, Zenon
  <1>4. QED
    BY <1>1, <1>3

LEMMA SumEmpty == \A F : SumFunctionOnSet(F, {}) = 0
  BY SumIs, FS_EmptySet DEF SumsOver

LEMMA SumPick ==
    ASSUME NEW S, IsFiniteSet(S), S # {}, NEW F
    PROVE  SumFunctionOnSet(F, S) = F[Pick(S)] + SumFunctionOnSet(F, S \ {Pick(S)})
  <1>1. PICK g : SumsOver(F, SUBSET S, g) /\ SumFunctionOnSet(F, S) = g[S]
    BY SumIs
  <1> DEFINE T == S \ {Pick(S)}
  <1>2. T \in SUBSET S /\ IsFiniteSet(T)
    BY PickLemma
  <1>3. PICK h : SumsOver(F, SUBSET T, h) /\ SumFunctionOnSet(F, T) = h[T]
    BY <1>2, SumIs
  <1>4. h[T] = g[T]
    <2> HIDE DEF T
    <2> QED
      BY <1>1, <1>2, <1>3, SumsUnique
  <1>5. g[S] = F[Pick(S)] + g[T]
    BY <1>1 DEF SumsOver
  <1>6. QED
    BY <1>1, <1>3, <1>4, <1>5

\* The sum of integers is one.
LEMMA SumType ==
    ASSUME NEW S, IsFiniteSet(S), NEW F, \A x \in S : F[x] \in Int
    PROVE  \A T \in SUBSET S : SumFunctionOnSet(F, T) \in Int
  <1> DEFINE N == {n \in Nat : \A T \in SUBSET S : Cardinality(T) = n => SumFunctionOnSet(F, T) \in Int}
  <1>0. \A s \in SUBSET S : IsFiniteSet(s) /\ Cardinality(s) \in Nat
    BY FS_Subset, FS_CardinalityType
  <1>1. 0 \in N
    BY <1>0, SumEmpty, FS_EmptySet
  <1>2. ASSUME NEW n \in N PROVE n + 1 \in N
    <2> SUFFICES ASSUME NEW T \in SUBSET S, Cardinality(T) = n + 1
                 PROVE  SumFunctionOnSet(F, T) \in Int
      OBVIOUS
    <2>1. T # {}
      BY FS_EmptySet
    <2>2. /\ T \ {Pick(T)} \in SUBSET S /\ Cardinality(T \ {Pick(T)}) = n
          /\ Pick(T) \in S
      BY <1>0, <2>1, PickLemma
    <2>3. SumFunctionOnSet(F, T \ {Pick(T)}) \in Int
      BY <2>2
    <2>4. SumFunctionOnSet(F, T) = F[Pick(T)] + SumFunctionOnSet(F, T \ {Pick(T)})
      BY <1>0, <2>1, SumPick
    <2>5. QED
      BY <2>2, <2>3, <2>4
  <1>3. N = Nat
    <2>1. N \subseteq Nat
      OBVIOUS
    <2> HIDE DEF N
    <2> QED
      BY <1>1, <1>2, <2>1, AllNaturals
  <1>4. QED
    BY <1>0, <1>3

\* A sum may be taken in any order.
LEMMA SumRemove ==
    ASSUME NEW S, IsFiniteSet(S), NEW F, \A x \in S : F[x] \in Int
    PROVE  \A T \in SUBSET S : \A x \in T :
              SumFunctionOnSet(F, T) = F[x] + SumFunctionOnSet(F, T \ {x})
  <1> DEFINE Removes(T) == \A x \in T :
                SumFunctionOnSet(F, T) = F[x] + SumFunctionOnSet(F, T \ {x})
             N == {n \in Nat : \A T \in SUBSET S : Cardinality(T) = n => Removes(T)}
  <1>0. \A s \in SUBSET S : IsFiniteSet(s) /\ Cardinality(s) \in Nat
    BY FS_Subset, FS_CardinalityType
  <1>1. 0 \in N
    BY <1>0, FS_EmptySet
  <1>2. ASSUME NEW n \in N PROVE n + 1 \in N
    <2> SUFFICES ASSUME NEW T \in SUBSET S, Cardinality(T) = n + 1, NEW x \in T
                 PROVE  SumFunctionOnSet(F, T) = F[x] + SumFunctionOnSet(F, T \ {x})
      OBVIOUS
    <2> DEFINE p == Pick(T)
               rest == (T \ {p}) \ {x}
    <2>1. T # {} /\ IsFiniteSet(T)
      BY <1>0
    <2>2. SumFunctionOnSet(F, T) = F[p] + SumFunctionOnSet(F, T \ {p})
      BY <2>1, SumPick
    <2>3. p \in T /\ p \in S
      BY <2>1, PickLemma
    <2>4. CASE x = p
      BY <2>2, <2>4
    <2>5. CASE x # p
      <3>1. Cardinality(T \ {p}) = n /\ Cardinality(T \ {x}) = n
        <4>1. n \in Nat
          OBVIOUS
        <4> HIDE DEF N
        <4>2. Cardinality(T \ {p}) = Cardinality(T) - 1 /\ Cardinality(T \ {x}) = Cardinality(T) - 1
          BY <2>1, <2>3, FS_RemoveElement
        <4>3. QED
          BY <4>1, <4>2
      <3>2. SumFunctionOnSet(F, T \ {p}) = F[x] + SumFunctionOnSet(F, rest)
        BY <2>5, <3>1
      <3>3. (T \ {x}) \ {p} = rest
        OBVIOUS
      <3>4. SumFunctionOnSet(F, T \ {x}) = F[p] + SumFunctionOnSet(F, rest)
        <4>1. p \in T \ {x}
          BY <2>3, <2>5
        <4>2. SumFunctionOnSet(F, T \ {x}) = F[p] + SumFunctionOnSet(F, (T \ {x}) \ {p})
          BY <3>1, <4>1
        <4>3. QED
          BY <4>2, <3>3
      <3>5. F[p] \in Int /\ F[x] \in Int /\ SumFunctionOnSet(F, rest) \in Int
        BY <2>3, SumType
      <3> HIDE DEF p, rest
      <3>6. QED
        BY <2>2, <3>2, <3>4, <3>5
    <2>6. QED
      BY <2>4, <2>5
  <1>3. N = Nat
    <2>1. N \subseteq Nat
      OBVIOUS
    <2> HIDE DEF N
    <2> QED
      BY <1>1, <1>2, <2>1, AllNaturals
  <1>4. QED
    BY <1>0, <1>3

\* A family of subsets that has {} and is closed under adding an element has
\* every finite set.
LEMMA SubsetInduction ==
    ASSUME NEW S, IsFiniteSet(S), NEW P \in SUBSET (SUBSET S), {} \in P,
           \A T \in P : \A x \in S \ T : T \cup {x} \in P
    PROVE  S \in P
  <1> DEFINE N == {n \in Nat : \A T \in SUBSET S : Cardinality(T) = n => T \in P}
  <1>0. \A T \in SUBSET S : IsFiniteSet(T) /\ Cardinality(T) \in Nat
    BY FS_Subset, FS_CardinalityType
  <1>1. 0 \in N
    BY <1>0, FS_EmptySet
  <1>2. ASSUME NEW n \in N PROVE n + 1 \in N
    <2>1. n \in Nat /\ \A T \in SUBSET S : Cardinality(T) = n => T \in P
      OBVIOUS
    <2>2. ASSUME NEW T \in SUBSET S, Cardinality(T) = n + 1
          PROVE  T \in P
      <3> HIDE DEF N
      <3>1. T # {}
        BY <2>1, <2>2, FS_EmptySet
      <3>2. PICK x \in T : TRUE
        BY <3>1
      <3>3. Cardinality(T \ {x}) = n
        <4>1. Cardinality(T \ {x}) = Cardinality(T) - 1
          BY <1>0, <3>2, FS_RemoveElement
        <4>2. QED
          BY <2>1, <2>2, <4>1
      <3>4. T \ {x} \in P
        BY <2>1, <3>3
      <3>5. T = (T \ {x}) \cup {x} /\ x \in S \ (T \ {x})
        BY <3>2
      <3>6. QED
        BY <3>4, <3>5
    <2>3. QED
      BY <2>1, <2>2
  <1>3. N = Nat
    <2>1. N \subseteq Nat
      OBVIOUS
    <2> HIDE DEF N
    <2> QED
      BY <1>1, <1>2, <2>1, AllNaturals
  <1>4. QED
    BY <1>0, <1>3

LEMMA SumAdd ==
    ASSUME NEW S, IsFiniteSet(S), NEW F, \A y \in S : F[y] \in Int,
           NEW T \in SUBSET S, NEW x \in S \ T
    PROVE  SumFunctionOnSet(F, T \cup {x}) = SumFunctionOnSet(F, T) + F[x]
  <1>1. (T \cup {x}) \ {x} = T /\ x \in T \cup {x} /\ T \cup {x} \in SUBSET S
    OBVIOUS
  <1>2. SumFunctionOnSet(F, T \cup {x}) = F[x] + SumFunctionOnSet(F, T)
    BY <1>1, SumRemove
  <1>3. F[x] \in Int /\ SumFunctionOnSet(F, T) \in Int
    BY SumType
  <1>4. QED
    BY <1>2, <1>3

\* What is less everywhere is less in sum.
LEMMA SumLess ==
    ASSUME NEW S, IsFiniteSet(S), S # {}, NEW F, NEW G,
           \A x \in S : F[x] \in Int /\ G[x] \in Int /\ F[x] < G[x]
    PROVE  SumFunctionOnSet(F, S) < SumFunctionOnSet(G, S)
  <1> DEFINE P == {T \in SUBSET S :
                      T # {} => SumFunctionOnSet(F, T) < SumFunctionOnSet(G, T)}
  <1>1. {} \in P
    OBVIOUS
  <1>2. ASSUME NEW T \in P, NEW x \in S \ T PROVE T \cup {x} \in P
    <2>1. /\ SumFunctionOnSet(F, T \cup {x}) = SumFunctionOnSet(F, T) + F[x]
          /\ SumFunctionOnSet(G, T \cup {x}) = SumFunctionOnSet(G, T) + G[x]
      BY SumAdd
    <2>2. SumFunctionOnSet(F, T) \in Int /\ SumFunctionOnSet(G, T) \in Int
      BY SumType
    <2>3. T = {} => SumFunctionOnSet(F, T) = 0 /\ SumFunctionOnSet(G, T) = 0
      BY SumEmpty
    <2>4. SumFunctionOnSet(F, T \cup {x}) < SumFunctionOnSet(G, T \cup {x})
      BY <2>1, <2>2, <2>3
    <2>5. QED
      BY <2>4
  <1>3. P \in SUBSET (SUBSET S)
    OBVIOUS
  <1> HIDE DEF P
  <1>4. S \in P
    BY <1>1, <1>2, <1>3, SubsetInduction
  <1>5. QED
    BY <1>4 DEF P

\* Equal terms have equal sums.
LEMMA SumSame ==
    ASSUME NEW S, IsFiniteSet(S), NEW F, NEW G,
           \A x \in S : F[x] \in Int /\ F[x] = G[x]
    PROVE  SumFunctionOnSet(F, S) = SumFunctionOnSet(G, S)
  <1> DEFINE P == {T \in SUBSET S : SumFunctionOnSet(F, T) = SumFunctionOnSet(G, T)}
  <1>1. {} \in P
    BY SumEmpty
  <1>2. ASSUME NEW T \in P, NEW x \in S \ T PROVE T \cup {x} \in P
    <2>1. /\ SumFunctionOnSet(F, T \cup {x}) = SumFunctionOnSet(F, T) + F[x]
          /\ SumFunctionOnSet(G, T \cup {x}) = SumFunctionOnSet(G, T) + G[x]
      BY SumAdd
    <2>2. QED
      BY <2>1
  <1>3. P \in SUBSET (SUBSET S)
    OBVIOUS
  <1> HIDE DEF P
  <1>4. S \in P
    BY <1>1, <1>2, <1>3, SubsetInduction
  <1>5. QED
    BY <1>4 DEF P

\* D has the differences of the integers in the tables A and B.
Differences(D, A, B, S, R) ==
    \A s \in S : \A r \in R :
        A[s][r] \in Int /\ B[s][r] \in Int /\ D[<<s, r>>] = A[s][r] - B[s][r]

\* The sum over a table of differences is the difference of the sums.
LEMMA SumOfDifferences ==
    ASSUME NEW S, NEW R, IsFiniteSet(S), IsFiniteSet(R), NEW A, NEW B, NEW D,
           Differences(D, A, B, S, R)
    PROVE  SumFunctionOnSet(D, S \X R)
             = SumFunctionOnSet([s \in S |-> SumFunctionOnSet(A[s], R)], S)
               - SumFunctionOnSet([s \in S |-> SumFunctionOnSet(B[s], R)], S)
  <1> DEFINE All == S \X R
             X == [s \in S |-> SumFunctionOnSet(A[s], R)]
             Y == [s \in S |-> SumFunctionOnSet(B[s], R)]
             Row(T, s, Q) == (T \X R) \cup ({s} \X Q)
             P == {T \in SUBSET S : SumFunctionOnSet(D, T \X R)
                       = SumFunctionOnSet(X, T) - SumFunctionOnSet(Y, T)}
  <1>0. \A s \in S : \A r \in R :
           A[s][r] \in Int /\ B[s][r] \in Int /\ D[<<s, r>>] = A[s][r] - B[s][r]
    BY DEF Differences
  <1>1. IsFiniteSet(All)
    BY FS_Product
  <1>2. \A row \in All : D[row] \in Int
    <2>1. ASSUME NEW s \in S, NEW r \in R PROVE D[<<s, r>>] \in Int
      BY <1>0
    <2>2. QED
      BY <2>1
  <1>3. \A s \in S : X[s] \in Int /\ Y[s] \in Int
    BY <1>0, SumType
  <1>4. {} \in P
    <2>1. {} \X R = {}
      OBVIOUS
    <2> HIDE DEF X, Y
    <2>2. SumFunctionOnSet(D, {} \X R) = SumFunctionOnSet(X, {}) - SumFunctionOnSet(Y, {})
      BY <2>1, SumEmpty
    <2>3. QED
      BY <2>2
  <1>5. ASSUME NEW T \in P, NEW s \in S \ T PROVE T \cup {s} \in P
    <2> DEFINE Q == {q \in SUBSET R : SumFunctionOnSet(D, Row(T, s, q))
                        = SumFunctionOnSet(D, T \X R) + SumFunctionOnSet(A[s], q)
                          - SumFunctionOnSet(B[s], q)}
    <2>0. SumFunctionOnSet(D, T \X R) \in Int
      <3>1. T \X R \in SUBSET All
        OBVIOUS
      <3> HIDE DEF All
      <3>2. QED
        BY <1>1, <1>2, <3>1, SumType
    <2>1. {} \in Q
      <3>1. Row(T, s, {}) = T \X R
        OBVIOUS
      <3> HIDE DEF Row
      <3>2. SumFunctionOnSet(D, Row(T, s, {}))
              = SumFunctionOnSet(D, T \X R) + SumFunctionOnSet(A[s], {})
                - SumFunctionOnSet(B[s], {})
        <4>1. SumFunctionOnSet(A[s], {}) = 0 /\ SumFunctionOnSet(B[s], {}) = 0
          BY SumEmpty
        <4>2. PICK n \in Int : n = SumFunctionOnSet(D, T \X R)
          BY <2>0
        <4>3. SumFunctionOnSet(D, Row(T, s, {})) = n
          BY <3>1, <4>2, Zenon
        <4>4. n = n + 0 - 0
          BY <4>2
        <4>5. QED
          BY <4>1, <4>2, <4>3, <4>4, Zenon
      <3>3. QED
        BY <3>2
    <2>2. ASSUME NEW q \in Q, NEW r \in R \ q PROVE q \cup {r} \in Q
      <3> DEFINE old == Row(T, s, q)
      <3>1. /\ Row(T, s, q \cup {r}) = old \cup {<<s, r>>}
            /\ old \in SUBSET All /\ <<s, r>> \in All \ old
        OBVIOUS
      <3>2. SumFunctionOnSet(D, old)
              = SumFunctionOnSet(D, T \X R) + SumFunctionOnSet(A[s], q)
                - SumFunctionOnSet(B[s], q)
        OBVIOUS
      <3>3. q \in SUBSET R /\ D[<<s, r>>] = A[s][r] - B[s][r]
            /\ A[s][r] \in Int /\ B[s][r] \in Int
        BY <1>0
      <3>4. /\ SumFunctionOnSet(A[s], q \cup {r}) = SumFunctionOnSet(A[s], q) + A[s][r]
            /\ SumFunctionOnSet(B[s], q \cup {r}) = SumFunctionOnSet(B[s], q) + B[s][r]
            /\ SumFunctionOnSet(A[s], q) \in Int /\ SumFunctionOnSet(B[s], q) \in Int
        <4>1. /\ \A y \in R : A[s][y] \in Int /\ B[s][y] \in Int
              /\ q \in SUBSET R /\ r \in R \ q
          BY <1>0
        <4> HIDE DEF Row, All, P, Q, X, Y
        <4>2. SumFunctionOnSet(A[s], q \cup {r}) = SumFunctionOnSet(A[s], q) + A[s][r]
          BY <4>1, SumAdd
        <4>3. SumFunctionOnSet(B[s], q \cup {r}) = SumFunctionOnSet(B[s], q) + B[s][r]
          BY <4>1, SumAdd
        <4>4. SumFunctionOnSet(A[s], q) \in Int /\ SumFunctionOnSet(B[s], q) \in Int
          BY <4>1, SumType
        <4>5. QED
          BY <4>2, <4>3, <4>4
      <3> HIDE DEF old, Row, All, P, Q
      <3>5. SumFunctionOnSet(D, Row(T, s, q \cup {r}))
              = SumFunctionOnSet(D, old) + D[<<s, r>>]
        <4> DEFINE row == <<s, r>>
        <4>1. old \in SUBSET All /\ row \in All \ old
          BY <3>1
        <4> HIDE DEF row
        <4>2. SumFunctionOnSet(D, old \cup {row}) = SumFunctionOnSet(D, old) + D[row]
          BY <1>1, <1>2, <4>1, SumAdd
        <4>3. QED
          BY <3>1, <4>2 DEF row
      <3>6. SumFunctionOnSet(D, Row(T, s, q \cup {r}))
              = SumFunctionOnSet(D, T \X R) + SumFunctionOnSet(A[s], q \cup {r})
                - SumFunctionOnSet(B[s], q \cup {r})
        BY <2>0, <3>2, <3>3, <3>4, <3>5
      <3>7. QED
        BY <3>3, <3>6 DEF Q
    <2>3. Q \in SUBSET (SUBSET R)
      OBVIOUS
    <2>4. Row(T, s, R) = (T \cup {s}) \X R
      OBVIOUS
    <2>5. SumFunctionOnSet(D, T \X R) = SumFunctionOnSet(X, T) - SumFunctionOnSet(Y, T)
      OBVIOUS
    <2>6. /\ SumFunctionOnSet(X, T \cup {s}) = SumFunctionOnSet(X, T) + X[s]
          /\ SumFunctionOnSet(Y, T \cup {s}) = SumFunctionOnSet(Y, T) + Y[s]
          /\ SumFunctionOnSet(X, T) \in Int /\ SumFunctionOnSet(Y, T) \in Int
      <3>1. T \in SUBSET S
        OBVIOUS
      <3> HIDE DEF X, Y, P
      <3>2. QED
        BY <1>3, <3>1, SumAdd, SumType
    <2>7. R \in Q
      <3> HIDE DEF Q
      <3> QED
        BY <2>1, <2>2, <2>3, SubsetInduction
    <2>8. X[s] = SumFunctionOnSet(A[s], R) /\ Y[s] = SumFunctionOnSet(B[s], R)
          /\ X[s] \in Int /\ Y[s] \in Int
      BY <1>3
    <2>9. SumFunctionOnSet(D, Row(T, s, R))
            = SumFunctionOnSet(D, T \X R) + SumFunctionOnSet(A[s], R)
              - SumFunctionOnSet(B[s], R)
      BY <2>7
    <2> HIDE DEF X, Y, Row, Q
    <2>10. SumFunctionOnSet(D, (T \cup {s}) \X R)
             = SumFunctionOnSet(X, T \cup {s}) - SumFunctionOnSet(Y, T \cup {s})
      BY <2>4, <2>5, <2>6, <2>8, <2>9
    <2>11. QED
      BY <2>10
  <1>6. P \in SUBSET (SUBSET S)
    OBVIOUS
  <1>7. S \in P
    <2> HIDE DEF P
    <2> QED
      BY <1>4, <1>5, <1>6, SubsetInduction
  <1>8. QED
    BY <1>7

\* R orders the elements of S, if not strictly.
Orders(R, S) ==
    /\ \A x, y \in S : x # y => <<x, y>> \in R \/ <<y, x>> \in R
    /\ \A x, y, z \in S : <<x, y>> \in R /\ <<y, z>> \in R /\ x # z => <<x, z>> \in R

\* A finite set that is ordered has a least element.
LEMMA LeastExists ==
    ASSUME NEW S, IsFiniteSet(S), S # {}, NEW R, Orders(R, S)
    PROVE  \E x \in S : \A y \in S \ {x} : <<x, y>> \in R
  <1> DEFINE P == {T \in SUBSET S : T # {} => \E x \in T : \A y \in T \ {x} : <<x, y>> \in R}
  <1>0. /\ \A x, y \in S : x # y => <<x, y>> \in R \/ <<y, x>> \in R
        /\ \A x, y, z \in S : <<x, y>> \in R /\ <<y, z>> \in R /\ x # z => <<x, z>> \in R
    BY DEF Orders
  <1>1. {} \in P
    OBVIOUS
  <1>2. ASSUME NEW T \in P, NEW z \in S \ T PROVE T \cup {z} \in P
    <2>1. CASE T = {}
      BY <2>1
    <2>2. CASE T # {}
      <3>1. PICK x \in T : \A y \in T \ {x} : <<x, y>> \in R
        BY <2>2
      <3>2. CASE <<x, z>> \in R
        BY <3>1, <3>2
      <3>3. CASE <<z, x>> \in R
        <4>1. \A y \in T : <<z, y>> \in R
          BY <1>0, <3>1, <3>3
        <4>2. QED
          BY <4>1
      <3>4. QED
        BY <1>0, <3>1, <3>2, <3>3
    <2>3. QED
      BY <2>1, <2>2
  <1>3. P \in SUBSET (SUBSET S)
    OBVIOUS
  <1> HIDE DEF P
  <1>4. S \in P
    BY <1>1, <1>2, <1>3, SubsetInduction
  <1>5. QED
    BY <1>4 DEF P

LEMMA BeforeTransitive ==
    ASSUME NEW k \in Nat, NEW a \in [1 .. k -> Int], NEW b \in [1 .. k -> Int],
           NEW c \in [1 .. k -> Int], Before(a, b), Before(b, c)
    PROVE  Before(a, c)
  <1>1. PICK n \in 1 .. k : a[n] < b[n] /\ \A m \in 1 .. n - 1 : a[m] = b[m]
    BY DEF Before
  <1>2. PICK o \in 1 .. k : b[o] < c[o] /\ \A m \in 1 .. o - 1 : b[m] = c[m]
    BY DEF Before
  <1>3. CASE n <= o
    <2>1. \A m \in 1 .. n - 1 : m \in 1 .. k /\ m \in 1 .. o - 1
      BY <1>3
    <2>2. \A m \in 1 .. n - 1 : a[m] = c[m]
      BY <1>1, <1>2, <2>1
    <2>3. a[n] < c[n]
      <3>1. a[n] \in Int /\ b[n] \in Int /\ c[n] \in Int
        OBVIOUS
      <3>2. b[n] <= c[n]
        <4>1. CASE n = o
          BY <1>2, <3>1, <4>1
        <4>2. CASE n # o
          <5>1. n \in 1 .. o - 1
            BY <1>3, <4>2
          <5>2. QED
            BY <1>2, <3>1, <5>1
        <4>3. QED
          BY <4>1, <4>2
      <3>3. QED
        BY <1>1, <3>1, <3>2
    <2>4. QED
      BY <2>2, <2>3 DEF Before
  <1>4. CASE o < n
    <2>1. \A m \in 1 .. o - 1 : m \in 1 .. n - 1
      BY <1>4
    <2>2. \A m \in 1 .. o - 1 : a[m] = c[m]
      BY <1>1, <1>2, <2>1
    <2>3. a[o] = b[o]
      <3>1. o \in 1 .. n - 1
        BY <1>4
      <3>2. QED
        BY <1>1, <3>1
    <2>4. QED
      BY <1>2, <2>2, <2>3 DEF Before
  <1>5. QED
    BY <1>3, <1>4

LEMMA BeforeTotal ==
    ASSUME NEW k \in Nat, NEW a \in [1 .. k -> Int], NEW b \in [1 .. k -> Int],
           NEW d \in 1 .. k, a[d] # b[d]
    PROVE  Before(a, b) \/ Before(b, a)
  <1> DEFINE S == {n \in 1 .. k : a[n] # b[n]}
             R == {p \in (1 .. k) \X (1 .. k) : p[1] < p[2]}
  <1>1. IsFiniteSet(S) /\ S # {}
    <2>1. IsFiniteSet(1 .. k)
      BY FS_Interval
    <2>2. S \subseteq 1 .. k /\ d \in S
      OBVIOUS
    <2> HIDE DEF S
    <2>3. QED
      BY <2>1, <2>2, FS_Subset
  <1>2. Orders(R, S)
    <2>1. \A x, y \in 1 .. k : <<x, y>> \in R <=> x < y
      OBVIOUS
    <2>2. \A x \in S : x \in 1 .. k
      OBVIOUS
    <2>3. \A x, y \in 1 .. k : x # y => x < y \/ y < x
      OBVIOUS
    <2>4. \A x, y, z \in 1 .. k : x < y /\ y < z => x < z
      OBVIOUS
    <2> HIDE DEF R, S
    <2>5. \A x, y \in S : x # y => <<x, y>> \in R \/ <<y, x>> \in R
      BY <2>1, <2>2, <2>3
    <2>6. \A x, y, z \in S : <<x, y>> \in R /\ <<y, z>> \in R /\ x # z => <<x, z>> \in R
      <3> SUFFICES ASSUME NEW x \in S, NEW y \in S, NEW z \in S,
                          <<x, y>> \in R, <<y, z>> \in R
                   PROVE  <<x, z>> \in R
        OBVIOUS
      <3>1. x \in 1 .. k /\ y \in 1 .. k /\ z \in 1 .. k
        BY <2>2
      <3>2. x < y /\ y < z
        BY <2>1, <3>1
      <3>3. x < z
        BY <2>4, <3>1, <3>2
      <3>4. QED
        BY <2>1, <3>1, <3>3
    <2>7. QED
      BY <2>5, <2>6 DEF Orders
  <1>3. PICK n \in S : \A y \in S \ {n} : <<n, y>> \in R
    <2> HIDE DEF S, R
    <2> QED
      BY <1>1, <1>2, LeastExists
  <1>4. \A m \in 1 .. n - 1 : a[m] = b[m]
    <2> SUFFICES ASSUME NEW m \in 1 .. n - 1, a[m] # b[m] PROVE FALSE
      OBVIOUS
    <2>1. m \in S \ {n}
      OBVIOUS
    <2>2. n < m
      BY <1>3, <2>1
    <2>3. QED
      BY <2>2
  <1>5. a[n] < b[n] \/ b[n] < a[n]
    OBVIOUS
  <1>6. QED
    BY <1>4, <1>5 DEF Before

\* Each element of S has a key of k numbers, and no two the same at d.
HaveKeys(S, K, k, d) ==
    /\ k \in Nat /\ d \in 1 .. k
    /\ \A x \in S : K[x] \in [1 .. k -> Int]
    /\ \A x, y \in S : x # y => K[x][d] # K[y][d]

LEMMA LeastKey ==
    ASSUME NEW S, IsFiniteSet(S), S # {}, NEW K, NEW k, NEW d, HaveKeys(S, K, k, d)
    PROVE  \E x \in S : \A y \in S \ {x} : Before(K[x], K[y])
  <1> DEFINE R == {p \in S \X S : Before(K[p[1]], K[p[2]])}
  <1>1. \A x, y \in S : <<x, y>> \in R <=> Before(K[x], K[y])
    OBVIOUS
  <1> HIDE DEF R
  <1>2. \A x, y \in S : x # y => <<x, y>> \in R \/ <<y, x>> \in R
    BY <1>1, BeforeTotal DEF HaveKeys
  <1>3. \A x, y, z \in S : <<x, y>> \in R /\ <<y, z>> \in R /\ x # z => <<x, z>> \in R
    BY <1>1, BeforeTransitive DEF HaveKeys
  <1>4. Orders(R, S)
    BY <1>2, <1>3 DEF Orders
  <1>5. \E x \in S : \A y \in S \ {x} : <<x, y>> \in R
    BY <1>4, LeastExists
  <1>6. QED
    BY <1>1, <1>5

-----------------------------------------------------------------------------
(* Losses of a configuration, and the means and the worst season of them.  *)

LossesType(losses, seasons) ==
    losses \in LossesOver(seasons) /\ IsFiniteSet(seasons) /\ seasons # {}

LEMMA RowsType ==
    /\ IsFiniteSet(1 .. RowsPerSeason)
    /\ \A seasons : \A losses \in LossesOver(seasons) : \A s \in seasons :
          /\ DOMAIN losses[s] = 1 .. RowsPerSeason
          /\ \A r \in 1 .. RowsPerSeason : losses[s][r] \in Int
  <1>1. RowsPerSeason \in Nat
    BY ExperimentAssumption
  <1>2. IsFiniteSet(1 .. RowsPerSeason)
    BY <1>1, FS_Interval
  <1>3. ASSUME NEW seasons, NEW losses \in LossesOver(seasons), NEW s \in seasons
        PROVE  /\ DOMAIN losses[s] = 1 .. RowsPerSeason
               /\ \A r \in 1 .. RowsPerSeason : losses[s][r] \in Int
    <2> DEFINE rows == 1 .. RowsPerSeason
    <2>1. losses \in [seasons -> [rows -> Nat]]
      BY DEF LossesOver
    <2> HIDE DEF rows
    <2>2. losses[s] \in [rows -> Nat]
      BY <2>1
    <2>3. DOMAIN losses[s] = rows /\ \A r \in rows : losses[s][r] \in Nat
      BY <2>2
    <2>4. QED
      BY <2>3 DEF rows
  <1>4. QED
    BY <1>2, <1>3

LEMMA SeasonLossType ==
    ASSUME NEW seasons, NEW losses, LossesType(losses, seasons), NEW s \in seasons
    PROVE  SeasonLoss(losses, s) \in Int
  <1> DEFINE rows == 1 .. RowsPerSeason
  <1>1. /\ IsFiniteSet(rows) /\ DOMAIN losses[s] = rows
        /\ \A r \in rows : losses[s][r] \in Int
    BY RowsType DEF LossesType
  <1> HIDE DEF rows
  <1>2. SumFunctionOnSet(losses[s], rows) \in Int
    BY <1>1, SumType
  <1>3. QED
    BY <1>1, <1>2 DEF SeasonLoss, SumFunction

LEMMA MeanLossType ==
    ASSUME NEW seasons, NEW losses, LossesType(losses, seasons)
    PROVE  MeanLoss(losses) \in Int /\ LossSpread(losses) \in Int
  <1>1. DOMAIN losses = seasons /\ IsFiniteSet(seasons)
    BY DEF LossesType, LossesOver
  <1> DEFINE F == [s \in seasons |-> SeasonLoss(losses, s)]
             G == [s \in seasons |-> SeasonLoss(losses, s) * SeasonLoss(losses, s)]
  <1>2. \A s \in seasons : F[s] \in Int /\ G[s] \in Int
    BY SeasonLossType
  <1>3. /\ MeanLoss(losses) = SumFunctionOnSet(F, seasons)
        /\ SumFunction([s \in DOMAIN losses |-> SeasonLoss(losses, s) * SeasonLoss(losses, s)])
             = SumFunctionOnSet(G, seasons)
    BY <1>1 DEF MeanLoss, SumFunction
  <1> HIDE DEF F, G
  <1>4. SumFunctionOnSet(F, seasons) \in Int /\ SumFunctionOnSet(G, seasons) \in Int
    BY <1>1, <1>2, SumType
  <1>5. Cardinality(DOMAIN losses) \in Int
    BY <1>1, FS_CardinalityType
  <1>6. QED
    BY <1>3, <1>4, <1>5 DEF LossSpread

LEMMA WorstLossIs ==
    ASSUME NEW seasons, NEW losses, LossesType(losses, seasons)
    PROVE  /\ WorstLoss(losses) \in Int
           /\ \E s \in seasons : WorstLoss(losses) = SeasonLoss(losses, s)
           /\ \A s \in seasons : SeasonLoss(losses, s) <= WorstLoss(losses)
  <1> DEFINE R == {p \in seasons \X seasons :
                      SeasonLoss(losses, p[1]) >= SeasonLoss(losses, p[2])}
             Values == {SeasonLoss(losses, s) : s \in seasons}
  <1>1. DOMAIN losses = seasons /\ IsFiniteSet(seasons) /\ seasons # {}
    BY DEF LossesType, LossesOver
  <1>2. \A x, y \in seasons :
           <<x, y>> \in R <=> SeasonLoss(losses, x) >= SeasonLoss(losses, y)
    OBVIOUS
  <1>3. \A x \in seasons : SeasonLoss(losses, x) \in Int
    BY SeasonLossType
  <1> HIDE DEF R
  <1>4. PICK s \in seasons : \A y \in seasons \ {s} : <<s, y>> \in R
    <2>1. Orders(R, seasons)
      BY <1>2, <1>3 DEF Orders
    <2>2. QED
      BY <1>1, <2>1, LeastExists
  <1>5. ASSUME NEW y \in seasons
        PROVE  SeasonLoss(losses, s) >= SeasonLoss(losses, y)
    <2>1. CASE y = s
      BY <1>3, <2>1
    <2>2. CASE y # s
      BY <1>2, <1>4, <2>2
    <2>3. QED
      BY <2>1, <2>2
  <1>6. \A v \in Values : SeasonLoss(losses, s) >= v
    BY <1>5
  <1>7. WorstLoss(losses) \in Values /\ \A v \in Values : WorstLoss(losses) >= v
    BY <1>1, <1>6 DEF WorstLoss, Max
  <1>8. QED
    BY <1>3, <1>7

\* What is better in every season is so on average, in the sum of the
\* differences, and in the worst season: two of the four conditions of
\* _challenger_verdict follow from another.
LEMMA BetterEverywhere ==
    ASSUME NEW seasons, NEW a, NEW b, LossesType(a, seasons), LossesType(b, seasons),
           ImprovesEverySeason(a, b)
    PROVE  /\ MeanLoss(a) < MeanLoss(b) /\ SumDiff(a, b) < 0
           /\ WorstLoss(a) <= WorstLoss(b)
  <1>1. /\ DOMAIN a = seasons /\ DOMAIN b = seasons
        /\ IsFiniteSet(seasons) /\ seasons # {}
        /\ \A s \in seasons : /\ DOMAIN a[s] = 1 .. RowsPerSeason
                              /\ DOMAIN b[s] = 1 .. RowsPerSeason
                              /\ \A r \in 1 .. RowsPerSeason : a[s][r] \in Int /\ b[s][r] \in Int
    <2>1. /\ a \in LossesOver(seasons) /\ b \in LossesOver(seasons)
          /\ IsFiniteSet(seasons) /\ seasons # {}
      BY DEF LossesType
    <2>2. DOMAIN a = seasons /\ DOMAIN b = seasons
      BY <2>1 DEF LossesOver
    <2>3. QED
      BY <2>1, <2>2, RowsType
  <1>2. \A s \in seasons : /\ SeasonLoss(a, s) \in Int /\ SeasonLoss(b, s) \in Int
                           /\ SeasonLoss(a, s) < SeasonLoss(b, s)
    BY <1>1, SeasonLossType DEF ImprovesEverySeason
  <1>3. MeanLoss(a) < MeanLoss(b)
    <2> DEFINE F == [s \in seasons |-> SeasonLoss(a, s)]
               G == [s \in seasons |-> SeasonLoss(b, s)]
    <2>1. \A s \in seasons : F[s] \in Int /\ G[s] \in Int /\ F[s] < G[s]
      BY <1>2
    <2>2. MeanLoss(a) = SumFunctionOnSet(F, seasons) /\ MeanLoss(b) = SumFunctionOnSet(G, seasons)
      BY <1>1 DEF MeanLoss, SumFunction
    <2> HIDE DEF F, G
    <2>3. QED
      BY <1>1, <2>1, <2>2, SumLess
  <1>4. SumDiff(a, b) < 0
    <2> DEFINE rows == 1 .. RowsPerSeason
               D == Diffs(a, b)
               F == [s \in seasons |-> SumFunctionOnSet(a[s], rows)]
               G == [s \in seasons |-> SumFunctionOnSet(b[s], rows)]
    <2>1. IsFiniteSet(rows)
      BY RowsType
    <2>2. Differences(D, a, b, seasons, rows)
      BY <1>1 DEF Diffs, Differences
    <2>3. SumDiff(a, b) = SumFunctionOnSet(D, seasons \X rows)
      BY <1>1 DEF SumDiff, SumFunction, Diffs
    <2>4. /\ \A s \in seasons : F[s] = SeasonLoss(a, s) /\ G[s] = SeasonLoss(b, s)
      BY <1>1 DEF SeasonLoss, SumFunction
    <2>5. F = [s \in seasons |-> SeasonLoss(a, s)] /\ G = [s \in seasons |-> SeasonLoss(b, s)]
      BY <2>4
    <2>6. MeanLoss(a) = SumFunctionOnSet(F, seasons) /\ MeanLoss(b) = SumFunctionOnSet(G, seasons)
      BY <1>1, <2>5 DEF MeanLoss, SumFunction
    <2>7. SumFunctionOnSet(D, seasons \X rows)
            = SumFunctionOnSet(F, seasons) - SumFunctionOnSet(G, seasons)
      <3> HIDE DEF rows, D
      <3> QED
        BY <1>1, <2>1, <2>2, SumOfDifferences
    <2> HIDE DEF rows, D, F, G
    <2>8. QED
      BY <1>3, <2>3, <2>6, <2>7, MeanLossType
  <1>5. WorstLoss(a) <= WorstLoss(b)
    <2>1. PICK s \in seasons : WorstLoss(a) = SeasonLoss(a, s)
      BY WorstLossIs
    <2>2. SeasonLoss(b, s) <= WorstLoss(b) /\ WorstLoss(b) \in Int
      BY WorstLossIs
    <2>3. QED
      BY <1>2, <2>1, <2>2
  <1>6. QED
    BY <1>3, <1>4, <1>5

-----------------------------------------------------------------------------
(* The rules of selection find what they look for.                         *)

LEMMA FoldsType == IsFiniteSet(Folds) /\ Folds # {}
  <1>1. LastFold \in Nat \ {0}
    BY ExperimentAssumption
  <1>2. IsFiniteSet(1 .. LastFold) /\ 1 \in 1 .. LastFold
    BY <1>1, FS_Interval
  <1>3. QED
    BY <1>2 DEF Folds

LEMMA PoolTypes ==
    ASSUME NEW k \in Families, NEW pool \in Pools[k]
    PROVE  /\ IsFiniteSet(DOMAIN pool) /\ DOMAIN pool # {} /\ DOMAIN pool \subseteq Int
           /\ \A i \in DOMAIN pool :
                 /\ LossesType(pool[i].losses, Folds)
                 /\ Complexity[k][pool[i].model] \in Int
  <1>1. /\ pool # <<>>
        /\ pool \in Seq([model : DOMAIN Complexity[k], losses : LossesOver(Folds)])
        /\ Complexity[k] \in [DOMAIN Complexity[k] -> Nat]
    BY ExperimentAssumption
  <1>2. DOMAIN pool = 1 .. Len(pool) /\ Len(pool) \in Nat /\ Len(pool) # 0
    BY <1>1
  <1>3. IsFiniteSet(DOMAIN pool) /\ DOMAIN pool # {} /\ DOMAIN pool \subseteq Int
    <2>1. PICK n \in Nat \ {0} : DOMAIN pool = 1 .. n
      BY <1>2
    <2>2. IsFiniteSet(1 .. n) /\ 1 \in 1 .. n
      BY FS_Interval
    <2>3. QED
      BY <2>1, <2>2
  <1>4. IsFiniteSet(Folds) /\ Folds # {}
    BY FoldsType
  <1>5. ASSUME NEW i \in DOMAIN pool
        PROVE  /\ LossesType(pool[i].losses, Folds)
               /\ Complexity[k][pool[i].model] \in Int
    <2>1. pool[i] \in [model : DOMAIN Complexity[k], losses : LossesOver(Folds)]
      <3> DEFINE C == [model : DOMAIN Complexity[k], losses : LossesOver(Folds)]
      <3>1. pool \in Seq(C)
        BY <1>1
      <3> HIDE DEF C
      <3>2. pool[i] \in C
        BY <3>1
      <3>3. QED
        BY <3>2 DEF C
    <2>2. QED
      BY <1>1, <1>4, <2>1 DEF LossesType
  <1>6. QED
    BY <1>3, <1>5

LEMMA BestIsBest ==
    ASSUME NEW k \in Families, NEW pool \in Pools[k]
    PROVE  /\ BestOf(pool) \in DOMAIN pool
           /\ \A j \in DOMAIN pool : MeanLoss(pool[BestOf(pool)].losses) <= MeanLoss(pool[j].losses)
  <1> DEFINE S == DOMAIN pool
             K == [i \in S |-> <<MeanLoss(pool[i].losses), i>>]
  <1>1. \A i \in S : MeanLoss(pool[i].losses) \in Int /\ i \in Int
    BY PoolTypes, MeanLossType
  <1>2. \A i \in S : /\ K[i] \in [1 .. 2 -> Int]
                     /\ K[i][1] = MeanLoss(pool[i].losses) /\ K[i][2] = i
                     /\ K[i] = <<MeanLoss(pool[i].losses), i>>
    BY <1>1
  <1>3. IsFiniteSet(S) /\ S # {}
    BY PoolTypes
  <1> HIDE DEF K
  <1>4. \E x \in S : \A y \in S \ {x} : Before(K[x], K[y])
    <2> HIDE DEF S
    <2>1. HaveKeys(S, K, 2, 2)
      BY <1>2 DEF HaveKeys
    <2>2. QED
      BY <1>3, <2>1, LeastKey
  <1>5. BestOf(pool) \in S /\ \A y \in S \ {BestOf(pool)} : Before(K[BestOf(pool)], K[y])
    <2>1. BestOf(pool) = CHOOSE i \in S : \A j \in S \ {i} :
             Before(<<MeanLoss(pool[i].losses), i>>, <<MeanLoss(pool[j].losses), j>>)
      BY DEF BestOf
    <2>2. \E x \in S : \A y \in S \ {x} :
             Before(<<MeanLoss(pool[x].losses), x>>, <<MeanLoss(pool[y].losses), y>>)
      BY <1>2, <1>4
    <2>3. \A i \in S : K[i] = <<MeanLoss(pool[i].losses), i>>
      BY <1>2
    <2> HIDE DEF S
    <2>4. QED
      BY <2>1, <2>2, <2>3
  <1>6. ASSUME NEW j \in S
        PROVE  MeanLoss(pool[BestOf(pool)].losses) <= MeanLoss(pool[j].losses)
    <2>1. CASE j = BestOf(pool)
      BY <1>1, <2>1
    <2>2. CASE j # BestOf(pool)
      <3>1. Before(K[BestOf(pool)], K[j])
        BY <1>5, <2>2
      <3>2. K[BestOf(pool)][1] <= K[j][1]
        BY <1>1, <1>2, <1>5, <3>1 DEF Before
      <3>3. QED
        BY <1>2, <1>5, <3>2
    <2>3. QED
      BY <2>1, <2>2
  <1>7. QED
    BY <1>5, <1>6

LEMMA SelectedIsLeast ==
    ASSUME NEW k \in Families, NEW pool \in Pools[k]
    PROVE  /\ Selected(k, pool) \in TiedWithBest(pool)
           /\ TiedWithBest(pool) \subseteq DOMAIN pool
           /\ \A j \in TiedWithBest(pool) :
                 WorstLoss(pool[Selected(k, pool)].losses) <= WorstLoss(pool[j].losses)
  <1> DEFINE S == TiedWithBest(pool)
             K == [i \in S |-> TieKey(k, pool, i)]
             s == Selected(k, pool)
  <1>1. S \subseteq DOMAIN pool /\ BestOf(pool) \in S
    BY BestIsBest DEF TiedWithBest
  <1>2. IsFiniteSet(S)
    BY <1>1, PoolTypes, FS_Subset
  <1>3. \A i \in S : /\ K[i] \in [1 .. 5 -> Int]
                     /\ K[i][1] = WorstLoss(pool[i].losses) /\ K[i][5] = i
                     /\ K[i] = TieKey(k, pool, i) /\ WorstLoss(pool[i].losses) \in Int
    <2> SUFFICES ASSUME NEW i \in S
                 PROVE  /\ TieKey(k, pool, i) \in [1 .. 5 -> Int]
                        /\ TieKey(k, pool, i)[1] = WorstLoss(pool[i].losses)
                        /\ TieKey(k, pool, i)[5] = i
                        /\ WorstLoss(pool[i].losses) \in Int
      OBVIOUS
    <2>1. i \in DOMAIN pool /\ i \in Int
      BY <1>1, PoolTypes
    <2>2. /\ WorstLoss(pool[i].losses) \in Int /\ MeanLoss(pool[i].losses) \in Int
          /\ LossSpread(pool[i].losses) \in Int /\ Complexity[k][pool[i].model] \in Int
      BY <2>1, PoolTypes, MeanLossType, WorstLossIs
    <2> HIDE DEF S, K, s
    <2>3. QED
      BY <2>1, <2>2 DEF TieKey
  <1> HIDE DEF K
  <1>4. \E x \in S : \A y \in S \ {x} : Before(K[x], K[y])
    <2>1. S # {}
      BY <1>1
    <2> HIDE DEF S, s
    <2>2. HaveKeys(S, K, 5, 5)
      BY <1>3 DEF HaveKeys
    <2>3. QED
      BY <1>2, <2>1, <2>2, LeastKey
  <1>5. s \in S /\ \A y \in S \ {s} : Before(K[s], K[y])
    <2>1. s = CHOOSE i \in S : \A j \in S \ {i} : Before(TieKey(k, pool, i), TieKey(k, pool, j))
      BY DEF Selected
    <2>2. \A i \in S : K[i] = TieKey(k, pool, i)
      BY <1>3
    <2> HIDE DEF S, s
    <2>3. QED
      BY <1>4, <2>1, <2>2
  <1>6. ASSUME NEW j \in S
        PROVE  WorstLoss(pool[s].losses) <= WorstLoss(pool[j].losses)
    <2> HIDE DEF S, s
    <2>1. CASE j = s
      BY <1>3, <2>1
    <2>2. CASE j # s
      <3>1. Before(K[s], K[j])
        BY <1>5, <2>2
      <3>2. K[s][1] <= K[j][1]
        BY <1>3, <1>5, <3>1 DEF Before
      <3>3. QED
        BY <1>3, <1>5, <3>2
    <2>3. QED
      BY <2>1, <2>2
  <1>7. QED
    BY <1>1, <1>5, <1>6

LEMMA TableTypes ==
    ASSUME NEW table \in Tables
    PROVE  /\ \A c \in Candidates : LossesType(table[c], EvaluationSeasons)
           /\ \A i \in DOMAIN CandidateOrder : CandidateOrder[i] \in Candidates
           /\ IsFiniteSet(DOMAIN CandidateOrder) /\ DOMAIN CandidateOrder \subseteq Int
           /\ Incumbent \in Candidates
  <1>1. table \in [Candidates -> LossesOver(EvaluationSeasons)] /\ Incumbent \in Candidates
    BY ExperimentAssumption
  <1>2. IsFiniteSet(EvaluationSeasons) /\ EvaluationSeasons # {}
    <2>1. EvaluationSeasons \subseteq Folds /\ EvaluationSeasons # {}
      BY ExperimentAssumption
    <2>2. QED
      BY <2>1, FoldsType, FS_Subset
  <1>3. DOMAIN CandidateOrder = 1 .. Len(CandidateOrder) /\ Len(CandidateOrder) \in Nat
    BY ExperimentAssumption
  <1>4. IsFiniteSet(DOMAIN CandidateOrder) /\ DOMAIN CandidateOrder \subseteq Int
    BY <1>3, FS_Interval
  <1>5. \A c \in Candidates : LossesType(table[c], EvaluationSeasons)
    BY <1>1, <1>2 DEF LossesType
  <1>6. QED
    BY <1>1, <1>4, <1>5 DEF Candidates

\* The incumbent stays where no challenger qualifies; otherwise one that
\* qualifies takes its place.
LEMMA SelectedCandidateIs ==
    ASSUME NEW table \in Tables
    PROVE  IF Qualifying(table) = {} THEN SelectedCandidate(table) = Incumbent
           ELSE \E i \in Qualifying(table) : SelectedCandidate(table) = CandidateOrder[i]
  <1> SUFFICES ASSUME Qualifying(table) # {}
               PROVE  \E i \in Qualifying(table) : SelectedCandidate(table) = CandidateOrder[i]
    BY DEF SelectedCandidate
  <1> DEFINE S == Qualifying(table)
             K == [i \in S |-> CandidateKey(table, i)]
  <1>1. S \subseteq DOMAIN CandidateOrder
    BY DEF Qualifying
  <1>2. IsFiniteSet(S)
    BY <1>1, TableTypes, FS_Subset
  <1>3. \A i \in S : /\ K[i] \in [1 .. 3 -> Int] /\ K[i][3] = i
                     /\ K[i] = CandidateKey(table, i)
    <2> SUFFICES ASSUME NEW i \in S
                 PROVE  /\ CandidateKey(table, i) \in [1 .. 3 -> Int]
                        /\ CandidateKey(table, i)[3] = i
      OBVIOUS
    <2>1. i \in Int /\ CandidateOrder[i] \in Candidates
      BY <1>1, TableTypes
    <2>2. MeanLoss(table[CandidateOrder[i]]) \in Int /\ Parameters[CandidateOrder[i]] \in Int
      BY <2>1, TableTypes, MeanLossType, ExperimentAssumption
    <2> HIDE DEF S, K
    <2>3. QED
      BY <2>1, <2>2 DEF CandidateKey
  <1> HIDE DEF K
  <1>4. \E x \in S : \A y \in S \ {x} : Before(K[x], K[y])
    <2> HIDE DEF S
    <2>1. HaveKeys(S, K, 3, 3)
      BY <1>3 DEF HaveKeys
    <2>2. S # {}
      BY DEF S
    <2>3. QED
      BY <1>2, <2>1, <2>2, LeastKey
  <1>5. SelectedCandidate(table) =
          CandidateOrder[CHOOSE i \in S : \A j \in S \ {i} :
             Before(CandidateKey(table, i), CandidateKey(table, j))]
    BY DEF SelectedCandidate
  <1>6. \E x \in S : \A y \in S \ {x} :
           Before(CandidateKey(table, x), CandidateKey(table, y))
    BY <1>3, <1>4
  <1>7. QED
    BY <1>5, <1>6

-----------------------------------------------------------------------------
(* Files of predictions.                                                   *)

LEMMA PredictionsType ==
    ASSUME NEW file, IsPredictions(file)
    PROVE  /\ IsOutOfFold(file)
           /\ \A f \in Folds : file.trained[f] = 0 .. f - 1
  BY DEF IsPredictions, IsOutOfFold, OutOfFold, TrainedOn

LEMMA PredictionsOf ==
    ASSUME NEW revisionOf \in [Folds -> Revisions]
    PROVE  IsPredictions(OutOfFold(revisionOf))
  BY DEF IsPredictions

\* Two files that merge one to one hold the same rows.
LEMMA MergedRowsAgree ==
    ASSUME NEW a, NEW b, IsPredictions(a), IsPredictions(b), MergesOneToOne(a, b)
    PROVE  a.rows = b.rows
  <1>1. PICK ra \in [Folds -> Revisions] : a = OutOfFold(ra)
    BY DEF IsPredictions
  <1>2. PICK rb \in [Folds -> Revisions] : b = OutOfFold(rb)
    BY DEF IsPredictions
  <1>3. /\ a.rows = [f \in Folds |-> ResultsIn[ra[f]][f]]
        /\ b.rows = [f \in Folds |-> ResultsIn[rb[f]][f]]
    BY <1>1, <1>2 DEF OutOfFold
  <1>4. ASSUME NEW f \in Folds
        PROVE  ResultsIn[ra[f]][f] = ResultsIn[rb[f]][f]
    <2> DEFINE x == ResultsIn[ra[f]][f]
               y == ResultsIn[rb[f]][f]
    <2>1. /\ DOMAIN x = DOMAIN y
          /\ \A fixture \in DOMAIN x : x[fixture] = y[fixture]
      BY <1>3 DEF MergesOneToOne
    <2>2. ra[f] \in Revisions /\ rb[f] \in Revisions
      OBVIOUS
    <2>3. /\ x = [fixture \in DOMAIN x |-> x[fixture]]
          /\ y = [fixture \in DOMAIN y |-> y[fixture]]
      BY <2>2, ExperimentAssumption
    <2> HIDE DEF x, y
    <2>4. x = y
      BY <2>1, <2>3
    <2>5. QED
      BY <2>4 DEF x, y
  <1>5. QED
    BY <1>3, <1>4

-----------------------------------------------------------------------------
(* Every step preserves the invariant.                                     *)

LEMMA InitInv == Init => IInv
  <1> SUFFICES ASSUME Init PROVE IInv
    OBVIOUS
  <1>1. DataOK
    BY ExperimentAssumption DEF Init, DataOK
  <1>2. FilesOK
    BY DEF Init, FilesOK, Reports
  <1>3. QED
    BY <1>1, <1>2 DEF Init, IInv, ScriptOK, DecisionOK, ChoiceOK

LEMMA DataInv ==
    ASSUME IInv, Reprocess \/ \E f \in Folds : Rebuild(f)
    PROVE  IInv'
  <1>1. DataOK'
    BY ExperimentAssumption DEF Reprocess, Rebuild, IInv, DataOK
  <1>2. UNCHANGED <<predictions, summary, script, decision>>
    BY DEF Reprocess, Rebuild
  <1>3. FilesOK' /\ ScriptOK' /\ DecisionOK' /\ ChoiceOK'
    BY <1>2 DEF IInv, FilesOK, ScriptOK, DecisionOK, ChoiceOK
  <1>4. QED
    BY <1>1, <1>3 DEF IInv

\* A script that starts has what it will write, and nothing is written yet.
LEMMA BeginInv ==
    ASSUME IInv, NEW report \in Reports, NEW file, Begin(report, file),
           report # "calibration" => IsPredictions(file)
    PROVE  DataOK' /\ FilesOK' /\ ScriptOK'
  <1>1. DataOK'
    BY ExperimentAssumption DEF Begin, IInv, DataOK
  <1>2. FilesOK'
    BY DEF Begin, IInv, FilesOK
  <1>3. ScriptOK'
    BY DEF Begin, ScriptOK
  <1>4. QED
    BY <1>1, <1>2, <1>3

LEMMA TrainInv ==
    ASSUME IInv,
           \/ \E pool \in Pools["outcome"] : TrainOutcome(pool)
           \/ \E pool \in Pools["scoreline"] : TrainScoreline(pool)
    PROVE  IInv'
  <1>1. ASSUME NEW pool \in Pools["outcome"], TrainOutcome(pool)
        PROVE  IInv'
    <2>1. PICK file : file = OutOfFold(artifacts)
      OBVIOUS
    <2>2. IsPredictions(file)
      BY <2>1, PredictionsOf DEF IInv, DataOK
    <2>3. Begin("outcome", file) /\ decision'.kind = "outcome"
      BY <1>1, <2>1 DEF TrainOutcome
    <2>4. DataOK' /\ FilesOK' /\ ScriptOK'
      BY <2>2, <2>3, BeginInv DEF Reports, Families
    <2>5. ChoiceOK'
      BY <1>1 DEF TrainOutcome, ChoiceOK, Families
    <2>6. QED
      BY <2>3, <2>4, <2>5 DEF IInv, DecisionOK
  <1>2. ASSUME NEW pool \in Pools["scoreline"], TrainScoreline(pool)
        PROVE  IInv'
    <2>1. PICK revisionOf : revisionOf = [f \in Folds |-> matches]
      OBVIOUS
    <2>2. PICK file : file = OutOfFold(revisionOf)
      OBVIOUS
    <2>3. IsPredictions(file)
      BY <2>1, <2>2, PredictionsOf DEF IInv, DataOK
    <2>4. Begin("scoreline", file) /\ decision'.kind = "scoreline"
      BY <1>2, <2>1, <2>2 DEF TrainScoreline
    <2>5. DataOK' /\ FilesOK' /\ ScriptOK'
      BY <2>3, <2>4, BeginInv DEF Reports, Families
    <2>6. ChoiceOK'
      BY <1>2 DEF TrainScoreline, ChoiceOK, Families
    <2>7. QED
      BY <2>4, <2>5, <2>6 DEF IInv, DecisionOK
  <1>3. QED
    BY <1>1, <1>2

LEMMA CalibrateInv ==
    ASSUME IInv, NEW table \in Tables, Calibrate(table)
    PROVE  IInv'
  <1>1. DataOK' /\ FilesOK' /\ ScriptOK'
    BY BeginInv DEF Calibrate, Reports
  <1>2. PICK a, b : a = predictions["outcome"] /\ b = predictions["scoreline"]
    OBVIOUS
  <1>3. decision'.outcome = a /\ decision'.scoreline = b
    BY <1>2 DEF Calibrate
  <1>4. Loadable(a) /\ Loadable(b) /\ MergesOneToOne(a, b) /\ MetaFoldsInOrder
    BY <1>2 DEF Calibrate, LoadsMetaPredictions, Families
  <1>5. IsPredictions(a) /\ IsPredictions(b)
    BY <1>2, <1>4 DEF IInv, FilesOK, Families, Loadable
  <1>6. DecisionOK'
    BY <1>3, <1>4, <1>5 DEF DecisionOK
  <1>7. ChoiceOK'
    BY DEF Calibrate, ChoiceOK, Families
  <1>8. QED
    BY <1>1, <1>6, <1>7 DEF IInv

LEMMA WriteReportInv ==
    ASSUME IInv, WriteReport
    PROVE  IInv'
  <1>1. /\ script # None /\ script.report \in Reports
        /\ script.left \in {<<"summary", "predictions">>, <<"predictions">>}
        /\ script.report # "calibration" => IsPredictions(script.file)
    BY DEF IInv, ScriptOK, WriteReport
  <1>2. CASE script.left = <<"summary", "predictions">>
    <2>1. /\ summary' = [summary EXCEPT ![script.report] = Complete]
          /\ predictions' = predictions
          /\ script' = [script EXCEPT !.left = <<"predictions">>]
      BY <1>2 DEF WriteReport, Written
    <2>2. FilesOK'
      BY <2>1 DEF IInv, FilesOK
    <2>3. ScriptOK'
      BY <1>1, <2>1 DEF ScriptOK
    <2>4. QED
      BY <2>2, <2>3 DEF WriteReport, IInv, DataOK, DecisionOK, ChoiceOK
  <1>3. CASE script.left = <<"predictions">>
    <2>1. /\ predictions' = IF script.report = "calibration" THEN predictions
                            ELSE [predictions EXCEPT ![script.report] = script.file]
          /\ summary' = summary /\ script' = None
      BY <1>3 DEF WriteReport, Written
    <2>2. FilesOK'
      BY <1>1, <2>1 DEF IInv, FilesOK
    <2>3. QED
      BY <2>1, <2>2 DEF WriteReport, IInv, DataOK, ScriptOK, DecisionOK, ChoiceOK
  <1>4. QED
    BY <1>1, <1>2, <1>3

LEMMA InterruptInv ==
    ASSUME IInv, Interrupt
    PROVE  IInv'
  <1>1. script.report \in Reports
    BY DEF IInv, ScriptOK, Interrupt
  <1>2. FilesOK'
    BY <1>1 DEF IInv, FilesOK, Interrupt
  <1>3. QED
    BY <1>2 DEF Interrupt, IInv, DataOK, ScriptOK, DecisionOK, ChoiceOK

LEMMA NextInv == IInv /\ [Next]_vars => IInv'
  <1> SUFFICES ASSUME IInv, [Next]_vars PROVE IInv'
    OBVIOUS
  <1>1. CASE UNCHANGED vars
    BY <1>1 DEF vars, IInv, DataOK, FilesOK, ScriptOK, DecisionOK, ChoiceOK
  <1>2. CASE \E table \in Tables : Calibrate(table)
    BY <1>2, CalibrateInv
  <1>3. CASE WriteReport
    BY <1>3, WriteReportInv
  <1>4. CASE Interrupt
    BY <1>4, InterruptInv
  <1>5. QED
    BY <1>1, <1>2, <1>3, <1>4, DataInv, TrainInv DEF Next

THEOREM AlwaysIInv == Spec => []IInv
  BY InitInv, NextInv, PTL DEF Spec

-----------------------------------------------------------------------------
\* A file of predictions has the rows of each fold's own validation season,
\* though scripts are stopped and the data changes between them
\* (_fold_predictions_to_rows).
THEOREM TypeCorrect == Spec => []TypeOK
  <1>1. ASSUME FilesOK
        PROVE  \A k \in Families :
                  predictions[k] \in {None, Damaged} \/ IsOutOfFold(predictions[k])
    BY <1>1, PredictionsType DEF FilesOK
  <1>2. IInv => TypeOK
    BY <1>1 DEF IInv, DataOK, FilesOK, ScriptOK, TypeOK
  <1>3. QED
    BY <1>2, AlwaysIInv, PTL

\* Whatever was retrained, corrected or stopped between them, the two families
\* that a calibration compares predicted the same matches with the same results
\* (load_meta_predictions).
THEOREM AlwaysSameMatches == Spec => []SameMatchesCompared
  <1>1. IInv => SameMatchesCompared
    <2> SUFFICES ASSUME IInv, decision # None, decision.kind = "calibration"
                 PROVE  /\ decision.outcome.rows = decision.scoreline.rows
                        /\ CountRows(decision.outcome) = ExpectedRows
      BY DEF SameMatchesCompared
    <2>1. PICK a, b : a = decision.outcome /\ b = decision.scoreline
      OBVIOUS
    <2>2. /\ Loadable(a) /\ IsPredictions(a) /\ IsPredictions(b)
          /\ MergesOneToOne(a, b)
      BY <2>1 DEF IInv, DecisionOK
    <2>3. a.rows = b.rows
      BY <2>2, MergedRowsAgree
    <2>4. QED
      BY <2>1, <2>2, <2>3 DEF Loadable
  <1>2. QED
    BY <1>1, AlwaysIInv, PTL

\* Neither the meta-parameters nor the models below them have seen the season
\* that a calibration is judged on, or a later one, for any number of folds
\* and any table of meta-folds that the code accepts (run_meta_validation).
THEOREM AlwaysOutOfSample == Spec => []JudgedOutOfSample
  <1>1. IInv => JudgedOutOfSample
    <2> SUFFICES ASSUME IInv, decision # None, decision.kind = "calibration",
                        NEW e \in EvaluationSeasons, NEW s \in MetaTrain[e] \cup {e}
                 PROVE  /\ s # e => s < e
                        /\ \A t \in decision.outcome.trained[s]
                                 \cup decision.scoreline.trained[s] : t < e
      BY DEF JudgedOutOfSample
    <2>1. PICK a, b : a = decision.outcome /\ b = decision.scoreline
      OBVIOUS
    <2>2. IsPredictions(a) /\ IsPredictions(b) /\ MetaFoldsInOrder
      BY <2>1 DEF IInv, DecisionOK
    <2>3. e \in Folds /\ s \in Folds
      BY ExperimentAssumption
    <2>4. s # e => s < e
      BY <2>2 DEF MetaFoldsInOrder
    <2>5. a.trained[s] = 0 .. s - 1 /\ b.trained[s] = 0 .. s - 1
      BY <2>2, <2>3, PredictionsType
    <2>6. \A t \in 0 .. s - 1 : t < e
      BY <2>3, <2>4, ExperimentAssumption DEF Folds
    <2>7. QED
      BY <2>1, <2>4, <2>5, <2>6
  <1>2. QED
    BY <1>1, AlwaysIInv, PTL

\* Whatever losses are compared, the configuration that is selected ties with
\* the best one, is no worse than another of them in its worst season, and what
\* is the single best ties with it (select_best_configuration,
\* select_best_score_model).
THEOREM SelectedAlwaysDefensible == Spec => []SelectedIsDefensible
  <1>1. ASSUME NEW k \in Families, NEW pool \in Pools[k], NEW i \in DOMAIN pool
        PROVE  LET chosen == pool[Selected(k, pool)].losses IN
               /\ MeanLoss(pool[i].losses) <= MeanLoss(chosen) =>
                     \/ WorstLoss(chosen) <= WorstLoss(pool[i].losses)
                     \/ i \notin TiedWithBest(pool)
               /\ (\A j \in DOMAIN pool : MeanLoss(pool[i].losses) < MeanLoss(pool[j].losses) \/ i = j)
                     => i = Selected(k, pool) \/ IsTie(pool[i].losses, chosen)
    <2>1. i \in TiedWithBest(pool) =>
             WorstLoss(pool[Selected(k, pool)].losses) <= WorstLoss(pool[i].losses)
      BY SelectedIsLeast
    <2>2. ASSUME \A j \in DOMAIN pool : MeanLoss(pool[i].losses) < MeanLoss(pool[j].losses) \/ i = j
          PROVE  i = Selected(k, pool) \/ IsTie(pool[i].losses, pool[Selected(k, pool)].losses)
      <3>1. i = BestOf(pool)
        <4>1. /\ BestOf(pool) \in DOMAIN pool
              /\ MeanLoss(pool[BestOf(pool)].losses) <= MeanLoss(pool[i].losses)
          BY BestIsBest
        <4>2. \A j \in DOMAIN pool : MeanLoss(pool[j].losses) \in Int
          BY PoolTypes, MeanLossType
        <4>3. QED
          BY <2>2, <4>1, <4>2
      <3>2. Selected(k, pool) \in TiedWithBest(pool)
        BY SelectedIsLeast
      <3>3. QED
        BY <3>1, <3>2 DEF TiedWithBest
    <2>3. QED
      BY <2>1, <2>2
  <1>2. IInv => SelectedIsDefensible
    <2> SUFFICES ASSUME ChoiceOK, decision # None, decision.kind \in Families
                 PROVE  SelectedIsDefensible
      BY DEF IInv, SelectedIsDefensible
    <2>1. PICK k, pool : k = decision.kind /\ pool = decision.pool
      OBVIOUS
    <2>2. k \in Families /\ pool \in Pools[k] /\ decision.chosen = Selected(k, pool)
      BY <2>1 DEF ChoiceOK
    <2>3. QED
      BY <1>1, <2>1, <2>2 DEF SelectedIsDefensible
  <1>3. QED
    BY <1>2, AlwaysIInv, PTL

\* Whatever the losses of the candidates are, the incumbent gives way exactly
\* to one that beats it in every season and beyond the noise, and would not be
\* taken back (_challenger_verdict, select_best_candidate).
THEOREM AlwaysReplacedByTheBetter == Spec => []ReplacedOnlyByTheBetter
  <1>1. ASSUME NEW table \in Tables
        PROVE  /\ SelectedCandidate(table) # Incumbent <=>
                     \E c \in Candidates :
                         /\ ImprovesEverySeason(table[c], table[Incumbent])
                         /\ ~IsTie(table[c], table[Incumbent])
               /\ ~Passes(table[Incumbent], table[SelectedCandidate(table)])
    <2> DEFINE Better(c) == /\ ImprovesEverySeason(table[c], table[Incumbent])
                            /\ ~IsTie(table[c], table[Incumbent])
    <2>1. \A c \in Candidates : MeanLoss(table[c]) \in Int
      BY TableTypes, MeanLossType
    <2>2. \A c \in Candidates : Passes(table[c], table[Incumbent]) <=> Better(c)
      <3>1. ASSUME NEW c \in Candidates, Better(c)
            PROVE  Passes(table[c], table[Incumbent])
        <4>1. /\ LossesType(table[c], EvaluationSeasons)
              /\ LossesType(table[Incumbent], EvaluationSeasons)
          BY TableTypes
        <4>2. QED
          BY <3>1, <4>1, BetterEverywhere DEF Passes
      <3>2. QED
        BY <3>1 DEF Passes
    <2>3. ~Better(Incumbent)
      BY <2>1, <2>2, TableTypes DEF Passes
    <2>4. CASE Qualifying(table) = {}
      <3>1. SelectedCandidate(table) = Incumbent
        BY <2>4, SelectedCandidateIs
      <3>2. ~\E c \in Candidates : Better(c)
        BY <2>2, <2>3, <2>4 DEF Qualifying, Candidates
      <3>3. ~Passes(table[Incumbent], table[Incumbent])
        BY <2>2, <2>3, TableTypes
      <3>4. QED
        BY <3>1, <3>2, <3>3
    <2>5. CASE Qualifying(table) # {}
      <3>1. PICK i \in Qualifying(table) : SelectedCandidate(table) = CandidateOrder[i]
        BY <2>5, SelectedCandidateIs
      <3>2. PICK c \in Candidates : c = CandidateOrder[i]
        BY <3>1, TableTypes DEF Qualifying
      <3>3. c # Incumbent /\ Passes(table[c], table[Incumbent])
        BY <3>2 DEF Qualifying
      <3>4. ~Passes(table[Incumbent], table[c])
        BY <2>1, <3>3, TableTypes DEF Passes
      <3>5. Better(c)
        BY <2>2, <3>3
      <3> HIDE DEF Better
      <3>6. SelectedCandidate(table) # Incumbent /\ \E d \in Candidates : Better(d)
        BY <3>1, <3>2, <3>3, <3>5
      <3>7. QED
        BY <3>1, <3>2, <3>4, <3>6 DEF Better
    <2>6. QED
      BY <2>4, <2>5
  <1>2. IInv => ReplacedOnlyByTheBetter
    <2> SUFFICES ASSUME ChoiceOK, decision # None, decision.kind = "calibration"
                 PROVE  ReplacedOnlyByTheBetter
      BY DEF IInv, ReplacedOnlyByTheBetter
    <2>1. PICK table : table = decision.table
      OBVIOUS
    <2>2. table \in Tables /\ decision.selected = SelectedCandidate(table)
      BY <2>1 DEF ChoiceOK
    <2>3. QED
      BY <1>1, <2>1, <2>2 DEF ReplacedOnlyByTheBetter
  <1>3. QED
    BY <1>2, AlwaysIInv, PTL
=============================================================================
