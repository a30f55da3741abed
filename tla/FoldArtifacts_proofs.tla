------------------------ MODULE FoldArtifacts_proofs ------------------------
(***************************************************************************)
(* What load_fold accepts, for every number of seasons, folds, revisions,  *)
(* builds and interruptions.                                               *)
(*                                                                         *)
(* The invariant relates the two files of an artifact.  The sidecar tells  *)
(* of some build, and the parquet file holds the frame of some build, but  *)
(* not of the same one; unless a forced build tore them apart, the two     *)
(* builds have provenances that refuse_incompatible_overwrite takes for    *)
(* equal.  It compares the seasons of one set of Elo parameters only, that *)
(* of the last season of the source, which need not be the fold's season.  *)
(* That this is enough is the lemma SameFoldParams.                        *)
(***************************************************************************)
EXTENDS FoldArtifacts, FiniteSetTheorems, WellFoundedInduction, TLAPS

Builds(m, mode) == m \in Matches /\ mode \in Modes /\ Buildable(DOMAIN m, mode)

\* What the gate has found out about the sidecar when load_fold returns.
Accepted(provenance, s) ==
    /\ provenance.schedule # None
    /\ provenance.cap = s
    /\ Precede(provenance.schedule[s], s)
    /\ IntendedFor(provenance.schedule[s], s)

SidecarOK ==
    ProvenanceReadable =>
        \E m \in Matches, mode \in Modes : Builds(m, mode) /\ sidecar = Provenance(m, mode)

ParquetOK ==
    parquet \notin {None, Damaged} =>
        \E m \in Matches, mode \in Modes :
            /\ Builds(m, mode)
            /\ parquet = FrameOf(m, mode)
            /\ ProvenanceReadable /\ ~ForcedTear => SameProvenance(sidecar, Provenance(m, mode))

TornOK ==
    torn # None /\ ~torn.force /\ ProvenanceReadable => SameProvenance(sidecar, torn.provenance)

ScriptOK ==
    script # None =>
        /\ \E m \in Matches, mode \in Modes :
              /\ Builds(m, mode)
              /\ script.frame = FrameOf(m, mode)
              /\ script.provenance = Provenance(m, mode)
        /\ script.force \in BOOLEAN
        /\ script.writes \in {"parquet", "sidecar"}
        /\ script.writes = "sidecar" => parquet = script.frame
        /\ ~script.force /\ sidecar # None =>
              ProvenanceReadable /\ SameProvenance(sidecar, script.provenance)
        /\ ~script.force /\ script.loadable => ProvenanceReadable /\ Accepted(sidecar, fold)

IInv ==
    /\ matches \in Matches \cup {None, Damaged}
    /\ fold \in DevFolds
    /\ parquet = None => sidecar = None
    /\ SidecarOK /\ ParquetOK /\ TornOK /\ ScriptOK

-----------------------------------------------------------------------------
(* Schedules.                                                              *)

LEMMA SeasonType == \A s \in Seasons : s \in Nat
  BY SeasonAssumption

LEMMA LastSeason ==
    ASSUME NEW S \in SUBSET Seasons, S # {}
    PROVE  Max(S) \in S /\ \A y \in S : y <= Max(S)
  <1>1. PICK last \in Seasons : \A s \in Seasons : s <= last
    BY SeasonAssumption
  <1> DEFINE T == {last - x : x \in S}
  <1>2. T \subseteq Nat /\ T # {}
    <2>1. \A x \in S : last - x \in Nat
      BY <1>1, SeasonType
    <2>2. QED
      BY <2>1
  <1>3. PICK t \in T : \A u \in T : ~(<<u, t>> \in OpToRel(<, Nat))
    <2> HIDE DEF T
    <2> QED
      BY <1>2, WFMin, NatLessThanWellFounded
  <1>4. PICK x \in S : t = last - x
    OBVIOUS
  <1>5. \A y \in S : x >= y
    <2> SUFFICES ASSUME NEW y \in S, y > x PROVE FALSE
      BY SeasonAssumption
    <2>1. last - y \in T /\ last - y \in Nat /\ t \in Nat
      BY <1>2
    <2>2. last - y < t
      BY <1>1, <1>4, SeasonAssumption
    <2>3. <<last - y, t>> \in OpToRel(<, Nat)
      BY <2>1, <2>2 DEF OpToRel
    <2>4. QED
      BY <1>3, <2>1, <2>3
  <1>6. Max(S) \in S /\ \A y \in S : Max(S) >= y
    BY <1>5 DEF Max
  <1>7. QED
    BY <1>6, SeasonAssumption

\* The parameters of a season are estimated from all seasons before it.
LEMMA ScheduleOf ==
    ASSUME NEW source \in SUBSET Seasons, NEW s \in source
    PROVE  Scheduled(source)[s] = IF Cardinality(Earlier(source, s)) < MinPrior THEN {}
                                  ELSE Earlier(source, s)
  <1>1. CASE Cardinality(Earlier(source, s)) < MinPrior
    BY <1>1 DEF Scheduled
  <1>2. CASE ~(Cardinality(Earlier(source, s)) < MinPrior)
    <2>1. Earlier(source, s) # {}
      BY <1>2, FS_EmptySet, SeasonAssumption
    <2>2. PICK last : last = Max(Earlier(source, s))
      OBVIOUS
    <2>3. last \in Earlier(source, s) /\ \A y \in Earlier(source, s) : y <= last
      BY <2>1, <2>2, LastSeason DEF Earlier
    <2>4. Through(source, last) = Earlier(source, s)
      <3>1. \A x \in source : x <= last <=> x < s
        BY <2>3, SeasonType DEF Earlier
      <3>2. QED
        BY <3>1 DEF Through, Earlier
    <2>5. QED
      BY <1>2, <2>2, <2>4 DEF Scheduled, Estimated
  <1>3. QED
    BY <1>1, <1>2

LEMMA EarlierCount ==
    ASSUME NEW source \in SUBSET Seasons, NEW s \in source, NEW t \in source, s <= t
    PROVE  /\ Cardinality(Earlier(source, s)) \in Nat
           /\ Cardinality(Earlier(source, t)) \in Nat
           /\ Cardinality(Earlier(source, s)) <= Cardinality(Earlier(source, t))
  <1>1. IsFiniteSet(source)
    BY SeasonAssumption, FS_Subset
  <1>2. Earlier(source, s) \subseteq Earlier(source, t) /\ Earlier(source, t) \subseteq source
    <2>1. \A x \in source : x < s => x < t
      BY SeasonType
    <2>2. QED
      BY <2>1 DEF Earlier
  <1>3. IsFiniteSet(Earlier(source, t))
    BY <1>1, <1>2, FS_Subset
  <1>4. QED
    BY <1>2, <1>3, FS_Subset, FS_CardinalityType

\* Two schedules whose last parameters were estimated from the same seasons,
\* which is what refuse_incompatible_overwrite looks at, have the same
\* parameters for every season that both contain and one has an estimate for.
LEMMA SameFoldParams ==
    ASSUME NEW a \in SUBSET Seasons, NEW b \in SUBSET Seasons, NEW e \in a, e \in b,
           Scheduled(a)[e] # {},
           Scheduled(a)[Max(a)] = Scheduled(b)[Max(b)]
    PROVE  Scheduled(b)[e] = Scheduled(a)[e]
  <1>1. PICK p, q : p = Max(a) /\ q = Max(b)
    OBVIOUS
  <1>2. /\ p \in a /\ e <= p /\ \A y \in a : y <= p
        /\ q \in b /\ e <= q /\ \A y \in b : y <= q
    BY <1>1, LastSeason
  <1>3. /\ ~(Cardinality(Earlier(a, e)) < MinPrior)
        /\ Scheduled(a)[e] = Earlier(a, e)
    BY ScheduleOf
  <1>4. ~(Cardinality(Earlier(a, p)) < MinPrior)
    BY <1>2, <1>3, EarlierCount, SeasonAssumption
  <1>5. Earlier(a, p) # {}
    BY <1>4, FS_EmptySet, SeasonAssumption
  <1>6. Scheduled(a)[p] = Earlier(a, p)
    BY <1>2, <1>4, ScheduleOf
  <1>7. Scheduled(b)[q] = Earlier(b, q)
    BY <1>1, <1>2, <1>5, <1>6, ScheduleOf
  <1>8. Earlier(a, p) = Earlier(b, q)
    BY <1>1, <1>6, <1>7
  <1>9. Earlier(b, e) = Earlier(a, e)
    <2>1. CASE e = q
      <3>1. e \notin Earlier(a, p)
        BY <1>8, <2>1, SeasonAssumption DEF Earlier
      <3>2. e = p
        BY <1>2, <3>1, SeasonAssumption DEF Earlier
      <3>3. QED
        BY <1>8, <2>1, <3>2
    <2>2. CASE e < q
      <3>1. e \in Earlier(a, p)
        BY <1>8, <2>2 DEF Earlier
      <3>2. ASSUME NEW t \in Seasons, t < e
            PROVE  t \in a <=> t \in b
        <4>1. t < p /\ t < q
          BY <1>2, <2>2, <3>1, <3>2, SeasonAssumption DEF Earlier
        <4>2. QED
          BY <1>8, <4>1 DEF Earlier
      <3>3. QED
        BY <3>2 DEF Earlier
    <2>3. QED
      BY <1>2, <2>1, <2>2, SeasonAssumption
  <1>10. QED
    BY <1>3, <1>9, ScheduleOf

-----------------------------------------------------------------------------
(* Builds.                                                                 *)

LEMMA MatchesType ==
    ASSUME NEW m \in Matches
    PROVE  DOMAIN m \in SUBSET Seasons /\ DOMAIN m # {}
  <1>1. PICK source \in SourceChoices : m \in [source -> Sound]
    BY DEF Matches
  <1>2. QED
    BY <1>1, SourceAssumption

LEMMA CausalBuild ==
    ASSUME NEW m, NEW mode, Builds(m, mode), mode.kind = "causal"
    PROVE  /\ RowCap(mode) \in EvaluationSeasons /\ RowCap(mode) \in DOMAIN m
           /\ RowCap(mode) \in Seasons
           /\ DOMAIN FrameOf(m, mode).rows = Through(DOMAIN m, RowCap(mode))
           /\ DOMAIN FrameOf(m, mode).params = Through(DOMAIN m, RowCap(mode))
           /\ \A s \in Through(DOMAIN m, RowCap(mode)) :
                 FrameOf(m, mode).params[s] = Scheduled(DOMAIN m)[s]
           /\ Causal(Scheduled(DOMAIN m))
           /\ Provenance(m, mode).schedule = Scheduled(DOMAIN m)
           /\ Provenance(m, mode).estimated = Scheduled(DOMAIN m)[Max(DOMAIN m)]
           /\ Provenance(m, mode).valid
  <1>1. mode.through \in Range(Cutoff)
    BY DEF Builds, Modes
  <1>2. \E s \in EvaluationSeasons : Cutoff[s] = mode.through
    BY <1>1 DEF Range, EvaluationSeasons
  <1>3. RowCap(mode) \in EvaluationSeasons
    BY <1>2 DEF RowCap
  <1>4. RowCap(mode) \in DOMAIN m /\ Causal(Scheduled(DOMAIN m))
    BY DEF Builds, Buildable, ScheduleBuilds
  <1>5. Kept(DOMAIN m, mode) = Through(DOMAIN m, RowCap(mode))
    BY DEF Kept
  <1>6. ParamsOf(DOMAIN m, mode) = Scheduled(DOMAIN m)
    BY DEF ParamsOf
  <1>7. QED
    BY <1>3, <1>4, <1>5, <1>6, SeasonAssumption DEF FrameOf, Restrict, Provenance

LEMMA ScheduleIsCausal ==
    ASSUME NEW m, NEW mode, Builds(m, mode)
    PROVE  /\ Provenance(m, mode).schedule # None <=> mode.kind = "causal"
           /\ mode.kind # "causal" => Provenance(m, mode).cap = None
           /\ Provenance(m, mode).cap = RowCap(mode)
  <1>1. Scheduled(DOMAIN m) # None
    BY TokenAssumption DEF Builds
  <1>2. QED
    BY <1>1, CausalBuild DEF Provenance, RowCap

\* A build that may replace the artifact of a causal one is causal, for the
\* same evaluation season, and has the same parameters for it.
LEMMA Agreement ==
    ASSUME NEW m, NEW mode, Builds(m, mode), mode.kind = "causal",
           NEW n, NEW other, Builds(n, other),
           SameProvenance(Provenance(m, mode), Provenance(n, other)),
           Scheduled(DOMAIN m)[RowCap(mode)] # {}
    PROVE  /\ other.kind = "causal" /\ RowCap(other) = RowCap(mode)
           /\ Scheduled(DOMAIN n)[RowCap(mode)] = Scheduled(DOMAIN m)[RowCap(mode)]
  <1>1. RowCap(other) = RowCap(mode)
    BY ScheduleIsCausal DEF SameProvenance
  <1>2. RowCap(mode) # None
    BY CausalBuild, SourceAssumption
  <1>3. other.kind = "causal"
    BY <1>1, <1>2 DEF RowCap
  <1>4. /\ RowCap(mode) \in DOMAIN m /\ RowCap(mode) \in DOMAIN n
        /\ Scheduled(DOMAIN m)[Max(DOMAIN m)] = Scheduled(DOMAIN n)[Max(DOMAIN n)]
    BY <1>1, <1>3, CausalBuild DEF SameProvenance
  <1>5. DOMAIN m \in SUBSET Seasons /\ DOMAIN n \in SUBSET Seasons
    BY MatchesType DEF Builds
  <1>6. QED
    BY <1>1, <1>3, <1>4, <1>5, SameFoldParams

\* Why the rows that pass LoadFold end with the fold: the frame has a row for
\* its cap, and the fold.
LEMMA CapIsFold ==
    ASSUME NEW m, NEW mode, Builds(m, mode), mode.kind = "causal",
           NEW s \in DOMAIN FrameOf(m, mode).rows,
           \A t \in DOMAIN FrameOf(m, mode).rows \ {s} : t < s
    PROVE  RowCap(mode) = s
  <1>1. /\ RowCap(mode) \in DOMAIN m /\ RowCap(mode) \in Seasons
        /\ DOMAIN FrameOf(m, mode).rows = Through(DOMAIN m, RowCap(mode))
        /\ DOMAIN m \in SUBSET Seasons
    BY CausalBuild, MatchesType DEF Builds
  <1>2. RowCap(mode) \in DOMAIN FrameOf(m, mode).rows
    <2>1. RowCap(mode) <= RowCap(mode)
      BY <1>1, SeasonType
    <2>2. QED
      BY <1>1, <2>1 DEF Through
  <1>3. s <= RowCap(mode) /\ s \in Seasons
    BY <1>1 DEF Through
  <1>4. RowCap(mode) # s => RowCap(mode) < s
    BY <1>2
  <1>5. QED
    BY <1>1, <1>3, <1>4, SeasonType

-----------------------------------------------------------------------------
(* What load_fold finds out.                                               *)

\* The frame that it returns is of a causal build for the fold, with the
\* parameters for the fold that the sidecar tells of.
LEMMA LoadedFold ==
    ASSUME IInv, LoadFold, ~ForcedTear
    PROVE  /\ Accepted(sidecar, fold)
           /\ \E n \in Matches, other \in Modes :
                 /\ Builds(n, other) /\ parquet = FrameOf(n, other)
                 /\ other.kind = "causal" /\ RowCap(other) = fold
                 /\ Scheduled(DOMAIN n)[fold] = sidecar.schedule[fold]
  <1>1. /\ ProvenanceReadable /\ parquet \notin {None, Damaged}
        /\ sidecar.schedule # None
        /\ fold \in DOMAIN sidecar.schedule
        /\ Precede(sidecar.schedule[fold], fold)
        /\ IntendedFor(sidecar.schedule[fold], fold)
        /\ fold \in DOMAIN parquet.rows
        /\ \A t \in DOMAIN parquet.rows \ {fold} : t < fold
    BY DEF LoadFold, ArtifactValidFor, CausalArtifactValid, ContentsMatch
  <1>2. PICK m \in Matches, mode \in Modes : Builds(m, mode) /\ sidecar = Provenance(m, mode)
    BY <1>1 DEF IInv, SidecarOK
  <1>3. PICK n \in Matches, other \in Modes :
            /\ Builds(n, other) /\ parquet = FrameOf(n, other)
            /\ SameProvenance(Provenance(m, mode), Provenance(n, other))
    BY <1>1, <1>2 DEF IInv, ParquetOK
  <1>4. mode.kind = "causal" /\ Provenance(m, mode).cap = RowCap(mode)
    BY <1>1, <1>2, ScheduleIsCausal
  <1>5. PICK e : e = RowCap(mode)
    OBVIOUS
  <1>6. PICK schedule : schedule = Scheduled(DOMAIN m) /\ sidecar.schedule = schedule
    BY <1>2, <1>4, CausalBuild
  <1>7. RowCap(other) = e /\ other.kind = "causal"
    <2>1. RowCap(other) = e
      BY <1>2, <1>3, <1>5, ScheduleIsCausal DEF SameProvenance
    <2>2. e # None
      BY <1>2, <1>4, <1>5, CausalBuild, SourceAssumption
    <2>3. QED
      BY <2>1, <2>2 DEF RowCap
  <1>8. e = fold
    <2>1. PICK s : s = fold
      OBVIOUS
    <2>2. /\ s \in DOMAIN FrameOf(n, other).rows
          /\ \A t \in DOMAIN FrameOf(n, other).rows \ {s} : t < s
      BY <1>1, <1>3, <2>1
    <2>3. RowCap(other) = s
      BY <1>3, <1>7, <2>2, CapIsFold
    <2>4. QED
      BY <1>7, <2>1, <2>3
  <1>9. schedule[e] # {}
    BY <1>1, <1>6, <1>8 DEF Precede
  <1>10. Scheduled(DOMAIN n)[e] = schedule[e]
    BY <1>2, <1>3, <1>4, <1>5, <1>6, <1>9, Agreement
  <1>11. Accepted(sidecar, fold)
    BY <1>1, <1>2, <1>4, <1>5, <1>8 DEF Accepted
  <1>12. QED
    BY <1>3, <1>6, <1>7, <1>8, <1>10, <1>11

LEMMA AcceptedInv == IInv => AcceptedIsCausal
  <1> SUFFICES ASSUME IInv, LoadFold, ~ForcedTear
               PROVE  LET params == parquet.params IN
                      /\ fold \in DOMAIN params
                      /\ \A s \in DOMAIN params : s <= fold /\ \A t \in params[s] : t < s
                      /\ params[fold] # {} /\ Max(params[fold]) = Cutoff[fold]
    BY DEF AcceptedIsCausal
  <1>1. PICK n \in Matches, other \in Modes :
            /\ Builds(n, other) /\ parquet = FrameOf(n, other)
            /\ other.kind = "causal" /\ RowCap(other) = fold
            /\ Scheduled(DOMAIN n)[fold] = sidecar.schedule[fold]
    BY LoadedFold
  <1>2. PICK e : e = fold
    OBVIOUS
  <1>3. Scheduled(DOMAIN n)[e] # {} /\ Max(Scheduled(DOMAIN n)[e]) = Cutoff[e]
    BY <1>1, <1>2, LoadedFold DEF Accepted, Precede, IntendedFor, TrainingCutoff
  <1>4. PICK params : params = FrameOf(n, other).params
    OBVIOUS
  <1>5. /\ DOMAIN params = Through(DOMAIN n, e) /\ e \in DOMAIN n /\ e \in Seasons
        /\ \A s \in DOMAIN params : params[s] = Scheduled(DOMAIN n)[s]
    BY <1>1, <1>2, <1>4, CausalBuild
  <1>6. e \in DOMAIN params /\ \A s \in DOMAIN params : s <= e
    BY <1>5, SeasonType DEF Through
  <1>7. ASSUME NEW s \in DOMAIN params, NEW t \in params[s]
        PROVE  t < s
    <2>1. DOMAIN n \in SUBSET Seasons /\ s \in DOMAIN n
      BY <1>1, <1>5, MatchesType DEF Through
    <2>2. t \in Scheduled(DOMAIN n)[s]
      BY <1>5, <1>7
    <2>3. t \in Earlier(DOMAIN n, s)
      BY <2>1, <2>2, ScheduleOf
    <2>4. QED
      BY <2>3 DEF Earlier
  <1>8. QED
    BY <1>1, <1>2, <1>3, <1>4, <1>5, <1>6, <1>7

LEMMA RepeatInv == IInv => InterruptedBuildCanBeRepeated
  BY DEF IInv, TornOK, ProvenanceReadable, InterruptedBuildCanBeRepeated, Refused

\* A build may end where a fold could be loaded, and then the fold can be.
LEMMA RebuildInv ==
    ASSUME IInv, script # None, ~script.force, script.loadable, WriteSidecar
    PROVE  LoadFold'
  <1>1. /\ ProvenanceReadable /\ Accepted(sidecar, fold)
        /\ SameProvenance(sidecar, script.provenance)
        /\ parquet = script.frame
    BY DEF IInv, ScriptOK, WriteSidecar, ProvenanceReadable
  <1>2. PICK m \in Matches, mode \in Modes : Builds(m, mode) /\ sidecar = Provenance(m, mode)
    BY <1>1 DEF IInv, SidecarOK
  <1>3. PICK n \in Matches, other \in Modes :
            /\ Builds(n, other)
            /\ script.frame = FrameOf(n, other) /\ script.provenance = Provenance(n, other)
    BY DEF IInv, ScriptOK
  <1>4. PICK e : e = fold
    OBVIOUS
  <1>5. mode.kind = "causal" /\ RowCap(mode) = e
    BY <1>1, <1>2, <1>4, ScheduleIsCausal DEF Accepted
  <1>6. PICK schedule : schedule = Scheduled(DOMAIN m) /\ sidecar.schedule = schedule
    BY <1>2, <1>5, CausalBuild
  <1>7. Precede(schedule[e], e) /\ IntendedFor(schedule[e], e)
    BY <1>1, <1>4, <1>6 DEF Accepted
  <1>8. /\ other.kind = "causal" /\ RowCap(other) = e
        /\ Scheduled(DOMAIN n)[e] = schedule[e]
    <2>1. schedule[e] # {}
      BY <1>7 DEF Precede
    <2>2. SameProvenance(Provenance(m, mode), Provenance(n, other))
      BY <1>1, <1>2, <1>3
    <2>3. QED
      BY <1>2, <1>3, <1>5, <1>6, <2>1, <2>2, Agreement
  <1> DEFINE P == Provenance(n, other)
             F == FrameOf(n, other)
  <1>9. parquet' = F /\ sidecar' = P /\ fold' = e
    BY <1>1, <1>3, <1>4 DEF WriteSidecar
  <1>10. F \notin {None, Damaged} /\ P \notin {None, Damaged} /\ P.schedule # None
    BY <1>3, <1>8, TokenAssumption, ScheduleIsCausal
  <1>11. /\ P.schedule = Scheduled(DOMAIN n) /\ Causal(P.schedule) /\ P.valid
         /\ P.cap = e /\ e \in DOMAIN n /\ e \in Seasons /\ e \in EvaluationSeasons
         /\ DOMAIN F.rows = Through(DOMAIN n, e)
    BY <1>3, <1>8, CausalBuild, ScheduleIsCausal
  <1>12. e \in DOMAIN P.schedule
    BY <1>11 DEF Scheduled
  <1>13. Precede(P.schedule[e], e) /\ IntendedFor(P.schedule[e], e)
    BY <1>7, <1>8, <1>11
  <1>14. NRows(F.rows) = P.nRows
    BY DEF Provenance
  <1>15. /\ e \in DOMAIN F.rows
         /\ \A t \in DOMAIN F.rows : t <= e /\ t # Sealed
         /\ \A t \in DOMAIN F.rows \ {e} : t < e
    <2>1. DOMAIN n \subseteq Seasons
      BY <1>3, MatchesType DEF Builds
    <2>2. e # Sealed /\ e <= Sealed /\ Sealed \in Seasons
      BY <1>4, <1>11, SeasonAssumption DEF IInv, DevFolds
    <2>3. QED
      BY <1>11, <2>1, <2>2, SeasonType DEF Through
  <1> HIDE DEF P, F
  <1>16. CausalArtifactValid(F, P, e)
    BY <1>11, <1>12, <1>13, <1>14, <1>15 DEF CausalArtifactValid, ContentsMatch
  <1>17. QED
    BY <1>9, <1>10, <1>15, <1>16 DEF LoadFold, ArtifactValidFor, ProvenanceReadable

-----------------------------------------------------------------------------
(* Every step preserves the invariant.                                     *)

LEMMA InitInv == Init => IInv
  BY DEF Init, IInv, SidecarOK, ParquetOK, TornOK, ScriptOK, ProvenanceReadable

LEMMA DataInv ==
    ASSUME IInv, Download \/ \E source \in SourceChoices : ProcessData(source)
    PROVE  IInv'
  <1>1. UNCHANGED <<fold, parquet, sidecar, script, torn>>
    BY DEF Download, ProcessData
  <1>2. SidecarOK' /\ ParquetOK' /\ TornOK' /\ ScriptOK'
    BY <1>1 DEF IInv, SidecarOK, ParquetOK, TornOK, ScriptOK, ProvenanceReadable, ForcedTear,
                Accepted, Precede, IntendedFor, TrainingCutoff
  <1>3. matches' \in Matches \cup {None, Damaged}
    <2>1. CASE Download
      BY <2>1 DEF Download, IInv
    <2>2. ASSUME NEW source \in SourceChoices, ProcessData(source)
          PROVE  matches' \in Matches \cup {None, Damaged}
      BY <2>2 DEF ProcessData, Processable, Matches
    <2>3. QED
      BY <2>1, <2>2
  <1>4. QED
    BY <1>1, <1>2, <1>3 DEF IInv

LEMMA StartBuildInv ==
    ASSUME IInv, NEW mode \in Modes, NEW force \in BOOLEAN, StartBuild(mode, force)
    PROVE  IInv'
  <1>1. PICK m : m = matches
    OBVIOUS
  <1>2. m \in Matches /\ Builds(m, mode)
    BY <1>1 DEF StartBuild, Builds, IInv
  <1>3. /\ ~Refused(Provenance(m, mode), force)
        /\ script' = [writes |-> "parquet", force |-> force,
                      frame |-> FrameOf(m, mode), provenance |-> Provenance(m, mode),
                      loadable |-> LoadFold /\ ~ForcedTear]
        /\ UNCHANGED <<fold, raw, matches, parquet, sidecar, torn, processed>>
    BY <1>1 DEF StartBuild
  <1>4. ScriptOK'
    <2>1. ~force /\ sidecar # None =>
              ProvenanceReadable /\ SameProvenance(sidecar, Provenance(m, mode))
      BY <1>3 DEF IInv, Refused, ProvenanceReadable
    <2>2. LoadFold /\ ~ForcedTear => ProvenanceReadable /\ Accepted(sidecar, fold)
      BY LoadedFold DEF LoadFold, ArtifactValidFor
    <2>3. /\ script'.writes = "parquet" /\ script'.force = force
          /\ script'.frame = FrameOf(m, mode) /\ script'.provenance = Provenance(m, mode)
          /\ script'.loadable = (LoadFold /\ ~ForcedTear)
      BY <1>3
    <2>4. ~force /\ script'.loadable => (ProvenanceReadable /\ Accepted(sidecar, fold))'
      BY <1>3, <2>2, <2>3
         DEF Accepted, Precede, IntendedFor, TrainingCutoff, ProvenanceReadable
    <2>5. ~force /\ sidecar' # None =>
              (ProvenanceReadable /\ SameProvenance(sidecar, script.provenance))'
      BY <1>3, <2>1, <2>3 DEF ProvenanceReadable, SameProvenance
    <2>6. QED
      BY <1>2, <2>3, <2>4, <2>5 DEF ScriptOK
  <1>5. QED
    BY <1>3, <1>4 DEF IInv, SidecarOK, ParquetOK, TornOK, ProvenanceReadable, ForcedTear

LEMMA WriteParquetInv ==
    ASSUME IInv, WriteParquet
    PROVE  IInv'
  <1>1. PICK m \in Matches, mode \in Modes :
            /\ Builds(m, mode)
            /\ script.frame = FrameOf(m, mode) /\ script.provenance = Provenance(m, mode)
    BY DEF WriteParquet, IInv, ScriptOK
  <1>2. /\ parquet' = FrameOf(m, mode)
        /\ torn' = [provenance |-> Provenance(m, mode), force |-> script.force]
        /\ script' = [script EXCEPT !.writes = "sidecar"]
        /\ UNCHANGED <<fold, raw, matches, sidecar, builds, processed>>
    BY <1>1 DEF WriteParquet, Began
  <1>3. script # None /\ script.force \in BOOLEAN
    BY DEF WriteParquet, IInv, ScriptOK
  <1>4. parquet' # None /\ torn' # None
    BY <1>1, <1>2, <1>3, TokenAssumption
  <1>5. ~script.force /\ sidecar # None => SameProvenance(sidecar, Provenance(m, mode))
    BY <1>1, <1>3 DEF IInv, ScriptOK
  <1>6. ParquetOK'
    BY <1>1, <1>2, <1>4, <1>5 DEF ParquetOK, ForcedTear, ProvenanceReadable
  <1>7. TornOK'
    BY <1>2, <1>5 DEF TornOK, ProvenanceReadable
  <1>8. ScriptOK'
    <2>1. /\ script'.frame = script.frame /\ script'.provenance = script.provenance
          /\ script'.force = script.force /\ script'.loadable = script.loadable
          /\ script'.writes \in {"parquet", "sidecar"}
      BY <1>2, <1>3 DEF IInv, ScriptOK
    <2>2. QED
      BY <1>1, <1>2, <1>3, <2>1
      DEF IInv, ScriptOK, ProvenanceReadable, Accepted, Precede, IntendedFor, TrainingCutoff
  <1>9. QED
    BY <1>2, <1>4, <1>6, <1>7, <1>8 DEF IInv, SidecarOK, ProvenanceReadable

LEMMA WriteSidecarInv ==
    ASSUME IInv, WriteSidecar
    PROVE  IInv'
  <1>1. PICK m \in Matches, mode \in Modes :
            /\ Builds(m, mode)
            /\ script.frame = FrameOf(m, mode) /\ script.provenance = Provenance(m, mode)
    BY DEF WriteSidecar, IInv, ScriptOK
  <1>2. /\ parquet' = FrameOf(m, mode) /\ sidecar' = Provenance(m, mode)
        /\ torn' = None /\ script' = None
        /\ UNCHANGED <<fold, raw, matches, builds, processed>>
    BY <1>1 DEF WriteSidecar, IInv, ScriptOK
  <1>3. parquet' # None
    BY <1>1, <1>2, TokenAssumption
  <1>4. SidecarOK' /\ ParquetOK'
    BY <1>1, <1>2 DEF SidecarOK, ParquetOK, SameProvenance
  <1>5. QED
    BY <1>2, <1>3, <1>4 DEF IInv, TornOK, ScriptOK

LEMMA InterruptInv ==
    ASSUME IInv, Interrupt
    PROVE  IInv'
  <1>1. script' = None /\ UNCHANGED <<fold, raw, matches, builds, processed>>
    BY DEF Interrupt
  <1>2. CASE parquet' = parquet /\ torn' = torn /\ sidecar' \in {sidecar, Damaged}
                /\ (sidecar' # sidecar => script.writes = "sidecar")
    <2>1. parquet' = None => sidecar' = None
      <3>1. script.writes = "sidecar" => parquet # None
        BY TokenAssumption DEF IInv, ScriptOK, Interrupt
      <3>2. QED
        BY <1>2, <3>1 DEF IInv
    <2>2. SidecarOK' /\ ParquetOK' /\ TornOK'
      BY <1>2 DEF IInv, SidecarOK, ParquetOK, TornOK, ProvenanceReadable, ForcedTear,
                  SameProvenance
    <2>3. QED
      BY <1>1, <1>2, <2>1, <2>2 DEF IInv, ScriptOK
  <1>3. CASE parquet' = Damaged /\ torn' = Began /\ sidecar' = sidecar
    <2>1. SidecarOK' /\ ParquetOK'
      BY <1>3 DEF IInv, SidecarOK, ParquetOK, ProvenanceReadable
    <2>2. torn'.force = script.force /\ torn'.provenance = script.provenance
      BY <1>3 DEF Began
    <2>3. TornOK'
      BY <1>3, <2>2 DEF Interrupt, IInv, ScriptOK, TornOK, ProvenanceReadable, SameProvenance
    <2>4. parquet' = None => sidecar' = None
      BY <1>3, SourceAssumption
    <2>5. QED
      BY <1>1, <1>3, <2>1, <2>3, <2>4 DEF IInv, ScriptOK
  <1>4. QED
    BY <1>2, <1>3 DEF Interrupt

LEMMA NextInv == IInv /\ [Next]_vars => IInv'
  <1> SUFFICES ASSUME IInv, [Next]_vars PROVE IInv'
    OBVIOUS
  <1>1. CASE UNCHANGED vars
    BY <1>1 DEF vars, IInv, SidecarOK, ParquetOK, TornOK, ScriptOK, ProvenanceReadable,
                ForcedTear, SameProvenance, Accepted, Precede, IntendedFor, TrainingCutoff
  <1>2. CASE \E mode \in Modes, force \in BOOLEAN : StartBuild(mode, force)
    BY <1>2, StartBuildInv
  <1>3. CASE WriteParquet
    BY <1>3, WriteParquetInv
  <1>4. CASE WriteSidecar
    BY <1>4, WriteSidecarInv
  <1>5. CASE Interrupt
    BY <1>5, InterruptInv
  <1>6. QED
    BY <1>1, <1>2, <1>3, <1>4, <1>5, DataInv DEF Next

THEOREM AlwaysIInv == Spec => []IInv
  BY InitInv, NextInv, PTL DEF Spec

-----------------------------------------------------------------------------
\* Whatever builds of whatever data wrote the two files of a fold, and wherever
\* they were stopped: if load_fold returns the fold, its Elo features know
\* nothing of their own season or a later one, and those of the validation
\* season come from parameters up to exactly the approved cutoff.  The only
\* exception is a build with --force that was stopped between the files.
THEOREM AcceptedAlwaysCausal == Spec => []AcceptedIsCausal
  BY AlwaysIInv, AcceptedInv, PTL

\* A stopped build can be repeated without --force, unless it cut off the
\* sidecar itself (refuse_incompatible_overwrite).
THEOREM RepeatAlwaysPossible == Spec => []InterruptedBuildCanBeRepeated
  BY AlwaysIInv, RepeatInv, PTL

\* A build without --force leaves a fold that could be loaded loadable
\* (refuse_incompatible_overwrite compares enough).
THEOREM RebuildAlwaysKeepsFold == Spec => RebuildKeepsFold
  <1>1. IInv /\ [Next]_vars
        => [script # None /\ ~script.force /\ script.loadable /\ WriteSidecar => LoadFold']_vars
    BY RebuildInv
  <1>2. QED
    BY <1>1, AlwaysIInv, PTL DEF Spec, RebuildKeepsFold

-----------------------------------------------------------------------------
(* Types.                                                                  *)

\* The rows of a frame are finitely many.
LEMMA NRowsType ==
    ASSUME NEW rows, IsMap(rows, Seasons, Revisions)
    PROVE  NRows(rows) \in Nat
  <1> DEFINE D == DOMAIN rows
             of == [s \in D |-> {s} \X (1 .. RowsOf[rows[s]])]
             T == {of[s] : s \in D}
  <1>1. IsFiniteSet(D)
    BY FS_Subset, SeasonAssumption DEF IsMap
  <1>2. \A s \in D : IsFiniteSet(of[s])
    <2> SUFFICES ASSUME NEW s \in D PROVE IsFiniteSet(of[s])
      OBVIOUS
    <2>1. RowsOf[rows[s]] \in Nat
      BY SourceAssumption DEF IsMap
    <2>2. IsFiniteSet({s}) /\ IsFiniteSet(1 .. RowsOf[rows[s]])
      <3>1. IsFiniteSet({s})
        BY FS_Singleton
      <3>2. \A n \in Nat : IsFiniteSet(1 .. n)
        BY FS_Interval
      <3>3. QED
        BY <2>1, <3>1, <3>2
    <2>3. QED
      BY <2>2, FS_Product
  <1>3. of \in Surjection(D, T)
    BY DEF Surjection
  <1>4. T = {{s} \X (1 .. RowsOf[rows[s]]) : s \in DOMAIN rows}
    OBVIOUS
  <1>5. \A U \in T : IsFiniteSet(U)
    BY <1>2
  <1> HIDE DEF of, T, D
  <1>6. IsFiniteSet(T)
    BY <1>1, <1>3, FS_Surjection
  <1>7. IsFiniteSet(UNION T)
    BY <1>5, <1>6, FS_UNION
  <1>8. QED
    BY <1>4, <1>7, FS_CardinalityType DEF NRows

\* What a build writes: a frame and a provenance of seasons it has read.
LEMMA BuildTypes ==
    ASSUME NEW m, NEW mode, Builds(m, mode)
    PROVE  IsFrame(FrameOf(m, mode)) /\ IsProvenance(Provenance(m, mode))
  <1> DEFINE source == DOMAIN m
             params == ParamsOf(source, mode)
  <1>1. PICK choice \in SourceChoices : m \in [choice -> Sound]
    BY DEF Builds, Matches
  <1>2. /\ source \subseteq Seasons /\ source # {}
        /\ \A s \in source : m[s] \in Revisions
    BY <1>1, SourceAssumption
  <1>3. mode.kind \in {"causal", "estimate", "canonical"}
    BY DEF Builds, Modes
  <1>4. DOMAIN params = source /\ \A s \in source : params[s] \subseteq Seasons
    <2>1. CASE mode.kind = "causal"
      <3>1. params = Scheduled(source)
        BY <2>1 DEF ParamsOf
      <3>2. DOMAIN Scheduled(source) = source
        BY DEF Scheduled
      <3>3. \A s \in source : Scheduled(source)[s] \subseteq Seasons
        <4>1. source \in SUBSET Seasons
          BY <1>2
        <4> HIDE DEF source
        <4>2. \A s \in source : \/ Scheduled(source)[s] = {}
                               \/ Scheduled(source)[s] = Earlier(source, s)
          BY <4>1, ScheduleOf
        <4>3. QED
          BY <4>1, <4>2 DEF Earlier
      <3>4. QED
        BY <3>1, <3>2, <3>3
    <2>2. CASE mode.kind = "estimate"
      BY <1>2, <2>2 DEF ParamsOf, Estimated, Through
    <2>3. CASE mode.kind = "canonical"
      BY <2>3 DEF ParamsOf
    <2>4. QED
      BY <1>3, <2>1, <2>2, <2>3
  <1>5. Kept(source, mode) \subseteq source
    BY DEF Kept, Through
  <1>6. Max(source) \in source
    BY <1>2, LastSeason
  <1>7. RowCap(mode) \in EvaluationSeasons \cup {None}
    <2>1. CASE mode.kind = "causal"
      BY <2>1, CausalBuild
    <2>2. CASE mode.kind # "causal"
      BY <2>2 DEF RowCap
    <2>3. QED
      BY <2>1, <2>2
  <1> DEFINE frame == FrameOf(m, mode)
             p == Provenance(m, mode)
  <1>8. /\ frame = [rows |-> [s \in Kept(source, mode) |-> m[s]],
                    params |-> [s \in Kept(source, mode) |-> params[s]]]
    BY DEF FrameOf, Restrict
  <1>9. p = [schedule |-> IF mode.kind = "causal" THEN params ELSE None,
             estimated |-> params[Max(source)], valid |-> mode.kind # "canonical",
             cap |-> RowCap(mode), nRows |-> NRows(frame.rows)]
    BY DEF Provenance
  <1> HIDE DEF source, params, frame, p
  <1>10. IsFrame(frame)
    <2>1. /\ DOMAIN frame = {"rows", "params"}
          /\ frame.rows = [s \in Kept(source, mode) |-> m[s]]
          /\ frame.params = [s \in Kept(source, mode) |-> params[s]]
      BY <1>8
    <2>2. IsMap(frame.rows, Seasons, Revisions) /\ IsMap(frame.params, Seasons, SUBSET Seasons)
      BY <1>2, <1>4, <1>5, <2>1 DEF IsMap
    <2>3. QED
      BY <2>1, <2>2 DEF IsFrame
  <1>11. NRows(frame.rows) \in Nat
    BY <1>10, NRowsType DEF IsFrame
  <1>12. params # None => IsMap(params, Seasons, SUBSET Seasons)
    <2>1. params \in [source -> SUBSET Seasons]
      <3>1. params = [s \in source |-> params[s]]
        BY DEF params, ParamsOf, Scheduled
      <3>2. QED
        BY <1>4, <3>1
    <2>2. QED
      BY <1>2, <1>4, <2>1 DEF IsMap
  <1>13. IsProvenance(p)
    <2>1. /\ DOMAIN p = {"schedule", "estimated", "valid", "cap", "nRows"}
          /\ p.schedule \in {params, None} /\ p.estimated = params[Max(source)]
          /\ p.valid \in BOOLEAN /\ p.cap = RowCap(mode) /\ p.nRows = NRows(frame.rows)
      BY <1>9
    <2>2. QED
      BY <1>4, <1>6, <1>7, <1>11, <1>12, <2>1 DEF IsProvenance
  <1>14. QED
    BY <1>10, <1>13 DEF frame, p

\* The rest of the state: a build that has begun to write is one that passed
\* the checks, and the counts stay within their bounds.
TInv ==
    /\ raw \in [Seasons -> Revisions \cup {None}]
    /\ torn # None =>
          /\ torn.force \in BOOLEAN
          /\ \E m \in Matches, mode \in Modes :
                Builds(m, mode) /\ torn.provenance = Provenance(m, mode)
    /\ script # None => script.loadable \in BOOLEAN
    /\ builds \in 0 .. MaxBuilds /\ processed \in 0 .. MaxProcessed

LEMMA BeganIsABuild ==
    ASSUME IInv, script # None
    PROVE  /\ Began.force \in BOOLEAN
           /\ \E m \in Matches, mode \in Modes :
                 Builds(m, mode) /\ Began.provenance = Provenance(m, mode)
  BY DEF IInv, ScriptOK, Began

LEMMA TypeStep ==
    ASSUME IInv, TInv, [Next]_vars
    PROVE  TInv'
  <1>1. CASE UNCHANGED vars
    BY <1>1 DEF vars, TInv
  <1>2. CASE Download
    <2>1. UNCHANGED <<torn, script, builds, processed>>
      BY <1>2 DEF Download
    <2>2. raw' \in [Seasons -> Revisions \cup {None}]
      BY <1>2, SourceAssumption DEF Download, TInv
    <2>3. QED
      BY <2>1, <2>2 DEF TInv
  <1>3. ASSUME NEW source \in SourceChoices, ProcessData(source)
        PROVE  TInv'
    <2>1. UNCHANGED <<raw, torn, script, builds>> /\ processed' = processed + 1
          /\ processed < MaxProcessed
      BY <1>3 DEF ProcessData
    <2>2. QED
      BY <2>1, SourceAssumption DEF TInv
  <1>4. ASSUME NEW mode \in Modes, NEW force \in BOOLEAN, StartBuild(mode, force)
        PROVE  TInv'
    <2>1. UNCHANGED <<raw, torn, processed>> /\ builds' = builds + 1 /\ builds < MaxBuilds
      BY <1>4 DEF StartBuild
    <2>2. script'.loadable \in BOOLEAN
      <3>1. script'.loadable = (LoadFold /\ ~ForcedTear)
        BY <1>4 DEF StartBuild
      <3>2. (LoadFold /\ ~ForcedTear) \in BOOLEAN
        OBVIOUS
      <3>3. QED
        BY <3>1, <3>2, Zenon
    <2>3. QED
      BY <2>1, <2>2, SourceAssumption DEF TInv
  <1>5. CASE WriteParquet
    <2>1. UNCHANGED <<raw, builds, processed>> /\ torn' = Began
          /\ script' = [script EXCEPT !.writes = "sidecar"] /\ script # None
      BY <1>5 DEF WriteParquet
    <2>2. script'.loadable = script.loadable
      BY <2>1
    <2>3. QED
      BY <2>1, <2>2, BeganIsABuild DEF TInv
  <1>6. CASE WriteSidecar
    BY <1>6 DEF WriteSidecar, TInv
  <1>7. CASE Interrupt
    <2>1. /\ UNCHANGED <<raw, builds, processed>> /\ script' = None /\ script # None
          /\ torn' \in {torn, Began}
      BY <1>7 DEF Interrupt
    <2>2. QED
      BY <2>1, BeganIsABuild DEF TInv
  <1>8. QED
    BY <1>1, <1>2, <1>3, <1>4, <1>5, <1>6, <1>7 DEF Next

\* What is on disk at the path of a fold lies within the seasons that were
\* read, for all data and all modes, and only rows that passed
\* validate_season_rows are ever processed (process_data.py main).
THEOREM TypeCorrect == Spec => []TypeOK
  <1>1. Init => TInv
    BY SourceAssumption DEF Init, TInv
  <1>2. IInv /\ TInv => TypeOK
    <2> SUFFICES ASSUME IInv, TInv PROVE TypeOK
      OBVIOUS
    <2>1. matches \notin {None, Damaged} => IsMap(matches, Seasons, Sound)
      <3> SUFFICES ASSUME matches \in Matches PROVE IsMap(matches, Seasons, Sound)
        BY DEF IInv
      <3>1. PICK source \in SourceChoices : matches \in [source -> Sound]
        BY DEF Matches
      <3>2. QED
        BY <3>1, SourceAssumption DEF IsMap
    <2>2. parquet \notin {None, Damaged} => IsFrame(parquet)
      BY BuildTypes DEF IInv, ParquetOK
    <2>3. sidecar \notin {None, Damaged} => IsProvenance(sidecar)
      BY BuildTypes DEF IInv, SidecarOK, ProvenanceReadable
    <2>4. torn # None => IsProvenance(torn.provenance) /\ torn.force \in BOOLEAN
      BY BuildTypes DEF TInv
    <2>5. script # None => IsFrame(script.frame) /\ IsProvenance(script.provenance)
      BY BuildTypes DEF IInv, ScriptOK
    <2>6. QED
      BY <2>1, <2>2, <2>3, <2>4, <2>5 DEF IInv, ScriptOK, TInv, TypeOK
  <1>3. QED
    BY <1>1, <1>2, TypeStep, AlwaysIInv, PTL DEF Spec
=============================================================================
