------------------------ MODULE ModelArtifacts_proofs ------------------------
(***************************************************************************)
(* Proofs about the frozen models, for any number of processes, any data,  *)
(* any clubs and any number of builds.                                     *)
(*                                                                         *)
(* The argument: whatever has passed the checks of a build is sound        *)
(* (FittedIsSound), so every file that loads, every model that is kept and *)
(* every model that has answered is; and the models that a process has     *)
(* answered with are none, or the one that it keeps (CacheOK).             *)
(***************************************************************************)
EXTENDS ModelArtifacts, FiniteSetTheorems, NaturalsInduction,
        WellFoundedInduction, TLAPS

Lefts == {<<"artifact", "sidecar">>, <<"artifact">>, <<"sidecar">>}

\* A model that was fitted on the seasons up to the cutoff, and says so.
SoundModel(m, kind) ==
    /\ m.kind = kind /\ m.states = Cutoff
    /\ m.seasons \subseteq Nat /\ Cutoff \in m.seasons
    /\ Sealed \notin m.seasons /\ \A s \in m.seasons : s <= Cutoff

DataOK ==
    /\ matches \in Revisions /\ features \in Revisions \cup {None}
    /\ revised \in 0 .. MaxRevised

FilesOK ==
    /\ DOMAIN files = Kinds
    /\ \A k \in Kinds : IsModel(files[k]) => SoundModel(files[k], k)

BuildsOK ==
    /\ DOMAIN builds = Kinds
    /\ \A k \in Kinds : builds[k] # None =>
          /\ SoundModel(builds[k].model, k)
          /\ builds[k].left \in Lefts
          /\ files[k] = IF Head(builds[k].left) = "artifact" THEN Damaged
                        ELSE builds[k].model

CacheOK ==
    /\ DOMAIN cache = Workers /\ DOMAIN served = Workers
    /\ \A w \in Workers : DOMAIN cache[w] = Kinds /\ DOMAIN served[w] = Kinds
    /\ \A w \in Workers : \A k \in Kinds :
          /\ cache[w][k] # None => SoundModel(cache[w][k], k)
          /\ \/ served[w][k] = {}
             \/ cache[w][k] # None /\ served[w][k] = {cache[w][k]}

AnswerOK ==
    answer # None =>
        /\ answer.worker \in Workers /\ answer.kind \in Kinds
        /\ answer.model # None => SoundModel(answer.model, answer.kind)
        /\ answer.status \in {"unavailable", "error"} =>
              served[answer.worker][answer.kind] = {}

IInv == DataOK /\ FilesOK /\ BuildsOK /\ CacheOK /\ AnswerOK

LEMMA InitInv == Init => IInv
  BY ModelAssumption
  DEF Init, IInv, DataOK, FilesOK, BuildsOK, CacheOK, AnswerOK, IsModel

-----------------------------------------------------------------------------
(* Building.                                                               *)

\* What the checks before a fit let through is sound, whatever the data.
LEMMA FittedIsSound ==
    ASSUME DataOK, NEW kind \in Kinds, kind = "trio" => features # None,
           Trainable(TrainingSeasons(kind))
    PROVE  SoundModel(Fitted(kind), kind)
  <1>1. TrainingSeasons(kind) \subseteq Nat
    BY ModelAssumption DEF DataOK, Kinds, TrainingSeasons
  <1>2. QED
    BY <1>1 DEF Trainable, Fitted, SoundModel

\* The data change: no model does.
LEMMA DataInv ==
    ASSUME IInv, Reprocess \/ BuildFeatures
    PROVE  IInv'
  <1>1. DataOK'
    <2>1. CASE Reprocess
      BY <2>1, ModelAssumption DEF IInv, DataOK, Reprocess
    <2>2. CASE BuildFeatures
      BY <2>2 DEF IInv, DataOK, BuildFeatures
    <2>3. QED
      BY <2>1, <2>2
  <1>2. UNCHANGED <<files, builds, cache, served>> /\ answer' = None
    BY DEF Reprocess, BuildFeatures
  <1>3. QED
    BY <1>1, <1>2 DEF IInv, FilesOK, BuildsOK, CacheOK, AnswerOK, IsModel, SoundModel

LEMMA StartBuildInv ==
    ASSUME IInv, NEW kind \in Kinds, StartBuild(kind)
    PROVE  IInv'
  <1>1. SoundModel(Fitted(kind), kind)
    BY FittedIsSound DEF IInv, StartBuild
  <1>2. WritesOf(kind) \in Lefts /\ Head(WritesOf(kind)) = "artifact"
    BY DEF WritesOf, Lefts
  <1>3. UNCHANGED <<matches, features, cache, served, revised>> /\ answer' = None
    BY DEF StartBuild
  <1>4. /\ builds' = [builds EXCEPT ![kind] = [model |-> Fitted(kind), left |-> WritesOf(kind)]]
        /\ files' = [files EXCEPT ![kind] = Damaged]
    BY DEF StartBuild
  <1>5. FilesOK'
    BY <1>4 DEF IInv, FilesOK, IsModel, SoundModel
  <1>6. BuildsOK'
    BY <1>1, <1>2, <1>4 DEF IInv, FilesOK, BuildsOK, SoundModel
  <1>7. DataOK' /\ CacheOK' /\ AnswerOK'
    BY <1>3 DEF IInv, DataOK, CacheOK, AnswerOK, SoundModel
  <1>8. QED
    BY <1>5, <1>6, <1>7 DEF IInv

\* What is left to write after the first file is the sidecar.
LEMMA AfterHead ==
    ASSUME NEW left \in Lefts, Len(left) # 1
    PROVE  Head(left) = "artifact" /\ Tail(left) = <<"sidecar">>
  <1>1. Len(<<"artifact">>) = 1 /\ Len(<<"sidecar">>) = 1
    OBVIOUS
  <1>2. left = <<"artifact", "sidecar">>
    BY <1>1 DEF Lefts
  <1>3. Tail(<<"artifact", "sidecar">>) = <<"sidecar">>
    OBVIOUS
  <1>4. QED
    BY <1>2, <1>3

LEMMA WriteFileInv ==
    ASSUME IInv, NEW kind \in Kinds, WriteFile(kind)
    PROVE  IInv'
  <1> DEFINE model == builds[kind].model
             left == builds[kind].left
  <1>1. SoundModel(model, kind) /\ left \in Lefts
    BY DEF IInv, BuildsOK, WriteFile
  <1>2. UNCHANGED <<matches, features, cache, served, revised>> /\ answer' = None
    BY DEF WriteFile
  <1>3. /\ files' = IF Head(left) = "artifact" THEN [files EXCEPT ![kind] = model] ELSE files
        /\ builds' = [builds EXCEPT ![kind] =
                        IF Len(left) = 1 THEN None ELSE [model |-> model, left |-> Tail(left)]]
    BY DEF WriteFile
  <1>4. FilesOK'
    BY <1>1, <1>3 DEF IInv, FilesOK, IsModel, SoundModel
  <1>5. BuildsOK'
    <2>1. DOMAIN builds' = Kinds
      BY <1>3 DEF IInv, BuildsOK
    <2>2. ASSUME NEW k \in Kinds, builds'[k] # None, k # kind
          PROVE  builds'[k] = builds[k] /\ files'[k] = files[k]
      BY <1>3, <2>2 DEF IInv, BuildsOK, FilesOK
    <2>3. ASSUME builds'[kind] # None
          PROVE  /\ builds'[kind] = [model |-> model, left |-> <<"sidecar">>]
                 /\ files'[kind] = model
      BY <1>1, <1>3, <2>3, AfterHead DEF IInv, BuildsOK, FilesOK
    <2>4. Head(<<"sidecar">>) # "artifact" /\ <<"sidecar">> \in Lefts
      BY DEF Lefts
    <2>5. ASSUME NEW k \in Kinds, builds'[k] # None
          PROVE  /\ SoundModel(builds'[k].model, k)
                 /\ builds'[k].left \in Lefts
                 /\ files'[k] = IF Head(builds'[k].left) = "artifact" THEN Damaged
                                ELSE builds'[k].model
      <3>1. CASE k = kind
        BY <1>1, <2>3, <2>4, <2>5, <3>1
      <3>2. CASE k # kind
        BY <2>2, <2>5, <3>2 DEF IInv, BuildsOK
      <3>3. QED
        BY <3>1, <3>2
    <2>6. QED
      BY <2>1, <2>5 DEF BuildsOK, SoundModel
  <1>6. DataOK' /\ CacheOK' /\ AnswerOK'
    BY <1>2 DEF IInv, DataOK, CacheOK, AnswerOK, SoundModel
  <1>7. QED
    BY <1>4, <1>5, <1>6 DEF IInv

LEMMA InterruptInv ==
    ASSUME IInv, NEW kind \in Kinds, Interrupt(kind)
    PROVE  IInv'
  <1>1. UNCHANGED <<matches, features, files, cache, served, revised>> /\ answer' = None
    BY DEF Interrupt
  <1>2. builds' = [builds EXCEPT ![kind] = None]
    BY DEF Interrupt
  <1>3. BuildsOK'
    BY <1>1, <1>2 DEF IInv, BuildsOK, SoundModel
  <1>4. DataOK' /\ FilesOK' /\ CacheOK' /\ AnswerOK'
    BY <1>1 DEF IInv, DataOK, FilesOK, CacheOK, AnswerOK, IsModel, SoundModel
  <1>5. QED
    BY <1>3, <1>4 DEF IInv

-----------------------------------------------------------------------------
(* Serving.                                                                *)

LEMMA RestartInv ==
    ASSUME IInv, NEW w \in Workers, Restart(w)
    PROVE  IInv'
  <1>1. UNCHANGED <<matches, features, files, sidecar, builds, revised>> /\ answer' = None
    BY DEF Restart
  <1>2. CacheOK'
    BY DEF Restart, IInv, CacheOK, SoundModel
  <1>3. QED
    BY <1>1, <1>2
    DEF IInv, DataOK, FilesOK, BuildsOK, AnswerOK, IsModel, SoundModel

LEMMA UnavailableInv ==
    ASSUME IInv, NEW w \in Workers, NEW kind \in Kinds, Unavailable(w, kind)
    PROVE  IInv'
  <1>1. UNCHANGED <<matches, features, files, sidecar, builds, cache, served, revised>>
    BY DEF Unavailable
  <1>2. PICK status \in Failures(kind, files[kind]) :
          answer' = [worker |-> w, kind |-> kind, status |-> status,
                     clubs |-> <<>>, keys |-> <<>>, model |-> None]
    BY DEF Unavailable
  <1>3. served[w][kind] = {}
    BY DEF Unavailable, Kept, IInv, CacheOK
  <1>4. AnswerOK'
    BY <1>1, <1>2, <1>3 DEF AnswerOK
  <1>5. QED
    BY <1>1, <1>4 DEF IInv, DataOK, FilesOK, BuildsOK, CacheOK, IsModel, SoundModel

LEMMA AnsweredInv ==
    ASSUME IInv, NEW w \in Workers, NEW kind \in Kinds, NEW artifact,
           artifact = Loaded(w, kind),
           Kept(w, kind) # None \/ Intact(files[kind]),
           cache' = [cache EXCEPT ![w][kind] = artifact],
           served' = [served EXCEPT ![w][kind] = @ \cup {artifact}],
           answer'.worker = w, answer'.kind = kind, answer'.model = artifact,
           answer'.status \in {"ok", "not in model"},
           UNCHANGED <<matches, features, files, sidecar, builds, revised>>
    PROVE  IInv'
  <1>1. SoundModel(artifact, kind) /\ artifact # None
    <2>1. CASE Kept(w, kind) # None
      <3>1. artifact = cache[w][kind] /\ artifact # None
        BY <2>1 DEF Kept, Loaded
      <3>2. cache[w][kind] # None => SoundModel(cache[w][kind], kind)
        BY DEF IInv, CacheOK
      <3>3. QED
        BY <3>1, <3>2
    <2>2. CASE Kept(w, kind) = None
      <3>1. artifact = files[kind] /\ IsModel(artifact)
        BY <2>2 DEF Loaded, Intact, Contract, IsModel
      <3>2. QED
        BY <3>1 DEF IInv, FilesOK, IsModel
    <2>3. QED
      BY <2>1, <2>2
  <1>2. cache[w][kind] # None => artifact = cache[w][kind]
    BY DEF Loaded, Kept
  <1>4. CacheOK'
    <2>1. /\ DOMAIN cache' = Workers /\ DOMAIN served' = Workers
          /\ \A v \in Workers : DOMAIN cache'[v] = Kinds /\ DOMAIN served'[v] = Kinds
      BY DEF IInv, CacheOK
    <2>2. ASSUME NEW v \in Workers, NEW k \in Kinds, v # w \/ k # kind
          PROVE  cache'[v][k] = cache[v][k] /\ served'[v][k] = served[v][k]
      BY <2>2 DEF IInv, CacheOK
    <2>3. /\ cache'[w][kind] = artifact
          /\ served'[w][kind] = served[w][kind] \cup {artifact}
      BY DEF IInv, CacheOK
    <2>4. served'[w][kind] = {artifact}
      BY <1>2, <2>3 DEF IInv, CacheOK
    <2>5. ASSUME NEW v \in Workers, NEW k \in Kinds
          PROVE  (/\ cache[v][k] # None => SoundModel(cache[v][k], k)
                  /\ \/ served[v][k] = {}
                     \/ cache[v][k] # None /\ served[v][k] = {cache[v][k]})'
      <3>1. CASE v = w /\ k = kind
        BY <1>1, <2>3, <2>4, <3>1 DEF SoundModel
      <3>2. CASE v # w \/ k # kind
        <4>1. /\ cache[v][k] # None => SoundModel(cache[v][k], k)
              /\ \/ served[v][k] = {}
                 \/ cache[v][k] # None /\ served[v][k] = {cache[v][k]}
          BY DEF IInv, CacheOK
        <4>2. cache'[v][k] = cache[v][k] /\ served'[v][k] = served[v][k]
          BY <2>2, <3>2
        <4>3. QED
          BY <4>1, <4>2 DEF SoundModel
      <3>3. QED
        BY <3>1, <3>2
    <2>6. QED
      BY <2>1, <2>5 DEF CacheOK
  <1>5. AnswerOK'
    BY <1>1 DEF AnswerOK, SoundModel
  <1>6. QED
    BY <1>4, <1>5 DEF IInv, DataOK, FilesOK, BuildsOK, IsModel, SoundModel

LEMMA PredictInv ==
    ASSUME IInv, NEW w \in Workers,
           PredictOutcome(w) \/ \E home, away \in Clubs : PredictScoreline(w, home, away)
    PROVE  IInv'
  <1>1. ASSUME PredictOutcome(w) PROVE IInv'
    <2>1. PICK artifact : artifact = Loaded(w, "trio")
      OBVIOUS
    <2>2. /\ cache' = [cache EXCEPT ![w]["trio"] = artifact]
          /\ served' = [served EXCEPT ![w]["trio"] = @ \cup {artifact}]
          /\ answer'.worker = w /\ answer'.kind = "trio" /\ answer'.model = artifact
          /\ answer'.status \in {"ok", "not in model"}
          /\ UNCHANGED <<matches, features, files, sidecar, builds, revised>>
      BY <1>1, <2>1 DEF PredictOutcome, Answered
    <2>3. QED
      BY <1>1, <2>1, <2>2, AnsweredInv DEF PredictOutcome, Kinds
  <1>2. ASSUME NEW home \in Clubs, NEW away \in Clubs, PredictScoreline(w, home, away)
        PROVE  IInv'
    <2>1. PICK artifact : artifact = Loaded(w, "scoreline")
      OBVIOUS
    <2>2. ScorelineOutcome(artifact, home, away).status \in {"ok", "not in model"}
      BY DEF ScorelineOutcome
    <2>3. /\ cache' = [cache EXCEPT ![w]["scoreline"] = artifact]
          /\ served' = [served EXCEPT ![w]["scoreline"] = @ \cup {artifact}]
          /\ answer'.worker = w /\ answer'.kind = "scoreline" /\ answer'.model = artifact
          /\ answer'.status \in {"ok", "not in model"}
          /\ UNCHANGED <<matches, features, files, sidecar, builds, revised>>
      BY <1>2, <2>1, <2>2 DEF PredictScoreline, Answered
    <2>4. QED
      BY <1>2, <2>1, <2>3, AnsweredInv DEF PredictScoreline, Kinds
  <1>3. QED
    BY <1>1, <1>2

LEMMA NextInv == IInv /\ [Next]_vars => IInv'
  <1> SUFFICES ASSUME IInv, [Next]_vars PROVE IInv'
    OBVIOUS
  <1>1. CASE UNCHANGED vars
    BY <1>1 DEF vars, IInv, DataOK, FilesOK, BuildsOK, CacheOK, AnswerOK, IsModel, SoundModel
  <1>2. ASSUME NEW kind \in Kinds, StartBuild(kind) \/ WriteFile(kind) \/ Interrupt(kind)
        PROVE  IInv'
    BY <1>2, StartBuildInv, WriteFileInv, InterruptInv
  <1>3. ASSUME NEW w \in Workers, Restart(w) \/ \E kind \in Kinds : Unavailable(w, kind)
        PROVE  IInv'
    BY <1>3, RestartInv, UnavailableInv
  <1>4. QED
    BY <1>1, <1>2, <1>3, DataInv, PredictInv DEF Next

THEOREM AlwaysIInv == Spec => []IInv
  BY InitInv, NextInv, PTL DEF Spec

-----------------------------------------------------------------------------
\* The files of a build are what it has written so far, and nothing is kept or
\* loaded under the other kind (save_strength_trio_artifact, get_artifact).
THEOREM TypeCorrect == Spec => []TypeOK
  <1>1. IInv => TypeOK
    BY DEF IInv, DataOK, FilesOK, BuildsOK, CacheOK, TypeOK, SoundModel
  <1>2. QED
    BY <1>1, AlwaysIInv, PTL

\* Every answer states the last season that its model was fitted on, though the
\* code states a constant, and the sealed season is in none, for all data.
THEOREM CutoffAlwaysTrue == Spec => []StatedCutoffIsTrue
  <1>1. ASSUME NEW m, NEW kind, SoundModel(m, kind)
        PROVE  Max(m.seasons) = m.states /\ Sealed \notin m.seasons
    <2>1. \A x \in m.seasons : (\A y \in m.seasons : x >= y) => x = Cutoff
      BY <1>1, ModelAssumption DEF SoundModel
    <2>2. Cutoff \in m.seasons /\ \A y \in m.seasons : Cutoff >= y
      BY <1>1, ModelAssumption DEF SoundModel
    <2>3. Max(m.seasons) = Cutoff
      BY <2>1, <2>2 DEF Max
    <2>4. QED
      BY <1>1, <2>3 DEF SoundModel
  <1>2. IInv => StatedCutoffIsTrue
    BY <1>1 DEF IInv, AnswerOK, StatedCutoffIsTrue
  <1>3. QED
    BY <1>2, AlwaysIInv, PTL

\* "Load once per process": a process that has answered with a model answers
\* with it until it ends, for any number of processes and builds.
THEOREM OneModelForLife == Spec => []OneModelPerProcess
  <1>1. IInv => OneModelPerProcess
    <2> SUFFICES ASSUME IInv PROVE OneModelPerProcess
      OBVIOUS
    <2>1. ASSUME NEW w \in Workers, NEW k \in Kinds
          PROVE  Cardinality(served[w][k]) <= 1
      <3>1. CASE served[w][k] = {}
        BY <3>1, FS_EmptySet
      <3>2. CASE served[w][k] = {cache[w][k]}
        <4>1. Cardinality({cache[w][k]}) = 1
          BY FS_Singleton
        <4>2. QED
          BY <3>2, <4>1
      <3>3. QED
        BY <3>1, <3>2 DEF IInv, CacheOK
    <2>2. QED
      BY <2>1 DEF IInv, AnswerOK, OneModelPerProcess
  <1>2. QED
    BY <1>1, AlwaysIInv, PTL

-----------------------------------------------------------------------------
(* Scorelines.                                                             *)

\* An answer with a scoreline model is what _resolve_to_fitted_team makes of
\* the two clubs.
ScorelineOK ==
    answer # None /\ answer.kind = "scoreline" /\ answer.model # None =>
        \E home, away \in Clubs :
            LET outcome == ScorelineOutcome(answer.model, home, away) IN
            /\ answer.clubs = <<home, away>>
            /\ answer.status = outcome.status /\ answer.keys = outcome.keys

LEMMA LeastOf ==
    ASSUME NEW S \in SUBSET Nat, S # {}
    PROVE  Min(S) \in S
  <1>1. PICK n \in S : \A m \in S : ~(<<m, n>> \in OpToRel(<, Nat))
    BY WFMin, NatLessThanWellFounded
  <1>2. ASSUME NEW m \in S, m < n PROVE FALSE
    <2>1. <<m, n>> \in OpToRel(<, Nat)
      BY <1>2 DEF OpToRel
    <2>2. QED
      BY <1>1, <2>1
  <1>3. n \in S /\ \A m \in S : n <= m
    BY <1>2
  <1>4. QED
    BY <1>3 DEF Min

\* A club is looked up under a spelling of its own that the model was fitted
\* on, if there is one.
LEMMA KeyIsFitted ==
    ASSUME NEW club \in Clubs, NEW artifact
    PROVE  /\ KeyOf(club, artifact) # None <=>
                 \E i \in DOMAIN Names[club] : Names[club][i] \in artifact.teams
           /\ KeyOf(club, artifact) # None =>
                 /\ KeyOf(club, artifact) \in artifact.teams
                 /\ \E i \in DOMAIN Names[club] : Names[club][i] = KeyOf(club, artifact)
  <1> DEFINE fitted == FittedNames(club, artifact)
  <1>1. /\ fitted \subseteq DOMAIN Names[club] /\ fitted \subseteq Nat
        /\ \A i \in DOMAIN Names[club] : Names[club][i] # None
        /\ \A i \in DOMAIN Names[club] : i \in fitted <=> Names[club][i] \in artifact.teams
    BY ModelAssumption DEF FittedNames
  <1>2. KeyOf(club, artifact) = IF fitted = {} THEN None ELSE Names[club][Min(fitted)]
    BY DEF KeyOf
  <1> HIDE DEF fitted
  <1>3. fitted # {} => Min(fitted) \in fitted
    BY <1>1, LeastOf
  <1>4. QED
    BY <1>1, <1>2, <1>3

\* A prediction says what becomes of its two clubs; every other step answers
\* nothing, with no model, or with the other kind.
LEMMA ScorelineStep ==
    ASSUME ScorelineOK, [Next]_vars
    PROVE  ScorelineOK'
  <1>1. CASE UNCHANGED vars
    BY <1>1 DEF vars, ScorelineOK
  <1>2. CASE answer' = None
    BY <1>2 DEF ScorelineOK
  <1>3. ASSUME NEW w \in Workers, NEW kind \in Kinds, Unavailable(w, kind)
        PROVE  ScorelineOK'
    <2>1. answer'.model = None
      BY <1>3 DEF Unavailable
    <2>2. QED
      BY <2>1 DEF ScorelineOK
  <1>4. ASSUME NEW w \in Workers, PredictOutcome(w)
        PROVE  ScorelineOK'
    <2>1. answer'.kind = "trio"
      BY <1>4 DEF PredictOutcome, Answered
    <2>2. QED
      BY <2>1 DEF ScorelineOK
  <1>5. ASSUME NEW w \in Workers, NEW home \in Clubs, NEW away \in Clubs,
               PredictScoreline(w, home, away)
        PROVE  ScorelineOK'
    <2> DEFINE artifact == Loaded(w, "scoreline")
               outcome == ScorelineOutcome(artifact, home, away)
    <2>1. answer' = [worker |-> w, kind |-> "scoreline", status |-> outcome.status,
                     clubs |-> <<home, away>>, keys |-> outcome.keys, model |-> artifact]
      BY <1>5 DEF PredictScoreline, Answered
    <2> HIDE DEF artifact
    <2>2. /\ answer'.model = artifact /\ answer'.clubs = <<home, away>>
          /\ answer'.status = outcome.status /\ answer'.keys = outcome.keys
      BY <2>1
    <2>3. \E h, a \in Clubs :
             /\ answer'.clubs = <<h, a>>
             /\ answer'.status = ScorelineOutcome(answer'.model, h, a).status
             /\ answer'.keys = ScorelineOutcome(answer'.model, h, a).keys
      BY <2>2
    <2>4. QED
      BY <2>3 DEF ScorelineOK
  <1>6. ASSUME Next PROVE ScorelineOK'
    <2>1. CASE Reprocess \/ BuildFeatures
      BY <1>2, <2>1 DEF Reprocess, BuildFeatures
    <2>2. ASSUME NEW kind \in Kinds, StartBuild(kind) \/ WriteFile(kind) \/ Interrupt(kind)
          PROVE  ScorelineOK'
      BY <1>2, <2>2 DEF StartBuild, WriteFile, Interrupt
    <2>3. ASSUME NEW w \in Workers, Restart(w) PROVE ScorelineOK'
      BY <1>2, <2>3 DEF Restart
    <2>4. QED
      BY <1>3, <1>4, <1>5, <1>6, <2>1, <2>2, <2>3 DEF Next
  <1>7. QED
    BY <1>1, <1>6

\* A scoreline is of two clubs that its model was fitted on, each under a
\* spelling of its own, and a club that has one in the model is never turned
\* away, for any registry and any data (_resolve_to_fitted_team).
THEOREM NeverFromThePrior == Spec => []NoScorelineFromThePrior
  <1>1. Init => ScorelineOK
    BY DEF Init, ScorelineOK
  <1>2. ScorelineOK => NoScorelineFromThePrior
    <2> SUFFICES ASSUME ScorelineOK, answer # None, answer.kind = "scoreline",
                        answer.model # None
                 PROVE  LET known(club) == \E i \in DOMAIN Names[club] :
                                              Names[club][i] \in answer.model.teams IN
                        /\ answer.status = "ok" <=> \A n \in 1 .. 2 : known(answer.clubs[n])
                        /\ \A n \in DOMAIN answer.keys :
                              /\ answer.keys[n] \in answer.model.teams
                              /\ \E i \in DOMAIN Names[answer.clubs[n]] :
                                    Names[answer.clubs[n]][i] = answer.keys[n]
      BY DEF NoScorelineFromThePrior
    <2> DEFINE model == answer.model
               known(club) == \E i \in DOMAIN Names[club] : Names[club][i] \in model.teams
               outcome(h, a) == ScorelineOutcome(model, h, a)
    <2>1. PICK home \in Clubs, away \in Clubs :
            /\ answer.clubs = <<home, away>>
            /\ answer.status = outcome(home, away).status
            /\ answer.keys = outcome(home, away).keys
      BY DEF ScorelineOK
    <2>2. \A club \in Clubs : KeyOf(club, model) # None <=> known(club)
      BY KeyIsFitted
    <2>3. outcome(home, away) =
            IF known(home) /\ known(away)
              THEN [status |-> "ok", keys |-> <<KeyOf(home, model), KeyOf(away, model)>>]
              ELSE [status |-> "not in model", keys |-> <<>>]
      BY <2>2 DEF ScorelineOutcome
    <2>4. answer.clubs[1] = home /\ answer.clubs[2] = away
      BY <2>1
    <2>5. (\A n \in 1 .. 2 : known(answer.clubs[n])) <=> known(home) /\ known(away)
      <3>1. 1 .. 2 = {1, 2}
        OBVIOUS
      <3> HIDE DEF known
      <3>2. QED
        BY <2>4, <3>1
    <2>6. CASE known(home) /\ known(away)
      <3> HIDE DEF known
      <3>1. /\ answer.status = "ok"
            /\ answer.keys = <<KeyOf(home, model), KeyOf(away, model)>>
        BY <2>1, <2>3, <2>6
      <3>2. \A n \in DOMAIN answer.keys :
               \E club \in Clubs : /\ club = answer.clubs[n] /\ known(club)
                                   /\ answer.keys[n] = KeyOf(club, model)
        BY <2>4, <2>6, <3>1
      <3>3. \A n \in DOMAIN answer.keys :
               /\ answer.keys[n] \in model.teams
               /\ \E i \in DOMAIN Names[answer.clubs[n]] :
                     Names[answer.clubs[n]][i] = answer.keys[n]
        <4> SUFFICES ASSUME NEW n \in DOMAIN answer.keys
                     PROVE  /\ answer.keys[n] \in model.teams
                            /\ \E i \in DOMAIN Names[answer.clubs[n]] :
                                  Names[answer.clubs[n]][i] = answer.keys[n]
          OBVIOUS
        <4>1. PICK club \in Clubs : /\ club = answer.clubs[n] /\ known(club)
                                    /\ answer.keys[n] = KeyOf(club, model)
          BY <3>2
        <4>2. KeyOf(club, model) # None
          BY <2>2, <4>1
        <4> HIDE DEF model
        <4>3. /\ KeyOf(club, model) \in model.teams
              /\ \E i \in DOMAIN Names[club] : Names[club][i] = KeyOf(club, model)
          BY <4>2, KeyIsFitted
        <4>4. QED
          BY <4>1, <4>3
      <3>4. answer.status = "ok" <=> \A n \in 1 .. 2 : known(answer.clubs[n])
        BY <2>5, <2>6, <3>1
      <3>5. QED
        BY <3>3, <3>4 DEF known
    <2>7. CASE ~(known(home) /\ known(away))
      <3>1. outcome(home, away) = [status |-> "not in model", keys |-> <<>>]
        BY <2>3, <2>7, Zenon
      <3>2. answer.status = "not in model" /\ answer.keys = <<>>
        <4>1. /\ [status |-> "not in model", keys |-> <<>>].status = "not in model"
              /\ [status |-> "not in model", keys |-> <<>>].keys = <<>>
          OBVIOUS
        <4> HIDE DEF outcome
        <4>2. QED
          BY <2>1, <3>1, <4>1, Zenon
      <3>3. answer.status # "ok" /\ DOMAIN answer.keys = {}
        <4>1. "not in model" # "ok" /\ DOMAIN <<>> = {}
          OBVIOUS
        <4>2. QED
          BY <3>2, <4>1
      <3>4. QED
        BY <2>5, <2>7, <3>3, Zenon
    <2>8. QED
      BY <2>6, <2>7
  <1>3. QED
    BY <1>1, <1>2, ScorelineStep, PTL DEF Spec
=============================================================================
