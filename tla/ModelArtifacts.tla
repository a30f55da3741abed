--------------------------- MODULE ModelArtifacts ---------------------------
(***************************************************************************)
(* The two frozen models: how build_model_artifacts (ml/explanations.py)   *)
(* and build_score_model_artifact (ml/score_model_artifact.py) fit and     *)
(* save them, and how the tools of a process (tools/prediction_tools.py,   *)
(* tools/scoreline_tools.py) load them, keep them and answer with them.    *)
(*                                                                         *)
(* A build runs in a process of its own, while others answer.  Neither     *)
(* file is written atomically.  A process keeps the first artifact that it *)
(* could load (lru_cache) until it ends, and never keeps a failure.  The   *)
(* endpoints are coroutines that do not await, so an answer is one step.   *)
(*                                                                         *)
(* Both models are to know the seasons up to Cutoff, and nothing of the    *)
(* sealed season.  The trio is fitted on the feature artifact of the last  *)
(* development fold, whose rows end with Cutoff, the scoreline model on    *)
(* the matches without the sealed season.                                  *)
(***************************************************************************)
EXTENDS FiniteSetsExt, Integers, Sequences

CONSTANTS
    Workers,    \* the processes that answer
    Revisions,  \* the contents that matches.parquet may have
    Original,   \* the first of them
    PlayedIn,   \* by revision and season, the clubs as they are spelled there
    Cutoff,     \* TRAINING_CUTOFF_SEASON
    Sealed,     \* SEALED_SEASON
    Clubs,      \* clubs of the registry
    Names,      \* by club: historical names, canonical name, aliases
    Minimum,    \* teams that a score model needs
    MaxRevised, \* bound: times the matches are processed anew
    None, Damaged, Outdated

Kinds == {"trio", "scoreline"}

ASSUME ModelAssumption ==
    /\ Original \in Revisions
    /\ \A r \in Revisions : \A s \in DOMAIN PlayedIn[r] : s \in Nat \ {0}
    /\ Cutoff \in Nat /\ Sealed \in Nat /\ Cutoff < Sealed
    /\ \A c \in Clubs : Names[c] # <<>> /\ DOMAIN Names[c] \subseteq Nat
    /\ \A c \in Clubs : \A i \in DOMAIN Names[c] : Names[c][i] # None
    \* TeamRegistry.register refuses a name of two clubs.
    /\ \A c, d \in Clubs : \A i \in DOMAIN Names[c], j \in DOMAIN Names[d] :
          Names[c][i] = Names[d][j] => c = d
    /\ Minimum \in Nat /\ MaxRevised \in Nat

VARIABLES
    matches,    \* the revision in matches.parquet
    features,   \* that of the last fold's feature artifact, None if refused
    files,      \* the artifact files
    sidecar,    \* the JSON file beside that of the trio
    builds,     \* by kind, the build that runs: its model, what is to write
    cache,      \* by worker and kind, what lru_cache holds
    served,     \* by worker and kind, the models that have answered
    answer,     \* the last answer
    revised

vars == <<matches, features, files, sidecar, builds, cache, served, answer, revised>>

-----------------------------------------------------------------------------
(* Building.                                                               *)

\* The seasons that a kind of model is fitted on: all rows of the feature
\* artifact, or the matches without the sealed season.
TrainingSeasons(kind) ==
    IF kind = "trio" THEN {s \in DOMAIN PlayedIn[features] : s <= Cutoff}
    ELSE DOMAIN PlayedIn[matches] \ {Sealed}

Spelled(revision, seasons) == UNION {PlayedIn[revision][s] : s \in seasons}

\* Mutant of Trainable: any last season before the sealed one.
TrainableThroughAny(seasons) == seasons # {} /\ \A s \in seasons : s < Sealed

\* The checks before the fit: the sealed season is absent and the last season
\* is the cutoff.
Trainable(seasons) ==
    /\ seasons # {} /\ Sealed \notin seasons
    /\ Cutoff \in seasons /\ \A s \in seasons : s <= Cutoff

\* What is fitted, with the provenance that is put beside it.  The cutoff it
\* states is a constant of the code.
Fitted(kind) ==
    LET revision == IF kind = "trio" THEN features ELSE matches IN
    [kind |-> kind, revision |-> revision, states |-> Cutoff,
     seasons |-> TrainingSeasons(kind),
     teams |-> Spelled(revision, TrainingSeasons(kind))]

\* Mutant of WritesOf: the sidecar first.
WritesSidecarFirst(kind) ==
    IF kind = "trio" THEN <<"sidecar", "artifact">> ELSE <<"artifact">>

\* save_strength_trio_artifact and save_score_model_artifact
WritesOf(kind) == IF kind = "trio" THEN <<"artifact", "sidecar">> ELSE <<"artifact">>

\* _validate_artifact_contract, of either module
Contract(artifact) ==
    /\ artifact # Outdated
    /\ artifact.states = Cutoff
    /\ Sealed \notin artifact.seasons

-----------------------------------------------------------------------------
(* Serving.                                                                *)

Intact(file) == file \notin {None, Damaged} /\ Contract(file)

\* What becomes of a file that cannot be loaded.  A pickle that is cut off may
\* raise what the tool does not catch; a JSON text that is cut off may not.
Failures(kind, file) ==
    IF kind = "trio" /\ file = Damaged THEN {"unavailable", "error"} ELSE {"unavailable"}

\* Mutant of Kept: the file is loaded for every request.
KeptNever(w, kind) == None

\* lru_cache: what the process has loaded before.
Kept(w, kind) == cache[w][kind]

FittedNames(club, artifact) ==
    {i \in DOMAIN Names[club] : Names[club][i] \in artifact.teams}

\* Mutant of KeyOf: the canonical name will do, fitted or not.
KeyOfAnyClub(club, artifact) == Names[club][1]

\* _resolve_to_fitted_team: the first spelling that the model was fitted on.
KeyOf(club, artifact) ==
    IF FittedNames(club, artifact) = {} THEN None
    ELSE Names[club][Min(FittedNames(club, artifact))]

\* get_scoreline_prediction looks at the home club first.  A club that is not in
\* the registry is for TeamScan and PitchMindAPI.
ScorelineOutcome(artifact, home, away) ==
    IF \E club \in {home, away} : KeyOf(club, artifact) = None
    THEN [status |-> "not in model", keys |-> <<>>]
    ELSE [status |-> "ok", keys |-> <<KeyOf(home, artifact), KeyOf(away, artifact)>>]

-----------------------------------------------------------------------------
Init ==
    /\ matches = Original
    /\ features \in {None, Original}
    /\ files \in [Kinds -> {None, Outdated}]
    /\ sidecar = None
    /\ builds = [k \in Kinds |-> None]
    /\ cache = [w \in Workers |-> [k \in Kinds |-> None]]
    /\ served = [w \in Workers |-> [k \in Kinds |-> {}]]
    /\ answer = None
    /\ revised = 0

\* process_data writes other matches.
Reprocess ==
    /\ revised < MaxRevised
    /\ matches' \in Revisions \ {matches}
    /\ revised' = revised + 1
    /\ answer' = None
    /\ UNCHANGED <<features, files, sidecar, builds, cache, served>>

\* build_features builds the artifact of the last fold, which needs the cutoff
\* season, or is stopped on the way: the gate of FoldArtifacts refuses it then.
BuildFeatures ==
    /\ features' \in {None} \cup {r \in {matches} : Cutoff \in DOMAIN PlayedIn[r]}
    /\ features' # features
    /\ answer' = None
    /\ UNCHANGED <<matches, files, sidecar, builds, cache, served, revised>>

\* A build has read, checked and fitted, has validated its artifact and has
\* opened the file for writing.  What is refused before leaves all as it was.
StartBuild(kind) ==
    /\ builds[kind] = None
    /\ kind = "trio" => features # None
    /\ Trainable(TrainingSeasons(kind))
    /\ kind = "scoreline" => Cardinality(Spelled(matches, TrainingSeasons(kind))) >= Minimum
    /\ Contract(Fitted(kind))
    /\ builds' = [builds EXCEPT ![kind] = [model |-> Fitted(kind), left |-> WritesOf(kind)]]
    /\ files' = [files EXCEPT ![kind] = Damaged]
    /\ answer' = None
    /\ UNCHANGED <<matches, features, sidecar, cache, served, revised>>

\* The next of its files is complete.
WriteFile(kind) ==
    /\ builds[kind] # None
    /\ LET model == builds[kind].model
           left == builds[kind].left
       IN
       /\ IF Head(left) = "artifact"
          THEN files' = [files EXCEPT ![kind] = model] /\ UNCHANGED sidecar
          ELSE sidecar' = model /\ UNCHANGED files
       /\ builds' = [builds EXCEPT ![kind] =
                        IF Len(left) = 1 THEN None ELSE [model |-> model, left |-> Tail(left)]]
    /\ answer' = None
    /\ UNCHANGED <<matches, features, cache, served, revised>>

\* A build is stopped, with whatever it has written.
Interrupt(kind) ==
    /\ builds[kind] # None
    /\ builds' = [builds EXCEPT ![kind] = None]
    /\ \/ UNCHANGED sidecar
       \/ Head(builds[kind].left) = "sidecar" /\ sidecar' = Damaged
    /\ answer' = None
    /\ UNCHANGED <<matches, features, files, cache, served, revised>>

\* A process ends and another takes its place.
Restart(w) ==
    /\ cache' = [cache EXCEPT ![w] = [k \in Kinds |-> None]]
    /\ served' = [served EXCEPT ![w] = [k \in Kinds |-> {}]]
    /\ answer' = None
    /\ UNCHANGED <<matches, features, files, sidecar, builds, revised>>

\* The artifact cannot be loaded: nothing is kept.
Unavailable(w, kind) ==
    /\ Kept(w, kind) = None
    /\ ~Intact(files[kind])
    /\ \E status \in Failures(kind, files[kind]) :
          answer' = [worker |-> w, kind |-> kind, status |-> status,
                     clubs |-> <<>>, keys |-> <<>>, model |-> None]
    /\ UNCHANGED <<matches, features, files, sidecar, builds, cache, served, revised>>

\* get_artifact: what is kept, or what the file has.
Loaded(w, kind) == IF Kept(w, kind) # None THEN Kept(w, kind) ELSE files[kind]

\* An answer from an artifact, which is kept from now on.
Answered(w, kind, clubs, outcome) ==
    LET artifact == Loaded(w, kind) IN
    /\ cache' = [cache EXCEPT ![w][kind] = artifact]
    /\ served' = [served EXCEPT ![w][kind] = @ \cup {artifact}]
    /\ answer' = [worker |-> w, kind |-> kind, status |-> outcome.status,
                  clubs |-> clubs, keys |-> outcome.keys, model |-> artifact]
    /\ UNCHANGED <<matches, features, files, sidecar, builds, revised>>

\* run_outcome_prediction and explain_outcome_prediction
PredictOutcome(w) ==
    /\ Kept(w, "trio") # None \/ Intact(files["trio"])
    /\ Answered(w, "trio", <<>>, [status |-> "ok", keys |-> <<>>])

\* get_scoreline_prediction
PredictScoreline(w, home, away) ==
    /\ Kept(w, "scoreline") # None \/ Intact(files["scoreline"])
    /\ Answered(w, "scoreline", <<home, away>>,
                ScorelineOutcome(Loaded(w, "scoreline"), home, away))

Next ==
    \/ Reprocess
    \/ BuildFeatures
    \/ \E kind \in Kinds : StartBuild(kind) \/ WriteFile(kind) \/ Interrupt(kind)
    \/ \E w \in Workers :
        \/ Restart(w)
        \/ \E kind \in Kinds : Unavailable(w, kind)
        \/ PredictOutcome(w)
        \/ \E home, away \in Clubs : PredictScoreline(w, home, away)

Spec == Init /\ [][Next]_vars

-----------------------------------------------------------------------------
IsModel(m) == m \notin {None, Damaged, Outdated}

\* The types of the variables: the file that a build has yet to write is cut
\* off, and the one that it has written is its model.
TypeOK ==
    /\ matches \in Revisions /\ features \in Revisions \cup {None}
    /\ \A k \in Kinds :
          /\ IsModel(files[k]) => files[k].kind = k
          /\ builds[k] # None =>
                files[k] = IF Head(builds[k].left) = "artifact" THEN Damaged
                           ELSE builds[k].model
    /\ \A w \in Workers : \A k \in Kinds : cache[w][k] # None => cache[w][k].kind = k
    /\ revised \in 0 .. MaxRevised

\* The cutoff that an answer states is the last season that its model was
\* fitted on, and it was fitted on nothing of the sealed season, although the
\* code states a constant and the data may end before or after it
\* (score_model_artifact.py, "on 2015/16-2024/25 ONLY"; ModelProvenance).
StatedCutoffIsTrue ==
    answer # None /\ answer.model # None =>
        /\ Max(answer.model.seasons) = answer.model.states
        /\ Sealed \notin answer.model.seasons

\* A process that has answered with a model answers with that model until it
\* ends: whatever builds run, are stopped, or replace the file, there is no
\* outage and no second model (lru_cache, "Load once per process").
OneModelPerProcess ==
    /\ \A w \in Workers : \A k \in Kinds : Cardinality(served[w][k]) <= 1
    /\ answer # None /\ answer.status \in {"unavailable", "error"} =>
          served[answer.worker][answer.kind] = {}

\* A scoreline is of two clubs that its model was fitted on, each under a
\* spelling of its own, and never from the prior for promoted clubs; and only a
\* club without any spelling in the model is turned away (scoreline_tools.py,
\* "UNSUPPORTED TEAMS").
NoScorelineFromThePrior ==
    answer # None /\ answer.kind = "scoreline" /\ answer.model # None =>
        LET known(club) == \E i \in DOMAIN Names[club] : Names[club][i] \in answer.model.teams IN
        /\ answer.status = "ok" <=> \A n \in 1 .. 2 : known(answer.clubs[n])
        /\ \A n \in DOMAIN answer.keys :
              /\ answer.keys[n] \in answer.model.teams
              /\ \E i \in DOMAIN Names[answer.clubs[n]] : Names[answer.clubs[n]][i] = answer.keys[n]

\* prediction_tools.py:44: "The API maps this to 503, never a traceback", and
\* :63, "so the serving layer has one thing to catch".
UnavailableIsTold == answer # None => answer.status # "error"
=============================================================================
