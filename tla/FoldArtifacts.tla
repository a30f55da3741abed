---------------------------- MODULE FoldArtifacts ----------------------------
(***************************************************************************)
(* How the features of a development fold come to be, and when they may be *)
(* trained on: the scripts download_data, process_data and build_features, *)
(* and the gate that load_fold puts before every training run              *)
(* (assert_artifact_valid_for over a parquet file and its JSON sidecar).   *)
(*                                                                         *)
(* A feature artifact is two files, written one after the other, and a     *)
(* script may be stopped between or during the two writes.  A frame of     *)
(* rows is represented by the revision of each season's results it was     *)
(* built from, and by the seasons that each season's Elo parameters were   *)
(* estimated from.  The artifacts of different paths do not touch each     *)
(* other, so there is one path here, that of one fold, and any build may   *)
(* be told to write there (--output).  Seasons are numbered in the order   *)
(* of their labels (_season_sort_key), which is the order of their dates.  *)
(***************************************************************************)
EXTENDS FiniteSetsExt, Functions, Integers

CONSTANTS
    Seasons,        \* the seasons of SEASONS
    Start,          \* EXPECTED_DATASET_START_SEASON
    Sealed,         \* SEALED_SEASON
    Cutoff,         \* INTENDED_TRAINING_CUTOFF, by evaluation season
    MinPrior,       \* MIN_PRIOR_SEASONS_FOR_ESTIMATION
    MinWindow,      \* the seasons estimate_elo_params needs
    Revisions,      \* the contents that a season's file may have
    Published,      \* by season, the contents the site may serve
    RowsOf,         \* by revision, the matches of the season in it
    Sound,          \* the revisions that pass validate_season_rows
    Fetches,        \* the sets of seasons that a run of download_data gets
    SourceChoices,  \* the sets of seasons that process_data is run for
    MaxBuilds,      \* bound: runs of build_features
    MaxProcessed,   \* bound: runs of process_data
    None, Damaged

EvaluationSeasons == DOMAIN Cutoff

\* DEVELOPMENT_FOLD_DEFINITIONS: the last fold is not loadable.
DevFolds == EvaluationSeasons \ {Sealed}

ASSUME SeasonAssumption ==
    /\ Seasons \subseteq Nat /\ IsFiniteSet(Seasons)
    /\ \E last \in Seasons : \A s \in Seasons : s <= last
    /\ Start \in Seasons /\ Sealed \in EvaluationSeasons
    /\ Cutoff \in [EvaluationSeasons -> Seasons]
    /\ \A s \in EvaluationSeasons : s \in Seasons /\ Cutoff[s] < s /\ s <= Sealed
    /\ \A s, t \in EvaluationSeasons : Cutoff[s] = Cutoff[t] => s = t
    /\ MinPrior \in Nat \ {0} /\ MinWindow \in Nat \ {0}

ASSUME SourceAssumption ==
    /\ Published \in [Seasons -> SUBSET Revisions]
    /\ RowsOf \in [Revisions -> Nat \ {0}] /\ Sound \subseteq Revisions
    /\ Fetches \subseteq SUBSET Seasons
    /\ SourceChoices \subseteq SUBSET Seasons /\ {} \notin SourceChoices
    /\ MaxBuilds \in Nat /\ MaxProcessed \in Nat
    /\ None \notin Revisions /\ None \notin Seasons /\ Damaged # None

VARIABLES
    raw,        \* data/raw: the revision of each season's file, or None
    matches,    \* matches.parquet: by season, the revision it was made from
    fold,       \* the fold, by its validation season: artifact_path_for_fold
    parquet,    \* the frame of features at its path
    sidecar,    \* the provenance record beside it
    script,     \* the build in progress: its frame and what it writes next
    torn,       \* the build that began to write there and has not ended
    builds,     \* runs of build_features so far
    processed   \* runs of process_data so far

vars == <<raw, matches, fold, parquet, sidecar, script, torn, builds, processed>>

-----------------------------------------------------------------------------
\* Elo parameters, represented by the seasons they were estimated from
\* (estimated_from_seasons); {} are the a-priori placeholders.

Through(source, s) == {t \in source : t <= s}
Earlier(source, s) == {t \in source : t < s}

\* estimate_elo_params: what it returns is computed from these seasons, and it
\* accepts the cutoff only if it is not sealed and history begins at its start.
Estimated(source, s) == Through(source, s)

Estimable(source, s) ==
    /\ s < Sealed
    /\ Min(source) = Start
    /\ s \in source
    /\ Cardinality(Through(source, s)) >= MinWindow

\* build_causal_elo_schedule over all seasons of the source.
Scheduled(source) ==
    [s \in source |->
        IF Cardinality(Earlier(source, s)) < MinPrior THEN {}
        ELSE Estimated(source, Max(Earlier(source, s)))]

\* _causal_violations finds none.
Causal(schedule) ==
    \A s \in DOMAIN schedule : \A t \in schedule[s] : t < Sealed /\ t < s

\* Every estimate that the schedule is made of is accepted.
ScheduleBuilds(source) ==
    /\ \A s \in source :
          Scheduled(source)[s] # {} => Estimable(source, Max(Earlier(source, s)))
    /\ Causal(Scheduled(source))

TrainingCutoff(params) == Max(params)

\* assert_params_precede and assert_intended_fold_pairing for one season.
Precede(params, s) == params # {} /\ TrainingCutoff(params) < s
IntendedFor(params, s) == s \in EvaluationSeasons /\ TrainingCutoff(params) = Cutoff[s]

-----------------------------------------------------------------------------
\* What a run of build_features makes of the matches.

Modes ==
    [kind : {"causal"}, through : Range(Cutoff)]
        \cup [kind : {"estimate"}, through : Seasons]
        \cup [kind : {"canonical"}, through : {None}]

\* intended_evaluation_seasons_for: a cutoff is paired with one season.
RowCap(mode) ==
    IF mode.kind = "causal"
    THEN CHOOSE s \in EvaluationSeasons : Cutoff[s] = mode.through
    ELSE None

\* The run gets past the parameters and the row cap.
Buildable(source, mode) ==
    CASE mode.kind = "causal" -> ScheduleBuilds(source) /\ RowCap(mode) \in source
      [] mode.kind = "estimate" -> Estimable(source, mode.through)
      [] OTHER -> TRUE

Kept(source, mode) ==
    IF mode.kind = "causal" THEN Through(source, RowCap(mode)) ELSE source

ParamsOf(source, mode) ==
    CASE mode.kind = "causal" -> Scheduled(source)
      [] mode.kind = "estimate" -> [s \in source |-> Estimated(source, mode.through)]
      [] OTHER -> [s \in source |-> {}]

\* The seasons of the rows with their revisions, and the parameters used.
FrameOf(frame, mode) ==
    LET kept == Kept(DOMAIN frame, mode) IN
    [rows |-> Restrict(frame, kept),
     params |-> Restrict(ParamsOf(DOMAIN frame, mode), kept)]

\* How many rows, numbered within their seasons, a frame has.
NRows(rows) == Cardinality(UNION {{s} \X (1 .. RowsOf[rows[s]]) : s \in DOMAIN rows})

\* build_provenance.  Of a schedule, the single-cutoff fields tell of its last
\* season, whatever the row cap.
Provenance(frame, mode) ==
    LET params == ParamsOf(DOMAIN frame, mode) IN
    [schedule |-> IF mode.kind = "causal" THEN params ELSE None,
     estimated |-> params[Max(DOMAIN frame)],
     valid |-> mode.kind # "canonical",
     cap |-> RowCap(mode),
     nRows |-> NRows(FrameOf(frame, mode).rows)]

\* What process_data may have written, and None and Damaged are no contents.
Matches == UNION {[source -> Sound] : source \in SourceChoices}

ASSUME TokenAssumption ==
    \A m \in Matches, mode \in Modes : \A force \in BOOLEAN :
        {None, Damaged} \cap {FrameOf(m, mode), Provenance(m, mode), Scheduled(DOMAIN m),
                              [provenance |-> Provenance(m, mode), force |-> force]} = {}

SameProvenance(p, q) ==
    p.estimated = q.estimated /\ p.valid = q.valid /\ p.cap = q.cap

\* Mutant of Refused: a missing sidecar is like an unreadable one.
RefusedWithout(provenance, force) ==
    /\ ~force /\ parquet # None
    /\ \/ sidecar \in {None, Damaged}
       \/ ~SameProvenance(sidecar, provenance)

\* Mutant of Refused: the estimated seasons are not compared.
RefusedButEstimated(provenance, force) ==
    /\ ~force /\ parquet # None /\ sidecar # None
    /\ \/ sidecar = Damaged
       \/ sidecar.valid # provenance.valid
       \/ sidecar.cap # provenance.cap

\* refuse_incompatible_overwrite
Refused(provenance, force) ==
    /\ ~force
    /\ parquet # None
    /\ sidecar # None
    /\ \/ sidecar = Damaged
       \/ ~SameProvenance(sidecar, provenance)

-----------------------------------------------------------------------------
\* The gate.

\* _assert_shared_artifact_checks
ContentsMatch(frame, provenance, s) ==
    /\ NRows(frame.rows) = provenance.nRows
    /\ s \in DOMAIN frame.rows

\* _assert_causal_artifact_valid_for
CausalArtifactValid(frame, provenance, s) ==
    /\ Causal(provenance.schedule)
    /\ provenance.valid
    /\ s \in DOMAIN provenance.schedule
    /\ Precede(provenance.schedule[s], s)
    /\ IntendedFor(provenance.schedule[s], s)
    /\ ContentsMatch(frame, provenance, s)
    /\ provenance.cap # None =>
          \A t \in DOMAIN frame.rows :
              t <= provenance.cap /\ (provenance.cap # Sealed => t # Sealed)

\* The other branch of assert_artifact_valid_for.
FixedArtifactValid(frame, provenance, s) ==
    /\ provenance.valid
    /\ Precede(provenance.estimated, s)
    /\ IntendedFor(provenance.estimated, s)
    /\ ContentsMatch(frame, provenance, s)

\* load_provenance
ProvenanceReadable == sidecar \notin {None, Damaged}

ArtifactValidFor(s) ==
    /\ ProvenanceReadable
    /\ parquet \notin {None, Damaged}
    /\ IF sidecar.schedule # None
       THEN CausalArtifactValid(parquet, sidecar, s)
       ELSE FixedArtifactValid(parquet, sidecar, s)

\* Mutant of LoadFold: an artifact of fixed parameters is let through.
LoadFoldAnyKind ==
    /\ ArtifactValidFor(fold)
    /\ \A t \in DOMAIN parquet.rows : t # Sealed /\ t <= fold

\* load_fold returns the fold.
LoadFold ==
    /\ ArtifactValidFor(fold)
    /\ sidecar.schedule # None
    /\ Sealed \notin DOMAIN parquet.rows
    /\ \A t \in DOMAIN parquet.rows \ {fold} : t < fold

\* A forced build was stopped between its two writes, or is there now.
ForcedTear == torn # None /\ torn.force

-----------------------------------------------------------------------------
Init ==
    /\ raw = [s \in Seasons |-> None]
    /\ matches = None
    /\ fold \in DevFolds
    /\ parquet = None
    /\ sidecar = None
    /\ script = None
    /\ torn = None
    /\ builds = 0
    /\ processed = 0

\* download_data fetches the seasons whose file is missing, or all with
\* --force; a file is replaced as a whole.  A season that fails leaves its
\* file as it was.
Download ==
    /\ processed < MaxProcessed     \* or nothing reads the files any more
    /\ \E got \in Fetches, force \in BOOLEAN :
          /\ force \/ \A s \in got : raw[s] = None
          /\ \E content \in [got -> Revisions] :
                /\ \A s \in got : content[s] \in Published[s]
                /\ raw' = [s \in Seasons |-> IF s \in got THEN content[s] ELSE raw[s]]
    /\ UNCHANGED <<fold, matches, parquet, sidecar, script, torn, builds, processed>>

\* Mutant of Processable: the rows are not checked.
ProcessableUnchecked(source) == \A s \in source : raw[s] # None

\* process_data writes nothing when a file is missing or a row is wrong.
Processable(source) == \A s \in source : raw[s] \in Sound

ProcessData(source) ==
    /\ processed < MaxProcessed
    /\ Processable(source)
    /\ matches' \in {[s \in source |-> raw[s]], Damaged}    \* or was stopped
    /\ processed' = processed + 1
    /\ UNCHANGED <<fold, raw, parquet, sidecar, script, torn, builds>>

\* build_features reads the matches and computes all it is going to write.
\* Whether the fold could be loaded at that time is kept for RebuildKeepsFold.
StartBuild(mode, force) ==
    /\ script = None
    /\ builds < MaxBuilds
    /\ matches \notin {None, Damaged}
    /\ Buildable(DOMAIN matches, mode)
    /\ LET provenance == Provenance(matches, mode) IN
       /\ ~Refused(provenance, force)
       /\ script' =
            [writes |-> "parquet", force |-> force,
             frame |-> FrameOf(matches, mode), provenance |-> provenance,
             loadable |-> LoadFold /\ ~ForcedTear]
    /\ builds' = builds + 1
    /\ UNCHANGED <<fold, raw, matches, parquet, sidecar, torn, processed>>

Began == [provenance |-> script.provenance, force |-> script.force]

WriteParquet ==
    /\ script # None /\ script.writes = "parquet"
    /\ parquet' = script.frame
    /\ torn' = Began
    /\ script' = [script EXCEPT !.writes = "sidecar"]
    /\ UNCHANGED <<fold, raw, matches, sidecar, builds, processed>>

WriteSidecar ==
    /\ script # None /\ script.writes = "sidecar"
    /\ sidecar' = script.provenance
    /\ torn' = None
    /\ script' = None
    /\ UNCHANGED <<fold, raw, matches, parquet, builds, processed>>

\* The script is stopped before its next write, or during it.
Interrupt ==
    /\ script # None
    /\ \/ /\ script.writes = "parquet"
          /\ parquet' \in {parquet, Damaged}
          /\ torn' = IF parquet' = parquet THEN torn ELSE Began
          /\ UNCHANGED sidecar
       \/ /\ script.writes = "sidecar"
          /\ sidecar' \in {sidecar, Damaged}
          /\ UNCHANGED <<parquet, torn>>
    /\ script' = None
    /\ UNCHANGED <<fold, raw, matches, builds, processed>>

Next ==
    \/ Download
    \/ \E source \in SourceChoices : ProcessData(source)
    \/ \E mode \in Modes, force \in BOOLEAN :
          StartBuild(mode, force)
    \/ WriteParquet
    \/ WriteSidecar
    \/ Interrupt

Spec == Init /\ [][Next]_vars

-----------------------------------------------------------------------------

IsMap(f, D, R) == DOMAIN f \subseteq D /\ f \in [DOMAIN f -> R]

IsFrame(f) ==
    /\ DOMAIN f = {"rows", "params"}
    /\ IsMap(f.rows, Seasons, Revisions) /\ IsMap(f.params, Seasons, SUBSET Seasons)
    /\ DOMAIN f.rows = DOMAIN f.params

IsProvenance(p) ==
    /\ DOMAIN p = {"schedule", "estimated", "valid", "cap", "nRows"}
    /\ p.schedule # None => IsMap(p.schedule, Seasons, SUBSET Seasons)
    /\ p.estimated \subseteq Seasons /\ p.valid \in BOOLEAN
    /\ p.cap \in EvaluationSeasons \cup {None} /\ p.nRows \in Nat

\* The types of the variables.  What a script writes lies within the seasons
\* it read, and only rows that passed validate_season_rows are ever processed
\* (process_data.py main).
TypeOK ==
    /\ raw \in [Seasons -> Revisions \cup {None}]
    /\ matches \notin {None, Damaged} => IsMap(matches, Seasons, Sound)
    /\ fold \in DevFolds
    /\ parquet \notin {None, Damaged} => IsFrame(parquet)
    /\ sidecar \notin {None, Damaged} => IsProvenance(sidecar)
    /\ torn # None => IsProvenance(torn.provenance) /\ torn.force \in BOOLEAN
    /\ script # None =>
          /\ script.writes \in {"parquet", "sidecar"}
          /\ script.force \in BOOLEAN /\ script.loadable \in BOOLEAN
          /\ IsFrame(script.frame) /\ IsProvenance(script.provenance)
    /\ builds \in 0 .. MaxBuilds /\ processed \in 0 .. MaxProcessed

\* What load_fold lets pass can be trained and evaluated on: the Elo features
\* of each row come from parameters of strictly earlier seasons, those of the
\* validation season from seasons up to exactly the approved cutoff, and
\* nothing of a later season is in the frame, whichever builds wrote the path
\* and wherever they were stopped.  It is the promise in the docstrings of
\* assert_artifact_valid_for and load_fold; only a build with --force that is
\* stopped between its two files can break it, for the row count is then all
\* that tells the new frame from the old sidecar.
AcceptedIsCausal ==
    LoadFold /\ ~ForcedTear =>
        LET params == parquet.params IN
        /\ fold \in DOMAIN params
        /\ \A s \in DOMAIN params : s <= fold /\ \A t \in params[s] : t < s
        /\ params[fold] # {} /\ Max(params[fold]) = Cutoff[fold]

\* A build that was stopped can be run again as it was, without --force, and
\* is then not refused: refuse_incompatible_overwrite compares the sidecar of
\* the build before it, or finds none.  Only a sidecar cut off in the middle
\* asks for --force.
InterruptedBuildCanBeRepeated ==
    torn # None /\ ~torn.force /\ sidecar # Damaged => ~Refused(torn.provenance, FALSE)

\* A build without --force that ends never takes a fold away: if load_fold
\* accepted the artifact that was there, it accepts the new one, though seasons
\* may have been revised, added or left out between the builds
\* (refuse_incompatible_overwrite, "REFUSED ... different provenance").  As in
\* AcceptedIsCausal, the two files must not be those of a forced build that was
\* stopped between them.
RebuildKeepsFold ==
    [][script # None /\ ~script.force /\ script.loadable /\ WriteSidecar
        => LoadFold']_vars

\* build_features docstring: "An artifact built with a single EloParams must
\* never be marked valid for model evaluation."
FixedParamsNeverValid ==
    sidecar \notin {None, Damaged} /\ sidecar.schedule = None => ~sidecar.valid
=============================================================================
