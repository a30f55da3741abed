----------------------------- MODULE Experiments -----------------------------
(***************************************************************************)
(* The experiments of ml/training.py, ml/score_models.py and               *)
(* ml/calibration.py, and the scripts that run them and write reports:     *)
(* train_models, train_score_models and run_calibration.                   *)
(*                                                                         *)
(* The two families of models are trained on different files, at different *)
(* times, and their out-of-fold predictions meet in load_meta_predictions. *)
(* The meta-layer is fitted on earlier seasons than those it is judged on. *)
(* A configuration is chosen from the losses of all configurations, by a   *)
(* rule with a statistical tie; a loss of a row is a number here, so that  *)
(* means, standard errors and their comparisons are exact.                 *)
(*                                                                         *)
(* A development fold is known by its validation season; season 0 stands   *)
(* for all the seasons before the first of them.                           *)
(***************************************************************************)
EXTENDS FiniteSetsExt, Integers, Sequences

CONSTANTS
    LastFold,       \* the development folds are 1 .. LastFold
    Revisions,      \* the contents that matches.parquet may have
    Original,       \* the first of them
    ResultsIn,      \* by revision and season, the result of each fixture
    ExpectedRows,   \* EXPECTED_ROWS
    MetaTrain,      \* META_FOLD_DEFINITIONS: evaluation season -> seasons
    RowsPerSeason,  \* rows of a season, the same for all
    Pools,          \* losses of the configurations tried, by family
    Complexity,     \* the complexity ranks, by family and model
    Baselines,      \* the models that are baselines
    Tables,         \* losses of the candidates of the meta-layer
    CandidateOrder, \* the order of CANDIDATES
    Incumbent,      \* INCUMBENT_CANDIDATE
    Parameters,     \* n_params of a candidate
    MaxRevised,     \* bound: times the matches are processed anew
    MaxScripts,     \* bound: scripts run
    None, Damaged, Complete

Folds == 1 .. LastFold
EvaluationSeasons == DOMAIN MetaTrain
Families == {"outcome", "scoreline"}
Candidates == {CandidateOrder[i] : i \in DOMAIN CandidateOrder}
LossesOver(seasons) == [seasons -> [1 .. RowsPerSeason -> Nat]]

ASSUME ExperimentAssumption ==
    /\ Original \in Revisions
    /\ LastFold \in Nat \ {0} /\ RowsPerSeason \in Nat \ {0}
    /\ ExpectedRows \in Nat \ {0}
    /\ \A r \in Revisions : \A s \in Folds :
          ResultsIn[r][s] = [fixture \in DOMAIN ResultsIn[r][s] |-> ResultsIn[r][s][fixture]]
    /\ EvaluationSeasons \subseteq Folds /\ EvaluationSeasons # {}
    /\ \A e \in EvaluationSeasons : MetaTrain[e] \subseteq Folds
    /\ \A k \in Families : Complexity[k] \in [DOMAIN Complexity[k] -> Nat]
    /\ \A k \in Families : \A pool \in Pools[k] :
          /\ pool # <<>>
          /\ pool \in Seq([model : DOMAIN Complexity[k], losses : LossesOver(Folds)])
    /\ \A table \in Tables : table \in [Candidates -> LossesOver(EvaluationSeasons)]
    /\ CandidateOrder \in Seq(Candidates)
    /\ Incumbent \in Candidates /\ Parameters \in [Candidates -> Nat]
    /\ MaxRevised \in Nat /\ MaxScripts \in Nat

VARIABLES
    matches,        \* the revision in matches.parquet
    artifacts,      \* by fold, the revision its feature artifact was built from
    predictions,    \* by family, the rows of its frozen configuration
    summary,        \* by report, the state of its summary
    script,         \* the script that runs: its report and what is to write
    decision,       \* what it has just decided, from which losses
    revised, scripts

vars == <<matches, artifacts, predictions, summary, script, decision, revised, scripts>>

-----------------------------------------------------------------------------
\* Comparing losses.  All seasons have as many rows, so that a sum orders as a
\* mean does.

SeasonLoss(losses, s) == SumFunction(losses[s])
MeanLoss(losses) == SumFunction([s \in DOMAIN losses |-> SeasonLoss(losses, s)])
WorstLoss(losses) == Max({SeasonLoss(losses, s) : s \in DOMAIN losses})

\* The variance over the seasons, up to a factor.
LossSpread(losses) ==
    Cardinality(DOMAIN losses)
        * SumFunction([s \in DOMAIN losses |-> SeasonLoss(losses, s) * SeasonLoss(losses, s)])
        - MeanLoss(losses) * MeanLoss(losses)

Diffs(a, b) ==
    [row \in (DOMAIN a) \X (1 .. RowsPerSeason) |-> a[row[1]][row[2]] - b[row[1]][row[2]]]

\* paired_log_loss_comparison: the sum of the differences, and whether their
\* mean is within two standard errors of zero.
SumDiff(a, b) == SumFunction(Diffs(a, b))

IsTie(a, b) ==
    LET diff == Diffs(a, b)
        n == Cardinality(DOMAIN diff)
        sum == SumDiff(a, b)
        squares == SumFunction([row \in DOMAIN diff |-> diff[row] * diff[row]])
    IN IF n * squares = sum * sum THEN sum = 0
       ELSE sum * sum * (n - 1) < 4 * (n * squares - sum * sum)

\* Tuples of numbers as Python compares them.
Before(a, b) ==
    \E n \in DOMAIN a : a[n] < b[n] /\ \A m \in 1 .. n - 1 : a[m] = b[m]

\* Python's sort is stable: what is equal stays in the order of the pool.
BestOf(pool) ==
    CHOOSE i \in DOMAIN pool : \A j \in DOMAIN pool \ {i} :
        Before(<<MeanLoss(pool[i].losses), i>>, <<MeanLoss(pool[j].losses), j>>)

TiedWithBest(pool) ==
    LET best == BestOf(pool) IN
    {best} \cup {i \in DOMAIN pool \ {best} : IsTie(pool[best].losses, pool[i].losses)}

TieKey(k, pool, i) ==
    LET losses == pool[i].losses IN
    <<WorstLoss(losses), Complexity[k][pool[i].model], LossSpread(losses),
      MeanLoss(losses), i>>

\* Mutant of Selected: the simplest, and the worst season afterwards.
SelectedSimplest(k, pool) ==
    CHOOSE i \in TiedWithBest(pool) : \A j \in TiedWithBest(pool) \ {i} :
        Before(Tail(TieKey(k, pool, i)), Tail(TieKey(k, pool, j)))

\* select_best_configuration and select_best_score_model
Selected(k, pool) ==
    CHOOSE i \in TiedWithBest(pool) : \A j \in TiedWithBest(pool) \ {i} :
        Before(TieKey(k, pool, i), TieKey(k, pool, j))

-----------------------------------------------------------------------------
\* The meta-layer.

ImprovesEverySeason(challenger, incumbent) ==
    \A e \in DOMAIN incumbent : SeasonLoss(challenger, e) < SeasonLoss(incumbent, e)

\* Mutant of Passes: the seasons are not looked at one by one.
PassesOnAverage(challenger, incumbent) ==
    /\ MeanLoss(challenger) < MeanLoss(incumbent)
    /\ ~IsTie(challenger, incumbent)
    /\ WorstLoss(challenger) <= WorstLoss(incumbent)

\* _challenger_verdict: all four conditions.
Passes(challenger, incumbent) ==
    /\ MeanLoss(challenger) < MeanLoss(incumbent)
    /\ ~IsTie(challenger, incumbent) /\ SumDiff(challenger, incumbent) < 0
    /\ ImprovesEverySeason(challenger, incumbent)
    /\ WorstLoss(challenger) <= WorstLoss(incumbent)

Qualifying(table) ==
    {i \in DOMAIN CandidateOrder :
        /\ CandidateOrder[i] # Incumbent
        /\ Passes(table[CandidateOrder[i]], table[Incumbent])}

CandidateKey(table, i) ==
    <<MeanLoss(table[CandidateOrder[i]]), Parameters[CandidateOrder[i]], i>>

\* select_best_candidate
SelectedCandidate(table) ==
    IF Qualifying(table) = {} THEN Incumbent
    ELSE CandidateOrder[CHOOSE i \in Qualifying(table) :
            \A j \in Qualifying(table) \ {i} :
                Before(CandidateKey(table, i), CandidateKey(table, j))]

-----------------------------------------------------------------------------
\* Mutant of TrainedOn: the validation rows stay in the training split.
TrainedOnAll(f) == 0 .. f

\* The seasons that the model of a fold is fitted on (load_fold and
\* load_score_fold): all that are strictly before its validation season.
TrainedOn(f) == 0 .. f - 1

Played(revision, s) == DOMAIN ResultsIn[revision][s] # {}

\* load_fold and load_score_fold need rows of the validation season, and of the
\* season before it, the training cutoff.
FoldsLoad(revisionOf) ==
    \A f \in Folds : \A s \in {f, f - 1} \cap Folds : Played(revisionOf[f], s)

\* Mutant of OutOfFold: the rows of the last fold for every fold.
OutOfFoldOfLast(revisionOf) ==
    [rows |-> [f \in Folds |-> ResultsIn[revisionOf[f]][LastFold]],
     trained |-> [f \in Folds |-> TrainedOn(f)]]

\* The rows that a family predicts for each fold, and what its models saw.
OutOfFold(revisionOf) ==
    [rows |-> [f \in Folds |-> ResultsIn[revisionOf[f]][f]],
     trained |-> [f \in Folds |-> TrainedOn(f)]]

CountRows(file) == SumFunction([f \in Folds |-> Cardinality(DOMAIN file.rows[f])])

\* _load_frozen_config
Loadable(file) == file \notin {None, Damaged} /\ CountRows(file) = ExpectedRows

\* Mutant of MergesOneToOne: the results need not agree.
MergesByFixture(a, b) == \A f \in Folds : DOMAIN a.rows[f] = DOMAIN b.rows[f]

\* The outer merge leaves no row alone, and both files tell the same results.
MergesOneToOne(a, b) ==
    \A f \in Folds :
        /\ DOMAIN a.rows[f] = DOMAIN b.rows[f]
        /\ \A fixture \in DOMAIN a.rows[f] : a.rows[f][fixture] = b.rows[f][fixture]

\* load_meta_predictions returns.
LoadsMetaPredictions ==
    /\ \A k \in Families : Loadable(predictions[k])
    /\ MergesOneToOne(predictions["outcome"], predictions["scoreline"])

\* The checks of run_meta_validation on its folds.
MetaFoldsInOrder ==
    \A e \in EvaluationSeasons :
        MetaTrain[e] # {} /\ e \notin MetaTrain[e] /\ \A s \in MetaTrain[e] : s < e

-----------------------------------------------------------------------------
\* Everything has been processed and built once, and nothing trained.
Init ==
    /\ matches = Original
    /\ artifacts = [f \in Folds |-> matches]
    /\ predictions = [k \in Families |-> None]
    /\ summary = [k \in Families \cup {"calibration"} |-> None]
    /\ script = None
    /\ decision = None
    /\ revised = 0
    /\ scripts = 0

\* download_data and process_data bring other results; the artifacts are
\* rebuilt one at a time (build_features --causal-through, see FoldArtifacts),
\* unless the fold's season is missing, or not at all.
Reprocess ==
    /\ revised < MaxRevised
    /\ matches' \in Revisions \ {matches}
    /\ revised' = revised + 1
    /\ UNCHANGED <<artifacts, predictions, summary, script, decision, scripts>>

Rebuild(f) ==
    /\ artifacts[f] # matches
    /\ Played(matches, f)
    /\ artifacts' = [artifacts EXCEPT ![f] = matches]
    /\ UNCHANGED <<matches, predictions, summary, script, decision, revised, scripts>>

Begin(report, file) ==
    /\ script = None
    /\ scripts < MaxScripts
    /\ script' = [report |-> report, file |-> file, left |-> <<"summary", "predictions">>]
    /\ scripts' = scripts + 1
    /\ UNCHANGED <<matches, artifacts, predictions, summary, revised>>

\* train_models: the artifacts of the three folds, each as it is.
TrainOutcome(pool) ==
    LET chosen == Selected("outcome", pool) IN
    /\ FoldsLoad(artifacts)
    /\ Begin("outcome", OutOfFold(artifacts))
    /\ decision' = [kind |-> "outcome", pool |-> pool, chosen |-> chosen]

\* train_score_models: the matches themselves.  The champion of stage 1 is read
\* from its summary for comparison, and a damaged one ends the script.
TrainScoreline(pool) ==
    LET chosen == Selected("scoreline", pool)
        revisionOf == [f \in Folds |-> matches]
    IN
    /\ FoldsLoad(revisionOf)
    /\ summary["outcome"] # Damaged
    /\ Begin("scoreline", OutOfFold(revisionOf))
    /\ decision' = [kind |-> "scoreline", pool |-> pool, chosen |-> chosen]

\* run_calibration.  What each candidate is judged by, season for season, was
\* fitted on the rows of earlier seasons.  A fit that does not converge, or is
\* worse than none, ends the script before anything is written.
Calibrate(table) ==
    LET selected == SelectedCandidate(table) IN
    /\ LoadsMetaPredictions
    /\ MetaFoldsInOrder
    /\ Begin("calibration", None)
    /\ decision' = [kind |-> "calibration", table |-> table, selected |-> selected,
                    outcome |-> predictions["outcome"],
                    scoreline |-> predictions["scoreline"]]

Written(file) ==
    IF file = "summary"
    THEN /\ summary' = [summary EXCEPT ![script.report] = Complete]
         /\ UNCHANGED predictions
    ELSE /\ predictions' = IF script.report = "calibration" THEN predictions
                           ELSE [predictions EXCEPT ![script.report] = script.file]
         /\ UNCHANGED summary

\* _write_reports, one file after the other.
WriteReport ==
    /\ script # None
    /\ Written(Head(script.left))
    /\ script' = IF Len(script.left) = 1 THEN None
                 ELSE [script EXCEPT !.left = Tail(@)]
    /\ decision' = None
    /\ UNCHANGED <<matches, artifacts, revised, scripts>>

\* The script is stopped before a file or in the middle of it.  Rows of the
\* frozen configuration that are missing or cut off are noticed by their count.
Interrupt ==
    /\ script # None
    /\ \/ UNCHANGED <<summary, predictions>>
       \/ /\ Head(script.left) = "summary"
          /\ summary' = [summary EXCEPT ![script.report] = Damaged]
          /\ UNCHANGED predictions
       \/ /\ Head(script.left) = "predictions" /\ script.report # "calibration"
          /\ predictions' = [predictions EXCEPT ![script.report] = Damaged]
          /\ UNCHANGED summary
    /\ script' = None
    /\ decision' = None
    /\ UNCHANGED <<matches, artifacts, revised, scripts>>

Next ==
    \/ Reprocess
    \/ \E f \in Folds : Rebuild(f)
    \/ \E pool \in Pools["outcome"] : TrainOutcome(pool)
    \/ \E pool \in Pools["scoreline"] : TrainScoreline(pool)
    \/ \E table \in Tables : Calibrate(table)
    \/ WriteReport
    \/ Interrupt

Spec == Init /\ [][Next]_vars

-----------------------------------------------------------------------------
IsOutOfFold(file) ==
    /\ DOMAIN file.rows = Folds /\ DOMAIN file.trained = Folds
    /\ \A f \in Folds : \E r \in Revisions : file.rows[f] = ResultsIn[r][f]

\* The types of the variables: the rows of each fold are those of its own
\* validation season, from one revision of the matches.
TypeOK ==
    /\ matches \in Revisions /\ artifacts \in [Folds -> Revisions]
    /\ \A k \in Families : predictions[k] \in {None, Damaged} \/ IsOutOfFold(predictions[k])
    /\ \A report \in DOMAIN summary : summary[report] \in {None, Damaged, Complete}
    /\ script # None =>
          /\ script.report \in DOMAIN summary
          /\ script.left \in {<<"summary", "predictions">>, <<"predictions">>}
    /\ revised \in 0 .. MaxRevised /\ scripts \in 0 .. MaxScripts

\* The meta-layer compares the two families on the same matches with the same
\* results, though each was trained at its own time, some artifacts may be from
\* before a correction of the data, and a script may have been stopped
\* (calibration docstring, "FAIR COMPARISON"; load_meta_predictions, "nothing
\* is silently dropped").
SameMatchesCompared ==
    decision # None /\ decision.kind = "calibration" =>
        /\ decision.outcome.rows = decision.scoreline.rows
        /\ CountRows(decision.outcome) = ExpectedRows

\* No number that the meta-layer is judged by depends on the season it is
\* judged on, or a later one: neither through the meta-parameters, nor through
\* the models whose predictions they were fitted on (calibration docstring,
\* "directly, or indirectly via a base model").
JudgedOutOfSample ==
    decision # None /\ decision.kind = "calibration" =>
        \A e \in EvaluationSeasons : \A s \in MetaTrain[e] \cup {e} :
            /\ s # e => s < e
            /\ \A t \in decision.outcome.trained[s] \cup decision.scoreline.trained[s] : t < e

\* The configuration that is selected is never clearly worse than another: it
\* is within the noise of the one with the least mean loss, its worst season is
\* no worse than that one's, and whatever is both better on average and better
\* in the worst season is out of the noise (training docstring, rules 1 to 3).
SelectedIsDefensible ==
    decision # None /\ decision.kind \in Families =>
        LET pool == decision.pool
            chosen == pool[decision.chosen].losses
        IN \A i \in DOMAIN pool :
            /\ MeanLoss(pool[i].losses) <= MeanLoss(chosen) =>
                  \/ WorstLoss(chosen) <= WorstLoss(pool[i].losses)
                  \/ i \notin TiedWithBest(pool)
            /\ (\A j \in DOMAIN pool : MeanLoss(pool[i].losses) < MeanLoss(pool[j].losses) \/ i = j)
                  => i = decision.chosen \/ IsTie(pool[i].losses, chosen)

\* The incumbent is replaced if and only if some challenger beats it in every
\* evaluation season and beyond two standard errors.  The code asks for four
\* conditions; with seasons of one length the lower mean and the worst season
\* follow.  And the one that replaces it would not be replaced by it again.
ReplacedOnlyByTheBetter ==
    decision # None /\ decision.kind = "calibration" =>
        LET table == decision.table IN
        /\ decision.selected # Incumbent <=>
              \E c \in Candidates :
                  /\ ImprovesEverySeason(table[c], table[Incumbent])
                  /\ ~IsTie(table[c], table[Incumbent])
        /\ ~Passes(table[Incumbent], table[decision.selected])

\* training.py:68: "Baseline names are absent (default rank 99), so a baseline
\* can still win outright on log loss, but never wins a tie against a real
\* model family."
BaselineNeverWinsATie ==
    decision # None /\ decision.kind = "outcome" =>
        LET pool == decision.pool IN
        pool[decision.chosen].model \in Baselines =>
            \A i \in TiedWithBest(pool) : pool[i].model \in Baselines
=============================================================================
