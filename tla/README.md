# PitchMind in TLA+

This directory is a verification project for PitchMind, a Premier League data
and prediction service (`src/backend/app`). It holds TLA+ models of the parts
with state and control worth checking, the TLC configurations that check them
on small instances, and proofs, checked by TLAPS, that the safety properties
hold for every value of the constants.

## 1. The system

```
 HTTP routes (api/main.py) ---- Depends ----> get_service (api/dependencies.py)
      |                                               |
      v                                               v
 deterministic tools (tools/*) ----------> FootballDataService (service.py)
      ^        |                                |             |
      |        v                                v             v
      |   frozen models (ml artifacts)     TTLCache      providers
      |                                   (cache.py)   football-data.org (current)
 agents: intents -> planner -> ToolExecutor            replay (live)
                                    |
                              EvidenceLedger
 offline: process_data -> feature_engineering -> datasets -> training,
          score_models -> calibration -> frozen artifacts
```

| Component | State | Operations | What makes it correct |
|---|---|---|---|
| TTL cache (`cache.py`) | entries with timestamps and a stale flag, three counters | `get_or_refresh`, `peek`, `store`, `invalidate`, `clear` | one provider request per window; a success is never lost; old data is flagged; errors surface only when nothing is cached |
| Service (`service.py`) | its cache | `get_standings`, `get_fixtures`, `get_live_matches`, freshness | each data kind has its own key and time to live |
| Wiring (`dependencies.py`) | the global `_service` | `get_service`, `set_service`, `reset_service` | one service, hence one cache, per process |
| HTTP API (`main.py`) | none | seven routes, the error mapping | typed errors, provenance that describes the payload, key-less routes always work |
| Data tools (`football_data_tools.py`) | none | standings, fixtures, live | provenance and staleness are reported as they are |
| Providers (`football_data_org.py`, `api_football.py`, `replay.py`) | replay step, last rate limit | HTTP request, parsing; `advance`, `reset`, `set_step` | every failure is a typed error |
| Team registry (`teams.py`) | three indexes | `register`, `resolve`, `get` | exact resolution, no alias for two clubs |
| Intent classifier and planner (`intents.py`, `planner.py`) | none | `classify_intent`, `extract_teams`, `route_and_plan` | no winner picked between rival intents; free tier only when no fallback call is needed |
| Tool executor (`executor.py`) | evidence ledger: items, two indexes, failures | `execute` | an operation is performed once per request; a failure is never evidence |
| Feature engineering (`feature_engineering.py`) | per-club EWMA and Elo state, parameter schedule | `build_features`, `build_causal_elo_schedule`, artifact gates | no feature sees its own day, no parameter sees a later season |
| Feature artifacts (`build_features.py`, the gates of `feature_engineering.py`, `load_fold`) | a parquet file and its JSON sidecar | build, refuse an overwrite, validate, load | what is loaded is causal; an interrupted build can be repeated; no build takes a fold away |
| Training, score models, calibration (`training.py`, `score_models.py`, `calibration.py`) | files of reports and predictions | cross-validate, compare, select, calibrate | the same matches are compared, out of sample; the incumbent stays unless clearly beaten |
| Frozen artifacts (`explanations.py`, `score_model_artifact.py`, the prediction tools) | joblib files, a process-wide `lru_cache` each | build, load, validate, predict | what an answer says of its model is true; one model for the life of a process |
| Scripts (`src/scripts`) | files | download, process, build, train | each may be stopped between or during its writes |

How they interact: routes and agents call the data tools, the tools call the
service, the service reads through its cache, and the cache calls a provider
with a closure. Two schedulers meet at the HTTP boundary: FastAPI runs the plain
function `get_service` on a thread pool, so several requests execute it at once,
and runs the `async` routes, which contain no `await`, one at a time on the event
loop. The agent layer is sequential within a request and shares nothing but the
service. The offline pipeline is a set of scripts that hand their results over in
files, each of several files, none of them written atomically; nothing makes one
script run after another, or on the same revision of the data.

Hard behaviours, and where they are looked at:

- interleaving: two first requests in `get_service` (`PitchMindAPI`);
- a window of time between reading a cache entry and using it, a provider that
  takes long, a wall clock that is set back (`TTLCache`);
- partial failure: refreshes that fail by a named error, or by one that the
  `except` clause does not name (`TTLCache`, `PitchMindAPI`, `ToolExecutor`);
- identity under different names: spellings of a club, keys of operations
  (`ToolExecutor`), overlapping names in a text (`TeamScan`), overlapping phrases
  of rival intents (`Router`);
- order: results of a date must not reach the rows of that date, and parameters
  must come from earlier seasons (`FeaturePipeline`);
- crashes: a script that is stopped between the two files of an artifact, or in
  the middle of one, and what the next script makes of the remains
  (`FoldArtifacts`, `Experiments`, `ModelArtifacts`);
- stale files: artifacts, predictions and models of different revisions of the
  data, side by side (`FoldArtifacts`, `Experiments`, `ModelArtifacts`);
- caches for the life of a process, which a build in another process does not
  reach, and restarts, which empty them (`ModelArtifacts`).

## 2. The modules and the code

| Module | Models | State | Actions and the code they stand for |
|---|---|---|---|
| `CacheEntries` | `CacheEntry` of `cache.py` | - | freshness, age and replacement of an entry as operators |
| `TTLCache` | `TTLCache` of `cache.py` | `entries`, the counters, the call at work, real time and the wall clock's slips, the history of successes | `Lookup`, `Hit`, `StartRefresh`, `ProviderResponds`, `FinishRefresh`, `RefreshFails` (a `FootballDataError`), `RefreshBreaks` (any other exception), `Invalidate`, `Clear`, `Tick`, `ClockSetBack` |
| `SnapshotPromise` | what the header of `cache.py` promises | the last good snapshot of each key, the question at hand | abstract specification of `TTLCache` |
| `PitchMindAPI` | `dependencies.py`, `main.py`, `football_data_tools.py`, `service.py` | the global `_service`, a cache for each service, where each request is | the statements of `get_service` as `CheckService`, `BuildService`, `ReturnService`; the routes as `ReadCache`, `CallProvider`, one action for each way a provider request ends, `Render` |
| `ToolExecutor` | `executor.py`, club checks of `scoreline_tools.py` | ledger, its index, failures | `Refuse`, `Reuse`, `NoService`, `ToolFails`, `ToolCrashes`, `ToolAnswers`: the ways out of `execute`, in the order of its conditions |
| `EvidencePromise` | what the header of `executor.py` promises | the operations performed, the reply | abstract specification of `ToolExecutor` |
| `Registry` | the registry as `planner.py` uses it | - | the constants that `Router` and `TeamScan` share |
| `Router` | `intents.py`, `planner.py` | the question, what was routed | `Routes` (`route_and_plan`), `Raises` (unknown club) |
| `TeamScan` | `extract_teams` of `planner.py` | the words, the scan's position, consumed words, mentions | `Skip`, `MentionAgain`, `Mention`, `Shorter` (the next span), `Return` |
| `FeaturePipeline` | `build_features`, the cutoffs of `build_causal_elo_schedule` | the clubs' states, started seasons, the date's pending matches, rows | `EmitRow` (phase 1, one match, with `start_season`), `RateDate` (all Elo deltas of the date), `RecordMatch` |
| `FoldArtifacts` | `download_data.py`, `process_data.py`, `build_features.py`, provenance and gates of `feature_engineering.py`, `load_fold` of `datasets.py` | the raw files, the matches, one fold's parquet file and sidecar, the build at work | `Download`, `ProcessData`, `StartBuild` (everything before the first write, the refusals included), `WriteParquet`, `WriteSidecar`, `Interrupt` (between the writes or during one) |
| `Experiments` | `training.py`, `score_models.py`, `calibration.py` and the scripts that run them | the revision each fold was built from, the two files of predictions, the script at work, the last decision | `Reprocess`, `Rebuild` (one fold), `TrainOutcome`, `TrainScoreline`, `Calibrate`, `WriteReport` (a report's files, one at a time), `Interrupt` |
| `ModelArtifacts` | `explanations.py`, `score_model_artifact.py`, `prediction_tools.py`, `scoreline_tools.py` | the files of both models, the builds at work, each process's caches and answers | `Reprocess`, `BuildFeatures`, `StartBuild`, `WriteFile`, `Interrupt`, `Restart` (a process), `Unavailable` (every way to fail), `PredictOutcome`, `PredictScoreline` |

`PitchMindAPI` composes the wiring, the service, the cache and the routes; it
uses `CacheEntries`, which `TTLCache` uses too, so that both mean the same by
fresh and stale. `FoldArtifacts` composes five stages from the download to
`load_fold`; `FeaturePipeline` says what a frame is worth that was built with the
schedule whose seasons `FoldArtifacts` traces. `Experiments` starts from folds that
load, and `ModelArtifacts` composes the two builds with the processes that serve
what they wrote. `TeamScan` ends where `Router` starts: `ScanGivesMentions` is the
theorem that what it returns is what `Router` takes for the clubs found in a text. The `MC...` modules give constants their values for TLC.
`..._proofs` modules hold the theorems.

Abstractions that matter:

- A payload is the moment at which the provider produced it. Two payloads are
  told apart by nothing else, and this is what freshness is about.
- A question (in `Router`) is the set of trigger phrases it contains, closed
  under containment: a question that contains "press conference" contains the
  tactical phrase "press". The code's lists are cut to one or two phrases for
  each signal, with those kept that contain phrases of other signals.
- In `FeaturePipeline` a statistic is the sequence of matches folded into it, and
  not its value: averages, points and ratios are functions of that sequence. Elo
  ratings are numbers, since re-centring is arithmetic, and carry the set of
  matches that may have influenced them. Two columns are cut off at a limit, the rest
  days (`RestCap`) and the depth of a club's history (`DepthCap`, 38 in the code);
  both limits are constants, and the theorems hold for all their values.
- In `FoldArtifacts` a frame is, for each season, the revision of the results it
  was built from and the seasons its Elo parameters were estimated from. There is
  one path, that of one development fold, and any build may be sent to it.
- In `Experiments` the loss of a row is a small number, the same for all rows of a
  season, so that means, standard errors and the tie rule are exact; a fixture is
  what the merge of two files identifies it by. The pools of configurations are a
  constant: what a fit yields is not modelled, only what is made of it.
- In `ModelArtifacts` a model is the seasons, the revision and the club spellings it
  was fitted on.
- Messages, logging, the scrubbing of error texts, filters on lists and response
  layout are left out.

## 3. The runs

| Run | What it checks |
|---|---|
| `cache` | Requests are one time to live apart after a success; a snapshot survives later failures; unflagged answers are recent; every read is answered; `TTLCache` implements `SnapshotPromise`. |
| `cache_unnamed_error` (violation) | A refresh that ends in an exception the `except` clause does not name goes past the stale fallback. |
| `api` | Two requests race through `get_service` and queue for the event loop: staleness is told, one provider request per window *and service*, an error only when that service's cache is empty, the service settles, every request is answered. |
| `api_service_race` (violation) | One provider request per window does not hold for the process: two services are built. |
| `executor` | Deduplication neither repeats an operation nor merges two, evidence is about the operation asked for, `ToolExecutor` implements `EvidencePromise`. |
| `router` | Subsumption never picks between rivals; whatever signals, markers and clubs come together, the plan of a question that passes the gate serves all that was asked for, with exactly three exceptions (`Dropped`, below). |
| `team_scan` | No word serves two names, the longest name wins, no name is missed. |
| `team_scan_order` (violation) | A club keeps the place of its longest mention, not of its first. |
| `feature_pipeline` | No row depends on its own date or a later one; each row says what the calendar says before its date, with windows and depths at their limits; the rating scale stays where it was put. |
| `fold_artifacts` | What `load_fold` accepts is causal, with the approved cutoff and its row cap, wherever builds were stopped; a stopped build can be repeated without `--force`; a build without `--force` leaves a loadable fold loadable. |
| `experiments` | The two families compared predicted the same matches with the same results; no season judged on was seen by what is judged; the selected configuration is within the noise of the best one and no worse in its worst season; the incumbent is replaced only by what is clearly better. |
| `model_artifacts` | The cutoff an answer states is that of its model, and the sealed season is in none; a process never changes its model; a scoreline is never computed from the prior for promoted clubs. |

The three violation runs are disagreements between the code and its own comments,
docs or tests; `PROJECT.json` quotes them under `findings`. Two of them are bugs:
the unlocked `get_service`, which costs a provider request (and the snapshot of
the first service), and the order of clubs in `extract_teams`, which can swap home
and away in a plan.

### Observations without a run

These formulas state what a comment, a docstring or a message of the code says, and
do not hold. Each is defined in its module; add it as an INVARIANT to the
configuration named and TLC prints the steps.

| Formula | Configuration | What happens |
|---|---|---|
| `NotFoundNamesARequestedTeam` | `API.cfg` | `api/main.py:110` turns every `UnknownTeam` into a 404, also the one that the provider's parser raises for a club nobody asked for. |
| `MatchupNamesTwoClubs` | `Router.cfg` | `planner.py:281` counts clubs, and a caller may pass one club twice (`planner.py:58`). |
| `FixedParamsNeverValid` | `FoldArtifacts.cfg` | "must never be marked valid" (`build_features`'s docstring), but the gate accepts fixed parameters whose cutoff precedes the fold; `load_fold` then refuses them. |
| `BaselineNeverWinsATie` | `Experiments.cfg` | `training.py:68` gives baselines a complexity of 99, but the sort of `training.py:404` looks at the worst season first. |
| `UnavailableIsTold` | `ModelArtifacts.cfg` | A joblib file that is cut off raises an error that `get_artifact` does not name (`prediction_tools.py:61-76`): a 500 instead of the 503 of `:44`. |

`AcceptedIsCausal` and `RebuildKeepsFold` exclude one state of files, since it is
reached (`ForcedTear`): a forced build of fixed parameters over a fold's path,
stopped before its sidecar, when the source ends with the fold's season. The row
counts are then equal, and the old sidecar passes the new rows off as causal.
A plan leaves out without a word (`Dropped` of `Router`): fixtures in a question about
table and fixtures (`planner.py:183`), the scoreline in one that asks for an explanation
too (`intents.py:174`), and live state, a what-if or scouting in a synthesis
(`planner.py:230`), although a what-if alone is answered with "unavailable". No comment
promises otherwise, `SUBSUMPTION`'s "nothing is lost" is said of `PREDICTION` only;
`WhatIsHeardIsServed` says that these are dropped and nothing else is.
Two remarks on phrases: the trigger "who's top" can never match, since
`normalize_question` turns its apostrophe into a space, and every question about a
"press conference" also counts as tactical.

### Further properties

Some properties are proved and in no run, so that the runs ask one question each:
`ProvenanceDescribesPayload` and `KeylessRoutesServe` (`PitchMindAPI`), `TierZeroIsFree`, `GateMeansNoFallback`, `OnlyUnknownTeamsRaise`
(`Router`), `ColdStartAgrees` and
`EveryMatchOneRow` (`FeaturePipeline`), `OnlyNewerDataReplaces`, `FlaggedMeansExpired`,
`ReportedAgeIsNotYounger` (`TTLCache`), `LedgerIndexed`, `FailuresKeepTheirCause`
(`ToolExecutor`), `ClubsDiffer` (`TeamScan`).

### Bounds, and why they are enough

- `TTLCache`: two keys, with times to live of two and three ticks, six ticks, one slip of the
  clock, three reads. A snapshot can be fetched, expire, fail to refresh, and be
  refreshed again, with another key in between.
- `PitchMindAPI`: two requests and three ticks, with times to live of one and two,
  so that both can build a service and one of them can find what the other cached
  fresh, stale or gone. The theorems cover any number of requests.
- `ToolExecutor`: three calls, of one tool that asks the provider and of the one
  with two clubs; the others differ from these in their fields only. Five
  spellings cover a canonical one, an alias, a club without a fit and an unknown.
  The proofs cover every registry and every number of calls.
- `Router`: up to four phrases and two clubs; subsumption is transitive over at
  most three signals, and four allow a rival beside them.
- `TeamScan`: five words, names of up to three; a name can contain another, and
  two can overlap at either end. The order of mentions needs six words to fail.
- `FeaturePipeline`: four matches of three clubs over four seasons and five dates.
  Three seasons have one date, so that clubs can miss one, return and go on to the next,
  and a club can play twice on a date. Warm-up and window are two matches instead of
  three and ten, the depth of a history is capped at two matches instead of 38 (a club can
  have three behind it), and the schedule needs one earlier season instead of three, so that both
  sides of each threshold occur. Points are multiples of 1728, which makes the
  shrinking and the re-centring exact; the theorem about the scale has no such
  condition, and allows for the remainder of an integer division. The order of matches within a date is left
  open, although the code sorts them: no result depends on it.
  Seasons are assumed not to overlap (`SeasonsApart`), as in the league's data;
  the code does not check this, and `NoLookahead` depends on it: the parameters of
  a season come from *seasons* before it.
- `FoldArtifacts`: six seasons, of which the last three are evaluated on and the
  last is sealed; the fifth may be partial, complete or wrong on the site; sources
  with every season, without the sealed one, with a gap at either cutoff, and
  truncated at the start; three builds and two processings, so that a sidecar, a
  parquet file and the data may each be of a different time. `Cutoff` is the season
  before, as in the code, and estimation needs three earlier seasons.
- `Experiments`: three folds, two fixtures each, four revisions besides the
  original: a result corrected, a date moved, a season unplayed, a fixture lacking.
  Three scripts are the least in which both families are trained and compared, and
  one revision can come before any of them. Losses are numbers from 0 to 2 on three
  rows a season, which has ties, clear differences and worst seasons that differ
  from the means.
- `ModelArtifacts`: two processes, both builds, two fitted seasons and the sealed
  third; data that ends before the cutoff, at the sealed season or after it, or
  spells a club in another way; one revision.

### Fairness

`cache` and `api` are the runs with liveness properties. A cache call is
a few statements and one provider request, and the HTTP client has finite
timeouts for connecting and for each read, so a started call ends: weak fairness
for its steps, none for clients or time. For the API, threads of the pool run
(weak fairness); the event loop takes up ready requests in order, so it passes
none over for ever (strong fairness of `TakeUp`, because the loop is occupied again
and again by others); and a route that has started ends. No fairness is assumed
for the arrival of requests, nor that a provider ever answers with success. The offline
scripts promise nothing about progress: they are run by hand and may be stopped.

## 4. The proofs

TLAPS checks these for every value of the constants that the named assumptions
admit; TLC evaluates each of them on the runs. They are the types of the constants,
finite sets of clubs, positive times to live, tokens such as `None` that are no value,
a sealed season after the cutoff, tables of names indexed by numbers, and two that the
data has to meet: `FoldedAssumption` and `SeasonsApart`, explained below and above.

Every invariant and every action property of the passing runs, and both refinements,
are proved; what is left to TLC is at the end of this section.

`TTLCache_proofs`: all safety and action properties of the `cache` run, that an
error is raised only when nothing is cached, and the refinement of
`SnapshotPromise`. None is inductive alone. The strengthening says
that the timestamps of an entry bracket the moment its payload was produced
(`EntryTimes`), and that the call at work still holds what the cache holds
(`CallTimes`), so that what it read before the refresh may be used after it.

`ToolExecutor_proofs`: all properties of the `executor` run and the refinement of
`EvidencePromise`. A dedup key stands for one operation and the index is a
bijection between keys in use and evidence. Under `FoldedAssumption`: a spelling
that the registry does not resolve never folds to the id of a club. The table of
`teams.py` sees to this, because each of its ids read as a name resolves to its
own club; a club registered later has to keep to it.

`Routing_proofs`, first part: all properties of the `team_scan` run and `ClubsDiffer`,
for every table and question. The scan leaves no alias behind that it has passed and
that is still free (`Passed`), so a name that stands apart loses a word only to itself
(`AloneFound`). The matches are returned in the order of their places, which are
pairwise different, so sorting them loses none (`RankIsBijective`).

`Routing_proofs`, second part: all properties of the `router` run and three that are
in none. Routing is a single step and the invariant only names the answers there are
(`AnswerOK`); the work is in the tables, for every set of words: subsumption always
leaves an intent (`SomethingIsLeft`), a single one that is left has absorbed the others
itself (`LastAbsorbs`), and the four criteria of the gate say what the list of
ambiguity codes says (`GateIsNoAmbiguity`). `WhatIsHeardIsServed` follows where the three
meet: a plan for the intent that is left has to answer each signal whose intent that one
has absorbed (`PlannedFor`), and `HeardIsAlwaysServed` goes through the intents; it also
proves that the exceptions are exact, since no plan ever serves what is `Dropped`.

`FeaturePipeline_proofs`: all properties of the run, `ColdStartAgrees` and
`EveryMatchOneRow`, for every frame and all parameters.

- `NoLookahead`: the invariant bounds what each club's state was computed from by
  `Known`: results used already, or the window of fixed Elo parameters. Results are used
  date by date (`DatesInOrder`), and a season that has started has all earlier seasons
  behind it (`EarlierSettled`), so what is known when a row is emitted is its past.
- `ColdStartAgrees`: the counters of a club and the sequences its averages fold are
  extended, shifted and cut together (`BInv`), and no match is in two phases at once. The
  indicator is computed from the counter, and agrees with the capped depth that is shown
  (what `validate_feature_frame` checks) as long as the cap is not below the warm-up.
- `RowsAreHistory`: the pass computes from states, resets and roll-overs what the property
  reads off the calendar. The invariant (`HInv`) says of each club that its state is the
  history of what has been recorded of it (`HistoryOK`): totals of all time, the averages
  and the window of its present spell in the league, the log of the season it is in.
  A season's start is the hard step. The roll-over looks back from the club's last
  season; the calendar looks at whether the club was in the season before, and both give
  the same spell (`KindOfSeason`, `SpellBegins`, `SpellGoesOn`). A recorded match
  is the latest of its club (`PendingOK`), so it is listed last (`ListedAtTheEnd`) and the
  window sheds the oldest (`LatestAtTheEnd`).
- `EloScaleStable`: a season's start puts the mean where it belongs but for the remainder
  of a division (`StartCentres`), and a date's deltas cancel in pairs, however many
  matches a club plays on it (`NothingGained`). Sums over sets are functions defined by
  induction on finite sets here and in `Experiments_proofs`; the principle is taken in
  its set form, "a set of numbers with 0 and all successors has all numbers", which the
  provers can use where they cannot use an induction theorem over an operator.

`PitchMindAPI_proofs`: the safety properties of the `api` run, for any number of
requests, services and ticks. A request that refreshes or renders owns the event
loop, so the entry it read is still the one in the cache of its service (`LoopOK`),
whatever the threads do to the global meanwhile; what an entry says of itself stays
true as time passes (`CacheOK`); a response is never touched again (`AnswerOK`).
A step leaves a response as it is or sends one in one of a few ways (`ResponseStep`),
which also gives `ProvenanceDescribesPayload` and `KeylessRoutesServe`.

`FoldArtifacts_proofs`: type correctness and the three properties of the `fold_artifacts` run. The two
files of an artifact may be of different builds; the invariant says that, unless a
forced build tore them apart, these have provenances that
`refuse_incompatible_overwrite` takes for equal (`SidecarOK`, `ParquetOK`, `TornOK`).
It compares the estimated seasons of the *last season of the source* only, and the
heart of the proof is that this decides the fold's own (`SameFoldParams`): a schedule
estimates each season from all the seasons of the source before it, so equal
estimates for the last season mean equal sources up to it. `RebuildKeepsFold` was
first stated without `~ForcedTear`; the proof failed there, at a state that needs
richer data than the run's. Type correctness counts the rows of a frame as the elements
of a set, so that every row cap is a number.

`Experiments_proofs`: all properties of the `experiments` run.
A file of predictions, in place, half written or read, holds for each fold the rows
of one revision; a row count and a one-to-one merge by fixture and result (the
checks of `load_meta_predictions`) are then enough for two files to agree. The
selected configuration is the least of a finite order, within the noise of the best
mean; its worst season is compared with that of the others in the same pool
(`SelectedIsDefensible`). The decision about the incumbent compares sums of the
differences row by row, and a sum of differences is the difference of the sums
(`ReplacedOnlyByTheBetter`).

`ModelArtifacts_proofs`: all properties of the `model_artifacts` run.
What passes the checks of a build is sound (`FittedIsSound`), so every file that
loads, every model that is kept and every model that has answered is; the models a
process has answered with are none, or the one it keeps (`CacheOK`). A club that passes
the checks of the scoreline tool has a name among the keys of the fitted strengths,
so the prior for promoted clubs is never asked (`NoScorelineFromThePrior`).

Only model-checked:

- liveness, `EveryReadAnswered` and `EveryRequestAnswered`: out of the prover's reach.

## 5. Plan

Done: the cache, the API with its wiring, the agent layer, the feature pass, the
feature artifacts, the experiments, the frozen models, and the proofs above.

What is left: the prediction routes of `main.py`, composed from `PitchMindAPI` (the
event loop) and `ModelArtifacts` (the caches of the process).

## 6. What is not modelled, and why

- Fitting, likelihoods, scoreline matrices, calibration curves, the decomposition of
  predictions: real-valued numerics, delegated to scikit-learn, SciPy and NumPy.
- The estimates of Elo parameters: only what they are estimated from is modelled.
- Parsing of provider payloads: as the ways in which it can end.
- The cleaning of columns by `process_data.py`; `inspect_data.py` and the probes,
  which print and keep nothing.
- `TeamRegistry.register`: it runs at import over a table, and a clash ends the
  import. Its users take what it enforces, that a name is of one club only, as the
  type of a constant (`ClubOf`, `ClubNamed`) or as a part of `ModelAssumption`.
- `api_football.py` is not wired to any route; as a provider it ends in the same
  ways as the one that is. The replay provider's step selects a canned snapshot.
- `get_fixtures` sorts the list that the cache holds: the order of a cached list is
  part of no promise, and the routes run one at a time.
- Data models and settings: immutable values, in the modules of their users.

## 7. Running

```
tlc -workers 2 -config TTLCache.cfg MCTTLCache
tlapm TTLCache_proofs.tla
```

`PROJECT.json` lists every run with its module and configuration, the mutant that
each property detects, and the source lines of each definition.
