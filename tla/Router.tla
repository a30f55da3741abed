------------------------------- MODULE Router -------------------------------
(***************************************************************************)
(* Routing of one question (agents/intents.py, agents/planner.py): which   *)
(* intent it has, whether the deterministic gate passes, what is planned.  *)
(* Nothing is executed and nothing is remembered, so a question is one     *)
(* step; what is hard is that eleven signals, two kinds of marker and the  *)
(* clubs may occur in any combination.                                     *)
(*                                                                         *)
(* A question is the set of the phrases it contains, one or two for each   *)
(* signal, with every phrase of intents.py that contains a phrase of       *)
(* another signal among them, and the clubs it is about.                   *)
(***************************************************************************)
EXTENDS Registry, FiniteSetsExt, SequencesExt, Integers

CONSTANTS
    Spellings,  \* what a caller may pass for a club
    ClubOf,     \* the registry: spelling -> club, or None
    MaxPhrases, \* bound: phrases of a question
    MaxTeams    \* bound: clubs of a question

\* The intents of contracts.py (LIVE is its LIVE_MATCH, HISTORICAL its
\* HISTORICAL_STATISTICAL), and why a question may have none.
IntentCategory ==
    {"SIMPLE_FACT", "HISTORICAL", "PREDICTION", "PREDICTION_EXPLANATION",
     "SCORELINE", "LIVE", "RESEARCH", "TACTICAL", "COMPLEX_SYNTHESIS", "WHAT_IF",
     "SCOUTING"}

NoIntentReasons == {"NO_CLEAR_INTENT", "MULTIPLE_INTENTS", "StopIteration"}

ToolName ==
    {"get_current_standings", "get_fixtures", "get_live_matches",
     "get_live_match_state", "run_outcome_prediction", "explain_outcome_prediction",
     "get_scoreline_prediction"}

SpecialistName == {"research", "tactical"}

ASSUME RouterAssumption ==
    /\ None \notin Clubs \cup IntentCategory \cup NoIntentReasons
    /\ ClubOf \in [Spellings -> Clubs \cup {None}]
    /\ MaxPhrases \in Nat /\ MaxTeams \in Nat

VARIABLES
    question,   \* [words, teams, mentions]
    routed      \* None, or what route_and_plan returned or raised

vars == <<question, routed>>

-----------------------------------------------------------------------------
(* Signals.                                                                *)

\* INTENT_SIGNALS: the phrases that trigger each of the signals.
Trigger ==
    [STANDINGS   |-> {"table", "who's top"},
     FIXTURES    |-> {"next match"},
     LIVE        |-> {"right now"},
     HISTORICAL  |-> {"recent form"},
     PREDICTION  |-> {"prediction"},
     EXPLANATION |-> {"model favour", "explain the prediction"},
     SCORELINE   |-> {"scoreline"},
     RESEARCH    |-> {"injury", "press conference"},
     TACTICAL    |-> {"press"},
     WHAT_IF     |-> {"what if", "how would the prediction change"},
     SCOUTING    |-> {"similar to"}]

Signals == DOMAIN Trigger

SynthesisMarkers == {"considering"}

LiveReasoningMarkers == {"why", "explain"}

Phrases == (UNION Range(Trigger)) \cup SynthesisMarkers \cup LiveReasoningMarkers

\* Phrases that are contained in the normalised form of a phrase, on word
\* boundaries.  Normalising turns an apostrophe into a space.
Within(phrase) ==
    CASE phrase = "who's top" -> {"who s top"}
      [] phrase = "press conference" -> {phrase, "press"}
      [] phrase = "explain the prediction" -> {phrase, "explain", "prediction"}
      [] phrase = "how would the prediction change" -> {phrase, "prediction"}
      [] OTHER -> {phrase}

Heard(words) == UNION {Within(phrase) : phrase \in words}

MatchedSignals(words) ==
    {signal \in Signals : Trigger[signal] \cap Heard(words) # {}}

Has(words, markers) == markers \cap Heard(words) # {}

IntentOf(signal) ==
    CASE signal \in {"STANDINGS", "FIXTURES"} -> "SIMPLE_FACT"
      [] signal = "EXPLANATION" -> "PREDICTION_EXPLANATION"
      [] OTHER -> signal

MatchedIntents(words) == {IntentOf(signal) : signal \in MatchedSignals(words)}

-----------------------------------------------------------------------------
(* Classification.                                                         *)

\* Mutant of Subsumption: the scoreline is forgotten under an explanation,
\* where a prediction may still absorb it.
SubsumptionNotTransitive(dominant) ==
    CASE dominant = "PREDICTION_EXPLANATION" -> {"PREDICTION", "SIMPLE_FACT"}
      [] dominant = "PREDICTION" -> {"SCORELINE", "SIMPLE_FACT"}
      [] dominant = "WHAT_IF" -> {"SIMPLE_FACT", "PREDICTION", "SCORELINE"}
      [] dominant = "SIMPLE_FACT" -> {}
      [] OTHER -> {"SIMPLE_FACT"}

\* Mutant of Subsumption: a live question absorbs a prediction, since the plan
\* of a live question that asks why runs the outcome model.
SubsumptionLivePredicts(dominant) ==
    CASE dominant = "PREDICTION_EXPLANATION" -> {"PREDICTION", "SCORELINE", "SIMPLE_FACT"}
      [] dominant = "PREDICTION" -> {"SCORELINE", "SIMPLE_FACT"}
      [] dominant = "LIVE" -> {"PREDICTION", "SIMPLE_FACT"}
      [] dominant = "WHAT_IF" -> {"SIMPLE_FACT", "PREDICTION", "SCORELINE"}
      [] dominant = "SIMPLE_FACT" -> {}
      [] OTHER -> {"SIMPLE_FACT"}

\* SUBSUMPTION: the intents that an intent absorbs.
Subsumption(dominant) ==
    CASE dominant = "PREDICTION_EXPLANATION" -> {"PREDICTION", "SCORELINE", "SIMPLE_FACT"}
      [] dominant = "PREDICTION" -> {"SCORELINE", "SIMPLE_FACT"}
      [] dominant = "WHAT_IF" -> {"SIMPLE_FACT", "PREDICTION", "SCORELINE"}
      [] dominant = "SIMPLE_FACT" -> {}
      [] OTHER -> {"SIMPLE_FACT"}

\* _apply_subsumption.
Effective(matched) ==
    matched \ UNION {Subsumption(dominant) : dominant \in matched}

\* classify_intent: the intent, or None and the reason why there is none.
Classify(words) ==
    LET effective == Effective(MatchedIntents(words))
    IN  CASE MatchedSignals(words) = {} ->
               [intent |-> None, failure |-> "NO_CLEAR_INTENT"]
          [] Cardinality(effective) >= 2 /\ Has(words, SynthesisMarkers) ->
               [intent |-> "COMPLEX_SYNTHESIS", failure |-> None]
          [] Cardinality(effective) >= 2 /\ ~Has(words, SynthesisMarkers) ->
               [intent |-> None, failure |-> "MULTIPLE_INTENTS"]
          [] MatchedSignals(words) # {} /\ Cardinality(effective) = 1 ->
               [intent |-> CHOOSE i \in effective : TRUE, failure |-> None]
          [] OTHER ->   \* next() of an empty iterator
               [intent |-> None, failure |-> "StopIteration"]

-----------------------------------------------------------------------------
(* The gate and the plan.                                                  *)

\* MIN_TEAMS.
MinTeams(intent) ==
    CASE intent \in {"PREDICTION", "PREDICTION_EXPLANATION", "SCORELINE",
                     "TACTICAL", "COMPLEX_SYNTHESIS"} -> 2
      [] intent \in {"HISTORICAL", "RESEARCH"} -> 1
      [] OTHER -> 0

Unavailable == {"WHAT_IF", "SCOUTING"}

AmbiguityCodes ==
    {"NO_CLEAR_INTENT", "MULTIPLE_INTENTS", "MISSING_REQUIRED_TEAM",
     "MISSING_MATCHUP", "UNKNOWN_TEAM"}

\* Mutant of Entities: the names that the caller passes, as they are.
EntitiesAsPassed(q) == IF q.teams # <<>> THEN q.teams ELSE q.mentions

\* The clubs: those the caller passes, or else those found in the text.
Entities(q) ==
    IF q.teams # <<>> THEN [i \in DOMAIN q.teams |-> ClubOf[q.teams[i]]]
                      ELSE q.mentions

EnoughTeams(intent, entities) ==
    intent # None => Len(entities) >= MinTeams(intent)

Failures(class, entities) ==
    ({class.failure} \ {None}) \cup
    (IF EnoughTeams(class.intent, entities) THEN {}
     ELSE IF MinTeams(class.intent) >= 2 THEN {"MISSING_MATCHUP"}
          ELSE {"MISSING_REQUIRED_TEAM"}) \cup
    (IF class.intent \in Unavailable THEN {"UNAVAILABLE"} ELSE {})

\* RoutingGateCriteria.passed.
GatePassed(class, entities) ==
    /\ class.intent # None
    /\ EnoughTeams(class.intent, entities)
    /\ class.failure # "MULTIPLE_INTENTS"

Decision(class, entities) ==
    [intent |-> class.intent,
     entities |-> entities,
     gate_passed |-> GatePassed(class, entities),
     requires_llm_fallback |-> Failures(class, entities) \cap AmbiguityCodes # {}]

Plan(tier, tools, specialists) ==
    [tier |-> tier, planned_tools |-> tools, planned_specialists |-> specialists,
     requires_llm_fallback |-> FALSE]

\* _plan_tools_and_specialists.
PlanFor(intent, words) ==
    CASE intent = "SIMPLE_FACT" ->
           Plan(0, IF "STANDINGS" \in MatchedSignals(words)
                     THEN {"get_current_standings"} ELSE {"get_fixtures"}, {})
      [] intent = "HISTORICAL" ->
           Plan(1, {"get_fixtures", "get_current_standings"}, {})
      [] intent = "PREDICTION" ->
           Plan(1, {"run_outcome_prediction", "get_scoreline_prediction"}, {})
      [] intent = "PREDICTION_EXPLANATION" ->
           Plan(1, {"run_outcome_prediction", "explain_outcome_prediction"}, {})
      [] intent = "SCORELINE" -> Plan(1, {"get_scoreline_prediction"}, {})
      [] intent = "LIVE" ->
           IF Has(words, LiveReasoningMarkers)
             THEN Plan(2, {"get_live_matches", "run_outcome_prediction"}, {"tactical"})
             ELSE Plan(0, {"get_live_matches"}, {})
      [] intent = "RESEARCH" -> Plan(2, {"get_fixtures"}, {"research"})
      [] intent = "TACTICAL" ->
           Plan(2, {"run_outcome_prediction", "explain_outcome_prediction"}, {"tactical"})
      [] intent = "COMPLEX_SYNTHESIS" ->
           Plan(3, {"get_current_standings", "get_fixtures", "run_outcome_prediction",
                    "explain_outcome_prediction", "get_scoreline_prediction"},
                {"research", "tactical"})
      [] OTHER -> Plan(0, {}, {})

\* The plan of route_and_plan.
ExecutionPlan(decision, words) ==
    IF decision.intent \in Unavailable THEN Plan(0, {}, {})
    ELSE IF decision.requires_llm_fallback
           THEN [Plan(1, {}, {}) EXCEPT !.requires_llm_fallback = TRUE]
           ELSE PlanFor(decision.intent, words)

-----------------------------------------------------------------------------
(* One question.                                                           *)

Questions ==
    {q \in [words    : UNION {kSubset(n, Phrases) : n \in 0..MaxPhrases},
            teams    : BoundedSeq(Spellings, MaxTeams),
            mentions : {s \in BoundedSeq(Clubs, MaxTeams) : IsInjective(s)}] :
        q.teams # <<>> => q.mentions = <<>>}

Init ==
    /\ question \in Questions
    /\ routed = None

\* classify_intent runs before the clubs are resolved.
Raises ==
    /\ routed = None
    /\ routed' = [kind |-> "raised", error |->
                    IF Classify(question.words).failure = "StopIteration"
                      THEN "StopIteration" ELSE "UnknownTeam"]
    /\ \/ Classify(question.words).failure = "StopIteration"
       \/ None \in Range(Entities(question))
    /\ UNCHANGED question

Routes ==
    /\ routed = None
    /\ Classify(question.words).failure # "StopIteration"
    /\ None \notin Range(Entities(question))
    /\ LET decision == Decision(Classify(question.words), Entities(question))
       IN  routed' = [kind |-> "routed", decision |-> decision,
                      plan |-> ExecutionPlan(decision, question.words)]
    /\ UNCHANGED question

Next == Raises \/ Routes

Spec == Init /\ [][Next]_vars

-----------------------------------------------------------------------------
(* Properties.                                                             *)

Routed == routed # None /\ routed.kind = "routed"

Intent == routed.decision.intent

\* "a plan is TIER_0 only when no fallback is required, so tier == 0 implies
\* zero Claude calls end to end" (header of planner.py, ExecutionTier): the
\* decision, the plan and the gate agree about the fallback, also for intents
\* whose plan does not look at it.
TierZeroIsFree ==
    Routed /\ routed.plan.tier = 0 =>
        /\ ~routed.decision.requires_llm_fallback
        /\ ~routed.plan.requires_llm_fallback
        /\ routed.decision.gate_passed
        /\ routed.plan.planned_specialists = {}

\* The gate asks whether a question is understood, and a fallback is for those
\* that are not (RoutingGateCriteria): the four criteria and the list of
\* ambiguity codes, kept apart in the code, say the same.
GateMeansNoFallback ==
    Routed =>
        (routed.decision.gate_passed <=> ~routed.decision.requires_llm_fallback)

\* "The classifier does NOT pick a winner" (header of intents.py): whatever
\* else matched is absorbed by the chosen intent itself, not by one that it
\* absorbs in its turn.
NoWinnerPicked ==
    Routed /\ Intent \notin {None, "COMPLEX_SYNTHESIS"} =>
        MatchedIntents(question.words) \subseteq {Intent} \cup Subsumption(Intent)

\* Subsumption leaves something to choose (classify_intent takes the first of
\* what is left): a club nobody knows is the only reason to raise.
OnlyUnknownTeamsRaise ==
    routed # None /\ routed.kind = "raised" => routed.error = "UnknownTeam"

\* The tools and specialists that answer a signal.  For the last two there is
\* nothing ("no what-if engine and no player-similarity layer").
Needs ==
    [STANDINGS   |-> {"get_current_standings"},
     FIXTURES    |-> {"get_fixtures"},
     LIVE        |-> {"get_live_matches"},
     HISTORICAL  |-> {"get_fixtures", "get_current_standings"},
     PREDICTION  |-> {"run_outcome_prediction"},
     EXPLANATION |-> {"explain_outcome_prediction"},
     SCORELINE   |-> {"get_scoreline_prediction"},
     RESEARCH    |-> {"research"},
     TACTICAL    |-> {"tactical"},
     WHAT_IF     |-> {"what_if_engine"},
     SCOUTING    |-> {"player_similarity"}]

Served(signal) ==
    Needs[signal] \subseteq routed.plan.planned_tools \cup routed.plan.planned_specialists

\* "A bare fact reference is how people SCOPE a richer question" (SUBSUMPTION):
\* it is not asked for, unless the richer question is about facts itself.
Scopes(signal) ==
    /\ IntentOf(signal) = "SIMPLE_FACT"
    /\ Intent \notin {"SIMPLE_FACT", "HISTORICAL", "COMPLEX_SYNTHESIS"}

\* What a question asked for and its plan leaves out without a word: fixtures
\* beside the table, the scoreline beside an explanation, and what a synthesis
\* has no tool planned for.
Dropped(signal) ==
    \/ /\ Intent = "SIMPLE_FACT" /\ signal = "FIXTURES"
       /\ "STANDINGS" \in MatchedSignals(question.words)
    \/ Intent = "PREDICTION_EXPLANATION" /\ signal = "SCORELINE"
    \/ Intent = "COMPLEX_SYNTHESIS" /\ signal \in {"LIVE", "WHAT_IF", "SCOUTING"}

\* Subsumption may absorb an intent if "nothing is lost" by it (SUBSUMPTION),
\* and a synthesis is "an explicit request to combine evidence": the plan of a
\* question that passes the gate serves all that the question asks for,
\* whichever signals, markers and clubs come together, but for what is Dropped,
\* and that it never serves.
WhatIsHeardIsServed ==
    Routed /\ routed.decision.gate_passed /\ Intent \notin Unavailable =>
        \A signal \in MatchedSignals(question.words) :
            ~Scopes(signal) => (Served(signal) <=> ~Dropped(signal))

\* "How many teams each intent needs before it can be planned" (MIN_TEAMS): a
\* plan for a match is about two clubs.
MatchupNamesTwoClubs ==
    Routed /\ routed.plan.planned_tools # {} =>
        Cardinality(Range(routed.decision.entities)) >= MinTeams(Intent)

TypeOK ==
    /\ question \in Questions
    /\ routed \in {None}
         \cup [kind : {"raised"}, error : {"UnknownTeam", "StopIteration"}]
         \cup [kind : {"routed"},
               decision : [intent : IntentCategory \cup {None},
                           entities : BoundedSeq(Clubs, MaxTeams),
                           gate_passed : BOOLEAN, requires_llm_fallback : BOOLEAN],
               plan : [tier : 0..3, planned_tools : SUBSET ToolName,
                       planned_specialists : SUBSET SpecialistName,
                       requires_llm_fallback : BOOLEAN]]

=============================================================================
