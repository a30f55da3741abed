--------------------------- MODULE FeaturePipeline ---------------------------
(***************************************************************************)
(* build_features of ml/feature_engineering.py: one chronological pass     *)
(* over a frame of matches that emits, for each match, what was known      *)
(* before its date.  The rows of a date are emitted first, and only then   *)
(* are the date's results recorded.                                        *)
(*                                                                         *)
(* A statistic is represented by the matches that it was computed from, in *)
(* the order in which they were folded in.  An Elo rating is a number, and *)
(* beside it stand the matches whose results can have influenced it.       *)
(*                                                                         *)
(* Seasons are numbered in the order of their first dates (_season_order). *)
(***************************************************************************)
EXTENDS FiniteSetsExt, SequencesExt, Integers

CONSTANTS
    Clubs,
    Frames,         \* the match frames that may be given, sets of matches
    MinPeriods,     \* min_periods
    Window,         \* efficiency_window
    RestCap,        \* rest_days_cap
    DepthCap,       \* HISTORY_DEPTH_CAP
    MinPrior,       \* min_prior_seasons of the schedule
    Throughs,       \* last seasons that fixed parameters are estimated from
    Gain,           \* k_factor * (score - expectation), by result and by
                    \* whether the home club is rated above the away club
    HomeAdvantage, PromotedPrior,
    ShrinkBy,       \* season_shrink is 1 / ShrinkBy
    None

Results == {"H", "D", "A"}

Match == [season : Nat, date : Nat, home : Clubs, away : Clubs,
          result : Results]

\* What process_data lets pass: no club plays itself and no fixture occurs
\* twice on a date.  A club may play twice on one date.
WellFormed(frame) ==
    /\ frame \subseteq Match /\ frame # {} /\ IsFiniteSet(frame)
    /\ \A m \in frame : m.home # m.away
    /\ \A m, n \in frame :
          m.date = n.date /\ m.home = n.home /\ m.away = n.away => m = n

\* A season is over before the next one starts, as in every season of the
\* league; nothing in the code looks at it.
SeasonsApart(frame) == \A m, n \in frame : m.season < n.season => m.date < n.date

ASSUME FramesAssumption ==
    \A frame \in Frames : WellFormed(frame) /\ SeasonsApart(frame)

\* None is what pandas calls NaN: no list of matches is, and no date.
ASSUME NoneAssumption == None \notin Seq(Match) /\ None \notin Nat

ASSUME ParameterAssumption ==
    /\ IsFiniteSet(Clubs)
    /\ MinPeriods \in Nat \ {0} /\ Window \in Nat \ {0} /\ RestCap \in Nat
    /\ DepthCap \in Nat /\ MinPrior \in Nat /\ Throughs \subseteq Nat
    /\ Gain \in [Results -> [BOOLEAN -> Int]]
    /\ HomeAdvantage \in Int /\ PromotedPrior \in Int /\ ShrinkBy \in Nat \ {0}

VARIABLES
    matches,    \* the frame
    scheduled,  \* an EloParamSchedule was passed, or else one EloParams
    through,    \* the last season the one EloParams was estimated from
    states,     \* of each club: its _TeamState
    started,    \* started_seasons
    phase,      \* of the date at hand
    pending,    \* its matches whose rows are emitted and that are not recorded
    settled,    \* the matches whose results have been used
    rows        \* the rows emitted

vars == <<matches, scheduled, through, states, started, phase,
          pending, settled, rows>>

input == <<matches, scheduled, through>>

-----------------------------------------------------------------------------
(* The calendar.                                                           *)

Plays(m, club) == club \in {m.home, m.away}

Seasons == {m.season : m \in matches}

Earlier(season) == {s \in Seasons : s < season}

\* _season_rosters.
Roster(season) ==
    {club \in Clubs : \E m \in matches : m.season = season /\ Plays(m, club)}

\* _classify_team_seasons: a club is stale if a season has passed without it.
SeasonKind(club, season) ==
    LET played == {s \in Earlier(season) : club \in Roster(s)}
    IN  IF played = {} THEN "new"
        ELSE IF \E s \in Earlier(season) : s > Max(played)
               THEN "stale" ELSE "continuing"

\* Mutant of ParamSources: the schedule's cutoff is the season itself.
ParamSourcesOwnSeason(season) ==
    IF ~scheduled THEN {m \in matches : m.season <= through}
    ELSE IF Cardinality(Earlier(season)) < MinPrior THEN {}
         ELSE {m \in matches : m.season <= season}

\* The matches that the Elo parameters of a season were estimated from: none
\* while the schedule has too little history, and always none of that season.
ParamSources(season) ==
    IF ~scheduled THEN {m \in matches : m.season <= through}
    ELSE IF Cardinality(Earlier(season)) < MinPrior THEN {}
         ELSE {m \in matches : m.season < season}

-----------------------------------------------------------------------------
(* The state of a club.                                                    *)

\* elo is counted from initial_rating.
NewState ==
    [elo |-> 0, informed |-> {}, ewma |-> <<>>, recent |-> <<>>,
     usable_prior |-> 0, total_prior |-> 0, season_log |-> <<>>,
     last_date |-> None, is_returning |-> FALSE]

\* Mutant of ResetHistory: the counter survives.
ResetHistoryButCounter(state) == [state EXCEPT !.ewma = <<>>, !.recent = <<>>]

\* _TeamState.reset_history.
ResetHistory(state) ==
    [state EXCEPT !.ewma = <<>>, !.recent = <<>>, !.usable_prior = 0]

\* How one club enters a season, before the league is re-centred.
Entered(club, season) ==
    LET kind == SeasonKind(club, season)
        state == [states[club] EXCEPT !.season_log = <<>>]
        first == Earlier(season) = {}
    IN  CASE first ->
               [ResetHistory(state) EXCEPT
                  !.elo = 0, !.informed = {}, !.is_returning = FALSE]
          [] ~first /\ kind \in {"new", "stale"} ->
               [ResetHistory(state) EXCEPT
                  !.elo = PromotedPrior, !.informed = ParamSources(season),
                  !.is_returning = (kind = "stale")]
          [] OTHER ->
               [state EXCEPT
                  !.elo = @ \div ShrinkBy, !.informed = @ \cup ParamSources(season),
                  !.is_returning = FALSE]

MeanElo(entered, active) ==
    SumFunction([club \in active |-> entered[club].elo]) \div Cardinality(active)

\* Mutant of Recentred: the league keeps the ratings it entered with.
RecentredNot(entered, active) == entered

\* The mean of the active clubs moves to the initial rating; each rating then
\* depends on those of the whole league.
Recentred(entered, active) ==
    [club \in Clubs |->
        IF club \notin active THEN entered[club]
        ELSE [entered[club] EXCEPT
                !.elo = @ - MeanElo(entered, active),
                !.informed = UNION {entered[c].informed : c \in active}]]

\* start_season.
SeasonStarted(season) ==
    Recentred([club \in Clubs |-> IF club \in Roster(season)
                                    THEN Entered(club, season) ELSE states[club]],
              Roster(season))

-----------------------------------------------------------------------------
(* Rows.                                                                   *)

Least(m, n) == IF m <= n THEN m ELSE n

\* The features of one side of a match.  NaN is None.  The depth of a club's
\* history is shown up to a cap, and the club is cold by the depth itself.
Features(state, date) ==
    [elo |-> state.elo,
     informed |-> state.informed,
     ewma |-> IF Len(state.ewma) >= MinPeriods THEN state.ewma ELSE None,
     efficiency |-> IF Len(state.recent) >= MinPeriods THEN state.recent ELSE None,
     season_to_date |-> IF state.season_log = <<>> THEN None ELSE state.season_log,
     season_matches |-> Len(state.season_log),
     prior_matches |-> state.total_prior,
     history_depth |-> Least(state.usable_prior, DepthCap),
     is_cold_start |-> state.usable_prior < MinPeriods,
     is_returning |-> state.is_returning,
     rest_days |-> IF state.last_date = None THEN None
                   ELSE Least(date - state.last_date, RestCap)]

Row(m, now) ==
    [match |-> m, home |-> Features(now[m.home], m.date),
                  away |-> Features(now[m.away], m.date)]

\* The states once the season of a match has started.
InSeason(season) == IF season \in started THEN states ELSE SeasonStarted(season)

\* The matches of the earliest date whose results are not used yet.
Today == {m \in matches \ settled : \A n \in matches \ settled : m.date <= n.date}

-----------------------------------------------------------------------------
(* Results.                                                                *)

\* k_factor * (score - expected), from the ratings before the date.
EloDelta(m) ==
    Gain[m.result][states[m.home].elo + HomeAdvantage > states[m.away].elo]

EloChange(club, m) ==
    IF m.home = club THEN EloDelta(m) ELSE -EloDelta(m)

\* The rating of a club after today's matches.
Rated(club) ==
    LET played == {m \in Today : Plays(m, club)}
    IN  [states[club] EXCEPT
            !.elo = @ + SumFunction([m \in played |-> EloChange(club, m)]),
            !.informed = @ \cup played
                \cup (UNION {ParamSources(m.season) : m \in played})
                \cup (UNION {states[m.home].informed : m \in played})
                \cup (UNION {states[m.away].informed : m \in played})]

\* Mutant of LastOf: one more than the window.
LastOfOneMore(s, n) == SubSeq(s, IF Len(s) > n THEN Len(s) - n ELSE 1, Len(s))

\* The last n elements of a sequence (a deque with a maximal length).
LastOf(s, n) == SubSeq(s, IF Len(s) > n THEN Len(s) - n + 1 ELSE 1, Len(s))

\* _record_match.
WithMatch(state, m) ==
    [state EXCEPT
        !.ewma = Append(@, m),
        !.recent = LastOf(Append(@, m), Window),
        !.usable_prior = @ + 1,
        !.total_prior = @ + 1,
        !.season_log = Append(@, m),
        !.last_date = m.date]

-----------------------------------------------------------------------------

Init ==
    /\ matches \in Frames
    /\ \/ scheduled = TRUE /\ through = 0
       \/ scheduled = FALSE /\ through \in Throughs
    /\ states = [club \in Clubs |-> NewState]
    /\ started = {}
    /\ phase = "emit"
    /\ pending = <<>>
    /\ settled = {}
    /\ rows = <<>>

\* Phase 1, one match: its season starts if it has not, and its row is
\* emitted.  The code goes through a date in alphabetical order, which carries
\* no information; here the order is left open.
EmitRow(m) ==
    /\ phase = "emit"
    /\ m \in Today \ ToSet(pending)
    /\ states' = InSeason(m.season)
    /\ started' = started \cup {m.season}
    /\ rows' = Append(rows, Row(m, InSeason(m.season)))
    /\ pending' = Append(pending, m)
    /\ UNCHANGED <<input, phase, settled>>

\* Phase 2: all ratings of the date change together.
RateDate ==
    /\ phase = "emit"
    /\ Today # {} /\ Today \subseteq ToSet(pending)
    /\ states' = [club \in Clubs |-> Rated(club)]
    /\ settled' = settled \cup Today
    /\ phase' = "record"
    /\ UNCHANGED <<input, started, pending, rows>>

\* Then each match is recorded for its two clubs.
RecordMatch ==
    /\ phase = "record"
    /\ states' = [club \in Clubs |->
          IF Plays(Head(pending), club)
            THEN WithMatch(states[club], Head(pending)) ELSE states[club]]
    /\ pending' = Tail(pending)
    /\ phase' = IF Len(pending) = 1 THEN "emit" ELSE "record"
    /\ UNCHANGED <<input, started, settled, rows>>

Next == RateDate \/ RecordMatch \/ \E m \in matches : EmitRow(m)

Spec == Init /\ [][Next]_vars

-----------------------------------------------------------------------------
(* Properties.                                                             *)

Side == [elo : Int, informed : SUBSET matches,
         ewma : Seq(matches) \cup {None}, efficiency : Seq(matches) \cup {None},
         season_to_date : Seq(matches) \cup {None},
         season_matches : Nat, prior_matches : Nat, history_depth : 0..DepthCap,
         is_cold_start : BOOLEAN, is_returning : BOOLEAN,
         rest_days : Nat \cup {None}]

State == [elo : Int, informed : SUBSET matches, ewma : Seq(matches),
          recent : {s \in Seq(matches) : Len(s) <= Window},
          usable_prior : Nat, total_prior : Nat, season_log : Seq(matches),
          last_date : Nat \cup {None}, is_returning : BOOLEAN]

TypeOK ==
    /\ WellFormed(matches) /\ SeasonsApart(matches)
    /\ scheduled \in BOOLEAN /\ through \in Nat
    /\ states \in [Clubs -> State]
    /\ started \subseteq Seasons
    /\ pending \in Seq(matches)
    /\ settled \subseteq matches
    /\ phase \in {"emit", "record"}
    /\ rows \in Seq([match : matches, home : Side, away : Side])

\* Whether what a side shows was computed from matches before a date.
Sources(side) ==
    side.informed \cup UNION {IF seq = None THEN {} ELSE ToSet(seq) :
        seq \in {side.ewma, side.efficiency, side.season_to_date}}

Past(date) == {n \in matches : n.date < date}

\* "Every feature emitted for a match is a function of matches that finished
\* strictly before that match's date" (header of feature_engineering.py), the
\* Elo parameters included when they come from a schedule.  With one fixed
\* EloParams this is claimed only for seasons after its training window.
NoLookahead ==
    \A i \in DOMAIN rows :
        (scheduled \/ rows[i].match.season > through) =>
            Sources(rows[i].home) \cup Sources(rows[i].away)
                \subseteq Past(rows[i].match.date)

\* What a club's columns should say before a match, read off the calendar.
Before(m, club) == {n \in Past(m.date) : Plays(n, club)}

\* The seasons up to one in which a club was in the league and had not been
\* in the season before.
Entries(season, club) ==
    {s \in Seasons : /\ s <= season /\ club \in Roster(s)
                     /\ Earlier(s) = {} \/ club \notin Roster(Max(Earlier(s)))}

\* The first season of the spell in the league that a season of a club is in.
SpellStart(season, club) == Max(Entries(season, club))

Since(set, season) == {n \in set : n.season >= season}

OfSeason(set, season) == {n \in set : n.season = season}

InOrder(seq) == \A i, j \in DOMAIN seq : i < j => seq[i].date <= seq[j].date

\* A set of matches, listed by date.
Lists(seq, set) ==
    ToSet(seq) = set /\ Len(seq) = Cardinality(set) /\ InOrder(seq)

\* Its last n, listed by date.
Latest(set, n, seq) ==
    /\ Len(seq) = Least(n, Cardinality(set)) /\ IsInjective(seq)
    /\ ToSet(seq) \subseteq set /\ InOrder(seq)
    /\ \A k \in set \ ToSet(seq), i \in DOMAIN seq : k.date <= seq[i].date

SideIsHistory(m, club, side) ==
    LET before == Before(m, club)
        start == SpellStart(m.season, club)
        spell == Since(before, start)
        season == OfSeason(before, m.season)
    IN  /\ side.history_depth = Least(Cardinality(spell), DepthCap)
        /\ side.is_cold_start <=> Cardinality(spell) < MinPeriods
        /\ IF Cardinality(spell) < MinPeriods THEN side.ewma = None
                                              ELSE Lists(side.ewma, spell)
        /\ IF Least(Window, Cardinality(spell)) < MinPeriods
             THEN side.efficiency = None
             ELSE Latest(spell, Window, side.efficiency)
        /\ IF season = {} THEN side.season_to_date = None
                          ELSE Lists(side.season_to_date, season)
        /\ side.season_matches = Cardinality(season)
        /\ side.prior_matches = Cardinality(before)
        /\ side.is_returning <=>
              m.season = start /\ \E n \in before : n.season < start
        /\ side.rest_days =
              IF before = {} THEN None
              ELSE Least(m.date - Max({n.date : n \in before}), RestCap)

\* The pass over the frame, with its resets and roll-overs, computes for each
\* row what the calendar says: the club's matches of its present spell, of
\* this season and of all time, before the date of the row, and whether it is
\* back in the league after a season away (build_features).
RowsAreHistory ==
    \A i \in DOMAIN rows :
        /\ SideIsHistory(rows[i].match, rows[i].match.home, rows[i].home)
        /\ SideIsHistory(rows[i].match, rows[i].match.away, rows[i].away)

\* "Every row of matches produces exactly one output row" (build_features):
\* none is dropped, cold starts included, and none is emitted twice.
EveryMatchOneRow ==
    LET emitted == [i \in DOMAIN rows |-> rows[i].match]
    IN  IsInjective(emitted) /\ ToSet(emitted) = settled \cup ToSet(pending)

\* Three counters are kept apart, in the averages, the window and the state,
\* and cold-start indicators agree with all of them (validate_feature_frame):
\* a side without history shows no average, and says so in its depth too
\* unless the cap on it is below min_periods.
ColdStartAgrees ==
    \A i \in DOMAIN rows : \A side \in {rows[i].home, rows[i].away} :
        /\ side.is_cold_start <=> side.ewma = None
        /\ side.is_cold_start => side.efficiency = None
        /\ side.history_depth <= side.prior_matches
        /\ MinPeriods <= DepthCap =>
              (side.is_cold_start <=> side.history_depth < MinPeriods)
        /\ side.season_matches <= side.prior_matches

\* "After each season's rollover the active clubs are re-centred" so that a
\* rating means the same in every season (header, rule 4), and updates only
\* move points between clubs: the mean of the league stays where it was put,
\* but for the remainder of an integer division.
EloScaleStable ==
    started # {} =>
        LET league == Roster(Max(started))
        IN  SumFunction([club \in league |-> states[club].elo])
                \in 0 .. Cardinality(league) - 1

=============================================================================
