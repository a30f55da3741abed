----------------------- MODULE FeaturePipeline_proofs -----------------------
(***************************************************************************)
(* Proofs about build_features, for every frame of matches and every       *)
(* parameter.                                                              *)
(*                                                                         *)
(* It never looks ahead: IInv bounds what the state of each club was       *)
(* computed from, namely results already used, or the window that a fixed  *)
(* set of Elo parameters was estimated from.                               *)
(*                                                                         *)
(* On top of IInv stand four more invariants, each about one thing: BInv   *)
(* that the counters and the windows of a club agree and every match gives *)
(* one row, TInv that everything is well typed, EInv that the league of    *)
(* the latest season is centred, and HInv that the state of each club is   *)
(* the history that the calendar gives it.  TInv and EInv need sums over   *)
(* finite sets, of which the library has no theorems; theirs are proved    *)
(* here by induction on the cardinality, stated about a set of naturals    *)
(* (AllNaturals) or of subsets (SubsetInduction).                          *)
(***************************************************************************)
EXTENDS FeaturePipeline, FiniteSetTheorems, SequenceTheorems,
        NaturalsInduction, WellFoundedInduction, TLAPS

\* The matches that a fixed EloParams was estimated from.
FixedWindow == IF scheduled THEN {} ELSE {m \in matches : m.season <= through}

Known == settled \cup FixedWindow

Fields == {"elo", "informed", "ewma", "recent", "usable_prior", "total_prior",
           "season_log", "last_date", "is_returning"}

StateKnown(state) ==
    /\ DOMAIN state = Fields
    /\ state.informed \subseteq Known
    /\ state.ewma \in Seq(settled)
    /\ state.recent \in Seq(settled)
    /\ state.season_log \in Seq(settled)

RowKnown(row) ==
    /\ row.match \in matches
    /\ Sources(row.home) \subseteq Past(row.match.date) \cup FixedWindow
    /\ Sources(row.away) \subseteq Past(row.match.date) \cup FixedWindow

InputOK ==
    /\ matches \subseteq Match /\ SeasonsApart(matches)
    /\ scheduled \in BOOLEAN /\ through \in Nat

\* All of a date is settled before any later date is.
DatesInOrder ==
    /\ settled \subseteq matches
    /\ \A m \in settled, n \in matches \ settled : m.date < n.date

DayOK ==
    /\ phase \in {"emit", "record"}
    /\ phase = "emit" => pending \in Seq(Today)
    /\ phase = "record" => pending \in Seq(settled) /\ pending # <<>>

\* Once a season has started, the seasons before it are settled.
EarlierSettled == \A s \in started, n \in matches : n.season < s => n \in settled

StatesKnown == \A club \in Clubs : StateKnown(states[club])

RowsKnown ==
    /\ rows \in Seq(ToSet(rows))
    /\ \A i \in DOMAIN rows : RowKnown(rows[i])

IInv ==
    /\ InputOK
    /\ DatesInOrder
    /\ DayOK
    /\ EarlierSettled
    /\ StatesKnown
    /\ RowsKnown

-----------------------------------------------------------------------------

LEMMA LastOfType ==
    ASSUME NEW S, NEW s \in Seq(S)
    PROVE  LastOf(s, Window) \in Seq(S)
<1>1. Window \in Nat \ {0}
  BY ParameterAssumption
<1>2. Len(s) \in Nat
  BY LenProperties
<1> DEFINE first == IF Len(s) > Window THEN Len(s) - Window + 1 ELSE 1
<1>3. first \in 1..(Len(s) + 1)
  BY <1>1, <1>2
<1>4. \A i \in first..Len(s) : s[i] \in S
  BY <1>2, <1>3, ElementOfSeq
<1> QED
  BY <1>2, <1>3, <1>4, SubSeqProperties DEF LastOf

\* What the parameters of today's season were estimated from is known.
LEMMA ParamsKnown ==
    ASSUME InputOK, DatesInOrder, NEW m \in Today
    PROVE  ParamSources(m.season) \subseteq Known
<1>1. CASE ~scheduled
  BY <1>1 DEF ParamSources, Known, FixedWindow
<1>2. CASE scheduled
  <2> SUFFICES ASSUME NEW n \in matches, n.season < m.season
               PROVE  n \in settled
    BY <1>2 DEF ParamSources, Known
  <2>1. m \in matches /\ n.date < m.date
    BY DEF Today, InputOK, SeasonsApart
  <2>2. n \notin settled => m.date <= n.date
    BY DEF Today
  <2>3. m.date \in Nat /\ n.date \in Nat
    BY <2>1 DEF InputOK, Match
  <2> QED
    BY <2>1, <2>2, <2>3
<1> QED
  BY <1>1, <1>2


\* The matches before today's are settled.
LEMMA SettledIsPast ==
    ASSUME InputOK, DatesInOrder, NEW m \in Today
    PROVE  settled \subseteq Past(m.date)
BY DEF InputOK, DatesInOrder, Today, Past

LEMMA EnteredKnown ==
    ASSUME IInv, NEW m \in Today, NEW club \in Clubs
    PROVE  StateKnown(Entered(club, m.season))
<1> DEFINE state == [states[club] EXCEPT !.season_log = <<>>]
           reset == ResetHistory(state)
<1>1. ParamSources(m.season) \subseteq Known
  BY ParamsKnown DEF IInv
<1>2. <<>> \in Seq(settled)
  BY EmptySeq
<1>3. StateKnown(state)
  BY <1>2 DEF IInv, StatesKnown, StateKnown, Fields
<1>4. StateKnown(reset)
  BY <1>2, <1>3 DEF ResetHistory, StateKnown, Fields
<1> DEFINE fresh == [reset EXCEPT !.elo = 0, !.informed = {}, !.is_returning = FALSE]
           entrant == [reset EXCEPT !.elo = PromotedPrior,
                          !.informed = ParamSources(m.season),
                          !.is_returning = (SeasonKind(club, m.season) = "stale")]
           regular == [state EXCEPT !.elo = @ \div ShrinkBy,
                          !.informed = @ \cup ParamSources(m.season),
                          !.is_returning = FALSE]
<1>5. StateKnown(fresh)
  BY <1>4 DEF StateKnown, Fields
<1>6. StateKnown(entrant)
  BY <1>1, <1>4 DEF StateKnown, Fields
<1>7. StateKnown(regular)
  BY <1>1, <1>3 DEF StateKnown, Fields
<1>8. \/ Entered(club, m.season) = fresh
      \/ Entered(club, m.season) = entrant
      \/ Entered(club, m.season) = regular
  BY DEF Entered
<1> HIDE DEF fresh, entrant, regular
<1> QED
  BY <1>5, <1>6, <1>7, <1>8

\* Starting a season uses nothing but what is known.
LEMMA InSeasonKnown ==
    ASSUME IInv, NEW m \in Today
    PROVE  \A club \in Clubs : StateKnown(InSeason(m.season)[club])
<1> DEFINE active == Roster(m.season)
           entered == [club \in Clubs |-> IF club \in active
                         THEN Entered(club, m.season) ELSE states[club]]
<1>1. \A club \in Clubs : StateKnown(entered[club])
  BY EnteredKnown DEF IInv, StatesKnown
<1>2. active \subseteq Clubs
  BY DEF Roster
<1> HIDE DEF entered, active
<1>3. UNION {entered[c].informed : c \in active} \subseteq Known
  BY <1>1, <1>2 DEF StateKnown
<1>4. ASSUME NEW club \in Clubs, club \in active
      PROVE  StateKnown([entered[club] EXCEPT
                 !.elo = @ - MeanElo(entered, active),
                 !.informed = UNION {entered[c].informed : c \in active}])
  BY <1>1, <1>3 DEF StateKnown, Fields
<1>5. \A club \in Clubs : StateKnown(SeasonStarted(m.season)[club])
  BY <1>1, <1>4 DEF SeasonStarted, Recentred, entered, active
<1> QED
  BY <1>5 DEF InSeason, IInv, StatesKnown

\* What a side shows comes from the state of its club.
LEMMA FeaturesKnown ==
    ASSUME NEW state, StateKnown(state), NEW date
    PROVE  Sources(Features(state, date)) \subseteq Known
<1> DEFINE side == Features(state, date)
<1>1. /\ side.informed = state.informed
      /\ side.ewma \in {state.ewma, None}
      /\ side.efficiency \in {state.recent, None}
      /\ side.season_to_date \in {state.season_log, None}
  BY DEF Features
<1>2. ASSUME NEW seq \in Seq(settled)
      PROVE  ToSet(seq) \subseteq Known
  BY LenProperties, ElementOfSeq DEF ToSet, Known
<1>3. \A seq \in {state.ewma, state.recent, state.season_log} : ToSet(seq) \subseteq Known
  BY <1>2 DEF StateKnown
<1>4. state.informed \subseteq Known
  BY DEF StateKnown
<1> HIDE DEF side
<1>5. Sources(side) \subseteq Known
  BY <1>1, <1>3, <1>4 DEF Sources
<1> QED
  BY <1>5 DEF side

LEMMA AppendRow ==
    ASSUME NEW s, s \in Seq(ToSet(s)), NEW e
    PROVE  /\ Append(s, e) \in Seq(ToSet(Append(s, e)))
           /\ \A i \in DOMAIN Append(s, e) :
                 Append(s, e)[i] = e \/ (i \in DOMAIN s /\ Append(s, e)[i] = s[i])
<1> DEFINE S == ToSet(s) \cup {e}
           t == Append(s, e)
<1>1. s \in Seq(S)
  BY SeqMonotonic
<1>2. /\ t \in Seq(S) /\ Len(t) = Len(s) + 1
      /\ \A i \in 1..Len(s) : t[i] = s[i]
      /\ t[Len(s) + 1] = e
  <2> e \in S
    OBVIOUS
  <2> HIDE DEF S
  <2> QED
    BY <1>1, AppendProperties
<1>3. /\ Len(s) \in Nat /\ DOMAIN s = 1..Len(s)
      /\ DOMAIN t = 1..Len(t)
  BY <1>1, <1>2, LenProperties
<1>4. ToSet(t) = S
  BY <1>2, <1>3 DEF ToSet
<1> QED
  BY <1>2, <1>3, <1>4

-----------------------------------------------------------------------------

\* Nothing is settled or started when the pass begins.
LEMMA InitIInv == Init => IInv
<1> SUFFICES ASSUME Init PROVE IInv
  OBVIOUS
<1>1. InputOK
  <2>1. matches \subseteq Match /\ SeasonsApart(matches)
    <3>1. WellFormed(matches) /\ SeasonsApart(matches)
      BY FramesAssumption DEF Init
    <3> QED
      BY <3>1 DEF WellFormed
  <2>2. scheduled \in BOOLEAN
    BY Zenon DEF Init
  <2>3. through \in Nat
    <3>1. through = 0 \/ through \in Throughs
      BY Zenon DEF Init
    <3>2. Throughs \subseteq Nat
      BY ParameterAssumption
    <3>3. CASE through = 0
      BY <3>3
    <3>4. CASE through \in Throughs
      BY <3>2, <3>4, Zenon
    <3> QED
      BY <3>1, <3>3, <3>4
  <2> QED
    BY <2>1, <2>2, <2>3 DEF InputOK
<1>2. DatesInOrder /\ EarlierSettled
  BY DEF Init, DatesInOrder, EarlierSettled
<1>3. DayOK
  BY EmptySeq DEF Init, DayOK
<1>4. StatesKnown
  <2>1. <<>> \in Seq(settled)
    BY EmptySeq
  <2>2. StateKnown(NewState)
    BY <2>1 DEF StateKnown, NewState, Fields
  <2> QED
    BY <2>2 DEF Init, StatesKnown
<1>5. RowsKnown
  BY EmptySeq DEF Init, RowsKnown
<1> QED
  BY <1>1, <1>2, <1>3, <1>4, <1>5 DEF IInv

\* A row of today is computed from states that know only the past.
LEMMA EmitRowIInv ==
    ASSUME IInv, NEW m \in matches, EmitRow(m)
    PROVE  IInv'
<1>1. /\ m \in Today
      /\ InputOK /\ DatesInOrder /\ DayOK /\ EarlierSettled /\ RowsKnown
  BY DEF EmitRow, IInv
<1>2. InputOK'
  BY <1>1 DEF EmitRow, input, InputOK, SeasonsApart
<1>3. DatesInOrder'
  BY <1>1 DEF EmitRow, input, DatesInOrder
<1>4. DayOK'
  <2>1. pending' \in Seq(Today)
    BY <1>1, AppendProperties DEF EmitRow, DayOK
  <2>2. Today' = Today /\ phase' = "emit"
    BY DEF EmitRow, input, Today
  <2> QED
    BY <2>1, <2>2 DEF DayOK
<1>5. EarlierSettled'
  <2> SUFFICES ASSUME NEW s \in started', NEW n \in matches, n.season < s
               PROVE  n \in settled
    BY DEF EarlierSettled, EmitRow, input
  <2>1. CASE s \in started
    BY <1>1, <2>1 DEF EarlierSettled
  <2>2. CASE s = m.season
    <3>1. n.date < m.date
      BY <1>1, <2>2 DEF InputOK, SeasonsApart
    <3>2. n \notin settled => m.date <= n.date
      BY <1>1 DEF Today
    <3>3. m.date \in Nat /\ n.date \in Nat
      BY <1>1 DEF InputOK, Match
    <3> QED
      BY <3>1, <3>2, <3>3
  <2> QED
    BY <2>1, <2>2 DEF EmitRow
<1>6. StatesKnown'
  BY <1>1, InSeasonKnown
  DEF EmitRow, input, StatesKnown, StateKnown, Known, FixedWindow
<1>7. RowsKnown'
  <2> DEFINE row == Row(m, InSeason(m.season))
  <2>1. RowKnown(row)
    <3>1. m.home \in Clubs /\ m.away \in Clubs
      BY <1>1 DEF InputOK, Match
    <3>2. /\ StateKnown(InSeason(m.season)[m.home])
          /\ StateKnown(InSeason(m.season)[m.away])
      BY <1>1, <3>1, InSeasonKnown
    <3>3. /\ Sources(row.home) \subseteq Known
          /\ Sources(row.away) \subseteq Known
      BY <3>2, FeaturesKnown DEF Row
    <3>4. row.match = m
      BY DEF Row
    <3>5. Known \subseteq Past(m.date) \cup FixedWindow
      BY <1>1, SettledIsPast DEF Known
    <3> QED
      BY <3>3, <3>4, <3>5 DEF RowKnown
  <2>2. rows' = Append(rows, row)
    BY DEF EmitRow
  <2> HIDE DEF row
  <2>3. \A i \in DOMAIN rows' : RowKnown(rows'[i])
    BY <1>1, <2>1, <2>2, AppendRow DEF RowsKnown
  <2>4. rows' \in Seq(ToSet(rows'))
    BY <1>1, <2>2, AppendRow DEF RowsKnown
  <2>5. matches' = matches /\ scheduled' = scheduled /\ through' = through
    BY DEF EmitRow, input
  <2> QED
    BY <2>3, <2>4, <2>5 DEF RowsKnown, RowKnown, Past, FixedWindow
<1> QED
  BY <1>2, <1>3, <1>4, <1>5, <1>6, <1>7 DEF IInv

\* The date is settled as a whole; what its ratings depend on is known then.
LEMMA RateDateIInv ==
    ASSUME IInv, RateDate
    PROVE  IInv'
<1>1. /\ InputOK /\ DatesInOrder /\ DayOK /\ EarlierSettled
      /\ StatesKnown /\ RowsKnown
  BY DEF IInv
<1>2. /\ matches' = matches /\ scheduled' = scheduled /\ through' = through
      /\ started' = started /\ pending' = pending /\ rows' = rows
      /\ phase' = "record" /\ settled' = settled \cup Today
  BY DEF RateDate, input
<1>3. InputOK' /\ FixedWindow' = FixedWindow
  BY <1>1, <1>2 DEF InputOK, SeasonsApart, FixedWindow
<1>4. DatesInOrder'
  <2>1. settled' \subseteq matches'
    BY <1>1, <1>2 DEF DatesInOrder, Today
  <2>2. ASSUME NEW m \in settled', NEW n \in matches \ settled'
        PROVE  m.date < n.date
    <3>1. m.date \in Nat /\ n.date \in Nat
      BY <1>1, <1>2, <2>1, <2>2 DEF InputOK, Match
    <3>2. CASE m \in settled
      BY <1>1, <1>2, <3>2 DEF DatesInOrder
    <3>3. CASE m \in Today
      <4>1. PICK k \in matches \ settled : ~(n.date <= k.date)
        BY <1>2, <2>2 DEF Today
      <4>2. m.date <= k.date /\ k.date \in Nat
        BY <1>1, <3>3 DEF Today, InputOK, Match
      <4> QED
        BY <3>1, <4>1, <4>2
    <3> QED
      BY <1>2, <3>2, <3>3
  <2> QED
    BY <1>2, <2>1, <2>2 DEF DatesInOrder
<1>5. DayOK'
  <2>1. pending \in Seq(Today)
    BY <1>1 DEF DayOK, RateDate
  <2>2. pending \in Seq(settled')
    BY <1>2, <2>1, SeqMonotonic
  <2>3. pending # <<>>
    BY DEF RateDate, ToSet
  <2> QED
    BY <1>2, <2>2, <2>3 DEF DayOK
<1>6. EarlierSettled'
  BY <1>1, <1>2 DEF EarlierSettled
<1>7. StatesKnown'
  <2> SUFFICES ASSUME NEW club \in Clubs
               PROVE  StateKnown(states[club])'
    BY DEF StatesKnown
  <2> DEFINE played == {m \in Today : Plays(m, club)}
             informed == states[club].informed \cup played
                \cup (UNION {ParamSources(m.season) : m \in played})
                \cup (UNION {states[m.home].informed : m \in played})
                \cup (UNION {states[m.away].informed : m \in played})
  <2>1. StateKnown(states[club])
    BY <1>1 DEF StatesKnown
  <2>2. informed \subseteq Known'
    <3>1. \A m \in played :
             /\ ParamSources(m.season) \subseteq Known
             /\ states[m.home].informed \subseteq Known
             /\ states[m.away].informed \subseteq Known
      <4> SUFFICES ASSUME NEW m \in Today
                   PROVE  /\ ParamSources(m.season) \subseteq Known
                          /\ states[m.home].informed \subseteq Known
                          /\ states[m.away].informed \subseteq Known
        OBVIOUS
      <4>1. m.home \in Clubs /\ m.away \in Clubs
        BY <1>1 DEF InputOK, Match, Today
      <4> QED
        BY <1>1, <4>1, ParamsKnown DEF StatesKnown, StateKnown
    <3>2. Known \subseteq Known' /\ played \subseteq Known'
      BY <1>2, <1>3 DEF Known
    <3> QED
      BY <2>1, <3>1, <3>2 DEF StateKnown
  <2>3. states'[club] =
          [states[club] EXCEPT
             !.elo = @ + SumFunction([m \in played |-> EloChange(club, m)]),
             !.informed = informed]
    BY DEF RateDate, Rated
  <2> HIDE DEF informed, played
  <2>4. /\ DOMAIN states'[club] = Fields
        /\ states'[club].informed = informed
        /\ states'[club].ewma = states[club].ewma
        /\ states'[club].recent = states[club].recent
        /\ states'[club].season_log = states[club].season_log
    BY <2>1, <2>3 DEF StateKnown, Fields
  <2>5. \A seq \in Seq(settled) : seq \in Seq(settled')
    BY <1>2, SeqMonotonic
  <2> QED
    BY <2>1, <2>2, <2>4, <2>5 DEF StateKnown
<1>8. RowsKnown'
  BY <1>1, <1>2, <1>3 DEF RowsKnown, RowKnown, Past
<1> QED
  BY <1>3, <1>4, <1>5, <1>6, <1>7, <1>8 DEF IInv

\* Recording folds a settled match into the states of its clubs.
LEMMA RecordMatchIInv ==
    ASSUME IInv, RecordMatch
    PROVE  IInv'
<1>1. /\ InputOK /\ DatesInOrder /\ DayOK /\ EarlierSettled
      /\ StatesKnown /\ RowsKnown
  BY DEF IInv
<1>2. /\ matches' = matches /\ scheduled' = scheduled /\ through' = through
      /\ started' = started /\ settled' = settled /\ rows' = rows
  BY DEF RecordMatch, input
<1>3. FixedWindow' = FixedWindow /\ Known' = Known
  BY <1>2 DEF FixedWindow, Known
<1>4. InputOK' /\ DatesInOrder' /\ EarlierSettled' /\ RowsKnown'
  BY <1>1, <1>2, <1>3
  DEF InputOK, SeasonsApart, DatesInOrder, EarlierSettled, RowsKnown,
      RowKnown, Past
<1>5. pending \in Seq(settled) /\ pending # <<>>
  BY <1>1 DEF DayOK, RecordMatch
<1>6. /\ Head(pending) \in settled /\ Tail(pending) \in Seq(settled)
      /\ Len(Tail(pending)) = Len(pending) - 1 /\ Len(pending) \in Nat \ {0}
  BY EmptySeq, <1>5, HeadTailProperties
<1>7. DayOK'
  <2>1. CASE Len(pending) = 1
    <3>1. Tail(pending) = <<>>
      <4>1. Tail(pending) # <<>> => Len(Tail(pending)) \in Nat \ {0}
        BY <1>6, EmptySeq
      <4> QED
        BY <1>6, <2>1, <4>1
    <3> QED
      BY <2>1, <3>1, EmptySeq DEF RecordMatch, DayOK
  <2>2. CASE Len(pending) # 1
    <3>1. Tail(pending) # <<>>
      BY <1>6, <2>2, EmptySeq
    <3> QED
      BY <1>2, <1>6, <2>2, <3>1 DEF RecordMatch, DayOK
  <2> QED
    BY <2>1, <2>2
<1>8. StatesKnown'
  <2> SUFFICES ASSUME NEW club \in Clubs
               PROVE  StateKnown(states'[club])
    BY <1>2, <1>3 DEF StatesKnown, StateKnown
  <2> DEFINE m == Head(pending)
             state == states[club]
  <2>1. StateKnown(state)
    BY <1>1 DEF StatesKnown
  <2>2. /\ Append(state.ewma, m) \in Seq(settled)
        /\ Append(state.recent, m) \in Seq(settled)
        /\ Append(state.season_log, m) \in Seq(settled)
    BY <1>6, <2>1, AppendProperties DEF StateKnown
  <2>3. LastOf(Append(state.recent, m), Window) \in Seq(settled)
    BY <2>2, LastOfType
  <2> HIDE DEF m, state
  <2>4. StateKnown(WithMatch(state, m))
    BY <2>1, <2>2, <2>3 DEF StateKnown, WithMatch, Fields
  <2> QED
    BY <2>1, <2>4 DEF RecordMatch, m, state
<1> QED
  BY <1>4, <1>7, <1>8 DEF IInv

LEMMA StutterIInv ==
    ASSUME IInv, UNCHANGED vars
    PROVE  IInv'
<1>1. /\ matches' = matches /\ scheduled' = scheduled /\ through' = through
      /\ states' = states /\ started' = started /\ phase' = phase
      /\ pending' = pending /\ settled' = settled /\ rows' = rows
  BY DEF vars
<1>2. FixedWindow' = FixedWindow /\ Known' = Known /\ Today' = Today
  BY <1>1 DEF FixedWindow, Known, Today
<1> QED
  BY <1>1, <1>2
  DEF IInv, InputOK, SeasonsApart, DatesInOrder, DayOK, EarlierSettled,
      StatesKnown, StateKnown, RowsKnown, RowKnown, Past

\* Every state of the pass satisfies the invariant.
THEOREM Inductive == Spec => []IInv
<1>1. Init => IInv
  BY InitIInv
<1>2. IInv /\ [Next]_vars => IInv'
  <2> SUFFICES ASSUME IInv, [Next]_vars PROVE IInv'
    OBVIOUS
  <2>1. CASE RateDate
    BY <2>1, RateDateIInv
  <2>2. CASE RecordMatch
    BY <2>2, RecordMatchIInv
  <2>3. ASSUME NEW m \in matches, EmitRow(m)
        PROVE  IInv'
    BY <2>3, EmitRowIInv
  <2>4. CASE UNCHANGED vars
    BY <2>4, StutterIInv
  <2> QED
    BY <2>1, <2>2, <2>3, <2>4 DEF Next
<1> QED
  BY <1>1, <1>2, PTL DEF Spec

\* The seasons of the fixed window lie before the rows that NoLookahead is
\* about, so that their dates do.
LEMMA IInvImpliesNoLookahead == IInv => NoLookahead
<1> SUFFICES ASSUME IInv, NEW i \in DOMAIN rows,
                    scheduled \/ rows[i].match.season > through
             PROVE  Sources(rows[i].home) \cup Sources(rows[i].away)
                        \subseteq Past(rows[i].match.date)
  BY DEF NoLookahead
<1> DEFINE m == rows[i].match
<1>1. RowKnown(rows[i]) /\ m \in matches
  BY DEF IInv, RowsKnown, RowKnown
<1>2. FixedWindow \subseteq Past(m.date)
  <2> SUFFICES ASSUME NEW n \in matches, ~scheduled, n.season <= through
               PROVE  n.date < m.date
    BY DEF FixedWindow, Past
  <2>1. n.season < m.season
    <3>1. n.season \in Nat /\ m.season \in Nat /\ through \in Nat
      BY <1>1 DEF IInv, InputOK, Match
    <3> QED
      BY <3>1
  <2> QED
    BY <1>1, <2>1 DEF IInv, InputOK, SeasonsApart
<1> QED
  BY <1>1, <1>2 DEF RowKnown

\* "Every feature emitted for a match is a function of matches that finished
\* strictly before that match's date": no step of build_features, for any
\* frame and any parameters, lets a row see its own date or a later one.
THEOREM NeverLooksAhead == Spec => []NoLookahead
BY Inductive, IInvImpliesNoLookahead, PTL

-----------------------------------------------------------------------------
(* The counters of a club, and one row for each match.                     *)

\* usable_prior counts what the averages were computed from, total_prior what
\* was ever recorded.
Counted(state) ==
    /\ state.usable_prior \in Nat /\ state.total_prior \in Nat
    /\ Len(state.ewma) = state.usable_prior
    /\ Len(state.recent) <= state.usable_prior
    /\ state.usable_prior <= state.total_prior
    /\ Len(state.season_log) <= state.total_prior

\* What ColdStartAgrees says of one side.
Agrees(side) ==
    /\ side.is_cold_start <=> side.ewma = None
    /\ side.is_cold_start => side.efficiency = None
    /\ side.history_depth <= side.prior_matches
    /\ side.season_matches <= side.prior_matches
    /\ MinPeriods <= DepthCap =>
          (side.is_cold_start <=> side.history_depth < MinPeriods)

AllCounted == \A club \in Clubs : Counted(states[club])

RowsAgree == \A i \in DOMAIN rows : Agrees(rows[i].home) /\ Agrees(rows[i].away)

BInv == AllCounted /\ RowsAgree /\ EveryMatchOneRow

\* The window keeps at most its length, and at most what it is given.
LEMMA LastOfLen ==
    ASSUME NEW S, NEW s \in Seq(S)
    PROVE  /\ Len(LastOf(s, Window)) \in Nat
           /\ Len(LastOf(s, Window)) <= Len(s)
           /\ Len(LastOf(s, Window)) <= Window
<1>1. Window \in Nat \ {0}
  BY ParameterAssumption
<1>2. Len(s) \in Nat
  BY LenProperties
<1> DEFINE first == IF Len(s) > Window THEN Len(s) - Window + 1 ELSE 1
<1>3. first \in 1..(Len(s) + 1) /\ first + Window > Len(s)
  BY <1>1, <1>2
<1>4. \A i \in first..Len(s) : s[i] \in S
  BY <1>2, <1>3, ElementOfSeq
<1>5. Len(SubSeq(s, first, Len(s))) = IF first <= Len(s) THEN Len(s) - first + 1 ELSE 0
  BY <1>2, <1>3, <1>4, SubSeqProperties
<1>6. LastOf(s, Window) = SubSeq(s, first, Len(s))
  BY DEF LastOf
<1> HIDE DEF first
<1> QED
  BY <1>1, <1>2, <1>3, <1>5, <1>6

\* A club enters a season with fewer averages or with the same ones, and with
\* no match of the season.
LEMMA EnteredCounted ==
    ASSUME IInv, AllCounted, NEW season, NEW club \in Clubs
    PROVE  /\ Counted(Entered(club, season))
           /\ DOMAIN Entered(club, season) = Fields
<1> DEFINE old == states[club]
           state == [old EXCEPT !.season_log = <<>>]
           reset == ResetHistory(state)
           fresh == [reset EXCEPT !.elo = 0, !.informed = {}, !.is_returning = FALSE]
           entrant == [reset EXCEPT !.elo = PromotedPrior,
                          !.informed = ParamSources(season),
                          !.is_returning = (SeasonKind(club, season) = "stale")]
           regular == [state EXCEPT !.elo = @ \div ShrinkBy,
                          !.informed = @ \cup ParamSources(season),
                          !.is_returning = FALSE]
<1>1. DOMAIN old = Fields /\ Counted(old)
  BY DEF IInv, StatesKnown, StateKnown, AllCounted
<1>2. Len(<<>>) = 0
  BY EmptySeq
<1>3. \/ Entered(club, season) = fresh
      \/ Entered(club, season) = entrant
      \/ Entered(club, season) = regular
  BY DEF Entered
<1>4. DOMAIN state = Fields /\ Counted(state)
  <2> HIDE DEF old
  <2> QED
    BY <1>1, <1>2 DEF Counted, Fields
<1>5. DOMAIN reset = Fields /\ Counted(reset)
  <2> HIDE DEF state
  <2> QED
    BY <1>2, <1>4 DEF Counted, Fields, ResetHistory
<1> HIDE DEF state, reset
<1>6. DOMAIN fresh = Fields /\ Counted(fresh)
  BY <1>5 DEF Counted, Fields
<1>7. DOMAIN entrant = Fields /\ Counted(entrant)
  BY <1>5 DEF Counted, Fields
<1>8. DOMAIN regular = Fields /\ Counted(regular)
  BY <1>4 DEF Counted, Fields
<1> HIDE DEF fresh, entrant, regular
<1> QED
  BY <1>3, <1>6, <1>7, <1>8

LEMMA InSeasonCounted ==
    ASSUME IInv, AllCounted, NEW season
    PROVE  \A club \in Clubs : Counted(InSeason(season)[club])
<1> DEFINE active == Roster(season)
           entered == [club \in Clubs |-> IF club \in active
                         THEN Entered(club, season) ELSE states[club]]
<1>1. \A club \in Clubs : Counted(entered[club]) /\ DOMAIN entered[club] = Fields
  BY EnteredCounted DEF IInv, StatesKnown, StateKnown, AllCounted
<1> HIDE DEF entered, active
<1>2. \A club \in Clubs : Counted([entered[club] EXCEPT
                 !.elo = @ - MeanElo(entered, active),
                 !.informed = UNION {entered[c].informed : c \in active}])
  BY <1>1 DEF Counted, Fields
<1>3. \A club \in Clubs : Counted(SeasonStarted(season)[club])
  BY <1>1, <1>2 DEF SeasonStarted, Recentred, entered, active
<1> QED
  BY <1>3 DEF InSeason, AllCounted

\* What a side shows of a club that is counted agrees.
LEMMA FeaturesAgree ==
    ASSUME NEW S \in SUBSET Match, NEW state, Counted(state),
           state.ewma \in Seq(S), state.recent \in Seq(S), state.season_log \in Seq(S),
           NEW date
    PROVE  Agrees(Features(state, date))
<1>1. state.ewma # None
  BY SeqMonotonic, NoneAssumption
<1>2. MinPeriods \in Nat /\ DepthCap \in Nat
  BY ParameterAssumption
<1>3. Len(state.ewma) \in Nat /\ Len(state.recent) \in Nat /\ Len(state.season_log) \in Nat
  BY LenProperties
<1> DEFINE side == Features(state, date)
<1>4. /\ side.ewma = IF Len(state.ewma) >= MinPeriods THEN state.ewma ELSE None
      /\ side.efficiency = IF Len(state.recent) >= MinPeriods THEN state.recent ELSE None
      /\ side.season_matches = Len(state.season_log)
      /\ side.prior_matches = state.total_prior
      /\ side.history_depth = Least(state.usable_prior, DepthCap)
      /\ side.is_cold_start <=> state.usable_prior < MinPeriods
  BY DEF Features
<1> HIDE DEF side
<1>5. side.is_cold_start <=> side.ewma = None
  BY <1>1, <1>2, <1>4 DEF Counted
<1>6. side.is_cold_start => side.efficiency = None
  BY <1>2, <1>3, <1>4 DEF Counted
<1>7. /\ side.history_depth <= side.prior_matches
      /\ side.season_matches <= side.prior_matches
      /\ MinPeriods <= DepthCap =>
            (side.is_cold_start <=> side.history_depth < MinPeriods)
  BY <1>2, <1>4 DEF Counted, Least
<1>8. Agrees(side)
  BY <1>5, <1>6, <1>7 DEF Agrees
<1> QED
  BY <1>8 DEF side

LEMMA InitBInv == Init => BInv
<1> SUFFICES ASSUME Init PROVE BInv
  OBVIOUS
<1>1. AllCounted
  BY EmptySeq DEF Init, AllCounted, Counted, NewState
<1>2. rows = <<>> /\ pending = <<>> /\ settled = {}
  BY DEF Init
<1>3. DOMAIN rows = {} /\ DOMAIN pending = {}
  BY <1>2
<1>4. RowsAgree
  BY <1>3 DEF RowsAgree
<1>5. EveryMatchOneRow
  BY <1>2, <1>3 DEF EveryMatchOneRow, IsInjective, ToSet
<1> QED
  BY <1>1, <1>4, <1>5 DEF BInv

\* A row is added for a match of today that has none.
LEMMA EmitRowBInv ==
    ASSUME IInv, BInv, NEW m \in matches, EmitRow(m)
    PROVE  BInv'
<1> DEFINE now == InSeason(m.season)
           row == Row(m, now)
<1>1. /\ m \in Today \ ToSet(pending) /\ m \in matches \ settled
      /\ m.home \in Clubs /\ m.away \in Clubs /\ settled \subseteq Match
  BY DEF EmitRow, Today, IInv, InputOK, DatesInOrder, Match
<1>2. AllCounted'
  BY InSeasonCounted DEF BInv, AllCounted, EmitRow
<1>3. Agrees(row.home) /\ Agrees(row.away)
  <2>1. \A club \in Clubs : StateKnown(now[club]) /\ Counted(now[club])
    BY <1>1, InSeasonCounted, InSeasonKnown DEF BInv
  <2> HIDE DEF now
  <2>2. \A club \in Clubs : Agrees(Features(now[club], m.date))
    BY <1>1, <2>1, FeaturesAgree DEF StateKnown
  <2> QED
    BY <1>1, <2>2 DEF Row
<1>4. row.match = m
  BY DEF Row
<1>5. /\ rows' = Append(rows, row) /\ pending' = Append(pending, m)
      /\ settled' = settled
  BY DEF EmitRow
<1> HIDE DEF row, now
<1>6. RowsAgree'
  BY <1>3, <1>5, AppendRow DEF IInv, RowsKnown, BInv, RowsAgree
<1>7. EveryMatchOneRow'
  <2>1. /\ Len(rows) \in Nat /\ DOMAIN rows = 1..Len(rows)
        /\ DOMAIN rows' = 1 .. Len(rows) + 1
        /\ \A i \in 1..Len(rows) : rows'[i] = rows[i]
        /\ rows'[Len(rows) + 1] = row
    BY <1>5, LenProperties, AppendProperties DEF IInv, RowsKnown
  <2>2. ToSet(pending') = ToSet(pending) \cup {m}
    <3>1. pending \in Seq(Today)
      BY DEF IInv, DayOK, EmitRow
    <3> QED
      BY <1>5, <3>1, LenProperties, AppendProperties DEF ToSet
  <2>3. /\ \A i, j \in DOMAIN rows : rows[i].match = rows[j].match => i = j
        /\ \A i \in DOMAIN rows : rows[i].match \in settled \cup ToSet(pending)
        /\ \A n \in settled \cup ToSet(pending) : \E i \in DOMAIN rows : rows[i].match = n
    BY DEF BInv, EveryMatchOneRow, IsInjective, ToSet
  <2>4. \A i, j \in DOMAIN rows' : rows'[i].match = rows'[j].match => i = j
    BY <1>1, <1>4, <2>1, <2>3
  <2>5. \A i \in DOMAIN rows' : rows'[i].match \in settled' \cup ToSet(pending')
    BY <1>4, <1>5, <2>1, <2>2, <2>3
  <2>6. \A n \in settled' \cup ToSet(pending') : \E i \in DOMAIN rows' : rows'[i].match = n
    BY <1>4, <1>5, <2>1, <2>2, <2>3
  <2> DEFINE emitted == [i \in DOMAIN rows' |-> rows'[i].match]
  <2>7. IsInjective(emitted)
    BY <2>4 DEF IsInjective
  <2>8. {emitted[i] : i \in DOMAIN emitted} = settled' \cup ToSet(pending')
    BY <2>5, <2>6
  <2> QED
    BY <2>7, <2>8 DEF EveryMatchOneRow, ToSet
<1> QED
  BY <1>2, <1>6, <1>7 DEF BInv

\* The matches that are rated are those whose rows were emitted.
LEMMA RateDateBInv ==
    ASSUME IInv, BInv, RateDate
    PROVE  BInv'
<1>1. /\ rows' = rows /\ pending' = pending /\ settled' = settled \cup Today
      /\ Today \subseteq ToSet(pending)
  BY DEF RateDate
<1>2. EveryMatchOneRow'
  BY <1>1 DEF BInv, EveryMatchOneRow
<1>3. AllCounted'
  <2> SUFFICES ASSUME NEW club \in Clubs PROVE Counted(Rated(club))
    BY DEF AllCounted, RateDate
  <2>1. Counted(states[club]) /\ DOMAIN states[club] = Fields
    BY DEF BInv, AllCounted, IInv, StatesKnown, StateKnown
  <2> QED
    BY <2>1 DEF Rated, Counted, Fields
<1> QED
  BY <1>1, <1>2, <1>3 DEF BInv, RowsAgree

\* A recorded match counts once in every counter.
LEMMA RecordMatchBInv ==
    ASSUME IInv, BInv, RecordMatch
    PROVE  BInv'
<1>1. pending \in Seq(settled) /\ pending # <<>>
  BY DEF IInv, DayOK, RecordMatch
<1>2. /\ rows' = rows /\ settled' = settled /\ pending' = Tail(pending)
  BY DEF RecordMatch
<1>3. ToSet(pending) \subseteq settled /\ ToSet(pending') \subseteq settled
  <2>1. Tail(pending) \in Seq(settled)
    BY <1>1, HeadTailProperties
  <2> QED
    BY <1>1, <1>2, <2>1, LenProperties, ElementOfSeq DEF ToSet
<1>4. EveryMatchOneRow'
  BY <1>2, <1>3 DEF BInv, EveryMatchOneRow
<1>5. AllCounted'
  <2> SUFFICES ASSUME NEW club \in Clubs PROVE Counted(states'[club])
    BY DEF AllCounted
  <2> DEFINE m == Head(pending)
             state == states[club]
  <2>1. Counted(state) /\ StateKnown(state)
    BY DEF BInv, AllCounted, IInv, StatesKnown
  <2>2. m \in settled
    BY <1>1, HeadTailProperties
  <2>3. states'[club] = IF Plays(m, club) THEN WithMatch(state, m) ELSE state
    BY DEF RecordMatch
  <2> HIDE DEF m, state
  <2>4. /\ Len(Append(state.ewma, m)) = Len(state.ewma) + 1
        /\ Len(Append(state.season_log, m)) = Len(state.season_log) + 1
        /\ Len(Append(state.recent, m)) = Len(state.recent) + 1
        /\ Append(state.recent, m) \in Seq(settled)
    BY <2>1, <2>2, AppendProperties DEF StateKnown
  <2>5. /\ Len(state.ewma) \in Nat /\ Len(state.season_log) \in Nat /\ Len(state.recent) \in Nat
    BY <2>1, LenProperties DEF StateKnown
  <2> DEFINE recent == LastOf(Append(state.recent, m), Window)
  <2>6. Len(recent) \in Nat /\ Len(recent) <= Len(state.recent) + 1
    BY <2>4, LastOfLen
  <2> HIDE DEF recent
  <2>7. Counted(WithMatch(state, m))
    <3>1. WithMatch(state, m) =
            [state EXCEPT !.ewma = Append(@, m), !.recent = recent,
               !.usable_prior = @ + 1, !.total_prior = @ + 1,
               !.season_log = Append(@, m), !.last_date = m.date]
      BY DEF WithMatch, recent
    <3>2. DOMAIN state = Fields
      BY <2>1 DEF StateKnown
    <3> QED
      BY <2>1, <2>4, <2>5, <2>6, <3>1, <3>2 DEF Counted, Fields
  <2> QED
    BY <2>1, <2>3, <2>7
<1> QED
  BY <1>2, <1>4, <1>5 DEF BInv, RowsAgree

LEMMA NextBInv == IInv /\ BInv /\ [Next]_vars => BInv'
<1> SUFFICES ASSUME IInv, BInv, [Next]_vars PROVE BInv'
  OBVIOUS
<1>1. CASE RateDate
  BY <1>1, RateDateBInv
<1>2. CASE RecordMatch
  BY <1>2, RecordMatchBInv
<1>3. ASSUME NEW m \in matches, EmitRow(m)
      PROVE  BInv'
  BY <1>3, EmitRowBInv
<1>4. CASE UNCHANGED vars
  BY <1>4 DEF vars, BInv, AllCounted, RowsAgree, EveryMatchOneRow
<1> QED
  BY <1>1, <1>2, <1>3, <1>4 DEF Next

LEMMA AlwaysBInv == Spec => []BInv
BY InitBInv, NextBInv, Inductive, PTL DEF Spec

\* The cold-start indicators of a row agree with its averages and counters, for
\* every frame and every parameter: the three counters and the two windows of
\* a club never come apart, whichever of them a season resets (build_features).
THEOREM ColdStartAlwaysAgrees == Spec => []ColdStartAgrees
<1>1. BInv => ColdStartAgrees
  BY DEF BInv, RowsAgree, Agrees, ColdStartAgrees
<1> QED
  BY <1>1, AlwaysBInv, PTL

\* "Every row of matches produces exactly one output row" (build_features):
\* while the pass goes on, the rows are those of the matches that are settled
\* or about to be, each of them once.
THEOREM OneRowForEveryMatch == Spec => []EveryMatchOneRow
<1>1. BInv => EveryMatchOneRow
  BY DEF BInv
<1> QED
  BY <1>1, AlwaysBInv, PTL

-----------------------------------------------------------------------------
(* Sums over finite sets.                                                  *)

\* A set of naturals with 0 that is closed under successor has all of them.
LEMMA AllNaturals ==
    ASSUME NEW N \in SUBSET Nat, 0 \in N, \A n \in N : n + 1 \in N
    PROVE  N = Nat
  <1> DEFINE T == Nat \ N
  <1> SUFFICES ASSUME T # {} PROVE FALSE
    OBVIOUS
  <1>1. PICK n \in T : \A m \in T : ~(<<m, n>> \in OpToRel(<, Nat))
    <2>1. T \subseteq Nat
      OBVIOUS
    <2> HIDE DEF T
    <2> QED
      BY <2>1, WFMin, NatLessThanWellFounded
  <1>2. n # 0 /\ n - 1 \in Nat /\ n - 1 < n
    OBVIOUS
  <1>3. <<n - 1, n>> \in OpToRel(<, Nat)
    BY <1>2 DEF OpToRel
  <1>4. n - 1 \in N
    BY <1>1, <1>2, <1>3
  <1>5. QED
    BY <1>4, <1>2

Pick(s) == CHOOSE x \in s : TRUE

\* g is the recursive function by which the sums of F over D are defined.
SumsOver(F, D, g) ==
    g = [s \in D |-> IF s = {} THEN 0 ELSE F[Pick(s)] + g[s \ {Pick(s)}]]

UpTo(S, n) == {s \in SUBSET S : Cardinality(s) <= n}

LEMMA PickLemma ==
    ASSUME NEW s, s # {}, IsFiniteSet(s)
    PROVE  /\ Pick(s) \in s /\ IsFiniteSet(s \ {Pick(s)})
           /\ Cardinality(s) \in Nat \ {0}
           /\ Cardinality(s \ {Pick(s)}) = Cardinality(s) - 1
  <1>1. Pick(s) \in s
    BY DEF Pick
  <1>2. QED
    BY <1>1, FS_RemoveElement, FS_EmptySet, FS_CardinalityType

LEMMA SumsExist ==
    ASSUME NEW S, IsFiniteSet(S), NEW F
    PROVE  \E g : SumsOver(F, SUBSET S, g)
  <1> DEFINE N == {n \in Nat : \E g : SumsOver(F, UpTo(S, n), g)}
  <1>1. 0 \in N
    <2>1. \A s \in UpTo(S, 0) : s = {}
      BY FS_Subset, FS_EmptySet, FS_CardinalityType DEF UpTo
    <2>2. SumsOver(F, UpTo(S, 0), [s \in UpTo(S, 0) |-> 0])
      BY <2>1, Zenon DEF SumsOver
    <2>3. QED
      BY <2>2
  <1>2. ASSUME NEW n \in N PROVE n + 1 \in N
    <2>1. PICK g : SumsOver(F, UpTo(S, n), g)
      OBVIOUS
    <2> DEFINE h == [s \in UpTo(S, n + 1) |->
                        IF s = {} THEN 0 ELSE F[Pick(s)] + g[s \ {Pick(s)}]]
    <2>2. ASSUME NEW s \in UpTo(S, n + 1), s # {}
          PROVE  s \ {Pick(s)} \in UpTo(S, n) /\ s \ {Pick(s)} \in UpTo(S, n + 1)
      <3>1. s \subseteq S /\ IsFiniteSet(s) /\ Cardinality(s) <= n + 1
        BY FS_Subset DEF UpTo
      <3> DEFINE rest == s \ {Pick(s)}
      <3>2. n \in Nat
        OBVIOUS
      <3> HIDE DEF N, h
      <3>3. Cardinality(rest) = Cardinality(s) - 1 /\ Cardinality(s) \in Nat
        BY <2>2, <3>1, PickLemma
      <3>4. rest \subseteq S /\ Cardinality(rest) <= n /\ Cardinality(rest) <= n + 1
        BY <3>1, <3>2, <3>3
      <3>5. QED
        BY <3>4 DEF UpTo
    <2>3. ASSUME NEW s \in UpTo(S, n) PROVE h[s] = g[s]
      <3>1. s \in UpTo(S, n + 1)
        BY FS_Subset, FS_CardinalityType DEF UpTo
      <3>2. QED
        BY <2>1, <3>1 DEF SumsOver
    <2>4. SumsOver(F, UpTo(S, n + 1), h)
      <3>1. \A s \in UpTo(S, n + 1) : s # {} => h[s \ {Pick(s)}] = g[s \ {Pick(s)}]
        BY <2>2, <2>3
      <3> HIDE DEF h
      <3>2. h = [s \in UpTo(S, n + 1) |->
                    IF s = {} THEN 0 ELSE F[Pick(s)] + g[s \ {Pick(s)}]]
        BY DEF h
      <3>3. QED
        BY <3>1, <3>2 DEF SumsOver
    <2>5. QED
      BY <2>4
  <1>3. Cardinality(S) \in N
    <2>1. N \subseteq Nat
      OBVIOUS
    <2> HIDE DEF N
    <2>2. N = Nat
      BY <1>1, <1>2, <2>1, AllNaturals
    <2>3. QED
      BY <2>2, FS_CardinalityType
  <1>4. UpTo(S, Cardinality(S)) = SUBSET S
    BY FS_Subset DEF UpTo
  <1>5. QED
    BY <1>3, <1>4

LEMMA SumsUnique ==
    ASSUME NEW S, IsFiniteSet(S), NEW T \in SUBSET S, NEW F, NEW g, NEW h,
           SumsOver(F, SUBSET S, g), SumsOver(F, SUBSET T, h)
    PROVE  h[T] = g[T]
  <1> DEFINE N == {n \in Nat : \A s \in SUBSET T : Cardinality(s) = n => h[s] = g[s]}
  <1>0. \A s \in SUBSET T : IsFiniteSet(s) /\ Cardinality(s) \in Nat
    BY FS_Subset, FS_CardinalityType
  <1>e. \A s \in SUBSET T :
          /\ s = {} => g[s] = 0 /\ h[s] = 0
          /\ s # {} => /\ g[s] = F[Pick(s)] + g[s \ {Pick(s)}]
                       /\ h[s] = F[Pick(s)] + h[s \ {Pick(s)}]
    BY DEF SumsOver
  <1>1. 0 \in N
    BY <1>0, <1>e, FS_EmptySet
  <1>2. ASSUME NEW n \in N PROVE n + 1 \in N
    <2> SUFFICES ASSUME NEW s \in SUBSET T, Cardinality(s) = n + 1 PROVE h[s] = g[s]
      OBVIOUS
    <2>0. n \in Nat
      OBVIOUS
    <2>1. s # {}
      <3>1. n + 1 # 0
        BY <2>0
      <3> HIDE DEF N
      <3>2. QED
        BY <3>1, FS_EmptySet
    <2>2. s \ {Pick(s)} \in SUBSET T /\ Cardinality(s \ {Pick(s)}) = n
      BY <1>0, <2>1, PickLemma
    <2>3. h[s \ {Pick(s)}] = g[s \ {Pick(s)}]
      BY <2>2
    <2>4. QED
      BY <1>e, <2>1, <2>3
  <1>3. QED
    <2>1. N \subseteq Nat
      OBVIOUS
    <2>2. N = Nat
      <3> HIDE DEF N
      <3> QED
        BY <1>1, <1>2, <2>1, AllNaturals
    <2>3. QED
      BY <1>0, <2>2

LEMMA SumIs ==
    ASSUME NEW S, IsFiniteSet(S), NEW F
    PROVE  \E g : SumsOver(F, SUBSET S, g) /\ SumFunctionOnSet(F, S) = g[S]
  <1> DEFINE iter[s \in SUBSET S] ==
                IF s = {} THEN 0 ELSE F[Pick(s)] + iter[s \ {Pick(s)}]
  <1>1. SumFunctionOnSet(F, S) = iter[S]
    BY DEF SumFunctionOnSet, FoldFunctionOnSet, MapThenFoldSet, Pick
  <1>2. iter = CHOOSE g : SumsOver(F, SUBSET S, g)
    BY DEF SumsOver
  <1> HIDE DEF iter
  <1>3. SumsOver(F, SUBSET S, iter)
    BY <1>2, SumsExist, Zenon
  <1>4. QED
    BY <1>1, <1>3

LEMMA SumEmpty == \A F : SumFunctionOnSet(F, {}) = 0
  BY SumIs, FS_EmptySet DEF SumsOver

LEMMA SumPick ==
    ASSUME NEW S, IsFiniteSet(S), S # {}, NEW F
    PROVE  SumFunctionOnSet(F, S) = F[Pick(S)] + SumFunctionOnSet(F, S \ {Pick(S)})
  <1>1. PICK g : SumsOver(F, SUBSET S, g) /\ SumFunctionOnSet(F, S) = g[S]
    BY SumIs
  <1> DEFINE T == S \ {Pick(S)}
  <1>2. T \in SUBSET S /\ IsFiniteSet(T)
    BY PickLemma
  <1>3. PICK h : SumsOver(F, SUBSET T, h) /\ SumFunctionOnSet(F, T) = h[T]
    BY <1>2, SumIs
  <1>4. h[T] = g[T]
    <2> HIDE DEF T
    <2> QED
      BY <1>1, <1>2, <1>3, SumsUnique
  <1>5. g[S] = F[Pick(S)] + g[T]
    BY <1>1 DEF SumsOver
  <1>6. QED
    BY <1>1, <1>3, <1>4, <1>5

\* The sum of integers is one.
LEMMA SumType ==
    ASSUME NEW S, IsFiniteSet(S), NEW F, \A x \in S : F[x] \in Int
    PROVE  \A T \in SUBSET S : SumFunctionOnSet(F, T) \in Int
  <1> DEFINE N == {n \in Nat : \A T \in SUBSET S : Cardinality(T) = n => SumFunctionOnSet(F, T) \in Int}
  <1>0. \A s \in SUBSET S : IsFiniteSet(s) /\ Cardinality(s) \in Nat
    BY FS_Subset, FS_CardinalityType
  <1>1. 0 \in N
    BY <1>0, SumEmpty, FS_EmptySet
  <1>2. ASSUME NEW n \in N PROVE n + 1 \in N
    <2> SUFFICES ASSUME NEW T \in SUBSET S, Cardinality(T) = n + 1
                 PROVE  SumFunctionOnSet(F, T) \in Int
      OBVIOUS
    <2>1. T # {}
      BY FS_EmptySet
    <2>2. /\ T \ {Pick(T)} \in SUBSET S /\ Cardinality(T \ {Pick(T)}) = n
          /\ Pick(T) \in S
      BY <1>0, <2>1, PickLemma
    <2>3. SumFunctionOnSet(F, T \ {Pick(T)}) \in Int
      BY <2>2
    <2>4. SumFunctionOnSet(F, T) = F[Pick(T)] + SumFunctionOnSet(F, T \ {Pick(T)})
      BY <1>0, <2>1, SumPick
    <2>5. QED
      BY <2>2, <2>3, <2>4
  <1>3. N = Nat
    <2>1. N \subseteq Nat
      OBVIOUS
    <2> HIDE DEF N
    <2> QED
      BY <1>1, <1>2, <2>1, AllNaturals
  <1>4. QED
    BY <1>0, <1>3

\* A sum may be taken in any order.
LEMMA SumRemove ==
    ASSUME NEW S, IsFiniteSet(S), NEW F, \A x \in S : F[x] \in Int
    PROVE  \A T \in SUBSET S : \A x \in T :
              SumFunctionOnSet(F, T) = F[x] + SumFunctionOnSet(F, T \ {x})
  <1> DEFINE Removes(T) == \A x \in T :
                SumFunctionOnSet(F, T) = F[x] + SumFunctionOnSet(F, T \ {x})
             N == {n \in Nat : \A T \in SUBSET S : Cardinality(T) = n => Removes(T)}
  <1>0. \A s \in SUBSET S : IsFiniteSet(s) /\ Cardinality(s) \in Nat
    BY FS_Subset, FS_CardinalityType
  <1>1. 0 \in N
    BY <1>0, FS_EmptySet
  <1>2. ASSUME NEW n \in N PROVE n + 1 \in N
    <2> SUFFICES ASSUME NEW T \in SUBSET S, Cardinality(T) = n + 1, NEW x \in T
                 PROVE  SumFunctionOnSet(F, T) = F[x] + SumFunctionOnSet(F, T \ {x})
      OBVIOUS
    <2> DEFINE p == Pick(T)
               rest == (T \ {p}) \ {x}
    <2>1. T # {} /\ IsFiniteSet(T)
      BY <1>0
    <2>2. SumFunctionOnSet(F, T) = F[p] + SumFunctionOnSet(F, T \ {p})
      BY <2>1, SumPick
    <2>3. p \in T /\ p \in S
      BY <2>1, PickLemma
    <2>4. CASE x = p
      BY <2>2, <2>4
    <2>5. CASE x # p
      <3>1. Cardinality(T \ {p}) = n /\ Cardinality(T \ {x}) = n
        <4>1. n \in Nat
          OBVIOUS
        <4> HIDE DEF N
        <4>2. Cardinality(T \ {p}) = Cardinality(T) - 1 /\ Cardinality(T \ {x}) = Cardinality(T) - 1
          BY <2>1, <2>3, FS_RemoveElement
        <4>3. QED
          BY <4>1, <4>2
      <3>2. SumFunctionOnSet(F, T \ {p}) = F[x] + SumFunctionOnSet(F, rest)
        BY <2>5, <3>1
      <3>3. (T \ {x}) \ {p} = rest
        OBVIOUS
      <3>4. SumFunctionOnSet(F, T \ {x}) = F[p] + SumFunctionOnSet(F, rest)
        <4>1. p \in T \ {x}
          BY <2>3, <2>5
        <4>2. SumFunctionOnSet(F, T \ {x}) = F[p] + SumFunctionOnSet(F, (T \ {x}) \ {p})
          BY <3>1, <4>1
        <4>3. QED
          BY <4>2, <3>3
      <3>5. F[p] \in Int /\ F[x] \in Int /\ SumFunctionOnSet(F, rest) \in Int
        BY <2>3, SumType
      <3> HIDE DEF p, rest
      <3>6. QED
        BY <2>2, <3>2, <3>4, <3>5
    <2>6. QED
      BY <2>4, <2>5
  <1>3. N = Nat
    <2>1. N \subseteq Nat
      OBVIOUS
    <2> HIDE DEF N
    <2> QED
      BY <1>1, <1>2, <2>1, AllNaturals
  <1>4. QED
    BY <1>0, <1>3

\* A family of subsets that has {} and is closed under adding an element has
\* every finite set.
LEMMA SubsetInduction ==
    ASSUME NEW S, IsFiniteSet(S), NEW P \in SUBSET (SUBSET S), {} \in P,
           \A T \in P : \A x \in S \ T : T \cup {x} \in P
    PROVE  S \in P
  <1> DEFINE N == {n \in Nat : \A T \in SUBSET S : Cardinality(T) = n => T \in P}
  <1>0. \A T \in SUBSET S : IsFiniteSet(T) /\ Cardinality(T) \in Nat
    BY FS_Subset, FS_CardinalityType
  <1>1. 0 \in N
    BY <1>0, FS_EmptySet
  <1>2. ASSUME NEW n \in N PROVE n + 1 \in N
    <2>1. n \in Nat /\ \A T \in SUBSET S : Cardinality(T) = n => T \in P
      OBVIOUS
    <2>2. ASSUME NEW T \in SUBSET S, Cardinality(T) = n + 1
          PROVE  T \in P
      <3> HIDE DEF N
      <3>1. T # {}
        BY <2>1, <2>2, FS_EmptySet
      <3>2. PICK x \in T : TRUE
        BY <3>1
      <3>3. Cardinality(T \ {x}) = n
        <4>1. Cardinality(T \ {x}) = Cardinality(T) - 1
          BY <1>0, <3>2, FS_RemoveElement
        <4>2. QED
          BY <2>1, <2>2, <4>1
      <3>4. T \ {x} \in P
        BY <2>1, <3>3
      <3>5. T = (T \ {x}) \cup {x} /\ x \in S \ (T \ {x})
        BY <3>2
      <3>6. QED
        BY <3>4, <3>5
    <2>3. QED
      BY <2>1, <2>2
  <1>3. N = Nat
    <2>1. N \subseteq Nat
      OBVIOUS
    <2> HIDE DEF N
    <2> QED
      BY <1>1, <1>2, <2>1, AllNaturals
  <1>4. QED
    BY <1>0, <1>3

LEMMA SumAdd ==
    ASSUME NEW S, IsFiniteSet(S), NEW F, \A y \in S : F[y] \in Int,
           NEW T \in SUBSET S, NEW x \in S \ T
    PROVE  SumFunctionOnSet(F, T \cup {x}) = SumFunctionOnSet(F, T) + F[x]
  <1>1. (T \cup {x}) \ {x} = T /\ x \in T \cup {x} /\ T \cup {x} \in SUBSET S
    OBVIOUS
  <1>2. SumFunctionOnSet(F, T \cup {x}) = F[x] + SumFunctionOnSet(F, T)
    BY <1>1, SumRemove
  <1>3. F[x] \in Int /\ SumFunctionOnSet(F, T) \in Int
    BY SumType
  <1>4. QED
    BY <1>2, <1>3

\* Equal terms have equal sums.
LEMMA SumSame ==
    ASSUME NEW S, IsFiniteSet(S), NEW F, NEW G,
           \A x \in S : F[x] \in Int /\ F[x] = G[x]
    PROVE  SumFunctionOnSet(F, S) = SumFunctionOnSet(G, S)
  <1> DEFINE P == {T \in SUBSET S : SumFunctionOnSet(F, T) = SumFunctionOnSet(G, T)}
  <1>1. {} \in P
    BY SumEmpty
  <1>2. ASSUME NEW T \in P, NEW x \in S \ T PROVE T \cup {x} \in P
    <2>1. /\ SumFunctionOnSet(F, T \cup {x}) = SumFunctionOnSet(F, T) + F[x]
          /\ SumFunctionOnSet(G, T \cup {x}) = SumFunctionOnSet(G, T) + G[x]
      BY SumAdd
    <2>2. QED
      BY <2>1
  <1>3. P \in SUBSET (SUBSET S)
    OBVIOUS
  <1> HIDE DEF P
  <1>4. S \in P
    BY <1>1, <1>2, <1>3, SubsetInduction
  <1>5. QED
    BY <1>4 DEF P

LEMMA SumOfIntegers ==
    ASSUME NEW S, IsFiniteSet(S), NEW F \in [S -> Int]
    PROVE  SumFunction(F) \in Int
BY SumType DEF SumFunction

-----------------------------------------------------------------------------
(* Types.  Ratings are integers because sums of integers over finite sets  *)
(* are.                                                                    *)

RowType == [match : matches, home : Side, away : Side]

\* A club has last played on a date that is settled.
LastDatesSettled ==
    \A club \in Clubs :
        states[club].last_date # None =>
            \E n \in settled : states[club].last_date = n.date

TInv ==
    /\ WellFormed(matches)
    /\ states \in [Clubs -> State]
    /\ LastDatesSettled
    /\ started \subseteq Seasons
    /\ rows \in Seq(RowType)

Rating(state, elo, informed) == [state EXCEPT !.elo = elo, !.informed = informed]

Entry(state, elo, informed, returning) ==
    [state EXCEPT !.elo = elo, !.informed = informed, !.is_returning = returning]

History(state, ewma, recent, usable, total, log, date) ==
    [state EXCEPT !.ewma = ewma, !.recent = recent, !.usable_prior = usable,
                  !.total_prior = total, !.season_log = log, !.last_date = date]

\* A state stays one when its rating or its history is replaced.
LEMMA WithRating ==
    ASSUME NEW state \in State, NEW elo \in Int, NEW informed \in SUBSET matches
    PROVE  /\ Rating(state, elo, informed) \in State
           /\ Rating(state, elo, informed).last_date = state.last_date
BY DEF State, Rating

LEMMA WithEntry ==
    ASSUME NEW state \in State, NEW elo \in Int, NEW informed \in SUBSET matches,
           NEW returning \in BOOLEAN
    PROVE  /\ Entry(state, elo, informed, returning) \in State
           /\ Entry(state, elo, informed, returning).last_date = state.last_date
BY DEF State, Entry

LEMMA WithHistory ==
    ASSUME NEW state \in State, NEW date \in Nat,
           NEW ewma \in Seq(matches), NEW log \in Seq(matches),
           NEW recent \in Seq(matches), Len(recent) <= Window,
           NEW usable \in Nat, NEW total \in Nat
    PROVE  History(state, ewma, recent, usable, total, log, date) \in State
BY DEF State, History

LEMMA EnteredTyped ==
    ASSUME TInv, NEW season, NEW club \in Clubs
    PROVE  /\ Entered(club, season) \in State
           /\ Entered(club, season).last_date = states[club].last_date
<1> DEFINE old == states[club]
           state == [old EXCEPT !.season_log = <<>>]
           reset == ResetHistory(state)
           fresh == [reset EXCEPT !.elo = 0, !.informed = {}, !.is_returning = FALSE]
           entrant == [reset EXCEPT !.elo = PromotedPrior,
                          !.informed = ParamSources(season),
                          !.is_returning = (SeasonKind(club, season) = "stale")]
           regular == [state EXCEPT !.elo = @ \div ShrinkBy,
                          !.informed = @ \cup ParamSources(season),
                          !.is_returning = FALSE]
<1>1. old \in State
  BY DEF TInv
<1>2. /\ <<>> \in Seq(matches)
      /\ <<>> \in {s \in Seq(matches) : Len(s) <= Window}
  BY EmptySeq, ParameterAssumption
<1>3. ParamSources(season) \subseteq matches
  BY DEF ParamSources
<1>4. PromotedPrior \in Int /\ \A i \in Int : i \div ShrinkBy \in Int
  BY ParameterAssumption
<1>5. \/ Entered(club, season) = fresh
      \/ Entered(club, season) = entrant
      \/ Entered(club, season) = regular
  BY DEF Entered
<1>6. state \in State /\ state.last_date = old.last_date
  <2> HIDE DEF old
  <2> QED
    BY <1>1, <1>2 DEF State
<1>7. reset \in State /\ reset.last_date = old.last_date
  <2> HIDE DEF state
  <2> QED
    BY <1>2, <1>6 DEF State, ResetHistory
<1> HIDE DEF state, reset
<1>8. fresh \in State /\ fresh.last_date = old.last_date
  <2>1. 0 \in Int /\ {} \in SUBSET matches /\ FALSE \in BOOLEAN
    OBVIOUS
  <2>2. fresh = Entry(reset, 0, {}, FALSE)
    BY DEF Entry
  <2> HIDE DEF fresh
  <2> QED
    BY <1>7, <2>1, <2>2, WithEntry
<1>9. entrant \in State /\ entrant.last_date = old.last_date
  <2> DEFINE stale == SeasonKind(club, season) = "stale"
  <2>1. stale \in BOOLEAN
    OBVIOUS
  <2>2. entrant = Entry(reset, PromotedPrior, ParamSources(season), stale)
    BY DEF Entry
  <2> HIDE DEF stale, entrant
  <2> QED
    BY <1>3, <1>4, <1>7, <2>1, <2>2, WithEntry
<1>10. regular \in State /\ regular.last_date = old.last_date
  <2> DEFINE elo == state.elo \div ShrinkBy
             informed == state.informed \cup ParamSources(season)
  <2>1. elo \in Int /\ informed \in SUBSET matches /\ FALSE \in BOOLEAN
    BY <1>3, <1>4, <1>6 DEF State
  <2>2. regular = Entry(state, elo, informed, FALSE)
    BY <1>6 DEF State, Entry
  <2> HIDE DEF elo, informed, regular
  <2> QED
    BY <1>6, <2>1, <2>2, WithEntry
<1> HIDE DEF fresh, entrant, regular
<1> QED
  BY <1>5, <1>8, <1>9, <1>10

\* The mean of a league that has clubs is an integer.
LEMMA MeanEloType ==
    ASSUME NEW entered \in [Clubs -> State], NEW active \in SUBSET Clubs, active # {}
    PROVE  MeanElo(entered, active) \in Int
<1>1. IsFiniteSet(active) /\ Cardinality(active) \in Nat /\ Cardinality(active) # 0
  BY ParameterAssumption, FS_Subset, FS_CardinalityType, FS_EmptySet
<1>2. [club \in active |-> entered[club].elo] \in [active -> Int]
  BY DEF State
<1>3. SumFunction([club \in active |-> entered[club].elo]) \in Int
  BY <1>1, <1>2, SumOfIntegers
<1> QED
  BY <1>1, <1>3 DEF MeanElo

LEMMA InSeasonTyped ==
    ASSUME IInv, TInv, NEW m \in Today
    PROVE  /\ InSeason(m.season) \in [Clubs -> State]
           /\ \A club \in Clubs :
                 InSeason(m.season)[club].last_date = states[club].last_date
<1> DEFINE active == Roster(m.season)
           entered == [club \in Clubs |-> IF club \in active
                         THEN Entered(club, m.season) ELSE states[club]]
<1>1. /\ entered \in [Clubs -> State]
      /\ \A club \in Clubs : entered[club].last_date = states[club].last_date
  <2>1. states \in [Clubs -> State]
    BY DEF TInv
  <2> HIDE DEF active
  <2> QED
    BY <2>1, EnteredTyped
<1>2. active \subseteq Clubs /\ active # {}
  <2>1. m \in matches /\ m.home \in Clubs
    BY DEF Today, IInv, InputOK, Match
  <2> QED
    BY <2>1 DEF Roster, Plays
<1> HIDE DEF entered, active
<1>3. MeanElo(entered, active) \in Int
  BY <1>1, <1>2, MeanEloType
<1>4. UNION {entered[c].informed : c \in active} \subseteq matches
  BY <1>1, <1>2 DEF State
<1>5. ASSUME NEW club \in Clubs
      PROVE  LET state == [entered[club] EXCEPT
                   !.elo = @ - MeanElo(entered, active),
                   !.informed = UNION {entered[c].informed : c \in active}]
             IN  state \in State /\ state.last_date = entered[club].last_date
  <2>1. entered[club] \in State
    BY <1>1
  <2>2. entered[club].elo - MeanElo(entered, active) \in Int
    BY <1>3, <2>1 DEF State
  <2> QED
    BY <1>4, <2>1, <2>2, WithRating DEF Rating
<1>6. /\ Recentred(entered, active) \in [Clubs -> State]
      /\ \A club \in Clubs :
            Recentred(entered, active)[club].last_date = entered[club].last_date
  BY <1>1, <1>5 DEF Recentred
<1>7. SeasonStarted(m.season) = Recentred(entered, active)
  BY DEF SeasonStarted, entered, active
<1> QED
  BY <1>1, <1>6, <1>7 DEF InSeason, TInv

\* A side is well typed: the rest days of a club count from a date before.
LEMMA FeaturesTyped ==
    ASSUME NEW state \in State, NEW date \in Nat,
           state.last_date # None => state.last_date \in Nat /\ state.last_date <= date
    PROVE  Features(state, date) \in Side
<1>1. /\ state.elo \in Int /\ state.informed \subseteq matches
      /\ state.ewma \in Seq(matches) /\ state.recent \in Seq(matches)
      /\ state.season_log \in Seq(matches)
      /\ state.usable_prior \in Nat /\ state.total_prior \in Nat
      /\ state.is_returning \in BOOLEAN
  BY DEF State
<1>2. Len(state.season_log) \in Nat
  BY <1>1, LenProperties
<1>3. RestCap \in Nat /\ DepthCap \in Nat
  BY ParameterAssumption
<1>4. (IF state.last_date = None THEN None
       ELSE Least(date - state.last_date, RestCap)) \in Nat \cup {None}
  BY <1>3 DEF Least
<1>5. Least(state.usable_prior, DepthCap) \in 0..DepthCap
  BY <1>1, <1>3 DEF Least
<1> QED
  BY <1>1, <1>2, <1>4, <1>5 DEF Features, Side

LEMMA InitTInv == Init => TInv
<1> SUFFICES ASSUME Init PROVE TInv
  OBVIOUS
<1>1. WellFormed(matches)
  BY FramesAssumption DEF Init
<1>2. NewState \in State
  <2>1. /\ <<>> \in Seq(matches)
        /\ <<>> \in {s \in Seq(matches) : Len(s) <= Window}
    BY EmptySeq, ParameterAssumption
  <2> QED
    BY <2>1 DEF NewState, State
<1>3. states = [club \in Clubs |-> NewState] /\ started = {} /\ rows = <<>>
  BY DEF Init
<1>4. LastDatesSettled
  BY <1>3 DEF LastDatesSettled, NewState
<1>5. rows \in Seq(RowType)
  BY <1>3, EmptySeq
<1> QED
  BY <1>1, <1>2, <1>3, <1>4, <1>5 DEF TInv

LEMMA EmitRowTInv ==
    ASSUME IInv, TInv, NEW m \in matches, EmitRow(m)
    PROVE  TInv'
<1> DEFINE now == InSeason(m.season)
           row == Row(m, now)
<1>1. /\ m \in Today /\ states' = now /\ started' = started \cup {m.season}
      /\ rows' = Append(rows, row) /\ matches' = matches /\ settled' = settled
  BY DEF EmitRow, input
<1>2. WellFormed(matches)'
  BY <1>1 DEF TInv, WellFormed
<1>3. /\ now \in [Clubs -> State]
      /\ \A club \in Clubs : now[club].last_date = states[club].last_date
  BY <1>1, InSeasonTyped
<1>4. State' = State /\ Side' = Side /\ RowType' = RowType /\ Seasons' = Seasons
  BY <1>1 DEF State, Side, RowType, Seasons
<1>5. m.home \in Clubs /\ m.away \in Clubs /\ m.date \in Nat
  BY DEF IInv, InputOK, Match
<1>6. ASSUME NEW club \in Clubs
      PROVE  Features(now[club], m.date) \in Side
  <2>1. states[club].last_date # None =>
           states[club].last_date \in Nat /\ states[club].last_date <= m.date
    <3> SUFFICES ASSUME states[club].last_date # None
                 PROVE  states[club].last_date \in Nat /\ states[club].last_date <= m.date
      OBVIOUS
    <3>1. PICK n \in settled : states[club].last_date = n.date
      BY DEF TInv, LastDatesSettled
    <3>2. n \in matches /\ n.date \in Nat
      BY DEF IInv, DatesInOrder, InputOK, Match
    <3>3. n.date < m.date
      BY <1>1 DEF IInv, DatesInOrder, Today
    <3> QED
      BY <1>5, <3>1, <3>2, <3>3
  <2> HIDE DEF now
  <2> QED
    BY <1>3, <1>5, <2>1, FeaturesTyped
<1>7. row \in RowType
  BY <1>5, <1>6 DEF Row, RowType
<1> HIDE DEF now, row
<1>8. rows' \in Seq(RowType)'
  BY <1>1, <1>4, <1>7, AppendProperties DEF TInv
<1>9. started' \subseteq Seasons'
  BY <1>1, <1>4 DEF TInv, Seasons
<1>10. LastDatesSettled'
  BY <1>1, <1>3 DEF TInv, LastDatesSettled
<1> QED
  BY <1>1, <1>2, <1>3, <1>4, <1>8, <1>9, <1>10 DEF TInv

LEMMA RateDateTInv ==
    ASSUME IInv, TInv, RateDate
    PROVE  TInv'
<1>1. /\ matches' = matches /\ started' = started /\ rows' = rows
      /\ settled' = settled \cup Today
      /\ states' = [club \in Clubs |-> Rated(club)]
  BY DEF RateDate, input
<1>2. WellFormed(matches)' /\ started' \subseteq Seasons' /\ rows' \in Seq(RowType)'
  BY <1>1 DEF TInv, WellFormed, Seasons, RowType, Side
<1>3. State' = State
  BY <1>1 DEF State
<1>4. ASSUME NEW club \in Clubs
      PROVE  Rated(club) \in State /\ Rated(club).last_date = states[club].last_date
  <2> DEFINE played == {m \in Today : Plays(m, club)}
             change == [m \in played |-> EloChange(club, m)]
             informed == states[club].informed \cup played
                \cup (UNION {ParamSources(m.season) : m \in played})
                \cup (UNION {states[m.home].informed : m \in played})
                \cup (UNION {states[m.away].informed : m \in played})
  <2>1. \A m \in played : m \in matches /\ m.home \in Clubs /\ m.away \in Clubs
                          /\ m.result \in Results
    BY DEF Today, IInv, InputOK, Match
  <2>2. \A c \in Clubs : states[c] \in State
    BY DEF TInv
  <2>3. change \in [played -> Int]
    <3> SUFFICES ASSUME NEW m \in played PROVE EloChange(club, m) \in Int
      OBVIOUS
    <3>1. Gain[m.result] \in [BOOLEAN -> Int]
      BY <2>1, ParameterAssumption
    <3>2. (states[m.home].elo + HomeAdvantage > states[m.away].elo) \in BOOLEAN
      OBVIOUS
    <3>3. EloDelta(m) \in Int
      BY <3>1, <3>2, Zenon DEF EloDelta
    <3> QED
      BY <3>3 DEF EloChange
  <2>4. IsFiniteSet(played)
    <3>1. IsFiniteSet(matches) /\ played \subseteq matches
      BY <2>1 DEF TInv, WellFormed
    <3> QED
      BY <3>1, FS_Subset
  <2>5. SumFunction(change) \in Int
    <3> HIDE DEF played, change
    <3> QED
      BY <2>3, <2>4, SumOfIntegers
  <2>6. informed \subseteq matches
    <3>1. \A m \in played : /\ ParamSources(m.season) \subseteq matches
                            /\ states[m.home].informed \subseteq matches
                            /\ states[m.away].informed \subseteq matches
      BY <2>1, <2>2 DEF State, ParamSources
    <3>2. states[club].informed \subseteq matches
      BY <2>2 DEF State
    <3> HIDE DEF played
    <3> QED
      BY <2>1, <3>1, <3>2
  <2>7. Rated(club) = [states[club] EXCEPT
                         !.elo = @ + SumFunction(change), !.informed = informed]
    BY DEF Rated
  <2> HIDE DEF played, change, informed
  <2> DEFINE elo == states[club].elo + SumFunction(change)
  <2>8. elo \in Int
    BY <2>2, <2>5 DEF State
  <2>9. Rated(club) = Rating(states[club], elo, informed)
    BY <2>2, <2>7 DEF State, Rating
  <2> HIDE DEF elo
  <2> QED
    BY <2>2, <2>6, <2>8, <2>9, WithRating
<1>5. LastDatesSettled'
  BY <1>1, <1>4 DEF TInv, LastDatesSettled
<1> QED
  BY <1>1, <1>2, <1>3, <1>4, <1>5 DEF TInv

LEMMA RecordMatchTInv ==
    ASSUME IInv, TInv, RecordMatch
    PROVE  TInv'
<1> DEFINE m == Head(pending)
<1>1. /\ matches' = matches /\ started' = started /\ rows' = rows
      /\ settled' = settled
      /\ states' = [club \in Clubs |->
            IF Plays(m, club) THEN WithMatch(states[club], m) ELSE states[club]]
  BY DEF RecordMatch, input
<1>2. WellFormed(matches)' /\ started' \subseteq Seasons' /\ rows' \in Seq(RowType)'
  BY <1>1 DEF TInv, WellFormed, Seasons, RowType, Side
<1>3. State' = State
  BY <1>1 DEF State
<1>4. m \in settled
  <2>1. pending \in Seq(settled) /\ pending # <<>>
    BY DEF IInv, DayOK, RecordMatch
  <2> QED
    BY <2>1, HeadTailProperties
<1>5. m \in matches /\ m.date \in Nat
  BY <1>4 DEF IInv, DatesInOrder, InputOK, Match
<1> HIDE DEF m
<1>6. ASSUME NEW club \in Clubs
      PROVE  /\ WithMatch(states[club], m) \in State
             /\ WithMatch(states[club], m).last_date = m.date
  <2> DEFINE state == states[club]
             recent == LastOf(Append(state.recent, m), Window)
  <2>1. state \in State
    BY DEF TInv
  <2> HIDE DEF state
  <2>2. /\ Append(state.ewma, m) \in Seq(matches)
        /\ Append(state.season_log, m) \in Seq(matches)
        /\ Append(state.recent, m) \in Seq(matches)
    BY <1>5, <2>1, AppendProperties DEF State
  <2>3. recent \in Seq(matches) /\ Len(recent) <= Window
    BY <2>2, LastOfType, LastOfLen
  <2> DEFINE ewma == Append(state.ewma, m)
             log == Append(state.season_log, m)
             usable == state.usable_prior + 1
             total == state.total_prior + 1
             next == History(state, ewma, recent, usable, total, log, m.date)
  <2>4. WithMatch(state, m) = next
    BY <2>1 DEF WithMatch, State, History
  <2>6. usable \in Nat /\ total \in Nat
    BY <2>1 DEF State
  <2>7. next \in State /\ next.last_date = m.date
    <3>1. ewma \in Seq(matches) /\ log \in Seq(matches)
      BY <2>2
    <3> HIDE DEF recent, ewma, log, usable, total
    <3>2. state \in State
      BY <2>1
    <3>3. recent \in Seq(matches) /\ Len(recent) <= Window
      BY <2>3
    <3>4. usable \in Nat /\ total \in Nat
      BY <2>6
    <3>5. m.date \in Nat
      BY <1>5
    <3>6. History(state, ewma, recent, usable, total, log, m.date) \in State
      BY <3>1, <3>2, <3>3, <3>4, <3>5, WithHistory
    <3>7. History(state, ewma, recent, usable, total, log, m.date).last_date = m.date
      BY <3>2 DEF State, History
    <3> QED
      BY <3>6, <3>7
  <2> HIDE DEF recent, ewma, log, usable, total, next
  <2>5. WithMatch(state, m) \in State /\ WithMatch(state, m).last_date = m.date
    BY <2>4, <2>7
  <2> QED
    BY <2>5 DEF state
<1>7. states' \in [Clubs -> State]
  BY <1>1, <1>6 DEF TInv
<1>8. LastDatesSettled'
  <2> SUFFICES ASSUME NEW club \in Clubs, states'[club].last_date # None
               PROVE  \E n \in settled : states'[club].last_date = n.date
    BY <1>1 DEF LastDatesSettled
  <2>1. CASE Plays(m, club)
    BY <1>1, <1>4, <1>6, <2>1
  <2>2. CASE ~Plays(m, club)
    BY <1>1, <2>2 DEF TInv, LastDatesSettled
  <2> QED
    BY <2>1, <2>2
<1> QED
  BY <1>2, <1>3, <1>7, <1>8 DEF TInv

LEMMA AlwaysTInv == Spec => []TInv
<1>1. IInv /\ TInv /\ [Next]_vars => TInv'
  <2> SUFFICES ASSUME IInv, TInv, [Next]_vars PROVE TInv'
    OBVIOUS
  <2>1. ASSUME NEW m \in matches, EmitRow(m)
        PROVE  TInv'
    BY <2>1, EmitRowTInv
  <2>2. CASE UNCHANGED vars
    BY <2>2 DEF vars, TInv, WellFormed, State, Side, RowType, Seasons, LastDatesSettled
  <2> QED
    BY <2>1, <2>2, RateDateTInv, RecordMatchTInv DEF Next
<1> QED
  BY <1>1, InitTInv, Inductive, PTL DEF Spec

\* States, rows and dates of the pass are well typed for every frame and every
\* parameter: the trailing window never outgrows efficiency_window, and no
\* club rests for less than no days (build_features).
THEOREM TypeCorrect == Spec => []TypeOK
<1>1. IInv /\ TInv => TypeOK
  <2> SUFFICES ASSUME IInv, TInv PROVE TypeOK
    OBVIOUS
  <2>1. pending \in Seq(matches)
    <3>1. Today \subseteq matches /\ settled \subseteq matches
      BY DEF Today, IInv, DatesInOrder
    <3> QED
      BY <3>1, SeqMonotonic DEF IInv, DayOK
  <2> QED
    BY <2>1 DEF TypeOK, IInv, TInv, InputOK, DatesInOrder, DayOK, RowType
<1> QED
  BY <1>1, Inductive, AlwaysTInv, PTL

-----------------------------------------------------------------------------
(* The scale of the ratings.  Re-centring takes the mean from every club   *)
(* of the league, and each match of a date gives one club what it takes    *)
(* from another, so that the sum over the league does not change.          *)

\* Sums over a set of what is added up, of what is zero, and of what is
\* lowered by a constant.
LEMMA SumOfSums ==
    ASSUME NEW S, IsFiniteSet(S), NEW F, NEW G, NEW H,
           \A x \in S : F[x] \in Int /\ G[x] \in Int /\ H[x] = F[x] + G[x]
    PROVE  SumFunctionOnSet(H, S) = SumFunctionOnSet(F, S) + SumFunctionOnSet(G, S)
<1> DEFINE P == {T \in SUBSET S :
                    SumFunctionOnSet(H, T) = SumFunctionOnSet(F, T) + SumFunctionOnSet(G, T)}
<1>1. \A x \in S : H[x] \in Int
  OBVIOUS
<1>2. {} \in P
  BY SumEmpty
<1>3. ASSUME NEW T \in P, NEW x \in S \ T PROVE T \cup {x} \in P
  <2>1. /\ SumFunctionOnSet(F, T \cup {x}) = SumFunctionOnSet(F, T) + F[x]
        /\ SumFunctionOnSet(G, T \cup {x}) = SumFunctionOnSet(G, T) + G[x]
        /\ SumFunctionOnSet(H, T \cup {x}) = SumFunctionOnSet(H, T) + H[x]
    BY <1>1, SumAdd
  <2>2. SumFunctionOnSet(F, T) \in Int /\ SumFunctionOnSet(G, T) \in Int
    BY SumType
  <2> QED
    BY <2>1, <2>2
<1>4. P \in SUBSET (SUBSET S)
  OBVIOUS
<1> HIDE DEF P
<1>5. S \in P
  BY <1>2, <1>3, <1>4, SubsetInduction
<1> QED
  BY <1>5 DEF P

LEMMA SumOfZeros ==
    ASSUME NEW S, IsFiniteSet(S), NEW F, \A x \in S : F[x] = 0
    PROVE  SumFunctionOnSet(F, S) = 0
<1> DEFINE P == {T \in SUBSET S : SumFunctionOnSet(F, T) = 0}
<1>1. {} \in P
  BY SumEmpty
<1>2. ASSUME NEW T \in P, NEW x \in S \ T PROVE T \cup {x} \in P
  <2>1. SumFunctionOnSet(F, T \cup {x}) = SumFunctionOnSet(F, T) + F[x]
    BY SumAdd
  <2> QED
    BY <2>1
<1>3. P \in SUBSET (SUBSET S)
  OBVIOUS
<1> HIDE DEF P
<1>4. S \in P
  BY <1>1, <1>2, <1>3, SubsetInduction
<1> QED
  BY <1>4 DEF P

LEMMA SumLowered ==
    ASSUME NEW S, IsFiniteSet(S), NEW F, NEW G, NEW c \in Int,
           \A x \in S : F[x] \in Int /\ G[x] = F[x] - c
    PROVE  SumFunctionOnSet(G, S) = SumFunctionOnSet(F, S) - Cardinality(S) * c
<1> DEFINE P == {T \in SUBSET S :
                    SumFunctionOnSet(G, T) = SumFunctionOnSet(F, T) - Cardinality(T) * c}
<1>1. \A x \in S : G[x] \in Int
  OBVIOUS
<1>2. {} \in P
  BY SumEmpty, FS_EmptySet
<1>3. ASSUME NEW T \in P, NEW x \in S \ T PROVE T \cup {x} \in P
  <2>1. /\ SumFunctionOnSet(F, T \cup {x}) = SumFunctionOnSet(F, T) + F[x]
        /\ SumFunctionOnSet(G, T \cup {x}) = SumFunctionOnSet(G, T) + G[x]
    BY <1>1, SumAdd
  <2>2. SumFunctionOnSet(F, T) \in Int /\ F[x] \in Int /\ G[x] = F[x] - c
    BY SumType
  <2>3. Cardinality(T \cup {x}) = Cardinality(T) + 1 /\ Cardinality(T) \in Nat
    BY FS_Subset, FS_AddElement, FS_CardinalityType
  <2>4. SumFunctionOnSet(G, T) = SumFunctionOnSet(F, T) - Cardinality(T) * c
    OBVIOUS
  <2> DEFINE f == SumFunctionOnSet(F, T)
             n == Cardinality(T)
  <2>5. (f - n * c) + (F[x] - c) = (f + F[x]) - (n + 1) * c
    <3>1. f \in Int /\ n \in Nat /\ F[x] \in Int
      BY <2>2, <2>3
    <3> HIDE DEF f, n, P
    <3> QED
      BY <3>1
  <2> QED
    BY <2>1, <2>2, <2>3, <2>4, <2>5
<1>4. P \in SUBSET (SUBSET S)
  OBVIOUS
<1> HIDE DEF P
<1>5. S \in P
  BY <1>2, <1>3, <1>4, SubsetInduction
<1> QED
  BY <1>5 DEF P

\* What two members exchange does not count.
LEMMA SumOfExchange ==
    ASSUME NEW S, IsFiniteSet(S), NEW F, NEW a \in S, NEW b \in S, a # b,
           NEW d \in Int, F[a] = d, F[b] = -d, \A x \in S \ {a, b} : F[x] = 0
    PROVE  SumFunctionOnSet(F, S) = 0
<1>1. \A x \in S : F[x] \in Int
  <2> SUFFICES ASSUME NEW x \in S PROVE F[x] \in Int
    OBVIOUS
  <2> QED
    BY x \in S \ {a, b} \/ x = a \/ x = b
<1> DEFINE rest == S \ {a}
           others == rest \ {b}
<1>2. SumFunctionOnSet(F, S) = d + SumFunctionOnSet(F, rest)
  BY <1>1, SumRemove
<1>3. rest \in SUBSET S /\ b \in rest /\ IsFiniteSet(others)
  BY FS_Subset
<1>4. SumFunctionOnSet(F, rest) = -d + SumFunctionOnSet(F, others)
  BY <1>1, <1>3, SumRemove
<1>5. SumFunctionOnSet(F, others) = 0
  BY <1>3, SumOfZeros
<1> QED
  BY <1>2, <1>4, <1>5

Centred(season) ==
    LET league == Roster(season)
    IN  SumFunction([club \in league |-> states[club].elo]) \in 0 .. Cardinality(league) - 1

\* The seasons that have started are those of the matches that have given rows,
\* and the league of the latest is centred.
EInv ==
    /\ started = {n.season : n \in settled \cup ToSet(pending)}
    /\ started # {} => \E s \in started : (\A r \in started : r <= s) /\ Centred(s)

\* No season that has started is later than today's.
LEMMA TodayIsLatest ==
    ASSUME IInv, EInv, phase = "emit", NEW m \in Today
    PROVE  /\ \A r \in started : r <= m.season
           /\ \A n \in Today : n.season = m.season
<1>1. \A n \in matches : n.season \in Nat /\ n.date \in Nat
  BY DEF IInv, InputOK, Match
<1>2. Today \subseteq matches /\ settled \subseteq matches /\ SeasonsApart(matches)
  BY DEF Today, IInv, DatesInOrder, InputOK
<1>3. \A n \in Today : n.date = m.date
  BY <1>1, <1>2 DEF Today
<1>4. \A n \in Today : n.season = m.season
  BY <1>1, <1>2, <1>3 DEF SeasonsApart
<1>5. \A n \in settled : n.date < m.date
  BY <1>2 DEF IInv, DatesInOrder, Today
<1>6. \A n \in settled : n.season <= m.season
  BY <1>1, <1>2, <1>5 DEF SeasonsApart
<1>7. ToSet(pending) \subseteq Today
  BY ElementOfSeq DEF IInv, DayOK, ToSet
<1> QED
  BY <1>1, <1>2, <1>4, <1>6, <1>7 DEF EInv

LEMMA StartedNumbers ==
    ASSUME IInv, TInv
    PROVE  \A s \in started : s \in Nat
  BY DEF TInv, Seasons, IInv, InputOK, Match

LEMMA RosterFinite ==
    ASSUME IInv, NEW m \in matches
    PROVE  /\ Roster(m.season) \subseteq Clubs /\ IsFiniteSet(Roster(m.season))
           /\ Cardinality(Roster(m.season)) \in Nat \ {0}
           /\ m.home \in Roster(m.season) /\ m.away \in Roster(m.season)
<1>1. m.home \in Clubs /\ m.away \in Clubs
  BY DEF IInv, InputOK, Match
<1>2. /\ Roster(m.season) \subseteq Clubs
      /\ m.home \in Roster(m.season) /\ m.away \in Roster(m.season)
  BY <1>1 DEF Roster, Plays
<1> QED
  BY <1>2, ParameterAssumption, FS_Subset, FS_CardinalityType, FS_EmptySet

\* A season starts with a centred league.
LEMMA StartCentres ==
    ASSUME IInv, TInv, NEW m \in Today
    PROVE  LET league == Roster(m.season)
               now == SeasonStarted(m.season)
           IN  SumFunction([club \in league |-> now[club].elo])
                   \in 0 .. Cardinality(league) - 1
<1> DEFINE league == Roster(m.season)
           now == SeasonStarted(m.season)
           n == Cardinality(league)
           entered == [club \in Clubs |-> IF club \in league
                         THEN Entered(club, m.season) ELSE states[club]]
           before == [club \in league |-> entered[club].elo]
           after == [club \in league |-> now[club].elo]
           mean == MeanElo(entered, league)
<1>1. league \subseteq Clubs /\ IsFiniteSet(league) /\ n \in Nat \ {0} /\ league # {}
  BY RosterFinite DEF Today
<1>2. entered \in [Clubs -> State]
  <2>1. states \in [Clubs -> State]
    BY DEF TInv
  <2> HIDE DEF league
  <2> QED
    BY <2>1, EnteredTyped
<1>3. now = Recentred(entered, league)
  BY DEF SeasonStarted
<1> HIDE DEF league, entered, now
<1>4. before \in [league -> Int]
  BY <1>1, <1>2 DEF State
<1>5. mean \in Int
  BY <1>1, <1>2, MeanEloType
<1>6. \A club \in league : before[club] \in Int /\ after[club] = before[club] - mean
  <2> SUFFICES ASSUME NEW club \in league
               PROVE  now[club].elo = entered[club].elo - mean
    BY <1>4
  <2>1. club \in Clubs /\ entered[club] \in State
    BY <1>1, <1>2
  <2>2. now[club] = [entered[club] EXCEPT
                       !.elo = @ - mean,
                       !.informed = UNION {entered[c].informed : c \in league}]
    BY <1>3, <2>1 DEF Recentred
  <2> HIDE DEF mean
  <2> QED
    BY <2>1, <2>2 DEF State
<1>7. SumFunction(after) = SumFunction(before) - n * mean
  <2>1. DOMAIN after = league /\ DOMAIN before = league
    OBVIOUS
  <2> HIDE DEF before, after, mean
  <2> QED
    BY <1>1, <1>5, <1>6, <2>1, SumLowered DEF SumFunction, n
<1>8. mean = SumFunction(before) \div n
  BY DEF MeanElo
<1>9. SumFunction(before) \in Int
  BY <1>1, <1>4, SumOfIntegers
<1> HIDE DEF n, before, after, mean
<1>10. SumFunction(after) \in 0 .. n - 1
  BY <1>1, <1>7, <1>8, <1>9
<1> QED
  BY <1>10 DEF n, after, league, now

-----------------------------------------------------------------------------
\* What a club gains from some of today's matches.
Change(club) == [m \in Today |-> EloChange(club, m)]

GainFrom(T, club) == SumFunctionOnSet(Change(club), {m \in T : Plays(m, club)})

LEMMA ChangeType ==
    ASSUME IInv, NEW club, NEW m \in Today
    PROVE  EloDelta(m) \in Int /\ EloChange(club, m) \in Int
<1>1. m.result \in Results
  BY DEF Today, IInv, InputOK, Match
<1>2. Gain[m.result] \in [BOOLEAN -> Int]
  BY <1>1, ParameterAssumption
<1>3. (states[m.home].elo + HomeAdvantage > states[m.away].elo) \in BOOLEAN
  OBVIOUS
<1>4. EloDelta(m) \in Int
  BY <1>2, <1>3, Zenon DEF EloDelta
<1> QED
  BY <1>4 DEF EloChange

\* A set of clubs that has both clubs of every match of the date gains nothing.
LEMMA NothingGained ==
    ASSUME IInv, IsFiniteSet(Today), \A m \in Today : m.home # m.away,
           NEW R, IsFiniteSet(R), \A m \in Today : m.home \in R /\ m.away \in R
    PROVE  SumFunctionOnSet([club \in R |-> GainFrom(Today, club)], R) = 0
<1> DEFINE gains(T) == [club \in R |-> GainFrom(T, club)]
           P == {T \in SUBSET Today : SumFunctionOnSet(gains(T), R) = 0}
<1>1. \A club : \A m \in Today : Change(club)[m] \in Int
  BY ChangeType DEF Change
<1>2. \A club : \A T \in SUBSET Today : GainFrom(T, club) \in Int
  <2> SUFFICES ASSUME NEW club, NEW T \in SUBSET Today PROVE GainFrom(T, club) \in Int
    OBVIOUS
  <2>1. {m \in T : Plays(m, club)} \in SUBSET Today
    OBVIOUS
  <2> QED
    BY <1>1, <2>1, SumType DEF GainFrom
<1>3. {} \in P
  <2>1. \A club \in R : gains({})[club] = 0
    <3>1. \A club : {m \in {} : Plays(m, club)} = {}
      OBVIOUS
    <3> QED
      BY <3>1, SumEmpty DEF GainFrom
  <2> DEFINE none == gains({})
  <2>2. \A club \in R : none[club] = 0
    BY <2>1
  <2> HIDE DEF none
  <2>3. SumFunctionOnSet(none, R) = 0
    BY <2>2, SumOfZeros
  <2> QED
    BY <2>3 DEF none
<1>4. ASSUME NEW T \in P, NEW m \in Today \ T PROVE T \cup {m} \in P
  <2> DEFINE old == gains(T)
             new == gains(T \cup {m})
             swap == [club \in R |-> IF Plays(m, club) THEN EloChange(club, m) ELSE 0]
  <2>1. \A club \in R : old[club] \in Int /\ swap[club] \in Int
    BY <1>2, ChangeType
  <2>2. \A club \in R : new[club] = old[club] + swap[club]
    <3> SUFFICES ASSUME NEW club \in R PROVE new[club] = old[club] + swap[club]
      OBVIOUS
    <3> DEFINE those == {n \in T : Plays(n, club)}
    <3>1. those \in SUBSET Today
      OBVIOUS
    <3>2. CASE Plays(m, club)
      <4>1. {n \in T \cup {m} : Plays(n, club)} = those \cup {m} /\ m \in Today \ those
        BY <3>2
      <4> HIDE DEF those
      <4>2. SumFunctionOnSet(Change(club), those \cup {m})
              = SumFunctionOnSet(Change(club), those) + Change(club)[m]
        BY <1>1, <3>1, <4>1, SumAdd
      <4>3. Change(club)[m] = EloChange(club, m)
        BY DEF Change
      <4> QED
        BY <3>2, <4>1, <4>2, <4>3 DEF GainFrom, those
    <3>3. CASE ~Plays(m, club)
      <4>1. {n \in T \cup {m} : Plays(n, club)} = those
        BY <3>3
      <4>2. new[club] = old[club] /\ swap[club] = 0
        BY <3>3, <4>1 DEF GainFrom
      <4> QED
        BY <2>1, <4>2
    <3> QED
      BY <3>2, <3>3
  <2>3. SumFunctionOnSet(swap, R) = 0
    <3>1. m.home \in R /\ m.away \in R /\ m.home # m.away /\ EloDelta(m) \in Int
      BY ChangeType
    <3>2. /\ swap[m.home] = EloDelta(m) /\ swap[m.away] = -EloDelta(m)
          /\ \A club \in R \ {m.home, m.away} : swap[club] = 0
      BY <3>1 DEF EloChange, Plays
    <3> HIDE DEF swap
    <3> QED
      BY <3>1, <3>2, SumOfExchange
  <2>4. SumFunctionOnSet(old, R) = 0
    OBVIOUS
  <2> HIDE DEF old, new, swap, P
  <2>5. SumFunctionOnSet(new, R) = SumFunctionOnSet(old, R) + SumFunctionOnSet(swap, R)
    <3>1. \A club \in R :
             /\ old[club] \in Int /\ swap[club] \in Int
             /\ new[club] = old[club] + swap[club]
      BY <2>1, <2>2
    <3> QED
      BY <3>1, SumOfSums
  <2> QED
    BY <2>3, <2>4, <2>5 DEF P, new
<1>5. P \in SUBSET (SUBSET Today)
  OBVIOUS
<1> HIDE DEF P
<1>6. Today \in P
  BY <1>3, <1>4, <1>5, SubsetInduction
<1> QED
  BY <1>6 DEF P

\* A club's rating after the date.
LEMMA RatedElo ==
    ASSUME IInv, TInv, NEW club \in Clubs
    PROVE  Rated(club).elo = states[club].elo + GainFrom(Today, club)
<1> DEFINE played == {m \in Today : Plays(m, club)}
           change == [m \in played |-> EloChange(club, m)]
<1>1. states[club] \in State
  BY DEF TInv
<1>2. Rated(club).elo = states[club].elo + SumFunction(change)
  <2> DEFINE informed == states[club].informed \cup played
                \cup (UNION {ParamSources(m.season) : m \in played})
                \cup (UNION {states[m.home].informed : m \in played})
                \cup (UNION {states[m.away].informed : m \in played})
  <2>1. Rated(club) = [states[club] EXCEPT
                         !.elo = @ + SumFunction(change), !.informed = informed]
    BY DEF Rated
  <2> HIDE DEF played, change, informed
  <2> QED
    BY <1>1, <2>1 DEF State
<1>3. IsFiniteSet(played)
  BY FS_Subset DEF TInv, WellFormed, Today
<1>4. \A m \in played : change[m] \in Int /\ change[m] = Change(club)[m]
  BY ChangeType DEF Change
<1>5. SumFunction(change) = SumFunctionOnSet(Change(club), played)
  <2>1. DOMAIN change = played
    OBVIOUS
  <2> HIDE DEF played, change
  <2> QED
    BY <1>3, <1>4, <2>1, SumSame DEF SumFunction
<1> QED
  BY <1>2, <1>5 DEF GainFrom

LEMMA InitEInv == Init => EInv
  BY DEF Init, EInv, ToSet

LEMMA EmitRowEInv ==
    ASSUME IInv, TInv, EInv, NEW m \in matches, EmitRow(m)
    PROVE  EInv'
<1>1. /\ m \in Today /\ phase = "emit" /\ started' = started \cup {m.season}
      /\ pending' = Append(pending, m) /\ settled' = settled /\ matches' = matches
      /\ states' = InSeason(m.season)
  BY DEF EmitRow, input
<1>2. pending \in Seq(Today)
  BY <1>1 DEF IInv, DayOK
<1>3. ToSet(pending') = ToSet(pending) \cup {m}
  BY <1>1, <1>2, AppendProperties DEF ToSet
<1>4. started' = {n.season : n \in settled' \cup ToSet(pending')}
  BY <1>1, <1>3 DEF EInv
<1>5. m.season \in Nat /\ \A r \in started : r <= m.season
  BY <1>1, TodayIsLatest DEF IInv, InputOK, Match
<1>6. \A s : Roster(s)' = Roster(s)
  BY <1>1 DEF Roster
<1>7. CASE m.season \in started
  <2>1. PICK s \in started : (\A r \in started : r <= s) /\ Centred(s)
    BY <1>7 DEF EInv
  <2>2. s = m.season
    <3>1. s \in Nat
      BY StartedNumbers
    <3> QED
      BY <1>5, <1>7, <2>1, <3>1
  <2>3. started' = started /\ states' = states
    BY <1>1, <1>7 DEF InSeason
  <2>4. Centred(s)'
    BY <1>6, <2>1, <2>3 DEF Centred
  <2> QED
    BY <1>4, <2>1, <2>3, <2>4 DEF EInv
<1>8. CASE m.season \notin started
  <2>1. states' = SeasonStarted(m.season)
    BY <1>1, <1>8 DEF InSeason
  <2>2. Centred(m.season)'
    BY <1>1, <1>6, <2>1, StartCentres DEF Centred
  <2>3. m.season \in started' /\ \A r \in started' : r <= m.season
    BY <1>1, <1>5
  <2>4. \E s \in started' : (\A r \in started' : r <= s) /\ Centred(s)'
    BY <2>2, <2>3
  <2> QED
    BY <1>4, <2>4 DEF EInv
<1> QED
  BY <1>7, <1>8

LEMMA RateDateEInv ==
    ASSUME IInv, TInv, EInv, RateDate
    PROVE  EInv'
<1>1. /\ phase = "emit" /\ Today # {} /\ Today \subseteq ToSet(pending)
      /\ started' = started /\ pending' = pending /\ settled' = settled \cup Today
      /\ matches' = matches /\ states' = [club \in Clubs |-> Rated(club)]
  BY DEF RateDate, input
<1>2. started' = {n.season : n \in settled' \cup ToSet(pending')}
  <2>1. settled' \cup ToSet(pending') = settled \cup ToSet(pending)
    BY <1>1
  <2> QED
    BY <1>1, <2>1 DEF EInv
<1>3. PICK m \in Today : TRUE
  BY <1>1
<1>4. m \in matches /\ m.season \in started /\ m.season \in Nat
  BY <1>1 DEF EInv, Today, IInv, InputOK, Match
<1>5. /\ \A r \in started : r <= m.season
      /\ \A n \in Today : n.season = m.season
  BY <1>1, TodayIsLatest
<1>6. Centred(m.season)
  <2>1. PICK s \in started : (\A r \in started : r <= s) /\ Centred(s)
    BY <1>4 DEF EInv
  <2>2. s = m.season
    <3>1. s \in Nat
      BY StartedNumbers
    <3> QED
      BY <1>4, <1>5, <2>1, <3>1
  <2> QED
    BY <2>1, <2>2
<1> DEFINE league == Roster(m.season)
           before == [club \in league |-> states[club].elo]
           gains == [club \in league |-> GainFrom(Today, club)]
           after == [club \in league |-> states'[club].elo]
<1>7. league \subseteq Clubs /\ IsFiniteSet(league)
  BY <1>4, RosterFinite
<1>8. IsFiniteSet(Today) /\ \A n \in Today : n.home # n.away
  BY FS_Subset DEF TInv, WellFormed, Today
<1>9. \A n \in Today : n.home \in league /\ n.away \in league
  <2> SUFFICES ASSUME NEW n \in Today PROVE n.home \in league /\ n.away \in league
    OBVIOUS
  <2>1. n \in matches /\ n.season = m.season
    BY <1>5 DEF Today
  <2> QED
    BY <2>1, RosterFinite
<1>10. SumFunctionOnSet(gains, league) = 0
  <2> HIDE DEF league
  <2> QED
    BY <1>7, <1>8, <1>9, NothingGained
<1>11. \A club \in league :
          /\ before[club] \in Int /\ gains[club] \in Int
          /\ after[club] = before[club] + gains[club]
  <2> SUFFICES ASSUME NEW club \in league
               PROVE  /\ states[club].elo \in Int /\ GainFrom(Today, club) \in Int
                      /\ states'[club].elo = states[club].elo + GainFrom(Today, club)
    OBVIOUS
  <2>1. club \in Clubs /\ states[club] \in State
    BY <1>7 DEF TInv
  <2>2. GainFrom(Today, club) \in Int
    <3>1. \A n \in Today : Change(club)[n] \in Int
      BY ChangeType DEF Change
    <3>2. {n \in Today : Plays(n, club)} \in SUBSET Today
      OBVIOUS
    <3> QED
      BY <1>8, <3>1, <3>2, SumType DEF GainFrom
  <2>3. states'[club] = Rated(club)
    BY <1>1, <2>1
  <2> QED
    BY <2>1, <2>2, <2>3, RatedElo DEF State
<1>12. DOMAIN before = league /\ DOMAIN after = league
  OBVIOUS
<1> HIDE DEF league, before, gains, after
<1>13. SumFunctionOnSet(before, league) \in Int
  BY <1>7, <1>11, SumType
<1>14. SumFunctionOnSet(after, league)
         = SumFunctionOnSet(before, league) + SumFunctionOnSet(gains, league)
  BY <1>7, <1>11, SumOfSums
<1>15. SumFunction(after) = SumFunction(before)
  BY <1>10, <1>12, <1>13, <1>14 DEF SumFunction
<1>16. SumFunction(before) \in 0 .. Cardinality(league) - 1
  BY <1>6 DEF Centred, before, league
<1>17. Roster(m.season)' = Roster(m.season)
  BY <1>1 DEF Roster
<1>18. Centred(m.season)'
  BY <1>15, <1>16, <1>17 DEF Centred, after, league
<1>19. \E s \in started' : (\A r \in started' : r <= s) /\ Centred(s)'
  BY <1>1, <1>4, <1>5, <1>18
<1> QED
  BY <1>2, <1>19 DEF EInv

LEMMA RecordMatchEInv ==
    ASSUME IInv, TInv, EInv, RecordMatch
    PROVE  EInv'
<1>1. /\ phase = "record" /\ started' = started /\ settled' = settled
      /\ matches' = matches /\ pending' = Tail(pending)
      /\ states' = [club \in Clubs |->
            IF Plays(Head(pending), club)
              THEN WithMatch(states[club], Head(pending)) ELSE states[club]]
  BY DEF RecordMatch, input
<1>2. pending \in Seq(settled) /\ pending # <<>>
  BY <1>1 DEF IInv, DayOK
<1>3. ToSet(pending) \subseteq settled /\ ToSet(pending') \subseteq settled
  <2>1. pending' \in Seq(settled)
    BY <1>1, <1>2, HeadTailProperties
  <2> QED
    BY <1>2, <2>1, ElementOfSeq DEF ToSet
<1>4. started' = {n.season : n \in settled' \cup ToSet(pending')}
  <2>1. settled' \cup ToSet(pending') = settled \cup ToSet(pending)
    BY <1>1, <1>3
  <2> QED
    BY <1>1, <2>1 DEF EInv
<1>5. \A club \in Clubs : states'[club].elo = states[club].elo
  <2> SUFFICES ASSUME NEW club \in Clubs PROVE states'[club].elo = states[club].elo
    OBVIOUS
  <2>1. states[club] \in State
    BY DEF TInv
  <2>2. WithMatch(states[club], Head(pending)).elo = states[club].elo
    BY <2>1 DEF WithMatch, State
  <2> QED
    BY <1>1, <2>2
<1>6. ASSUME NEW s, Centred(s) PROVE Centred(s)'
  <2>1. Roster(s)' = Roster(s) /\ Roster(s) \subseteq Clubs
    BY <1>1 DEF Roster
  <2>2. [club \in Roster(s) |-> states'[club].elo] = [club \in Roster(s) |-> states[club].elo]
    BY <1>5, <2>1
  <2> QED
    BY <1>6, <2>1, <2>2 DEF Centred
<1>7. started' # {} => \E s \in started' : (\A r \in started' : r <= s) /\ Centred(s)'
  BY <1>1, <1>6 DEF EInv
<1> QED
  BY <1>4, <1>7 DEF EInv

LEMMA AlwaysEInv == Spec => []EInv
<1>1. IInv /\ TInv /\ EInv /\ [Next]_vars => EInv'
  <2> SUFFICES ASSUME IInv, TInv, EInv, [Next]_vars PROVE EInv'
    OBVIOUS
  <2>1. ASSUME NEW m \in matches, EmitRow(m)
        PROVE  EInv'
    BY <2>1, EmitRowEInv
  <2>2. CASE UNCHANGED vars
    BY <2>2 DEF vars, EInv, Centred, Roster
  <2> QED
    BY <2>1, <2>2, RateDateEInv, RecordMatchEInv DEF Next
<1> QED
  BY <1>1, InitEInv, Inductive, AlwaysTInv, PTL DEF Spec

\* The mean rating of a league stays where a season's start put it, whatever is
\* played and however many matches a club has on a date, for every frame, every
\* gain and every parameter (build_features, header rule 4): what is left is
\* the remainder of an integer division.
THEOREM ScaleAlwaysStable == Spec => []EloScaleStable
<1>1. IInv /\ TInv /\ EInv => EloScaleStable
  <2> SUFFICES ASSUME IInv, TInv, EInv, started # {} PROVE Centred(Max(started))
    BY DEF EloScaleStable, Centred
  <2>1. PICK s \in started : (\A r \in started : r <= s) /\ Centred(s)
    BY DEF EInv
  <2>2. \A r \in started : r \in Nat
    BY StartedNumbers
  <2>3. Max(started) = s
    <3>1. \A x \in started : (\A y \in started : x >= y) => x = s
      BY <2>1, <2>2
    <3>2. s \in started /\ \A y \in started : s >= y
      BY <2>1, <2>2
    <3> QED
      BY <3>1, <3>2 DEF Max
  <2> QED
    BY <2>1, <2>3
<1> QED
  BY <1>1, Inductive, AlwaysTInv, AlwaysEInv, PTL

-----------------------------------------------------------------------------
(* What the rows say, read off the calendar.                               *)

\* The matches whose results a club's history holds.
Recorded == settled \ ToSet(pending)

RecordedOf(club) == {n \in Recorded : Plays(n, club)}

TotalsAre(state, past) ==
    /\ state.total_prior = Cardinality(past)
    /\ state.last_date = IF past = {} THEN None ELSE Max({n.date : n \in past})

SpellIs(state, past, season, start) ==
    /\ state.usable_prior = Cardinality(Since(past, start))
    /\ Lists(state.ewma, Since(past, start))
    /\ Latest(Since(past, start), Window, state.recent)
    /\ Lists(state.season_log, OfSeason(past, season))
    /\ state.is_returning <=> season = start /\ \E n \in past : n.season < start

\* The latest season that has started with the club.
Current(season, club) ==
    /\ season \in started /\ club \in Roster(season)
    /\ \A s \in started : club \in Roster(s) => s <= season

HistoryOK ==
    \A club \in Clubs :
        /\ TotalsAre(states[club], RecordedOf(club))
        /\ \A season \in started : Current(season, club) =>
              /\ SpellStart(season, club) \in Entries(season, club)
              /\ SpellIs(states[club], RecordedOf(club), season, SpellStart(season, club))

\* What is to be recorded comes after what is recorded.
PendingOK ==
    /\ IsInjective(pending)
    /\ \A m \in ToSet(pending) :
          /\ \A s \in started : s <= m.season
          /\ \A n \in settled : n.date <= m.date

HInv == PendingOK /\ HistoryOK /\ RowsAreHistory

-----------------------------------------------------------------------------

\* A bounded set of naturals has a greatest element.
LEMMA MaxOfBounded ==
    ASSUME NEW S \in SUBSET Nat, S # {}, NEW n \in Nat, \A x \in S : x <= n
    PROVE  Max(S) \in S /\ \A y \in S : y <= Max(S)
<1> DEFINE T == {n - x : x \in S}
<1>1. T \subseteq Nat /\ T # {}
  <2>1. \A x \in S : n - x \in Nat
    OBVIOUS
  <2> QED
    BY <2>1
<1>2. PICK t \in T : \A u \in T : ~(<<u, t>> \in OpToRel(<, Nat))
  <2> HIDE DEF T
  <2> QED
    BY <1>1, WFMin, NatLessThanWellFounded
<1>3. PICK x \in S : t = n - x
  OBVIOUS
<1>4. \A y \in S : x >= y
  <2> SUFFICES ASSUME NEW y \in S, y > x PROVE FALSE
    OBVIOUS
  <2>1. n - y \in T /\ n - y \in Nat /\ t \in Nat /\ n - y < t
    BY <1>1, <1>3
  <2>2. <<n - y, t>> \in OpToRel(<, Nat)
    BY <2>1 DEF OpToRel
  <2> QED
    BY <1>2, <2>1, <2>2
<1>5. Max(S) \in S /\ \A y \in S : Max(S) >= y
  BY <1>4 DEF Max
<1> QED
  BY <1>5

LEMMA MaxIs ==
    ASSUME NEW S \in SUBSET Nat, NEW x \in S, \A y \in S : y <= x
    PROVE  Max(S) = x
<1>1. Max(S) \in S /\ \A y \in S : y <= Max(S)
  BY MaxOfBounded
<1>2. Max(S) \in Nat /\ x \in Nat /\ x <= Max(S) /\ Max(S) <= x
  BY <1>1
<1> QED
  BY <1>2

LEMMA NothingListed ==
    Lists(<<>>, {}) /\ Latest({}, Window, <<>>)
<1>1. Len(<<>>) = 0 /\ DOMAIN <<>> = {} /\ ToSet(<<>>) = {} /\ Cardinality({}) = 0
  BY EmptySeq, FS_EmptySet DEF ToSet
<1>2. InOrder(<<>>) /\ IsInjective(<<>>)
  BY <1>1 DEF InOrder, IsInjective
<1>3. Least(Window, 0) = 0
  BY ParameterAssumption DEF Least
<1> QED
  BY <1>1, <1>2, <1>3 DEF Lists, Latest

\* A later match is listed at the end.
LEMMA ListedAtTheEnd ==
    ASSUME NEW set \in SUBSET Match, IsFiniteSet(set), NEW seq \in Seq(Match),
           Lists(seq, set), NEW m \in Match \ set, \A n \in set : n.date <= m.date
    PROVE  Lists(Append(seq, m), set \cup {m})
<1> DEFINE t == Append(seq, m)
<1>1. /\ Len(seq) \in Nat /\ DOMAIN seq = 1..Len(seq)
      /\ t \in Seq(Match) /\ Len(t) = Len(seq) + 1
      /\ \A i \in 1..Len(seq) : t[i] = seq[i]
      /\ t[Len(seq) + 1] = m
  BY LenProperties, AppendProperties
<1>2. DOMAIN t = 1..Len(t)
  BY <1>1, LenProperties
<1> HIDE DEF t
<1>3. ToSet(seq) = set /\ Len(seq) = Cardinality(set) /\ InOrder(seq)
  BY DEF Lists
<1>4. ToSet(t) = set \cup {m}
  BY <1>1, <1>2, <1>3 DEF ToSet
<1>5. Len(t) = Cardinality(set \cup {m})
  <2>1. Cardinality(set \cup {m}) = Cardinality(set) + 1
    BY FS_AddElement
  <2> QED
    BY <1>1, <1>3, <2>1
<1>6. InOrder(t)
  <2> SUFFICES ASSUME NEW i \in 1..Len(seq) + 1, NEW j \in 1..Len(seq) + 1, i < j
               PROVE  t[i].date <= t[j].date
    BY <1>1, <1>2 DEF InOrder
  <2>1. i \in 1..Len(seq) /\ t[i] = seq[i] /\ seq[i] \in set
    BY <1>1, <1>3 DEF ToSet
  <2>2. CASE j = Len(seq) + 1
    BY <1>1, <2>1, <2>2
  <2>3. CASE j \in 1..Len(seq)
    BY <1>1, <1>3, <2>1, <2>3 DEF InOrder
  <2> QED
    BY <1>1, <2>2, <2>3
<1>7. Lists(t, set \cup {m})
  BY <1>4, <1>5, <1>6 DEF Lists
<1> QED
  BY <1>7 DEF t

\* The window drops its first match when it is full.
LEMMA WindowShifts ==
    ASSUME NEW seq \in Seq(Match), NEW m \in Match, Len(seq) <= Window
    PROVE  LET t == LastOf(Append(seq, m), Window)
               drop == IF Len(seq) = Window THEN 1 ELSE 0
           IN  /\ t \in Seq(Match) /\ Len(t) = Len(seq) + 1 - drop
               /\ \A i \in 1..Len(seq) - drop : t[i] = seq[i + drop]
               /\ t[Len(seq) + 1 - drop] = m
<1> DEFINE a == Append(seq, m)
           first == IF Len(a) > Window THEN Len(a) - Window + 1 ELSE 1
           drop == IF Len(seq) = Window THEN 1 ELSE 0
           t == SubSeq(a, first, Len(a))
<1>1. /\ Len(seq) \in Nat /\ a \in Seq(Match) /\ Len(a) = Len(seq) + 1
      /\ \A i \in 1..Len(seq) : a[i] = seq[i]
      /\ a[Len(seq) + 1] = m
  BY LenProperties, AppendProperties
<1>2. Window \in Nat \ {0}
  BY ParameterAssumption
<1>3. first = 1 + drop /\ drop \in 0..1 /\ drop <= Len(seq)
  BY <1>1, <1>2
<1> HIDE DEF a, first
<1>4. \A i \in first..Len(a) : a[i] \in Match
  BY <1>1, <1>3, ElementOfSeq
<1>5. /\ t \in Seq(Match) /\ Len(t) = Len(a) - first + 1
      /\ \A i \in 1 .. Len(a) - first + 1 : t[i] = a[first + i - 1]
  <2>1. first \in Int /\ Len(a) \in Int /\ first <= Len(a)
    BY <1>1, <1>3
  <2> QED
    BY <1>4, <2>1, SubSeqProperties
<1> HIDE DEF t, drop
<1>6. Len(t) = Len(seq) + 1 - drop
  BY <1>1, <1>3, <1>5
<1>7. ASSUME NEW i \in 1..Len(seq) - drop PROVE t[i] = seq[i + drop]
  <2>1. i \in 1 .. Len(a) - first + 1 /\ first + i - 1 = i + drop /\ i + drop \in 1..Len(seq)
    BY <1>1, <1>3
  <2> QED
    BY <1>1, <1>5, <2>1
<1>8. t[Len(seq) + 1 - drop] = m
  <2>1. /\ Len(seq) + 1 - drop \in 1 .. Len(a) - first + 1
        /\ first + (Len(seq) + 1 - drop) - 1 = Len(seq) + 1
    BY <1>1, <1>3
  <2> QED
    BY <1>1, <1>5, <2>1
<1>9. LastOf(Append(seq, m), Window) = t
  BY DEF LastOf, t, a, first
<1> QED
  BY <1>5, <1>6, <1>7, <1>8, <1>9 DEF drop

LEMMA LatestAtTheEnd ==
    ASSUME NEW set \in SUBSET Match, IsFiniteSet(set), NEW seq \in Seq(Match),
           Latest(set, Window, seq), NEW m \in Match \ set,
           \A n \in set : n.date <= m.date
    PROVE  Latest(set \cup {m}, Window, LastOf(Append(seq, m), Window))
<1> DEFINE t == LastOf(Append(seq, m), Window)
           drop == IF Len(seq) = Window THEN 1 ELSE 0
           size == Cardinality(set)
<1>1. Window \in Nat \ {0} /\ size \in Nat /\ Cardinality(set \cup {m}) = size + 1
  BY ParameterAssumption, FS_CardinalityType, FS_AddElement
<1>2. /\ Len(seq) \in Nat /\ DOMAIN seq = 1..Len(seq)
      /\ Len(seq) = IF Window <= size THEN Window ELSE size
      /\ ToSet(seq) \subseteq set
      /\ \A i, j \in 1..Len(seq) : seq[i] = seq[j] => i = j
      /\ \A i, j \in 1..Len(seq) : i < j => seq[i].date <= seq[j].date
      /\ \A k \in set \ ToSet(seq), i \in 1..Len(seq) : k.date <= seq[i].date
      /\ \A i \in 1..Len(seq) : seq[i] \in set
  <2>1. Len(seq) \in Nat /\ DOMAIN seq = 1..Len(seq)
    BY LenProperties
  <2> QED
    BY <2>1 DEF Latest, Least, IsInjective, InOrder, ToSet
<1> HIDE DEF size
<1>3. Len(seq) <= Window /\ drop \in 0..1 /\ drop <= Len(seq)
  BY <1>1, <1>2
<1>4. /\ t \in Seq(Match) /\ Len(t) = Len(seq) + 1 - drop
      /\ \A i \in 1..Len(seq) - drop : t[i] = seq[i + drop]
      /\ t[Len(seq) + 1 - drop] = m
  BY <1>3, WindowShifts
<1>5. Len(t) = Least(Window, size + 1)
  BY <1>1, <1>2, <1>4 DEF Least
<1> HIDE DEF t, drop
<1>6. DOMAIN t = 1 .. Len(seq) + 1 - drop
  BY <1>4, LenProperties
<1>7. \A i \in DOMAIN t : \/ i = Len(seq) + 1 - drop /\ t[i] = m
                          \/ /\ i \in 1..Len(seq) - drop /\ i + drop \in 1..Len(seq)
                             /\ t[i] = seq[i + drop] /\ t[i] \in set
  <2> SUFFICES ASSUME NEW i \in 1 .. Len(seq) + 1 - drop, i # Len(seq) + 1 - drop
               PROVE  /\ i \in 1..Len(seq) - drop /\ i + drop \in 1..Len(seq)
                      /\ t[i] = seq[i + drop] /\ t[i] \in set
    BY <1>4, <1>6
  <2>1. i \in 1..Len(seq) - drop /\ i + drop \in 1..Len(seq)
    BY <1>2, <1>3
  <2> QED
    BY <1>2, <1>4, <2>1
<1>8. IsInjective(t)
  <2> SUFFICES ASSUME NEW i \in DOMAIN t, NEW j \in DOMAIN t, t[i] = t[j]
               PROVE  i = j
    BY DEF IsInjective
  <2>1. i \in Int /\ j \in Int /\ drop \in Int
    BY <1>2, <1>3, <1>6
  <2>2. CASE t[i] = m
    BY <1>7, <2>2
  <2>3. CASE t[i] # m
    <3>1. i + drop \in 1..Len(seq) /\ j + drop \in 1..Len(seq) /\ seq[i + drop] = seq[j + drop]
      BY <1>7, <2>3
    <3>2. i + drop = j + drop
      BY <1>2, <3>1
    <3> QED
      BY <2>1, <3>2
  <2> QED
    BY <2>2, <2>3
<1>9. ToSet(t) \subseteq set \cup {m}
  BY <1>7 DEF ToSet
<1>10. \A n \in set \cup {m} : n.date \in Nat
  BY DEF Match
<1>11. InOrder(t)
  <2> SUFFICES ASSUME NEW i \in DOMAIN t, NEW j \in DOMAIN t, i < j
               PROVE  t[i].date <= t[j].date
    BY DEF InOrder
  <2>1. i \in Int /\ j \in Int /\ drop \in Int /\ i <= Len(seq) - drop
    BY <1>2, <1>3, <1>6
  <2>2. i + drop \in 1..Len(seq) /\ t[i] = seq[i + drop] /\ t[i] \in set
    BY <1>2, <1>3, <1>7, <2>1
  <2>3. CASE t[j] = m
    BY <2>2, <2>3
  <2>4. CASE t[j] # m
    <3>1. j + drop \in 1..Len(seq) /\ t[j] = seq[j + drop] /\ i + drop < j + drop
      BY <1>7, <2>1, <2>4
    <3> QED
      BY <1>2, <2>2, <3>1
  <2> QED
    BY <2>3, <2>4
<1>12. ASSUME NEW k \in (set \cup {m}) \ ToSet(t), NEW i \in DOMAIN t
       PROVE  k.date <= t[i].date
  <2>1. k \in set
    BY <1>2, <1>3, <1>4, <1>6 DEF ToSet
  <2>2. CASE t[i] = m
    BY <2>1, <2>2
  <2>3. CASE t[i] # m
    <3>1. i + drop \in 1..Len(seq) /\ t[i] = seq[i + drop]
      BY <1>7, <2>3
    <3>2. CASE k \notin ToSet(seq)
      BY <1>2, <2>1, <3>1, <3>2
    <3>3. CASE k \in ToSet(seq)
      <4>1. PICK j \in 1..Len(seq) : k = seq[j]
        BY <1>2, <3>3 DEF ToSet
      <4>2. j <= drop
        <5> SUFFICES ASSUME j > drop PROVE FALSE
          BY <1>3
        <5>1. j - drop \in 1..Len(seq) - drop /\ (j - drop) + drop = j
          BY <1>2, <1>3
        <5>2. t[j - drop] = k /\ j - drop \in DOMAIN t
          BY <1>2, <1>3, <1>4, <1>6, <4>1, <5>1
        <5> QED
          BY <5>2 DEF ToSet
      <4>3. i \in Int /\ i >= 1
        BY <1>2, <1>3, <1>6
      <4>4. j < i + drop
        BY <1>3, <4>2, <4>3
      <4> QED
        BY <1>2, <3>1, <4>1, <4>4
    <3> QED
      BY <3>2, <3>3
  <2> QED
    BY <2>2, <2>3
<1>13. Latest(set \cup {m}, Window, t)
  BY <1>1, <1>5, <1>8, <1>9, <1>11, <1>12 DEF Latest
<1> QED
  BY <1>13 DEF t

\* Recorded matches are past ones, of seasons that have started.
LEMMA RecordedType ==
    ASSUME IInv, TInv, EInv, NEW club \in Clubs
    PROVE  /\ RecordedOf(club) \in SUBSET Match /\ IsFiniteSet(RecordedOf(club))
           /\ \A n \in RecordedOf(club) :
                 /\ n \in settled /\ n \in matches /\ Plays(n, club)
                 /\ n.season \in started /\ n.season \in Nat /\ n.date \in Nat
                 /\ club \in Roster(n.season)
<1>1. settled \subseteq matches /\ matches \subseteq Match /\ IsFiniteSet(matches)
  BY DEF IInv, DatesInOrder, TInv, WellFormed
<1>2. RecordedOf(club) \subseteq settled
  BY DEF RecordedOf, Recorded
<1>3. IsFiniteSet(RecordedOf(club)) /\ RecordedOf(club) \in SUBSET Match
  BY <1>1, <1>2, FS_Subset
<1>4. ASSUME NEW n \in RecordedOf(club)
      PROVE  /\ n \in settled /\ n \in matches /\ Plays(n, club)
             /\ n.season \in started /\ n.season \in Nat /\ n.date \in Nat
             /\ club \in Roster(n.season)
  <2>1. n \in settled /\ n \in matches /\ Plays(n, club) /\ n \in Match
    BY <1>1, <1>2 DEF RecordedOf
  <2>2. n.season \in started
    BY <2>1 DEF EInv
  <2>3. n.season \in Nat /\ n.date \in Nat
    BY <2>1 DEF Match
  <2>4. club \in Roster(n.season)
    BY <2>1 DEF Roster
  <2> QED
    BY <2>1, <2>2, <2>3, <2>4
<1> QED
  BY <1>3, <1>4

\* While rows are emitted, what is recorded is all that is past.
LEMMA BeforeIsRecorded ==
    ASSUME IInv, phase = "emit", NEW m \in Today, NEW club
    PROVE  Before(m, club) = RecordedOf(club)
<1>1. Recorded = settled
  <2>1. pending \in Seq(Today)
    BY DEF IInv, DayOK
  <2>2. ToSet(pending) \subseteq Today
    BY <2>1, LenProperties, ElementOfSeq DEF ToSet
  <2> QED
    BY <2>2 DEF Recorded, Today
<1>2. settled \subseteq Past(m.date)
  BY SettledIsPast DEF IInv
<1>3. Past(m.date) \subseteq settled
  <2> SUFFICES ASSUME NEW n \in matches, n.date < m.date, n \notin settled PROVE FALSE
    BY DEF Past
  <2>1. m.date <= n.date /\ m.date \in Nat /\ n.date \in Nat
    BY DEF Today, IInv, InputOK, Match
  <2> QED
    BY <2>1
<1> QED
  BY <1>1, <1>2, <1>3 DEF Before, RecordedOf

LEMMA SeasonsAreNumbers ==
    ASSUME IInv
    PROVE  Seasons \subseteq Nat
BY DEF IInv, InputOK, Match, Seasons

\* A club that was not in the season before begins a spell,
LEMMA SpellBegins ==
    ASSUME IInv, NEW season \in Seasons, NEW club \in Roster(season),
           Earlier(season) = {} \/ club \notin Roster(Max(Earlier(season)))
    PROVE  /\ SpellStart(season, club) = season
           /\ season \in Entries(season, club)
<1>1. season \in Entries(season, club) /\ Entries(season, club) \subseteq Nat
  BY SeasonsAreNumbers DEF Entries
<1>2. \A s \in Entries(season, club) : s <= season
  BY DEF Entries
<1> QED
  BY <1>1, <1>2, MaxIs DEF SpellStart

\* and one that was goes on with its own.
LEMMA SpellGoesOn ==
    ASSUME IInv, NEW season \in Seasons, NEW p \in Earlier(season),
           \A s \in Earlier(season) : s <= p, NEW club \in Roster(p)
    PROVE  /\ Entries(season, club) = Entries(p, club)
           /\ SpellStart(season, club) = SpellStart(p, club)
<1>1. Seasons \subseteq Nat /\ p \in Seasons /\ p < season
  BY SeasonsAreNumbers DEF Earlier
<1>2. Max(Earlier(season)) = p
  <2>1. Earlier(season) \in SUBSET Nat
    BY <1>1 DEF Earlier
  <2> QED
    BY <2>1, MaxIs
<1>3. ASSUME NEW s \in Entries(season, club) PROVE s <= p
  <2>1. s \in Seasons /\ s <= season /\ s # season
    BY <1>2 DEF Entries
  <2>2. s \in Earlier(season)
    BY <1>1, <2>1 DEF Earlier
  <2> QED
    BY <2>2
<1>4. Entries(season, club) \subseteq Entries(p, club)
  BY <1>3 DEF Entries
<1>5. Entries(p, club) \subseteq Entries(season, club)
  <2> SUFFICES ASSUME NEW s \in Seasons, s <= p PROVE s <= season
    BY DEF Entries
  <2> QED
    BY <1>1
<1> QED
  BY <1>4, <1>5 DEF SpellStart

\* The calendar is that of the frame, which no step changes.
LEMMA CalendarStays ==
    ASSUME matches' = matches
    PROVE  /\ \A s : Earlier(s)' = Earlier(s) /\ Roster(s)' = Roster(s)
           /\ \A s, club : /\ Entries(s, club)' = Entries(s, club)
                           /\ SpellStart(s, club)' = SpellStart(s, club)
           /\ \A m, club, side :
                 SideIsHistory(m, club, side)' <=> SideIsHistory(m, club, side)
<1>1. Seasons' = Seasons
  BY DEF Seasons
<1>2. \A s : Earlier(s)' = Earlier(s) /\ Roster(s)' = Roster(s)
  BY <1>1 DEF Earlier, Roster
<1>3. ASSUME NEW s, NEW club PROVE Entries(s, club)' = Entries(s, club)
  BY <1>1, <1>2 DEF Entries
<1>4. \A s, club : SpellStart(s, club)' = SpellStart(s, club)
  BY <1>3 DEF SpellStart
<1>5. \A m, club : Before(m, club)' = Before(m, club)
  BY DEF Before, Past
<1>6. ASSUME NEW m, NEW club, NEW side
      PROVE  SideIsHistory(m, club, side)' <=> SideIsHistory(m, club, side)
  BY <1>4, <1>5 DEF SideIsHistory
<1> QED
  BY <1>2, <1>3, <1>4, <1>6

\* What a side shows of a club whose state is its history, is its history.
LEMMA HistoryShows ==
    ASSUME IInv, TInv, EInv, phase = "emit", NEW m \in Today, NEW club \in Clubs,
           NEW state \in State, TotalsAre(state, RecordedOf(club)),
           SpellIs(state, RecordedOf(club), m.season, SpellStart(m.season, club))
    PROVE  SideIsHistory(m, club, Features(state, m.date))
<1> DEFINE past == RecordedOf(club)
           start == SpellStart(m.season, club)
           spell == Since(past, start)
           season == OfSeason(past, m.season)
           side == Features(state, m.date)
<1>1. /\ past \in SUBSET Match /\ IsFiniteSet(past)
      /\ \A n \in past : n.date \in Nat
  BY RecordedType
<1>2. /\ IsFiniteSet(spell) /\ Cardinality(spell) \in Nat
      /\ IsFiniteSet(season) /\ Cardinality(season) \in Nat
      /\ Cardinality(season) = 0 <=> season = {}
  BY <1>1, FS_Subset, FS_CardinalityType, FS_EmptySet DEF Since, OfSeason
<1>3. MinPeriods \in Nat \ {0} /\ Window \in Nat \ {0}
  BY ParameterAssumption
<1>4. /\ state.total_prior = Cardinality(past)
      /\ state.last_date = IF past = {} THEN None ELSE Max({n.date : n \in past})
      /\ state.usable_prior = Cardinality(spell)
      /\ Lists(state.ewma, spell)
      /\ Latest(spell, Window, state.recent)
      /\ Lists(state.season_log, season)
      /\ state.is_returning <=> m.season = start /\ \E n \in past : n.season < start
  BY DEF TotalsAre, SpellIs
<1>5. /\ side.ewma = IF Len(state.ewma) >= MinPeriods THEN state.ewma ELSE None
      /\ side.efficiency = IF Len(state.recent) >= MinPeriods THEN state.recent ELSE None
      /\ side.season_to_date = IF state.season_log = <<>> THEN None ELSE state.season_log
      /\ side.season_matches = Len(state.season_log)
      /\ side.prior_matches = state.total_prior
      /\ side.history_depth = Least(state.usable_prior, DepthCap)
      /\ side.is_cold_start <=> state.usable_prior < MinPeriods
      /\ side.is_returning = state.is_returning
      /\ side.rest_days = IF state.last_date = None THEN None
                          ELSE Least(m.date - state.last_date, RestCap)
  BY DEF Features
<1>6. past # {} => state.last_date # None
  <2> SUFFICES ASSUME past # {} PROVE Max({n.date : n \in past}) \in Nat
    BY <1>4, NoneAssumption
  <2> DEFINE dates == {n.date : n \in past}
  <2>1. dates \in SUBSET Nat /\ dates # {}
    <3>1. \A n \in past : n.date \in Nat
      BY <1>1
    <3> HIDE DEF past
    <3> QED
      BY <3>1
  <2>2. m.date \in Nat /\ \A d \in dates : d <= m.date
    <3>1. \A n \in past : n \in settled
      BY RecordedType
    <3>2. m.date \in Nat /\ \A n \in settled : n.date <= m.date
      BY DEF Today, IInv, InputOK, DatesInOrder, Match
    <3> HIDE DEF past
    <3> QED
      BY <3>1, <3>2
  <2> HIDE DEF dates
  <2>3. Max(dates) \in dates
    BY <2>1, <2>2, MaxOfBounded
  <2> QED
    BY <2>1, <2>3 DEF dates
<1>7. /\ Len(state.ewma) = Cardinality(spell)
      /\ Len(state.recent) = Least(Window, Cardinality(spell))
      /\ Len(state.season_log) = Cardinality(season)
      /\ state.season_log = <<>> <=> season = {}
  <2>1. state.season_log \in Seq(matches)
    BY DEF State
  <2>2. state.season_log = <<>> <=> Len(state.season_log) = 0
    BY <2>1, EmptySeq
  <2> HIDE DEF spell, season
  <2> QED
    BY <1>2, <1>4, <2>2 DEF Lists, Latest
<1>8. Before(m, club) = past
  BY BeforeIsRecorded
<1> HIDE DEF past, start, spell, season, side
<1>9. /\ IF Cardinality(spell) < MinPeriods THEN side.ewma = None
                                             ELSE Lists(side.ewma, spell)
      /\ IF Least(Window, Cardinality(spell)) < MinPeriods
             THEN side.efficiency = None
             ELSE Latest(spell, Window, side.efficiency)
  BY <1>2, <1>3, <1>4, <1>5, <1>7 DEF Least
<1>10. IF season = {} THEN side.season_to_date = None
                      ELSE Lists(side.season_to_date, season)
  BY <1>4, <1>5, <1>7
<1>11. side.rest_days = IF past = {} THEN None
              ELSE Least(m.date - Max({n.date : n \in past}), RestCap)
  BY <1>4, <1>5, <1>6
<1>12. /\ side.history_depth = Least(Cardinality(spell), DepthCap)
       /\ side.is_cold_start <=> Cardinality(spell) < MinPeriods
       /\ side.season_matches = Cardinality(season)
       /\ side.prior_matches = Cardinality(past)
       /\ side.is_returning <=> m.season = start /\ \E n \in past : n.season < start
  BY <1>4, <1>5, <1>7
<1>13. SideIsHistory(m, club, side)
  BY <1>8, <1>9, <1>10, <1>11, <1>12 DEF SideIsHistory, start, spell, season
<1> QED
  BY <1>13 DEF side

\* What a club's state is of its history when a season starts.
LEMMA EnteredHistory ==
    ASSUME IInv, NEW season, NEW club \in Clubs
    PROVE  LET old == states[club]
               new == Entered(club, season)
               kind == SeasonKind(club, season)
               reset == Earlier(season) = {} \/ kind \in {"new", "stale"}
           IN  /\ DOMAIN new = Fields
               /\ new.season_log = <<>>
               /\ new.total_prior = old.total_prior /\ new.last_date = old.last_date
               /\ reset => /\ new.ewma = <<>> /\ new.recent = <<>>
                           /\ new.usable_prior = 0
               /\ ~reset => /\ new.ewma = old.ewma /\ new.recent = old.recent
                            /\ new.usable_prior = old.usable_prior
               /\ new.is_returning <=> Earlier(season) # {} /\ kind = "stale"
<1> DEFINE old == states[club]
           kind == SeasonKind(club, season)
           state == [old EXCEPT !.season_log = <<>>]
           reset == ResetHistory(state)
           fresh == [reset EXCEPT !.elo = 0, !.informed = {}, !.is_returning = FALSE]
           entrant == [reset EXCEPT !.elo = PromotedPrior,
                          !.informed = ParamSources(season),
                          !.is_returning = (kind = "stale")]
           regular == [state EXCEPT !.elo = @ \div ShrinkBy,
                          !.informed = @ \cup ParamSources(season),
                          !.is_returning = FALSE]
           new == Entered(club, season)
<1>1. DOMAIN old = Fields
  BY DEF IInv, StatesKnown, StateKnown
<1>2. new = IF Earlier(season) = {} THEN fresh
            ELSE IF kind \in {"new", "stale"} THEN entrant ELSE regular
  BY DEF Entered
<1>3. kind \in {"new", "stale", "continuing"}
  BY DEF SeasonKind
<1> HIDE DEF old, kind
<1>4. /\ DOMAIN state = Fields /\ state.season_log = <<>>
      /\ state.total_prior = old.total_prior /\ state.last_date = old.last_date
      /\ state.ewma = old.ewma /\ state.recent = old.recent
      /\ state.usable_prior = old.usable_prior
  BY <1>1 DEF Fields
<1> HIDE DEF state
<1>5. /\ DOMAIN reset = Fields /\ reset.season_log = <<>>
      /\ reset.total_prior = old.total_prior /\ reset.last_date = old.last_date
      /\ reset.ewma = <<>> /\ reset.recent = <<>> /\ reset.usable_prior = 0
  BY <1>4 DEF Fields, ResetHistory
<1> HIDE DEF reset
<1>6. /\ DOMAIN fresh = Fields /\ fresh.season_log = <<>>
      /\ fresh.total_prior = old.total_prior /\ fresh.last_date = old.last_date
      /\ fresh.ewma = <<>> /\ fresh.recent = <<>> /\ fresh.usable_prior = 0
      /\ fresh.is_returning = FALSE
  BY <1>5 DEF Fields
<1>7. /\ DOMAIN entrant = Fields /\ entrant.season_log = <<>>
      /\ entrant.total_prior = old.total_prior /\ entrant.last_date = old.last_date
      /\ entrant.ewma = <<>> /\ entrant.recent = <<>> /\ entrant.usable_prior = 0
      /\ entrant.is_returning = (kind = "stale")
  BY <1>5 DEF Fields
<1>8. /\ DOMAIN regular = Fields /\ regular.season_log = <<>>
      /\ regular.total_prior = old.total_prior /\ regular.last_date = old.last_date
      /\ regular.ewma = old.ewma /\ regular.recent = old.recent
      /\ regular.usable_prior = old.usable_prior
      /\ regular.is_returning = FALSE
  BY <1>4 DEF Fields
<1> HIDE DEF fresh, entrant, regular, new
<1> DEFINE cleared == Earlier(season) = {} \/ kind \in {"new", "stale"}
<1>9. /\ DOMAIN new = Fields
      /\ new.season_log = <<>>
      /\ new.total_prior = old.total_prior /\ new.last_date = old.last_date
      /\ cleared => new.ewma = <<>> /\ new.recent = <<>> /\ new.usable_prior = 0
      /\ ~cleared => /\ new.ewma = old.ewma /\ new.recent = old.recent
                     /\ new.usable_prior = old.usable_prior
      /\ new.is_returning <=> Earlier(season) # {} /\ kind = "stale"
  <2>1. CASE Earlier(season) = {}
    <3>1. new = fresh
      BY <1>2, <2>1
    <3> QED
      BY <1>6, <2>1, <3>1
  <2>2. CASE Earlier(season) # {} /\ kind \in {"new", "stale"}
    <3>1. new = entrant
      BY <1>2, <2>2
    <3> QED
      BY <1>7, <2>2, <3>1
  <2>3. CASE Earlier(season) # {} /\ kind \notin {"new", "stale"}
    <3>1. new = regular
      BY <1>2, <2>3
    <3> QED
      BY <1>8, <2>3, <3>1
  <2> QED
    BY <2>1, <2>2, <2>3
<1> QED
  BY <1>9 DEF old, kind, new

\* Re-centring leaves histories alone.
LEMMA StartedHistory ==
    ASSUME IInv, NEW season, NEW club \in Clubs
    PROVE  LET state == SeasonStarted(season)[club]
               new == Entered(club, season)
           IN  /\ club \notin Roster(season) => state = states[club]
               /\ club \in Roster(season) =>
                    /\ state.season_log = new.season_log
                    /\ state.total_prior = new.total_prior
                    /\ state.last_date = new.last_date
                    /\ state.ewma = new.ewma /\ state.recent = new.recent
                    /\ state.usable_prior = new.usable_prior
                    /\ state.is_returning = new.is_returning
<1> DEFINE active == Roster(season)
           entered == [c \in Clubs |-> IF c \in active
                         THEN Entered(c, season) ELSE states[c]]
           state == SeasonStarted(season)[club]
           new == Entered(club, season)
<1>1. state = IF club \notin active THEN entered[club]
              ELSE [entered[club] EXCEPT
                      !.elo = @ - MeanElo(entered, active),
                      !.informed = UNION {entered[c].informed : c \in active}]
  BY DEF SeasonStarted, Recentred
<1>2. entered[club] = IF club \in active THEN new ELSE states[club]
  OBVIOUS
<1>3. DOMAIN new = Fields
  BY EnteredHistory
<1> HIDE DEF entered, new, active, state
<1>4. CASE club \notin active
  BY <1>1, <1>2, <1>4 DEF state, active
<1>5. CASE club \in active
  <2>1. /\ state.season_log = new.season_log
        /\ state.total_prior = new.total_prior
        /\ state.last_date = new.last_date
        /\ state.ewma = new.ewma /\ state.recent = new.recent
        /\ state.usable_prior = new.usable_prior
        /\ state.is_returning = new.is_returning
    BY <1>1, <1>2, <1>3, <1>5 DEF Fields
  <2> QED
    BY <1>5, <2>1 DEF state, new, active
<1> QED
  BY <1>4, <1>5

\* A club is in the league's last season or begins a spell, and is returning
\* when it has been there before.
LEMMA KindOfSeason ==
    ASSUME IInv, NEW season \in Seasons, NEW club \in Roster(season),
           Earlier(season) # {}
    PROVE  LET kind == SeasonKind(club, season)
               last == Max(Earlier(season))
               played == {s \in Earlier(season) : club \in Roster(s)}
           IN  /\ last \in Earlier(season) /\ \A s \in Earlier(season) : s <= last
               /\ kind \in {"new", "stale"} <=> club \notin Roster(last)
               /\ kind = "stale" <=> club \notin Roster(last) /\ played # {}
<1> DEFINE kind == SeasonKind(club, season)
           last == Max(Earlier(season))
           played == {s \in Earlier(season) : club \in Roster(s)}
<1>1. Earlier(season) \subseteq Nat /\ season \in Nat /\ \A s \in Earlier(season) : s <= season
  BY SeasonsAreNumbers DEF Earlier
<1>2. last \in Earlier(season) /\ \A s \in Earlier(season) : s <= last
  BY <1>1, MaxOfBounded
<1>3. played \in SUBSET Nat /\ \A s \in played : s <= season
  BY <1>1
<1>4. kind = IF played = {} THEN "new"
             ELSE IF \E s \in Earlier(season) : s > Max(played)
                    THEN "stale" ELSE "continuing"
  BY DEF SeasonKind
<1>5. played # {} => Max(played) \in played /\ \A s \in played : s <= Max(played)
  <2> HIDE DEF played
  <2> QED
    BY <1>1, <1>3, MaxOfBounded
<1>6. CASE played = {}
  <2>1. club \notin Roster(last)
    BY <1>2, <1>6
  <2> QED
    BY <1>2, <1>4, <1>6, <2>1
<1>7. CASE played # {}
  <2> DEFINE top == Max(played)
  <2>1. top \in played /\ top \in Earlier(season) /\ top \in Nat /\ last \in Nat
        /\ top <= last /\ \A s \in played : s <= top
    BY <1>1, <1>2, <1>5, <1>7
  <2>2. club \in Roster(last) <=> last \in played
    BY <1>2
  <2> HIDE DEF top, played, last
  <2>3. (\E s \in Earlier(season) : s > top) <=> last \notin played
    <3>1. CASE last \in played
      <4>1. last <= top
        BY <2>1, <3>1
      <4>2. \A s \in Earlier(season) : s \in Nat /\ s <= last
        BY <1>1, <1>2
      <4> QED
        BY <2>1, <3>1, <4>1, <4>2
    <3>2. CASE last \notin played
      <4>1. last # top
        BY <2>1, <3>2
      <4> QED
        BY <1>2, <2>1, <3>2, <4>1
    <3> QED
      BY <3>1, <3>2
  <2>4. kind = IF last \in played THEN "continuing" ELSE "stale"
    BY <1>4, <1>7, <2>3 DEF top
  <2> QED
    BY <1>2, <1>7, <2>2, <2>4 DEF last, played
<1> QED
  BY <1>6, <1>7

\* When a season starts, the history of each of its clubs says what the
\* calendar says.
LEMMA SeasonStartsHistory ==
    ASSUME IInv, TInv, EInv, HInv, phase = "emit", NEW m \in Today,
           m.season \notin started, NEW club \in Roster(m.season)
    PROVE  LET state == SeasonStarted(m.season)[club]
               start == SpellStart(m.season, club)
           IN  /\ start \in Entries(m.season, club)
               /\ TotalsAre(state, RecordedOf(club))
               /\ SpellIs(state, RecordedOf(club), m.season, start)
<1> DEFINE season == m.season
           past == RecordedOf(club)
           old == states[club]
           state == SeasonStarted(season)[club]
           start == SpellStart(season, club)
           kind == SeasonKind(club, season)
           last == Max(Earlier(season))
           reset == Earlier(season) = {} \/ kind \in {"new", "stale"}
<1>1. /\ club \in Clubs /\ m \in matches /\ m \notin settled /\ season \in Seasons
      /\ season \in Nat /\ \A r \in started : r \in Nat /\ r < season
  <2>1. club \in Clubs /\ m \in matches /\ m \notin settled /\ season \in Seasons
    BY DEF Roster, Today, Seasons
  <2>2. season \in Nat /\ \A r \in started : r \in Nat /\ r <= season /\ r # season
    BY <2>1, TodayIsLatest, StartedNumbers, SeasonsAreNumbers
  <2> QED
    BY <2>1, <2>2
<1>2. \A n \in past : /\ n.season \in Earlier(season) /\ n.season < season
                      /\ n.season \in Nat /\ club \in Roster(n.season)
  <2> SUFFICES ASSUME NEW n \in past
               PROVE  /\ n.season \in Earlier(season) /\ n.season < season
                      /\ n.season \in Nat /\ club \in Roster(n.season)
    OBVIOUS
  <2>1. n \in matches /\ n.season \in started /\ club \in Roster(n.season)
    BY <1>1, RecordedType
  <2> QED
    BY <1>1, <2>1 DEF Earlier, Seasons
<1>3. Since(past, season) = {} /\ OfSeason(past, season) = {}
  BY <1>1, <1>2 DEF Since, OfSeason
<1>4. /\ state.season_log = <<>>
      /\ state.total_prior = old.total_prior /\ state.last_date = old.last_date
      /\ reset => /\ state.ewma = <<>> /\ state.recent = <<>>
                  /\ state.usable_prior = 0
      /\ ~reset => /\ state.ewma = old.ewma /\ state.recent = old.recent
                   /\ state.usable_prior = old.usable_prior
      /\ state.is_returning <=> Earlier(season) # {} /\ kind = "stale"
  BY <1>1, EnteredHistory, StartedHistory
<1>5. TotalsAre(state, past)
  <2>1. TotalsAre(old, past)
    BY <1>1 DEF HInv, HistoryOK
  <2> HIDE DEF state, old, past
  <2> QED
    BY <1>4, <2>1 DEF TotalsAre
<1>6. \A s \in Earlier(season), n \in matches :
         n.season = s => n \in settled /\ s \in started
  <2> SUFFICES ASSUME NEW n \in matches, n.season < season
               PROVE  n \in settled /\ n.season \in started
    BY DEF Earlier
  <2>1. n.date < m.date
    BY <1>1 DEF IInv, InputOK, SeasonsApart
  <2>2. n \in settled
    <3>1. n \notin settled => m.date <= n.date
      BY DEF Today
    <3>2. m.date \in Nat /\ n.date \in Nat
      BY <1>1 DEF IInv, InputOK, Match
    <3> QED
      BY <2>1, <3>1, <3>2
  <2> QED
    BY <2>2 DEF EInv
<1>7. Lists(state.season_log, OfSeason(past, season))
  BY <1>3, <1>4, NothingListed
<1>8. ASSUME Earlier(season) = {} \/ club \notin Roster(last)
      PROVE  start \in Entries(season, club) /\ SpellIs(state, past, season, start)
  <2>1. start = season /\ season \in Entries(season, club)
    BY <1>1, <1>8, SpellBegins
  <2>2. reset
    BY <1>1, <1>8, KindOfSeason
  <2>3. Since(past, start) = {}
    BY <1>3, <2>1
  <2>4. /\ state.usable_prior = Cardinality(Since(past, start))
        /\ Lists(state.ewma, Since(past, start))
        /\ Latest(Since(past, start), Window, state.recent)
    BY <1>4, <2>2, <2>3, NothingListed, FS_EmptySet
  <2>5. (\E n \in past : n.season < start) <=> Earlier(season) # {} /\ kind = "stale"
    <3>1. CASE Earlier(season) = {}
      BY <1>2, <3>1
    <3>2. CASE Earlier(season) # {}
      <4> DEFINE played == {s \in Earlier(season) : club \in Roster(s)}
      <4>1. kind = "stale" <=> played # {}
        BY <1>1, <1>8, <3>2, KindOfSeason
      <4>2. ASSUME NEW n \in past PROVE n.season \in played
        BY <1>2
      <4>3. ASSUME NEW s \in played PROVE \E n \in past : n.season = s
        <5>1. PICK n \in matches : n.season = s /\ Plays(n, club)
          BY DEF Roster
        <5>2. n \in settled
          BY <1>6, <5>1
        <5>3. n.date < m.date
          BY <5>2 DEF IInv, DatesInOrder, Today
        <5>4. n \in Before(m, club)
          BY <5>1, <5>3 DEF Before, Past
        <5> QED
          BY <5>1, <5>4, BeforeIsRecorded
      <4>4. (\E n \in past : n.season < start) <=> past # {}
        BY <1>2, <2>1
      <4> HIDE DEF past, played
      <4> QED
        BY <3>2, <4>1, <4>2, <4>3, <4>4
    <3> QED
      BY <3>1, <3>2
  <2> HIDE DEF state, past, start, season, kind
  <2> QED
    BY <1>4, <1>7, <2>1, <2>4, <2>5 DEF SpellIs
<1>9. ASSUME Earlier(season) # {}, club \in Roster(last)
      PROVE  start \in Entries(season, club) /\ SpellIs(state, past, season, start)
  <2>1. /\ last \in Earlier(season) /\ \A s \in Earlier(season) : s <= last
        /\ kind \notin {"new", "stale"}
    BY <1>1, <1>9, KindOfSeason
  <2>2. last \in started
    <3>1. PICK n \in matches : n.season = last
      BY <2>1 DEF Earlier, Seasons
    <3> QED
      BY <1>6, <2>1, <3>1
  <2>3. Current(last, club)
    <3>1. \A s \in started : s <= last
      BY <1>1, <2>1 DEF Earlier, TInv
    <3> HIDE DEF last
    <3> QED
      BY <1>9, <2>2, <3>1 DEF Current
  <2>4. /\ SpellStart(last, club) \in Entries(last, club)
        /\ SpellIs(old, past, last, SpellStart(last, club))
    BY <1>1, <2>2, <2>3 DEF HInv, HistoryOK
  <2>5. start = SpellStart(last, club) /\ Entries(season, club) = Entries(last, club)
    BY <1>1, <1>9, <2>1, SpellGoesOn
  <2>6. start # season
    <3>1. start <= last /\ last < season /\ start \in Nat /\ last \in Nat
      <4>1. start \in Seasons /\ start <= last /\ last \in Seasons /\ last < season
        BY <2>1, <2>4, <2>5 DEF Entries, Earlier
      <4> QED
        BY <4>1, SeasonsAreNumbers
    <3> QED
      BY <1>1, <3>1
  <2> HIDE DEF state, past, start, season, kind, last, old
  <2>7. SpellIs(state, past, season, start)
    BY <1>4, <1>7, <1>9, <2>1, <2>4, <2>5, <2>6 DEF SpellIs, reset
  <2> QED
    BY <2>4, <2>5, <2>7
<1> HIDE DEF state, past, start, season, last
<1>10. start \in Entries(season, club) /\ SpellIs(state, past, season, start)
  BY <1>8, <1>9
<1> QED
  BY <1>5, <1>10 DEF state, past, start, season

-----------------------------------------------------------------------------

LEMMA InitHInv == Init => HInv
<1> SUFFICES ASSUME Init PROVE HInv
  OBVIOUS
<1>1. /\ pending = <<>> /\ started = {} /\ settled = {} /\ rows = <<>>
      /\ states = [club \in Clubs |-> NewState]
  BY DEF Init
<1>2. DOMAIN pending = {} /\ DOMAIN rows = {} /\ ToSet(pending) = {}
  BY <1>1 DEF ToSet
<1>3. PendingOK
  BY <1>2 DEF PendingOK, IsInjective
<1>4. HistoryOK
  <2> SUFFICES ASSUME NEW club \in Clubs PROVE TotalsAre(states[club], RecordedOf(club))
    BY <1>1 DEF HistoryOK
  <2>1. RecordedOf(club) = {}
    BY <1>1 DEF RecordedOf, Recorded
  <2> QED
    BY <1>1, <2>1, FS_EmptySet DEF TotalsAre, NewState
<1>5. RowsAreHistory
  BY <1>2 DEF RowsAreHistory
<1> QED
  BY <1>3, <1>4, <1>5 DEF HInv

\* A row shows the histories of its clubs.
LEMMA EmitRowHInv ==
    ASSUME IInv, TInv, EInv, HInv, NEW m \in matches, EmitRow(m)
    PROVE  HInv'
<1> DEFINE now == InSeason(m.season)
           row == Row(m, now)
<1>1. /\ m \in Today /\ m \notin ToSet(pending) /\ phase = "emit"
      /\ matches' = matches /\ settled' = settled
      /\ started' = started \cup {m.season}
      /\ states' = now /\ rows' = Append(rows, row) /\ pending' = Append(pending, m)
  BY DEF EmitRow, input
<1>2. pending \in Seq(Today) /\ m \notin settled
  BY <1>1 DEF IInv, DayOK, Today
<1>3. /\ Len(pending) \in Nat /\ DOMAIN pending = 1..Len(pending)
      /\ DOMAIN pending' = 1 .. Len(pending) + 1
      /\ \A i \in 1..Len(pending) : pending'[i] = pending[i]
      /\ pending'[Len(pending) + 1] = m
  BY <1>1, <1>2, LenProperties, AppendProperties
<1>4. ToSet(pending') = ToSet(pending) \cup {m}
  BY <1>3 DEF ToSet
<1>5. \A r \in started : r <= m.season
  BY <1>1, TodayIsLatest
<1>6. \A n \in Today : n.season = m.season
  BY <1>1, TodayIsLatest
<1>7. ToSet(pending) \subseteq Today
  BY <1>2, <1>3, ElementOfSeq DEF ToSet
<1>8. m.season \in Nat
  BY DEF IInv, InputOK, Match
<1>9. PendingOK'
  <2>1. IsInjective(pending')
    <3>1. \A i \in 1..Len(pending) : pending[i] # m
      BY <1>1, <1>3 DEF ToSet
    <3>2. \A i, j \in 1..Len(pending) : pending[i] = pending[j] => i = j
      BY <1>3 DEF HInv, PendingOK, IsInjective
    <3>3. \A i, j \in 1 .. Len(pending) + 1 : pending'[i] = pending'[j] => i = j
      BY <1>3, <3>1, <3>2
    <3> QED
      BY <1>3, <3>3 DEF IsInjective
  <2>2. ASSUME NEW n \in ToSet(pending')
        PROVE  /\ \A s \in started' : s <= n.season
               /\ \A k \in settled' : k.date <= n.date
    <3>1. n \in Today
      BY <1>1, <1>4, <1>7
    <3>2. n.season = m.season
      BY <1>6, <3>1
    <3>3. \A s \in started' : s <= n.season
      BY <1>1, <1>5, <1>8, <3>2
    <3>4. \A k \in settled : k.date < n.date /\ k.date \in Nat /\ n.date \in Nat
      BY <3>1 DEF IInv, DatesInOrder, Today, InputOK, Match
    <3> QED
      BY <1>1, <3>3, <3>4
  <2> QED
    BY <2>1, <2>2 DEF PendingOK
<1>10. \A club : RecordedOf(club)' = RecordedOf(club)
  BY <1>1, <1>2, <1>4 DEF RecordedOf, Recorded
<1>11. \A s : Roster(s)' = Roster(s)
  BY <1>1, CalendarStays
<1>12. \A s, club : /\ Entries(s, club)' = Entries(s, club)
                    /\ SpellStart(s, club)' = SpellStart(s, club)
  BY <1>1, CalendarStays
<1>13. ASSUME NEW club \in Clubs
       PROVE  /\ TotalsAre(now[club], RecordedOf(club))
              /\ \A s \in started' : Current(s, club)' =>
                    /\ SpellStart(s, club) \in Entries(s, club)
                    /\ SpellIs(now[club], RecordedOf(club), s, SpellStart(s, club))
  <2>1. /\ TotalsAre(states[club], RecordedOf(club))
        /\ \A s \in started : Current(s, club) =>
              /\ SpellStart(s, club) \in Entries(s, club)
              /\ SpellIs(states[club], RecordedOf(club), s, SpellStart(s, club))
    BY DEF HInv, HistoryOK
  <2>2. CASE m.season \in started
    <3>1. now = states /\ started' = started
      BY <1>1, <2>2 DEF InSeason
    <3>2. \A s : Current(s, club)' <=> Current(s, club)
      BY <1>11, <3>1 DEF Current
    <3> QED
      BY <2>1, <3>1, <3>2
  <2>3. CASE m.season \notin started /\ club \notin Roster(m.season)
    <3>1. now[club] = states[club]
      BY <2>3, StartedHistory DEF InSeason
    <3>2. \A s \in started' : Current(s, club)' => s \in started /\ Current(s, club)
      BY <1>1, <1>11, <2>3 DEF Current
    <3> QED
      BY <2>1, <3>1, <3>2
  <2>4. CASE m.season \notin started /\ club \in Roster(m.season)
    <3>1. now = SeasonStarted(m.season)
      BY <2>4 DEF InSeason
    <3>2. /\ SpellStart(m.season, club) \in Entries(m.season, club)
          /\ TotalsAre(now[club], RecordedOf(club))
          /\ SpellIs(now[club], RecordedOf(club), m.season, SpellStart(m.season, club))
      BY <1>1, <2>4, <3>1, SeasonStartsHistory
    <3>3. ASSUME NEW s \in started', Current(s, club)' PROVE s = m.season
      <4>1. m.season <= s
        BY <1>1, <1>11, <2>4, <3>3 DEF Current
      <4>2. s <= m.season /\ s \in Nat
        BY <1>1, <1>5, <1>8, StartedNumbers
      <4> QED
        BY <1>8, <4>1, <4>2
    <3> HIDE DEF now
    <3> QED
      BY <3>2, <3>3
  <2> QED
    BY <2>2, <2>3, <2>4
<1>14. HistoryOK'
  <2> HIDE DEF now
  <2> QED
    BY <1>1, <1>10, <1>12, <1>13 DEF HistoryOK, TotalsAre, SpellIs
<1>15. ASSUME NEW club \in Clubs, Plays(m, club)
       PROVE  SideIsHistory(m, club, Features(now[club], m.date))
  <2>1. now[club] \in State
    BY <1>1, InSeasonTyped
  <2>2. Current(m.season, club)'
    <3>1. club \in Roster(m.season)
      BY <1>15 DEF Roster
    <3>2. \A s \in started' : s <= m.season
      BY <1>1, <1>5, <1>8
    <3> QED
      BY <1>1, <1>11, <3>1, <3>2 DEF Current
  <2>3. /\ TotalsAre(now[club], RecordedOf(club))
        /\ SpellIs(now[club], RecordedOf(club), m.season, SpellStart(m.season, club))
    BY <1>1, <1>13, <2>2
  <2> HIDE DEF now
  <2> QED
    BY <1>1, <2>1, <2>3, HistoryShows
<1>16. RowsAreHistory'
  <2>1. m.home \in Clubs /\ m.away \in Clubs /\ Plays(m, m.home) /\ Plays(m, m.away)
    BY DEF IInv, InputOK, Match, Plays
  <2>2. /\ row.match = m
        /\ row.home = Features(now[m.home], m.date)
        /\ row.away = Features(now[m.away], m.date)
    BY DEF Row
  <2>3. SideIsHistory(m, m.home, row.home) /\ SideIsHistory(m, m.away, row.away)
    BY <1>15, <2>1, <2>2
  <2>4. \A k, club, side : SideIsHistory(k, club, side)' <=> SideIsHistory(k, club, side)
    BY <1>1, CalendarStays
  <2> HIDE DEF row, now
  <2>5. \A i \in DOMAIN rows' : rows'[i] = row \/ (i \in DOMAIN rows /\ rows'[i] = rows[i])
    BY <1>1, AppendRow DEF IInv, RowsKnown
  <2>6. ASSUME NEW i \in DOMAIN rows'
        PROVE  /\ SideIsHistory(rows'[i].match, rows'[i].match.home, rows'[i].home)
               /\ SideIsHistory(rows'[i].match, rows'[i].match.away, rows'[i].away)
    <3>1. CASE rows'[i] = row
      BY <2>2, <2>3, <3>1
    <3>2. CASE i \in DOMAIN rows /\ rows'[i] = rows[i]
      BY <3>2 DEF HInv, RowsAreHistory
    <3> QED
      BY <2>5, <3>1, <3>2
  <2>7. ASSUME NEW i \in DOMAIN rows'
        PROVE  /\ SideIsHistory(rows[i].match, rows[i].match.home, rows[i].home)'
               /\ SideIsHistory(rows[i].match, rows[i].match.away, rows[i].away)'
    BY <2>4, <2>6
  <2> QED
    BY <2>7 DEF RowsAreHistory
<1> QED
  BY <1>9, <1>14, <1>16 DEF HInv

\* Rating a date leaves histories alone: what is rated is still to be recorded.
LEMMA RateDateHInv ==
    ASSUME IInv, TInv, EInv, HInv, RateDate
    PROVE  HInv'
<1>1. /\ phase = "emit" /\ Today \subseteq ToSet(pending)
      /\ matches' = matches /\ started' = started /\ pending' = pending
      /\ rows' = rows /\ settled' = settled \cup Today
      /\ states' = [club \in Clubs |-> Rated(club)]
  BY DEF RateDate, input
<1>2. pending \in Seq(Today)
  BY <1>1 DEF IInv, DayOK
<1>3. ToSet(pending) = Today
  BY <1>1, <1>2, LenProperties, ElementOfSeq DEF ToSet
<1>4. PendingOK'
  <2>1. IsInjective(pending)' /\ \A m \in ToSet(pending) : \A s \in started : s <= m.season
    BY <1>1 DEF HInv, PendingOK, IsInjective
  <2>2. \A m \in Today, n \in settled \cup Today : n.date <= m.date
    BY <1>3 DEF HInv, PendingOK, Today
  <2> QED
    BY <1>1, <1>3, <2>1, <2>2 DEF PendingOK
<1>5. Recorded' = Recorded
  BY <1>1, <1>3 DEF Recorded
<1>6. \A club : RecordedOf(club)' = RecordedOf(club)
  BY <1>5 DEF RecordedOf
<1>7. ASSUME NEW club \in Clubs
      PROVE  /\ states'[club].ewma = states[club].ewma
             /\ states'[club].recent = states[club].recent
             /\ states'[club].usable_prior = states[club].usable_prior
             /\ states'[club].total_prior = states[club].total_prior
             /\ states'[club].season_log = states[club].season_log
             /\ states'[club].last_date = states[club].last_date
             /\ states'[club].is_returning = states[club].is_returning
  <2>1. DOMAIN states[club] = Fields
    BY DEF IInv, StatesKnown, StateKnown
  <2>2. states'[club] = Rated(club)
    BY <1>1
  <2> QED
    BY <2>1, <2>2 DEF Rated, Fields
<1>8. \A s : Roster(s)' = Roster(s)
  BY <1>1, CalendarStays
<1>9. \A s, club : /\ Entries(s, club)' = Entries(s, club)
                   /\ SpellStart(s, club)' = SpellStart(s, club)
  BY <1>1, CalendarStays
<1>10. \A s, club : Current(s, club)' <=> Current(s, club)
  BY <1>1, <1>8 DEF Current
<1>11. HistoryOK'
  <2> SUFFICES ASSUME NEW club \in Clubs
               PROVE  /\ TotalsAre(states'[club], RecordedOf(club))
                      /\ \A s \in started : Current(s, club) =>
                            /\ SpellStart(s, club) \in Entries(s, club)
                            /\ SpellIs(states'[club], RecordedOf(club), s,
                                       SpellStart(s, club))
    BY <1>1, <1>6, <1>9, <1>10 DEF HistoryOK, TotalsAre, SpellIs
  <2>1. /\ TotalsAre(states[club], RecordedOf(club))
        /\ \A s \in started : Current(s, club) =>
              /\ SpellStart(s, club) \in Entries(s, club)
              /\ SpellIs(states[club], RecordedOf(club), s, SpellStart(s, club))
    BY DEF HInv, HistoryOK
  <2>2. TotalsAre(states'[club], RecordedOf(club))
    BY <1>7, <2>1 DEF TotalsAre
  <2>3. \A s : SpellIs(states[club], RecordedOf(club), s, SpellStart(s, club))
                 => SpellIs(states'[club], RecordedOf(club), s, SpellStart(s, club))
    BY <1>7 DEF SpellIs
  <2> QED
    BY <2>1, <2>2, <2>3
<1>12. RowsAreHistory'
  BY <1>1, CalendarStays DEF HInv, RowsAreHistory
<1> QED
  BY <1>4, <1>11, <1>12 DEF HInv

\* A match that comes last extends the history of its club, whose season it is.
LEMMA HistoryGrows ==
    ASSUME matches \subseteq Match, NEW past \in SUBSET Match, IsFiniteSet(past),
           NEW m \in Match \ past, \A n \in past : n.date <= m.date,
           NEW state \in State, NEW start \in Nat, start <= m.season,
           TotalsAre(state, past), SpellIs(state, past, m.season, start)
    PROVE  /\ TotalsAre(WithMatch(state, m), past \cup {m})
           /\ SpellIs(WithMatch(state, m), past \cup {m}, m.season, start)
<1> DEFINE next == WithMatch(state, m)
           all == past \cup {m}
           spell == Since(past, start)
           season == OfSeason(past, m.season)
<1>1. /\ state.ewma \in Seq(Match) /\ state.recent \in Seq(Match)
      /\ state.season_log \in Seq(Match)
  BY SeqMonotonic DEF State
<1>2. /\ next.ewma = Append(state.ewma, m)
      /\ next.recent = LastOf(Append(state.recent, m), Window)
      /\ next.usable_prior = state.usable_prior + 1
      /\ next.total_prior = state.total_prior + 1
      /\ next.season_log = Append(state.season_log, m)
      /\ next.last_date = m.date
      /\ next.is_returning = state.is_returning
  BY DEF WithMatch, State
<1>3. /\ m.season \in Nat /\ m.date \in Nat /\ m \notin past
      /\ \A n \in past : n.date \in Nat /\ n.season \in Nat
  BY DEF Match
<1>4. Since(all, start) = spell \cup {m} /\ OfSeason(all, m.season) = season \cup {m}
  BY DEF Since, OfSeason
<1>5. /\ spell \in SUBSET Match /\ IsFiniteSet(spell) /\ m \notin spell
      /\ season \in SUBSET Match /\ IsFiniteSet(season) /\ m \notin season
      /\ \A n \in spell : n.date <= m.date
      /\ \A n \in season : n.date <= m.date
  BY FS_Subset DEF Since, OfSeason
<1>6. /\ state.usable_prior = Cardinality(spell)
      /\ Lists(state.ewma, spell)
      /\ Latest(spell, Window, state.recent)
      /\ Lists(state.season_log, season)
      /\ state.is_returning <=> m.season = start /\ \E n \in past : n.season < start
  BY DEF SpellIs
<1> HIDE DEF spell, season, next
<1>7. next.usable_prior = Cardinality(spell \cup {m})
  <2>1. Cardinality(spell \cup {m}) = Cardinality(spell) + 1
    BY <1>5, FS_AddElement
  <2> QED
    BY <1>2, <1>6, <2>1
<1>8. Lists(next.ewma, spell \cup {m})
  BY <1>1, <1>2, <1>5, <1>6, ListedAtTheEnd
<1>9. Latest(spell \cup {m}, Window, next.recent)
  BY <1>1, <1>2, <1>5, <1>6, LatestAtTheEnd
<1>10. Lists(next.season_log, season \cup {m})
  BY <1>1, <1>2, <1>5, <1>6, ListedAtTheEnd
<1>11. next.is_returning <=> m.season = start /\ \E n \in all : n.season < start
  BY <1>2, <1>3, <1>6
<1>12. next.total_prior = Cardinality(all)
  <2>1. Cardinality(all) = Cardinality(past) + 1
    BY FS_AddElement
  <2> QED
    BY <1>2, <2>1 DEF TotalsAre
<1>13. next.last_date = IF all = {} THEN None ELSE Max({n.date : n \in all})
  <2> DEFINE dates == {n.date : n \in all}
  <2>1. \A n \in all : n.date \in Nat /\ n.date <= m.date
    BY <1>3
  <2>2. m.date \in dates /\ all # {}
    OBVIOUS
  <2>3. dates \in SUBSET Nat /\ \A d \in dates : d <= m.date
    <3> HIDE DEF all
    <3> QED
      BY <2>1
  <2> HIDE DEF dates
  <2>4. Max(dates) = m.date
    BY <2>2, <2>3, MaxIs
  <2> QED
    BY <1>2, <2>2, <2>4 DEF dates
<1>14. TotalsAre(next, all)
  BY <1>12, <1>13 DEF TotalsAre
<1>15. SpellIs(next, all, m.season, start)
  BY <1>4, <1>7, <1>8, <1>9, <1>10, <1>11 DEF SpellIs
<1> QED
  BY <1>14, <1>15 DEF next

LEMMA RecordMatchHInv ==
    ASSUME IInv, TInv, EInv, HInv, RecordMatch
    PROVE  HInv'
<1> DEFINE m == Head(pending)
<1>1. /\ phase = "record" /\ matches' = matches /\ started' = started
      /\ pending' = Tail(pending) /\ rows' = rows /\ settled' = settled
      /\ states' = [club \in Clubs |->
            IF Plays(m, club) THEN WithMatch(states[club], m) ELSE states[club]]
  BY DEF RecordMatch, input
<1>2. pending \in Seq(settled) /\ pending # <<>>
  BY <1>1 DEF IInv, DayOK
<1>3. /\ Len(pending) \in Nat \ {0} /\ DOMAIN pending = 1..Len(pending)
      /\ DOMAIN Tail(pending) = 1 .. Len(pending) - 1
      /\ \A i \in 1 .. Len(pending) - 1 : Tail(pending)[i] = pending[i + 1]
      /\ m = pending[1] /\ m \in settled
  BY <1>2, EmptySeq, LenProperties, HeadTailProperties
<1> HIDE DEF m
<1>4. \A i, j \in 1..Len(pending) : pending[i] = pending[j] => i = j
  BY <1>3 DEF HInv, PendingOK, IsInjective
<1>5. ToSet(Tail(pending)) = ToSet(pending) \ {m} /\ m \in ToSet(pending)
  <2>1. ASSUME NEW i \in 1 .. Len(pending) - 1
        PROVE  Tail(pending)[i] \in ToSet(pending) /\ Tail(pending)[i] # m
    <3>1. i + 1 \in 1..Len(pending) /\ 1 \in 1..Len(pending) /\ i + 1 # 1
      BY <1>3
    <3> QED
      BY <1>3, <1>4, <3>1 DEF ToSet
  <2>2. ASSUME NEW i \in 1..Len(pending), pending[i] # m
        PROVE  pending[i] \in ToSet(Tail(pending))
    <3>1. i - 1 \in 1 .. Len(pending) - 1 /\ (i - 1) + 1 = i
      BY <1>3, <2>2
    <3>2. Tail(pending)[i - 1] = pending[i]
      BY <1>3, <3>1
    <3> QED
      BY <1>3, <3>1, <3>2 DEF ToSet
  <2>3. 1 \in 1..Len(pending)
    BY <1>3
  <2> QED
    BY <1>3, <2>1, <2>2, <2>3 DEF ToSet
<1>6. PendingOK'
  <2>1. IsInjective(Tail(pending))
    <3> SUFFICES ASSUME NEW i \in 1 .. Len(pending) - 1, NEW j \in 1 .. Len(pending) - 1,
                        Tail(pending)[i] = Tail(pending)[j]
                 PROVE  i = j
      BY <1>3 DEF IsInjective
    <3>1. i + 1 \in 1..Len(pending) /\ j + 1 \in 1..Len(pending)
      BY <1>3
    <3>2. i + 1 = j + 1
      BY <1>3, <1>4, <3>1
    <3> QED
      BY <3>2
  <2> QED
    BY <1>1, <1>5, <2>1 DEF HInv, PendingOK
<1>7. Recorded' = Recorded \cup {m} /\ m \notin Recorded
  BY <1>1, <1>3, <1>5 DEF Recorded
<1>8. /\ matches \subseteq Match /\ m \in Match
      /\ \A s \in started : s <= m.season
      /\ \A n \in settled : n.date <= m.date
      /\ m.season \in started /\ m \in matches
  <2>1. matches \subseteq Match /\ settled \subseteq matches
    BY DEF IInv, InputOK, DatesInOrder
  <2> QED
    BY <1>3, <1>5, <2>1 DEF HInv, PendingOK, EInv
<1>9. \A s : Roster(s)' = Roster(s)
  BY <1>1, CalendarStays
<1>10. \A s, club : /\ Entries(s, club)' = Entries(s, club)
                    /\ SpellStart(s, club)' = SpellStart(s, club)
  BY <1>1, CalendarStays
<1>11. \A s, club : Current(s, club)' <=> Current(s, club)
  BY <1>1, <1>9 DEF Current
<1>12. ASSUME NEW club \in Clubs
       PROVE  /\ TotalsAre(states'[club], RecordedOf(club)')
              /\ \A s \in started : Current(s, club) =>
                    /\ SpellStart(s, club) \in Entries(s, club)
                    /\ SpellIs(states'[club], RecordedOf(club)', s, SpellStart(s, club))
  <2>1. /\ TotalsAre(states[club], RecordedOf(club))
        /\ \A s \in started : Current(s, club) =>
              /\ SpellStart(s, club) \in Entries(s, club)
              /\ SpellIs(states[club], RecordedOf(club), s, SpellStart(s, club))
    BY DEF HInv, HistoryOK
  <2>2. CASE ~Plays(m, club)
    <3>1. states'[club] = states[club]
      BY <1>1, <2>2
    <3>2. RecordedOf(club)' = RecordedOf(club)
      BY <1>7, <2>2 DEF RecordedOf, Plays
    <3> QED
      BY <2>1, <3>1, <3>2
  <2>3. CASE Plays(m, club)
    <3>1. states'[club] = WithMatch(states[club], m) /\ states[club] \in State
      BY <1>1, <2>3 DEF TInv
    <3>2. RecordedOf(club)' = RecordedOf(club) \cup {m} /\ m \notin RecordedOf(club)
      BY <1>7, <2>3 DEF RecordedOf, Plays
    <3>3. /\ RecordedOf(club) \in SUBSET Match /\ IsFiniteSet(RecordedOf(club))
          /\ \A n \in RecordedOf(club) : n.date <= m.date
      BY <1>8, RecordedType
    <3>4. Current(m.season, club)
      <4>1. club \in Roster(m.season)
        BY <1>8, <2>3 DEF Roster
      <4> QED
        BY <1>8, <4>1 DEF Current
    <3>5. \A s \in started : Current(s, club) => s = m.season
      <4> SUFFICES ASSUME NEW s \in started, Current(s, club) PROVE s = m.season
        OBVIOUS
      <4>1. s <= m.season /\ m.season <= s
        BY <1>8, <3>4 DEF Current
      <4>2. s \in Nat /\ m.season \in Nat
        BY <1>8, StartedNumbers
      <4> QED
        BY <4>1, <4>2
    <3> DEFINE start == SpellStart(m.season, club)
    <3>6. start \in Entries(m.season, club) /\ start \in Nat /\ start <= m.season
      <4>1. start \in Entries(m.season, club)
        BY <1>8, <2>1, <3>4
      <4>2. start \in Seasons /\ start <= m.season
        BY <4>1 DEF Entries
      <4> QED
        BY <4>1, <4>2, SeasonsAreNumbers
    <3>7. SpellIs(states[club], RecordedOf(club), m.season, start)
      BY <1>8, <2>1, <3>4
    <3> HIDE DEF start
    <3>8. /\ TotalsAre(WithMatch(states[club], m), RecordedOf(club) \cup {m})
          /\ SpellIs(WithMatch(states[club], m), RecordedOf(club) \cup {m}, m.season, start)
      BY <1>8, <2>1, <3>1, <3>2, <3>3, <3>6, <3>7, HistoryGrows
    <3> QED
      BY <3>1, <3>2, <3>5, <3>6, <3>8 DEF start
  <2> QED
    BY <2>2, <2>3
<1>13. HistoryOK'
  BY <1>1, <1>10, <1>11, <1>12 DEF HistoryOK, TotalsAre, SpellIs
<1>14. RowsAreHistory'
  BY <1>1, CalendarStays DEF HInv, RowsAreHistory
<1> QED
  BY <1>6, <1>13, <1>14 DEF HInv

LEMMA StutterHInv ==
    ASSUME HInv, UNCHANGED vars
    PROVE  HInv'
<1>1. /\ matches' = matches /\ started' = started /\ pending' = pending
      /\ settled' = settled /\ states' = states /\ rows' = rows
  BY DEF vars
<1>2. PendingOK'
  BY <1>1 DEF HInv, PendingOK
<1>3. \A club : RecordedOf(club)' = RecordedOf(club)
  BY <1>1 DEF RecordedOf, Recorded
<1>4. /\ \A s : Roster(s)' = Roster(s)
      /\ \A s, club : /\ Entries(s, club)' = Entries(s, club)
                      /\ SpellStart(s, club)' = SpellStart(s, club)
  BY <1>1, CalendarStays
<1>5. \A s, club : Current(s, club)' <=> Current(s, club)
  BY <1>1, <1>4 DEF Current
<1>6. HistoryOK'
  BY <1>1, <1>3, <1>4, <1>5 DEF HInv, HistoryOK, TotalsAre, SpellIs
<1>7. RowsAreHistory'
  BY <1>1, CalendarStays DEF HInv, RowsAreHistory
<1> QED
  BY <1>2, <1>6, <1>7 DEF HInv

LEMMA AlwaysHInv == Spec => []HInv
<1>1. IInv /\ TInv /\ EInv /\ HInv /\ [Next]_vars => HInv'
  <2> SUFFICES ASSUME IInv, TInv, EInv, HInv, [Next]_vars PROVE HInv'
    OBVIOUS
  <2>1. ASSUME NEW m \in matches, EmitRow(m)
        PROVE  HInv'
    BY <2>1, EmitRowHInv
  <2> QED
    BY <2>1, RateDateHInv, RecordMatchHInv, StutterHInv DEF Next
<1> QED
  BY <1>1, InitHInv, Inductive, AlwaysTInv, AlwaysEInv, PTL DEF Spec

\* Each row says what the calendar says, for every frame whose seasons do not
\* overlap and every parameter: the averages and the window are of the club's
\* present spell in the league, the season's figures of the season, the totals
\* of all time, and a club is returning in the season that it comes back in
\* after a season away (build_features).
THEOREM RowsAlwaysAreHistory == Spec => []RowsAreHistory
<1>1. HInv => RowsAreHistory
  BY DEF HInv
<1> QED
  BY <1>1, AlwaysHInv, PTL

=============================================================================
