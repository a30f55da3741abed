---------------------------- MODULE MCExperiments ----------------------------
(* Three development folds with two fixtures each; the matches may be      *)
(* corrected in a result or by a date, or lack a fixture or a season.      *)
EXTENDS Experiments

MCResults(season) ==
    [original  |-> [opener |-> "H", derby |-> "D"],
     result    |-> IF season = 2 THEN [opener |-> "H", derby |-> "A"]
                   ELSE [opener |-> "H", derby |-> "D"],
     moved     |-> IF season = 3 THEN [opener |-> "H", moved |-> "D"]
                   ELSE [opener |-> "H", derby |-> "D"],
     unplayed  |-> IF season = 3 THEN <<>>
                   ELSE [opener |-> "H", derby |-> "D"],
     lacking   |-> IF season = 1 THEN [opener |-> "H"]
                   ELSE [opener |-> "H", derby |-> "D"]]

MCRevisions == {"original", "result", "moved", "unplayed", "lacking"}
MCResultsIn == [r \in MCRevisions |-> [f \in Folds |-> MCResults(f)[r]]]

\* M1: 1 -> 2 and M2: 1, 2 -> 3.
MCMetaTrain == [e \in 2 .. 3 |-> 1 .. e - 1]

MCComplexity ==
    [outcome |-> [trio |-> 99, logreg |-> 0, forest |-> 1],
     scoreline |-> [poisson |-> 0, dixon_coles |-> 2]]
MCBaselines == {"trio"}

\* The rows of a season have one loss, so that a configuration is known by three
\* numbers.  With three rows to a season there are ties and clear differences.
Even(l) == [s \in DOMAIN l |-> [r \in 1 .. 3 |-> l[s]]]
Config(m, l) == [model |-> m, losses |-> Even(l)]
Rising == {l \in [Folds -> 0 .. 2] : l[1] <= l[2]}

\* The order of the seasons changes nothing.
MCPools ==
    [outcome |->
        {<<Config("trio", a), Config("logreg", b)>> :
            a \in {<<0, 0, 2>>, <<1, 1, 1>>}, b \in Rising}
        \cup {<<Config("trio", <<0, 0, 2>>), Config("logreg", b), Config("forest", <<1, 1, 1>>)>> :
                b \in Rising},
     scoreline |->
        {<<Config("poisson", <<0, 0, 2>>), Config("dixon_coles", <<1, 1, 1>>)>>}]

MCCandidateOrder == <<"raw_trio", "temperature_trio", "pool_calibrated_trio">>
MCParameters == [raw_trio |-> 0, temperature_trio |-> 1, pool_calibrated_trio |-> 2]

Judged(l) == Even([e \in EvaluationSeasons |-> l[e - 1]])
MCTables ==
    {[raw_trio |-> Judged(a), temperature_trio |-> Judged(b), pool_calibrated_trio |-> Judged(c)] :
        a \in {<<1, 1>>, <<1, 2>>}, b \in (0 .. 2) \X (0 .. 2), c \in {<<0, 1>>, <<0, 0>>}}
=============================================================================
