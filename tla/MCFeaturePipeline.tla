------------------------- MODULE MCFeaturePipeline -------------------------
(* Three clubs over four seasons: promotion, relegation, return after a      *)
(* season away and the season after it, a club that plays twice on one date, *)
(* and late starts.                                                          *)
EXTENDS FeaturePipeline

CONSTANTS
    arsenal, burnley, chelsea,
    MaxMatches      \* bound: matches of a frame

MCClubs == {arsenal, burnley, chelsea}

\* The season of each date.
SeasonOf == <<1, 2, 3, 3, 4>>

Fixtures ==
    {m \in [season : 1..4, date : 1..5, home : MCClubs, away : MCClubs,
            result : Results] :
        /\ m.home # m.away
        /\ m.season = SeasonOf[m.date]
        /\ m.result = CASE m.date \in {1, 3} -> "H"
                        [] m.date \in {2, 5} -> "D"
                        [] m.date = 4 -> "A"}

MCFrames == {ToSet(seq) : seq \in [1..MaxMatches -> Fixtures]}

\* Points come in multiples of 1728, so that halving a rating and the mean of
\* two or three clubs are exact for four seasons.  A win against a club rated as high
\* or higher is worth more.
MCGain ==
    [result \in Results |->
        [above \in BOOLEAN |->
            1728 * (CASE result = "H" -> IF above THEN 1 ELSE 2
                     [] result = "D" -> IF above THEN -1 ELSE 0
                     [] result = "A" -> IF above THEN -3 ELSE -2)]]

MCPromotedPrior == -3456

MCSymmetry == Permutations(MCClubs)
=============================================================================
