---------------------------- MODULE MCFoldArtifacts ----------------------------
(* Six seasons, of which the fourth, fifth and sixth are evaluated on and the  *)
(* sixth is sealed.  One season is revised, to a longer file or to one whose   *)
(* rows are wrong.                                                             *)
EXTENDS FoldArtifacts

CONSTANTS Revised   \* the season whose file on the site changes

MCSeasons == 1 .. 6
MCCutoff == [s \in 4 .. 6 |-> s - 1]
MCRevisions == {"partial", "complete", "wrong"}
MCPublished ==
    [s \in MCSeasons |-> IF s = Revised THEN MCRevisions ELSE {"complete"}]
MCRowsOf == [partial |-> 1, complete |-> 2, wrong |-> 2]
MCSound == {"partial", "complete"}

MCFetches == {MCSeasons, MCSeasons \ {6}, {Revised}}

\* Everything; without the sealed season;
\* with a gap at either evaluation season's cutoff; and truncated at the start.
MCSourceChoices ==
    {1 .. 6, 1 .. 5, {1, 2, 3, 4, 6}, {1, 2, 4, 5, 6}, 2 .. 5}
=============================================================================
