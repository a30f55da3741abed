----------------------------- MODULE MCTeamScan -----------------------------
(* Three clubs; one has a short name inside its long one, and the names of   *)
(* all of them may share words.                                              *)
EXTENDS TeamScan

CONSTANTS brighton, hove, albion, west, versus, brighton_hove, west_albion,
          newcomer

MCWords == {brighton, hove, albion, west, versus}

MCClubs == {brighton_hove, west_albion, newcomer}

MCClubNamed ==
    [alias \in {<<brighton>>, <<brighton, hove, albion>>, <<west, albion>>,
                <<albion, west>>, <<west, brighton>>} |->
        CASE alias[1] = brighton -> brighton_hove
          [] alias = <<west, albion>> -> west_albion
          [] OTHER -> newcomer]
=============================================================================
