--------------------------- MODULE MCModelArtifacts ---------------------------
(* Two workers; the cutoff is the second season and the third is sealed.  The  *)
(* matches may end before or after it, or spell a club in another way.         *)
EXTENDS ModelArtifacts

MCPlayedIn ==
    [full    |-> << {"Man United", "Leeds"}, {"Man United", "Wolves"}, {"Man United", "Luton"} >>,
     early   |-> << {"Man United", "Leeds"} >>,
     later   |-> << {"Man United", "Leeds"}, {"Man United", "Wolves"},
                    {"Man United", "Luton"}, {"Man United", "Luton"} >>,
     respelt |-> << {"Manchester United", "Leeds"}, {"Manchester United", "Wolves"} >>]

MCClubs == {"man_united", "luton"}
MCNames ==
    [man_united |-> <<"Man United", "Manchester United">>,
     luton      |-> <<"Luton", "Luton Town">>]
=============================================================================
