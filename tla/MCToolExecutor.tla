--------------------------- MODULE MCToolExecutor ---------------------------
(* The executor with two fitted clubs, one of them under two names, a club   *)
(* that the score model does not know, and a name that nobody knows.         *)
EXTENDS ToolExecutor

CONSTANTS arsenal, chelsea, coventry, ArsenalFC, Arsenal, Chelsea, Coventry,
          Nobody, nobody, plain

MCClubs == {arsenal, chelsea, coventry}

AllSpellings == {Arsenal, ArsenalFC, Chelsea, Coventry, Nobody}

MCClubOf ==
    [s \in Spellings |->
        CASE s \in {Arsenal, ArsenalFC} -> arsenal
          [] s = Chelsea -> chelsea
          [] s = Coventry -> coventry
          [] OTHER -> None]

\* "Arsenal" folds to the id of the club, "Arsenal FC" does not.
MCFolded ==
    [s \in Spellings |->
        CASE s = Arsenal -> arsenal
          [] s = Chelsea -> chelsea
          [] s = Nobody -> nobody
          [] OTHER -> s]

MCFitted == {arsenal, chelsea}
=============================================================================
