------------------------------ MODULE MCRouter ------------------------------
(* Two clubs, one of them under two names, and a name that nobody knows.     *)
EXTENDS Router

CONSTANTS arsenal, liverpool, Arsenal, ArsenalFC, Liverpool, Wrexham

MCClubs == {arsenal, liverpool}

MCSpellings == {Arsenal, ArsenalFC, Liverpool, Wrexham}

MCClubOf ==
    [s \in MCSpellings |->
        CASE s \in {Arsenal, ArsenalFC} -> arsenal
          [] s = Liverpool -> liverpool
          [] OTHER -> None]
=============================================================================
