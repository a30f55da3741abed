--------------------------- MODULE MCPitchMindAPI ---------------------------
(* The server with two requests.                                           *)
EXTENDS PitchMindAPI

\* The live window is the shorter one, as in config.py.
MCTTL == [k \in DataKeys |-> IF k = "live" THEN 1 ELSE 2]
=============================================================================
