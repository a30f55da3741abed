----------------------------- MODULE MCTTLCache -----------------------------
(* The cache with two keys of different time to live.                      *)
EXTENDS TTLCache

CONSTANTS live, standings

MCKeys == {live, standings}

\* The live window is the shorter one, as in config.py.
MCTTL == [k \in MCKeys |-> IF k = live THEN 2 ELSE 3]
=============================================================================
