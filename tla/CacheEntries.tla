---------------------------- MODULE CacheEntries ----------------------------
(***************************************************************************)
(* The CacheEntry dataclass of services/football_data/cache.py and what    *)
(* the cache computes from one entry.  A provider payload is abstracted to *)
(* the instant at which the provider produced it: how current a payload is *)
(* is the only thing about it that the cache's promises depend on.         *)
(*                                                                         *)
(* The module declares no constant and no variable, so that the cache      *)
(* alone (TTLCache) and the whole server (PitchMindAPI) share it.          *)
(***************************************************************************)
EXTENDS Integers

\* A cached payload and the timestamps kept with it.  Timestamps are
\* readings of the process's wall clock, which may have been set back and so
\* are integers rather than naturals.
Entry == [value : Nat, fetched_at : Int,
          last_successful_refresh : Int, is_stale : BOOLEAN]

\* Seconds since the entry was fetched, never negative: a clock that was set
\* back makes an entry look brand new.
AgeSeconds(entry, now) ==
    IF now > entry.fetched_at THEN now - entry.fetched_at ELSE 0

\* Mutant of IsExpired: off by one second.
IsExpiredEarly(entry, ttl, now) == AgeSeconds(entry, now) + 1 >= ttl

\* An entry whose age equals its time to live is already expired.
IsExpired(entry, ttl, now) == AgeSeconds(entry, now) >= ttl

\* What store() writes after a successful refresh.
FreshEntry(value, now) ==
    [value |-> value, fetched_at |-> now,
     last_successful_refresh |-> now, is_stale |-> FALSE]

\* Mutant of StaleCopy: the flag is forgotten.
StaleCopyUnflagged(entry) == entry

\* The copy of the last good entry that stands in for a failed refresh: the
\* same payload and the same timestamps, flagged.
StaleCopy(entry) == [entry EXCEPT !.is_stale = TRUE]
=============================================================================
