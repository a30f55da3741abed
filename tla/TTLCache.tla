------------------------------ MODULE TTLCache ------------------------------
(***************************************************************************)
(* The lazy TTL cache of services/football_data/cache.py.                  *)
(*                                                                         *)
(* One call of get_or_refresh is at work at a time, because the routes     *)
(* that reach the cache are coroutines that run their synchronous body on  *)
(* the one event-loop thread.  A call is nevertheless not atomic: it reads *)
(* the wall clock and the entry first, waits for the provider, and only    *)
(* then uses what it read.  Time passes, and the wall clock may be set     *)
(* back, at every one of those points.                                     *)
(*                                                                         *)
(*    Lookup -> Hit                                                        *)
(*    Lookup -> StartRefresh -> ProviderResponds -> FinishRefresh          *)
(*                           -> RefreshFails | RefreshBreaks               *)
(***************************************************************************)
EXTENDS CacheEntries

CONSTANTS
    Keys,       \* the cache keys of the service: live, standings, fixtures
    TTL,        \* time to live of each key, in ticks
    None,       \* "no such thing"
    MaxTime,    \* bound: ticks of real time
    MaxSlips,   \* bound: how far the wall clock may be set back in total
    MaxReads    \* bound: calls of get_or_refresh that get past their lookup

Phases == {"lookup", "refreshing", "received"}

Call == [phase : Phases, key : Keys, reference : Int, asked : Nat,
         entry : Entry \cup {None}, value : Nat]

\* What a caller asked, and when.
Question == [key : Keys, asked : Nat]

Answer == [kind : {"told", "raised", "broke"}, key : Keys, asked : Nat,
           value : Nat, is_stale : BOOLEAN]

\* config.py refuses a time to live that is not a positive integer.
ASSUME TTLAssumption == TTL \in [Keys -> Nat \ {0}]
ASSUME BoundsAssumption ==
    /\ MaxTime \in Nat
    /\ MaxSlips \in Nat
    /\ MaxReads \in Nat
ASSUME NoneAssumption ==
    /\ None \notin Entry
    /\ None \notin Call
    /\ None \notin Question
    /\ None \notin Answer
    /\ None \notin Int

VARIABLES
    elapsed,        \* real time, which only moves forward
    slips,          \* how far the wall clock has been set back so far
    entries,        \* the dictionary _entries
    hit_count,
    miss_count,
    refresh_count,
    call,           \* the get_or_refresh call at work, or None
    answer,         \* what the latest finished call returned or raised
    lastSuccess     \* history: the reference of the latest successful refresh

vars == <<elapsed, slips, entries, hit_count, miss_count, refresh_count,
          call, answer, lastSuccess>>

counters == <<hit_count, miss_count, refresh_count>>

\* What datetime.now(utc) reads.
clock == elapsed - slips

TypeOK ==
    /\ elapsed \in Nat
    /\ slips \in 0..MaxSlips
    /\ entries \in [Keys -> Entry \cup {None}]
    /\ hit_count \in Nat
    /\ miss_count \in Nat
    /\ refresh_count \in Nat
    /\ call \in Call \cup {None}
    /\ answer \in Answer \cup {None}
    /\ lastSuccess \in [Keys -> Int \cup {None}]

Init ==
    /\ elapsed = 0
    /\ slips = 0
    /\ entries = [k \in Keys |-> None]
    /\ hit_count = 0
    /\ miss_count = 0
    /\ refresh_count = 0
    /\ call = None
    /\ answer = None
    /\ lastSuccess = [k \in Keys |-> None]

-----------------------------------------------------------------------------
(* The environment: real time, and corrections of the wall clock.          *)

Tick ==
    /\ elapsed < MaxTime
    /\ elapsed' = elapsed + 1
    /\ UNCHANGED <<slips, entries, counters, call, answer, lastSuccess>>

ClockSetBack ==
    /\ slips < MaxSlips
    /\ slips' = slips + 1
    /\ UNCHANGED <<elapsed, entries, counters, call, answer, lastSuccess>>

-----------------------------------------------------------------------------
(* get_or_refresh.                                                         *)

Told(entry) ==
    [kind |-> "told", key |-> call.key, asked |-> call.asked,
     value |-> entry.value, is_stale |-> entry.is_stale]

Failed(kind) ==
    [kind |-> kind, key |-> call.key, asked |-> call.asked,
     value |-> 0, is_stale |-> FALSE]

InPhase(phase) == call # None /\ call.phase = phase

Refreshing == InPhase("refreshing") \/ InPhase("received")

\* The clock is read and the entry fetched before anything else; both are
\* used only after the provider has answered.
Lookup(k) ==
    /\ call = None
    /\ hit_count + miss_count < MaxReads
    /\ call' = [phase |-> "lookup", key |-> k, reference |-> clock,
                asked |-> elapsed, entry |-> entries[k], value |-> 0]
    /\ UNCHANGED <<elapsed, slips, entries, counters, answer, lastSuccess>>

\* Mutant of Usable: any cached entry will do.
UsableAtAnyAge == call.entry # None

\* The entry read is there and has not expired.
Usable == /\ call.entry # None
          /\ ~IsExpired(call.entry, TTL[call.key], call.reference)

Hit ==
    /\ InPhase("lookup")
    /\ Usable
    /\ hit_count' = hit_count + 1
    /\ answer' = Told(call.entry)
    /\ call' = None
    /\ UNCHANGED <<elapsed, slips, entries, miss_count, refresh_count,
                   lastSuccess>>

\* Mutant of StartRefresh: only a missing entry is refreshed.
StartRefreshIfMissing ==
    /\ InPhase("lookup")
    /\ call.entry = None
    /\ miss_count' = miss_count + 1
    /\ refresh_count' = refresh_count + 1
    /\ call' = [call EXCEPT !.phase = "refreshing"]
    /\ UNCHANGED <<elapsed, slips, entries, hit_count, answer, lastSuccess>>

StartRefresh ==
    /\ InPhase("lookup")
    /\ ~Usable
    /\ miss_count' = miss_count + 1
    /\ refresh_count' = refresh_count + 1
    /\ call' = [call EXCEPT !.phase = "refreshing"]
    /\ UNCHANGED <<elapsed, slips, entries, hit_count, answer, lastSuccess>>

\* The provider composes its answer; transport and parsing still lie ahead.
ProviderResponds ==
    /\ InPhase("refreshing")
    /\ call' = [call EXCEPT !.phase = "received", !.value = elapsed]
    /\ UNCHANGED <<elapsed, slips, entries, counters, answer, lastSuccess>>

\* Mutant of FinishRefresh: a provider that returns nothing instead of raising.
FinishRefreshWithNothing ==
    LET stored == FreshEntry(None, call.reference) IN
    /\ InPhase("received")
    /\ entries' = [entries EXCEPT ![call.key] = stored]
    /\ answer' = Told(stored)
    /\ call' = None
    /\ lastSuccess' = [lastSuccess EXCEPT ![call.key] = call.reference]
    /\ UNCHANGED <<elapsed, slips, counters>>

\* store(key, value, now=reference).
FinishRefresh ==
    LET stored == FreshEntry(call.value, call.reference) IN
    /\ InPhase("received")
    /\ entries' = [entries EXCEPT ![call.key] = stored]
    /\ answer' = Told(stored)
    /\ call' = None
    /\ lastSuccess' = [lastSuccess EXCEPT ![call.key] = call.reference]
    /\ UNCHANGED <<elapsed, slips, counters>>

\* Mutant of RefreshFails: the old entry is popped before the refresh.
RefreshFailsPops ==
    /\ Refreshing
    /\ entries' = [entries EXCEPT ![call.key] = None]
    /\ answer' = IF call.entry = None THEN Failed("raised")
                                      ELSE Told(StaleCopy(call.entry))
    /\ call' = None
    /\ UNCHANGED <<elapsed, slips, counters, lastSuccess>>

\* The refresh raises a FootballDataError, before or after the provider
\* answered: the last good entry stands in, or the error propagates.
RefreshFails ==
    /\ Refreshing
    /\ \/ /\ call.entry = None
          /\ answer' = Failed("raised")
          /\ UNCHANGED entries
       \/ /\ call.entry # None
          /\ entries' = [entries EXCEPT ![call.key] = StaleCopy(call.entry)]
          /\ answer' = Told(StaleCopy(call.entry))
    /\ call' = None
    /\ UNCHANGED <<elapsed, slips, counters, lastSuccess>>

\* The refresh raises anything else (the except clause names only
\* FootballDataError): no handler runs and the exception leaves the cache.
RefreshBreaks ==
    /\ Refreshing
    /\ answer' = Failed("broke")
    /\ call' = None
    /\ UNCHANGED <<elapsed, slips, entries, counters, lastSuccess>>

-----------------------------------------------------------------------------
(* invalidate(key) and clear().                                            *)

Forget(ks) ==
    /\ call = None
    /\ entries' = [k \in Keys |-> IF k \in ks THEN None ELSE entries[k]]
    /\ lastSuccess' = [k \in Keys |-> IF k \in ks THEN None ELSE lastSuccess[k]]
    /\ UNCHANGED <<elapsed, slips, counters, call, answer>>

Invalidate(k) == Forget({k})

Clear == Forget(Keys)

Next ==
    \/ Tick
    \/ ClockSetBack
    \/ \E k \in Keys : Lookup(k)
    \/ Hit
    \/ StartRefresh
    \/ ProviderResponds
    \/ FinishRefresh
    \/ RefreshFails
    \/ RefreshBreaks
    \/ \E k \in Keys : Invalidate(k)
    \/ Clear

\* A call never stops half way: the lookup is a few statements, and every
\* provider request ends because the HTTP client's timeouts are finite.
Fairness ==
    /\ WF_vars(Hit)
    /\ WF_vars(StartRefresh)
    /\ WF_vars(FinishRefresh \/ RefreshFails \/ RefreshBreaks)

Spec == Init /\ [][Next]_vars

FairSpec == Spec /\ Fairness

-----------------------------------------------------------------------------
(* Properties.                                                             *)

\* "N reads inside one TTL window must perform exactly ONE provider request"
\* (TTLCache): whenever a request to the provider is out, the latest request
\* that succeeded was made at least one time to live ago, on the same clock.
OneRequestPerWindow ==
    Refreshing =>
        \/ lastSuccess[call.key] = None
        \/ call.reference - lastSuccess[call.key] >= TTL[call.key]

\* A success is never forgotten except on request: whatever fails afterwards
\* (get_or_refresh), its snapshot stays, with the time of that success.
SnapshotNeverLost ==
    \A k \in Keys :
        lastSuccess[k] # None =>
            /\ entries[k] # None
            /\ entries[k].last_successful_refresh = lastSuccess[k]

\* An answer that get_or_refresh does not flag shows what the provider said
\* less than one time to live before the question, give or take what the
\* wall clock was set back.
UnflaggedAnswerIsRecent ==
    (answer # None /\ answer.kind = "told" /\ ~answer.is_stale) =>
        answer.asked - answer.value < TTL[answer.key] + slips

\* The age CacheEntry reports never makes a snapshot look younger than it is,
\* give or take what the wall clock was set back: fetched_at is the time at
\* which the refresh began, not the time at which it ended.
ReportedAgeIsNotYounger ==
    \A k \in Keys :
        entries[k] # None =>
            elapsed - entries[k].value <= AgeSeconds(entries[k], clock) + slips

\* A flagged entry is older than its time to live (ProviderFreshness): no
\* snapshot that is still within its window carries the flag.
FlaggedMeansExpired ==
    \A k \in Keys :
        (entries[k] # None /\ entries[k].is_stale) =>
            elapsed - entries[k].fetched_at >= TTL[k]

\* A provider error reaches the caller of get_or_refresh only if there was
\* nothing to fall back on.
RaisedOnlyWhenNothingCached ==
    (answer # None /\ answer.kind = "raised") => entries[answer.key] = None

\* "refresh failed -> return last good value flagged" (header of cache.py),
\* whatever the reason of the failure.
FailedRefreshServesLastGood ==
    (answer # None /\ answer.kind # "told") => entries[answer.key] = None

\* A snapshot is replaced only by one fetched later: a step of
\* get_or_refresh that keeps the payload keeps its timestamps too, and at
\* most adds the flag.
OnlyNewerDataReplaces ==
    [][\A k \in Keys :
          (entries[k] # None /\ entries'[k] # None) =>
              \/ entries'[k] \in {entries[k], StaleCopy(entries[k])}
              \/ /\ entries'[k].fetched_at > entries[k].fetched_at
                 /\ entries'[k].value >= entries[k].value]_vars

\* A question put to the cache is answered, one way or another.
EveryReadAnswered == (call # None) ~> (call = None)

\* The cache keeps the promise of its header.
Promise == INSTANCE SnapshotPromise WITH
    now   <- elapsed,
    known <- [k \in Keys |-> IF entries[k] = None THEN None
                             ELSE entries[k].value],
    asked <- IF call = None THEN None
             ELSE [key |-> call.key, asked |-> call.asked],
    told  <- answer,
    Slack <- MaxSlips

PromiseKept == Promise!Spec

=============================================================================
