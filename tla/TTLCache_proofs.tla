-------------------------- MODULE TTLCache_proofs ---------------------------
(***************************************************************************)
(* What TTLCache promises, for every set of keys, every time to live and   *)
(* every bound.                                                            *)
(*                                                                         *)
(* None of the invariants below is inductive alone.  Together with two     *)
(* facts they are: the timestamps of an entry bracket the moment its       *)
(* payload was produced, and the call at work still holds what the cache   *)
(* holds, so that what it read before the refresh may be used after it.    *)
(***************************************************************************)
EXTENDS TTLCache, TLAPS

\* fetched_at is read before the refresh and the payload is produced during
\* it; nothing but a success touches the timestamps.
EntryTimes ==
    \A k \in Keys :
        \/ /\ entries[k] = None
           /\ lastSuccess[k] = None
        \/ /\ entries[k] # None
           /\ lastSuccess[k] = entries[k].fetched_at
           /\ entries[k].last_successful_refresh = entries[k].fetched_at
           /\ entries[k].fetched_at <= entries[k].value
           /\ entries[k].value <= elapsed

\* The call at work: when it was asked, what it read, what it received.
CallTimes ==
    call # None =>
        /\ call.asked <= elapsed
        /\ call.reference <= call.asked
        /\ call.asked <= call.reference + slips
        /\ call.entry = entries[call.key]
        /\ call.entry # None => call.entry.value <= call.asked
        /\ call.phase = "received" => /\ call.asked <= call.value
                                      /\ call.value <= elapsed
        /\ call.phase # "lookup" => ~Usable

IInv ==
    /\ TypeOK
    /\ EntryTimes
    /\ CallTimes
    /\ FlaggedMeansExpired
    /\ UnflaggedAnswerIsRecent
    /\ RaisedOnlyWhenNothingCached

-----------------------------------------------------------------------------

\* The initial state.
LEMMA InitInv == Init => IInv
<1> SUFFICES ASSUME Init PROVE IInv
    OBVIOUS
<1>1. TypeOK
    BY BoundsAssumption DEF Init, TypeOK
<1>2. EntryTimes /\ CallTimes /\ FlaggedMeansExpired
    BY DEF Init, EntryTimes, CallTimes, FlaggedMeansExpired
<1>3. UnflaggedAnswerIsRecent /\ RaisedOnlyWhenNothingCached
    BY DEF Init, UnflaggedAnswerIsRecent, RaisedOnlyWhenNothingCached
<1>4. QED
    BY <1>1, <1>2, <1>3 DEF IInv

\* An expired entry was fetched a full time to live before: the clamp of
\* AgeSeconds cannot expire anything, because a time to live is positive.
LEMMA ExpiredAge ==
    ASSUME NEW entry \in Entry, NEW k \in Keys, NEW now \in Int,
           IsExpired(entry, TTL[k], now)
    PROVE  now - entry.fetched_at >= TTL[k]
    BY TTLAssumption DEF Entry, IsExpired, AgeSeconds

\* An entry that has not expired is younger than its time to live.
LEMMA UnexpiredAge ==
    ASSUME NEW entry \in Entry, NEW k \in Keys, NEW now \in Int,
           ~IsExpired(entry, TTL[k], now)
    PROVE  now - entry.fetched_at < TTL[k]
    BY TTLAssumption DEF Entry, IsExpired, AgeSeconds

\* The flagged copy of an entry differs from it in the flag only.
LEMMA StaleCopyFields ==
    ASSUME NEW entry \in Entry
    PROVE  /\ StaleCopy(entry) \in Entry
           /\ StaleCopy(entry).value = entry.value
           /\ StaleCopy(entry).fetched_at = entry.fetched_at
           /\ StaleCopy(entry).last_successful_refresh
                = entry.last_successful_refresh
           /\ StaleCopy(entry).is_stale
    BY DEF Entry, StaleCopy

\* What store() writes.
LEMMA FreshEntryFields ==
    ASSUME NEW value \in Nat, NEW now \in Int
    PROVE  /\ FreshEntry(value, now) \in Entry
           /\ FreshEntry(value, now).value = value
           /\ FreshEntry(value, now).fetched_at = now
           /\ FreshEntry(value, now).last_successful_refresh = now
           /\ FreshEntry(value, now).is_stale = FALSE
    BY DEF FreshEntry, Entry

-----------------------------------------------------------------------------

\* What the call at work says about the entry it read.
LEMMA CallEntry ==
    ASSUME IInv, call # None, call.entry # None
    PROVE  /\ call \in Call
           /\ call.key \in Keys
           /\ call.entry \in Entry
           /\ call.entry = entries[call.key]
           /\ call.entry.fetched_at <= call.entry.value
           /\ call.entry.value <= elapsed
           /\ call.entry.last_successful_refresh = call.entry.fetched_at
           /\ lastSuccess[call.key] = call.entry.fetched_at
    BY DEF IInv, TypeOK, EntryTimes, CallTimes, Call

\* Time passing, or the wall clock being set back, disturbs nothing: every
\* conjunct bounds something from above by elapsed or by slips.
LEMMA ClockStep ==
    ASSUME IInv, Tick \/ ClockSetBack
    PROVE  IInv'
<1> USE BoundsAssumption, TTLAssumption
<1>1. /\ UNCHANGED <<entries, counters, call, answer, lastSuccess>>
      /\ elapsed' \in Nat /\ slips' \in 0..MaxSlips
      /\ elapsed <= elapsed' /\ slips <= slips'
      /\ elapsed \in Nat /\ slips \in 0..MaxSlips
    BY DEF IInv, TypeOK, Tick, ClockSetBack
<1>2. TypeOK'
    BY <1>1 DEF IInv, TypeOK, counters
<1>3. EntryTimes'
    BY <1>1 DEF IInv, TypeOK, EntryTimes, Entry
<1>4. CallTimes'
    BY <1>1 DEF IInv, TypeOK, CallTimes, Call, Usable
<1>5. FlaggedMeansExpired'
    BY <1>1 DEF IInv, TypeOK, FlaggedMeansExpired, Entry
<1>6. UnflaggedAnswerIsRecent' /\ RaisedOnlyWhenNothingCached'
    BY <1>1 DEF IInv, TypeOK, UnflaggedAnswerIsRecent,
                RaisedOnlyWhenNothingCached, Answer
<1>7. QED
    BY <1>2, <1>3, <1>4, <1>5, <1>6 DEF IInv

\* A call begins by reading the clock and the entry.
LEMMA LookupStep ==
    ASSUME IInv, NEW k \in Keys, Lookup(k)
    PROVE  IInv'
<1> DEFINE begun == [phase |-> "lookup", key |-> k, reference |-> clock,
                     asked |-> elapsed, entry |-> entries[k], value |-> 0]
<1>1. /\ call' = begun
      /\ UNCHANGED <<elapsed, slips, entries, counters, answer, lastSuccess>>
    BY DEF Lookup
<1>2. begun \in Call /\ clock <= elapsed /\ elapsed <= clock + slips
    BY BoundsAssumption DEF IInv, TypeOK, Call, Phases, clock
<1>3. TypeOK'
    BY <1>1, <1>2 DEF IInv, TypeOK, counters
<1>4. EntryTimes'
    BY <1>1 DEF IInv, EntryTimes
<1>5. CallTimes'
    BY <1>1, <1>2 DEF IInv, TypeOK, CallTimes, EntryTimes
<1>6. FlaggedMeansExpired'
    BY <1>1 DEF IInv, FlaggedMeansExpired
<1>7. UnflaggedAnswerIsRecent' /\ RaisedOnlyWhenNothingCached'
    BY <1>1 DEF IInv, UnflaggedAnswerIsRecent, RaisedOnlyWhenNothingCached
<1>8. QED
    BY <1>3, <1>4, <1>5, <1>6, <1>7 DEF IInv

\* A hit answers with an entry younger than its time to live when the
\* question was asked.
LEMMA HitStep ==
    ASSUME IInv, Hit
    PROVE  IInv'
<1>1. /\ call # None /\ call.entry # None
      /\ ~IsExpired(call.entry, TTL[call.key], call.reference)
      /\ answer' = Told(call.entry)
      /\ call' = None
      /\ hit_count' = hit_count + 1
      /\ UNCHANGED <<elapsed, slips, entries, miss_count, refresh_count,
                     lastSuccess>>
    BY DEF Hit, InPhase, Usable
<1>2. /\ call \in Call
      /\ call.key \in Keys
      /\ call.entry \in Entry
      /\ call.entry.fetched_at <= call.entry.value
    BY <1>1, CallEntry
<1>3. Told(call.entry) \in Answer
    BY <1>2 DEF Told, Answer, Entry, Call
<1>4. TypeOK'
    BY <1>1, <1>3 DEF IInv, TypeOK
<1>5. EntryTimes' /\ CallTimes' /\ FlaggedMeansExpired'
    BY <1>1 DEF IInv, EntryTimes, CallTimes, FlaggedMeansExpired
<1>6. UnflaggedAnswerIsRecent'
    <2>1. call.reference - call.entry.fetched_at < TTL[call.key]
        BY <1>1, <1>2, UnexpiredAge DEF Call
    <2>2. call.asked <= call.reference + slips
        BY <1>1 DEF IInv, CallTimes
    <2>3. call.asked - call.entry.value < TTL[call.key] + slips
        BY <1>2, <2>1, <2>2, TTLAssumption, BoundsAssumption
        DEF IInv, TypeOK, Call, Entry
    <2>4. QED
        BY <1>1, <2>3 DEF UnflaggedAnswerIsRecent, Told
<1>7. RaisedOnlyWhenNothingCached'
    BY <1>1 DEF RaisedOnlyWhenNothingCached, Told
<1>8. QED
    BY <1>4, <1>5, <1>6, <1>7 DEF IInv

\* Sending the request, and the provider composing its answer.
LEMMA RequestStep ==
    ASSUME IInv, StartRefresh \/ ProviderResponds
    PROVE  IInv'
<1>1. /\ call # None
      /\ UNCHANGED <<elapsed, slips, entries, answer, lastSuccess>>
      /\ hit_count' = hit_count
      /\ miss_count' \in Nat /\ refresh_count' \in Nat
      /\ call \in Call /\ elapsed \in Nat
    BY DEF IInv, TypeOK, StartRefresh, ProviderResponds, InPhase, counters
<1>2. /\ call' \in Call
      /\ call'.key = call.key /\ call'.asked = call.asked
      /\ call'.reference = call.reference /\ call'.entry = call.entry
      /\ call'.phase = "received" => call'.value = elapsed
    BY <1>1 DEF StartRefresh, ProviderResponds, InPhase, Call, Phases
<1>3. ~Usable
    BY DEF IInv, CallTimes, StartRefresh, ProviderResponds, InPhase
<1>4. TypeOK'
    BY <1>1, <1>2 DEF IInv, TypeOK
<1>5. EntryTimes' /\ FlaggedMeansExpired'
    BY <1>1 DEF IInv, EntryTimes, FlaggedMeansExpired
<1>6. CallTimes'
    BY <1>1, <1>2, <1>3 DEF IInv, CallTimes, Usable
<1>7. UnflaggedAnswerIsRecent' /\ RaisedOnlyWhenNothingCached'
    BY <1>1 DEF IInv, UnflaggedAnswerIsRecent, RaisedOnlyWhenNothingCached
<1>8. QED
    BY <1>4, <1>5, <1>6, <1>7 DEF IInv

\* A success stores what the provider said after the question was asked.
LEMMA FinishStep ==
    ASSUME IInv, FinishRefresh
    PROVE  IInv'
<1> DEFINE stored == FreshEntry(call.value, call.reference)
<1>1. /\ call # None /\ call.phase = "received"
      /\ entries' = [entries EXCEPT ![call.key] = stored]
      /\ answer' = Told(stored)
      /\ call' = None
      /\ lastSuccess' = [lastSuccess EXCEPT ![call.key] = call.reference]
      /\ UNCHANGED <<elapsed, slips, counters>>
    BY DEF FinishRefresh, InPhase
<1>2. /\ call \in Call /\ call.key \in Keys
      /\ call.reference \in Int /\ call.asked \in Nat /\ call.value \in Nat
      /\ call.reference <= call.asked
      /\ call.asked <= call.value /\ call.value <= elapsed
    BY <1>1 DEF IInv, TypeOK, CallTimes, Call
<1>3. /\ stored \in Entry /\ stored # None
      /\ stored.value = call.value
      /\ stored.fetched_at = call.reference
      /\ stored.last_successful_refresh = call.reference
      /\ stored.is_stale = FALSE
    <2>1. call.reference \in Int /\ call.value \in Nat
        BY <1>2
    <2>2. /\ stored \in Entry
          /\ stored.value = call.value
          /\ stored.fetched_at = call.reference
          /\ stored.last_successful_refresh = call.reference
          /\ stored.is_stale = FALSE
        BY <2>1, FreshEntryFields
    <2>3. stored # None
        BY <2>2, NoneAssumption
    <2>4. QED
        BY <2>2, <2>3
<1> HIDE DEF stored
<1>4. Told(stored) \in Answer
    BY <1>2, <1>3 DEF Told, Answer, Call, Entry
<1>5. TypeOK'
    BY <1>1, <1>2, <1>3, <1>4 DEF IInv, TypeOK, counters
<1>6. EntryTimes'
    BY <1>1, <1>2, <1>3 DEF IInv, TypeOK, EntryTimes
<1>7. CallTimes'
    BY <1>1 DEF CallTimes
<1>8. FlaggedMeansExpired'
    BY <1>1, <1>2, <1>3 DEF IInv, TypeOK, FlaggedMeansExpired
<1>9. UnflaggedAnswerIsRecent'
    <2>1. call.asked - call.value < TTL[call.key] + slips
        BY <1>2, TTLAssumption, BoundsAssumption DEF IInv, TypeOK
    <2>2. QED
        BY <1>1, <1>3, <2>1 DEF UnflaggedAnswerIsRecent, Told
<1>10. RaisedOnlyWhenNothingCached'
    BY <1>1 DEF RaisedOnlyWhenNothingCached, Told
<1>11. QED
    BY <1>5, <1>6, <1>7, <1>8, <1>9, <1>10 DEF IInv

\* A provider error leaves the entry as it was, up to the flag; the entry had
\* expired when it was read.
LEMMA FailStep ==
    ASSUME IInv, RefreshFails
    PROVE  IInv'
<1>1. /\ call # None /\ call.phase # "lookup"
      /\ call' = None
      /\ UNCHANGED <<elapsed, slips, counters, lastSuccess>>
      /\ call \in Call /\ call.key \in Keys
    BY DEF IInv, TypeOK, RefreshFails, Refreshing, InPhase, Call
<1>2. CallTimes'
    BY <1>1 DEF CallTimes
<1>3. CASE /\ call.entry = None
           /\ answer' = Failed("raised")
           /\ UNCHANGED entries
    <2>1. Failed("raised") \in Answer
        BY <1>1 DEF Failed, Answer, Call
    <2>2. entries[call.key] = None
        BY <1>1, <1>3 DEF IInv, CallTimes
    <2>3. TypeOK'
        BY <1>1, <1>3, <2>1 DEF IInv, TypeOK, counters
    <2>4. EntryTimes' /\ FlaggedMeansExpired'
        BY <1>1, <1>3 DEF IInv, EntryTimes, FlaggedMeansExpired
    <2>5. UnflaggedAnswerIsRecent' /\ RaisedOnlyWhenNothingCached'
        BY <1>1, <1>3, <2>2
        DEF UnflaggedAnswerIsRecent, RaisedOnlyWhenNothingCached, Failed
    <2>6. QED
        BY <1>2, <2>3, <2>4, <2>5 DEF IInv
<1>4. CASE /\ call.entry # None
           /\ entries' = [entries EXCEPT ![call.key] = StaleCopy(call.entry)]
           /\ answer' = Told(StaleCopy(call.entry))
    <2> DEFINE copy == StaleCopy(call.entry)
    <2>1. /\ call.entry \in Entry
          /\ call.entry.fetched_at <= call.entry.value
          /\ call.entry.value <= elapsed
          /\ call.entry.last_successful_refresh = call.entry.fetched_at
          /\ lastSuccess[call.key] = call.entry.fetched_at
        BY <1>1, <1>4, CallEntry
    <2>2. /\ copy \in Entry /\ copy # None
          /\ copy.value = call.entry.value
          /\ copy.fetched_at = call.entry.fetched_at
          /\ copy.last_successful_refresh = call.entry.fetched_at
          /\ copy.is_stale = TRUE
        BY <2>1, StaleCopyFields, NoneAssumption DEF Entry
    <2>3. elapsed - copy.fetched_at >= TTL[call.key]
        <3>1. IsExpired(call.entry, TTL[call.key], call.reference)
            BY <1>1, <1>4 DEF IInv, CallTimes, Usable
        <3>2. call.reference - call.entry.fetched_at >= TTL[call.key]
            BY <1>1, <2>1, <3>1, ExpiredAge DEF Call
        <3>3. call.reference <= call.asked /\ call.asked <= elapsed
            BY <1>1 DEF IInv, CallTimes
        <3>4. QED
            BY <1>1, <2>1, <2>2, <3>2, <3>3, TTLAssumption
            DEF IInv, TypeOK, Call, Entry
    <2> HIDE DEF copy
    <2>4. Told(copy) \in Answer
        BY <1>1, <2>2 DEF Told, Answer, Call, Entry
    <2>5. entries' = [entries EXCEPT ![call.key] = copy] /\ answer' = Told(copy)
        BY <1>4 DEF copy
    <2>6. TypeOK'
        BY <1>1, <2>2, <2>4, <2>5 DEF IInv, TypeOK, counters
    <2>7. EntryTimes'
        BY <1>1, <2>1, <2>2, <2>5 DEF IInv, TypeOK, EntryTimes
    <2>8. FlaggedMeansExpired'
        BY <1>1, <2>2, <2>3, <2>5 DEF IInv, TypeOK, FlaggedMeansExpired
    <2>9. UnflaggedAnswerIsRecent' /\ RaisedOnlyWhenNothingCached'
        BY <2>2, <2>5
        DEF UnflaggedAnswerIsRecent, RaisedOnlyWhenNothingCached, Told
    <2>10. QED
        BY <1>2, <2>6, <2>7, <2>8, <2>9 DEF IInv
<1>5. QED
    BY <1>3, <1>4 DEF RefreshFails

\* An exception without a name changes no entry.
LEMMA BreakStep ==
    ASSUME IInv, RefreshBreaks
    PROVE  IInv'
<1>1. /\ call \in Call
      /\ answer' = Failed("broke")
      /\ call' = None
      /\ UNCHANGED <<elapsed, slips, entries, counters, lastSuccess>>
    BY DEF IInv, TypeOK, RefreshBreaks, Refreshing, InPhase
<1>2. Failed("broke") \in Answer
    BY <1>1 DEF Failed, Answer, Call
<1>3. TypeOK'
    BY <1>1, <1>2 DEF IInv, TypeOK, counters
<1>4. EntryTimes' /\ CallTimes' /\ FlaggedMeansExpired'
    BY <1>1 DEF IInv, EntryTimes, CallTimes, FlaggedMeansExpired
<1>5. UnflaggedAnswerIsRecent' /\ RaisedOnlyWhenNothingCached'
    BY <1>1 DEF UnflaggedAnswerIsRecent, RaisedOnlyWhenNothingCached, Failed
<1>6. QED
    BY <1>3, <1>4, <1>5 DEF IInv

\* Forgetting entries, one or all of them, between two calls.
LEMMA ForgetStep ==
    ASSUME IInv, NEW ks \in SUBSET Keys, Forget(ks)
    PROVE  IInv'
<1>1. /\ call = None /\ call' = None
      /\ entries' = [k \in Keys |-> IF k \in ks THEN None ELSE entries[k]]
      /\ lastSuccess' = [k \in Keys |-> IF k \in ks THEN None
                                                   ELSE lastSuccess[k]]
      /\ UNCHANGED <<elapsed, slips, counters, answer>>
    BY DEF Forget
<1>2. TypeOK'
    BY <1>1 DEF IInv, TypeOK, counters
<1>3. EntryTimes' /\ CallTimes' /\ FlaggedMeansExpired'
    BY <1>1 DEF IInv, TypeOK, EntryTimes, CallTimes, FlaggedMeansExpired
<1>4. UnflaggedAnswerIsRecent'
    BY <1>1 DEF IInv, UnflaggedAnswerIsRecent
<1>5. RaisedOnlyWhenNothingCached'
    BY <1>1 DEF IInv, TypeOK, RaisedOnlyWhenNothingCached, Answer
<1>6. QED
    BY <1>2, <1>3, <1>4, <1>5 DEF IInv

\* IInv is inductive.
LEMMA InductiveInv == IInv /\ [Next]_vars => IInv'
<1> SUFFICES ASSUME IInv, [Next]_vars PROVE IInv'
    OBVIOUS
<1>1. CASE Tick \/ ClockSetBack
    BY <1>1, ClockStep
<1>2. CASE \E k \in Keys : Lookup(k)
    BY <1>2, LookupStep
<1>3. CASE Hit
    BY <1>3, HitStep
<1>4. CASE StartRefresh \/ ProviderResponds
    BY <1>4, RequestStep
<1>5. CASE FinishRefresh
    BY <1>5, FinishStep
<1>6. CASE RefreshFails
    BY <1>6, FailStep
<1>7. CASE RefreshBreaks
    BY <1>7, BreakStep
<1>8. CASE (\E k \in Keys : Invalidate(k)) \/ Clear
    BY <1>8, ForgetStep DEF Invalidate, Clear
<1>9. CASE UNCHANGED vars
    BY <1>9 DEF IInv, vars, counters, TypeOK, EntryTimes, CallTimes, Usable,
                FlaggedMeansExpired, UnflaggedAnswerIsRecent,
                RaisedOnlyWhenNothingCached
<1>10. QED
    BY <1>1, <1>2, <1>3, <1>4, <1>5, <1>6, <1>7, <1>8, <1>9 DEF Next

\* The invariant from which the theorems below follow.
LEMMA AlwaysIInv == Spec => []IInv
    BY InitInv, InductiveInv, PTL DEF Spec

-----------------------------------------------------------------------------
(* The theorems.                                                           *)

\* Type correctness of the cache (TTLCache, CacheEntry).
THEOREM TypeCorrect == Spec => []TypeOK
    BY AlwaysIInv, PTL DEF IInv

\* A request to the provider is out only if the latest successful one was
\* made at least one time to live ago: the economics TTLCache documents.
THEOREM RequestEconomics == Spec => []OneRequestPerWindow
<1>1. IInv => OneRequestPerWindow
    <2> SUFFICES ASSUME IInv, Refreshing, lastSuccess[call.key] # None
                 PROVE  call.reference - lastSuccess[call.key] >= TTL[call.key]
        BY DEF OneRequestPerWindow
    <2>1. call # None /\ call.phase # "lookup" /\ call \in Call
        BY DEF IInv, TypeOK, Refreshing, InPhase
    <2>2. call.key \in Keys /\ call.reference \in Int
        BY <2>1 DEF Call
    <2>3. call.entry # None
        BY <2>1, <2>2 DEF IInv, EntryTimes, CallTimes
    <2>4. /\ call.entry \in Entry
          /\ lastSuccess[call.key] = call.entry.fetched_at
        BY <2>1, <2>3, CallEntry
    <2>5. IsExpired(call.entry, TTL[call.key], call.reference)
        BY <2>1, <2>3 DEF IInv, CallTimes, Usable
    <2>6. QED
        BY <2>2, <2>4, <2>5, ExpiredAge
<1>2. QED
    BY <1>1, AlwaysIInv, PTL

\* Once the provider has answered, get_or_refresh always has that answer or a
\* later one to fall back on, with the time at which it was fetched.
THEOREM SnapshotSurvives == Spec => []SnapshotNeverLost
<1>1. IInv => SnapshotNeverLost
    BY DEF IInv, EntryTimes, SnapshotNeverLost
<1>2. QED
    BY <1>1, AlwaysIInv, PTL

\* What get_or_refresh returns unflagged is less than one time to live older
\* than the question, up to the corrections of the wall clock.
THEOREM UnflaggedIsRecent == Spec => []UnflaggedAnswerIsRecent
    BY AlwaysIInv, PTL DEF IInv

\* Data is never younger than CacheEntry says it is, up to the corrections of
\* the wall clock.
THEOREM AgeIsHonest == Spec => []ReportedAgeIsNotYounger
<1>1. IInv => ReportedAgeIsNotYounger
    <2> SUFFICES ASSUME IInv, NEW k \in Keys, entries[k] # None
                 PROVE  elapsed - entries[k].value
                            <= AgeSeconds(entries[k], clock) + slips
        BY DEF ReportedAgeIsNotYounger
    <2>1. /\ entries[k].fetched_at <= entries[k].value
          /\ entries[k].fetched_at \in Int /\ entries[k].value \in Nat
          /\ elapsed \in Nat /\ slips \in Nat
        BY BoundsAssumption DEF IInv, TypeOK, EntryTimes, Entry
    <2>2. QED
        BY <2>1 DEF AgeSeconds, clock
<1>2. QED
    BY <1>1, AlwaysIInv, PTL

\* The flag of ProviderFreshness is on expired data only.
THEOREM FlagIsHonest == Spec => []FlaggedMeansExpired
    BY AlwaysIInv, PTL DEF IInv

\* get_or_refresh passes a provider error on only when it has nothing.
THEOREM NoNeedlessError == Spec => []RaisedOnlyWhenNothingCached
    BY AlwaysIInv, PTL DEF IInv

\* A stored snapshot is replaced by a later one or by its own flagged copy.
THEOREM OnlyNewerReplaces == Spec => OnlyNewerDataReplaces
<1> DEFINE Newer(k) ==
        (entries[k] # None /\ entries'[k] # None) =>
            \/ entries'[k] \in {entries[k], StaleCopy(entries[k])}
            \/ /\ entries'[k].fetched_at > entries[k].fetched_at
               /\ entries'[k].value >= entries[k].value
<1>1. ASSUME IInv, [Next]_vars, NEW k \in Keys
      PROVE  Newer(k)
    <2>1. CASE FinishRefresh
        <3>1. /\ call # None /\ call.phase = "received"
              /\ entries' = [entries EXCEPT ![call.key] =
                               FreshEntry(call.value, call.reference)]
            BY <2>1 DEF FinishRefresh, InPhase
        <3>2. CASE k # call.key \/ entries[k] = None
            BY <1>1, <3>1, <3>2 DEF IInv, TypeOK
        <3>3. CASE k = call.key /\ entries[k] # None
            <4>1. /\ call \in Call /\ call.entry = entries[k]
                  /\ call.reference <= call.asked /\ call.asked <= call.value
                BY <1>1, <3>1, <3>3 DEF IInv, TypeOK, CallTimes
            <4>2. /\ entries[k] \in Entry
                  /\ call.entry.value <= elapsed
                  /\ IsExpired(entries[k], TTL[k], call.reference)
                BY <1>1, <3>1, <3>3, <4>1, CallEntry DEF IInv, CallTimes, Usable
            <4>3. /\ call.reference \in Int /\ call.value \in Nat
                  /\ call.asked \in Nat
                BY <4>1 DEF Call
            <4>4. call.reference > entries[k].fetched_at
                BY <4>2, <4>3, ExpiredAge, TTLAssumption DEF Entry
            <4>5. call.value >= entries[k].value
                BY <1>1, <3>1, <3>3, <4>1, <4>2, <4>3
                DEF IInv, CallTimes, Entry
            <4>6. entries'[k] = FreshEntry(call.value, call.reference)
                BY <1>1, <3>1, <3>3 DEF IInv, TypeOK
            <4>7. /\ entries'[k].fetched_at = call.reference
                  /\ entries'[k].value = call.value
                BY <4>6 DEF FreshEntry
            <4>8. QED
                BY <4>4, <4>5, <4>7
        <3>4. QED
            BY <3>2, <3>3
    <2>2. CASE RefreshFails
        <3>1. call # None /\ call.entry = entries[call.key]
            BY <1>1, <2>2
            DEF IInv, CallTimes, RefreshFails, Refreshing, InPhase
        <3>2. \/ UNCHANGED entries
              \/ entries' = [entries EXCEPT ![call.key] = StaleCopy(call.entry)]
            BY <2>2 DEF RefreshFails
        <3>3. QED
            BY <1>1, <3>1, <3>2 DEF IInv, TypeOK
    <2>3. CASE (\E j \in Keys : Invalidate(j)) \/ Clear
        BY <1>1, <2>3 DEF Invalidate, Clear, Forget
    <2>4. CASE UNCHANGED entries
        BY <2>4
    <2>5. QED
        BY <1>1, <2>1, <2>2, <2>3, <2>4
        DEF Next, vars, Tick, ClockSetBack, Lookup, Hit, StartRefresh,
            ProviderResponds, RefreshBreaks
<1>2. IInv /\ [Next]_vars => [\A k \in Keys : Newer(k)]_vars
    BY <1>1
<1> HIDE DEF Newer
<1>3. Spec => [][\A k \in Keys : Newer(k)]_vars
    BY <1>2, AlwaysIInv, PTL DEF Spec
<1>4. QED
    BY <1>3 DEF OnlyNewerDataReplaces, Newer

-----------------------------------------------------------------------------
(* The cache implements SnapshotPromise.                                   *)

\* The refinement mapping.
known == [k \in Keys |-> IF entries[k] = None THEN None ELSE entries[k].value]

asked == IF call = None THEN None
         ELSE [key |-> call.key, asked |-> call.asked]

\* What is known when an entry is stored.
LEMMA KnownAfterStore ==
    ASSUME NEW k \in Keys, NEW new \in Entry,
           entries \in [Keys -> Entry \cup {None}],
           entries' = [entries EXCEPT ![k] = new]
    PROVE  known' = [known EXCEPT ![k] = new.value]
<1>1. new # None
    BY NoneAssumption
<1>2. QED
    BY <1>1 DEF known

\* Answering ends the question.
LEMMA AskedRecord ==
    ASSUME call # None, call \in Call
    PROVE  /\ asked # None
           /\ asked.key = call.key
           /\ asked.asked = call.asked
<1>1. asked = [key |-> call.key, asked |-> call.asked]
    BY DEF asked
<1>2. asked # None
    BY <1>1, NoneAssumption DEF Question, Call
<1>3. QED
    BY <1>1, <1>2

\* The initial states map to initial states.
LEMMA PromiseInit == Init => Promise!Init
<1> SUFFICES ASSUME Init PROVE Promise!Init
    OBVIOUS
<1>1. elapsed = 0 /\ answer = None /\ asked = None
    BY DEF Init, asked
<1>2. known = [k \in Keys |-> None]
    BY DEF Init, known
<1>3. QED
    BY <1>1, <1>2 DEF Promise!Init, known, asked

\* A success tells something new, dated after the question.
LEMMA PromiseFinish ==
    ASSUME IInv, FinishRefresh
    PROVE  \E said \in 0..elapsed : Promise!TellNew(said)
<1> DEFINE stored == FreshEntry(call.value, call.reference)
<1>1. /\ call # None /\ call \in Call
      /\ entries \in [Keys -> Entry \cup {None}]
      /\ entries' = [entries EXCEPT ![call.key] = stored]
      /\ answer' = Told(stored)
      /\ call' = None
      /\ elapsed' = elapsed
      /\ call.asked <= call.value /\ call.value <= elapsed
    BY DEF IInv, TypeOK, CallTimes, FinishRefresh, InPhase
<1>2. /\ call.key \in Keys /\ call.value \in Nat /\ call.reference \in Int
    BY <1>1 DEF Call
<1>3. /\ stored \in Entry /\ stored.value = call.value
      /\ stored.is_stale = FALSE
    BY <1>2, FreshEntryFields, Zenon
<1> HIDE DEF stored
<1>4. known' = [known EXCEPT ![call.key] = call.value]
    BY <1>1, <1>2, <1>3, KnownAfterStore
<1>5. asked' = None
    BY <1>1 DEF asked
<1>6. answer' = [kind |-> "told", key |-> asked.key, asked |-> asked.asked,
                 value |-> call.value, is_stale |-> FALSE]
    BY <1>1, <1>3, AskedRecord DEF Told
<1>7. Promise!Reply("told", call.value, FALSE)
    BY <1>1, <1>5, <1>6, AskedRecord DEF Promise!Reply, asked
<1>8. PICK said \in 0..elapsed : said = call.value
    BY <1>1, <1>2 DEF IInv, TypeOK
<1>9. Promise!TellNew(said)
    BY <1>1, <1>4, <1>7, <1>8, AskedRecord
    DEF Promise!TellNew, Promise!Reply, known, asked
<1>10. QED
    BY <1>9

\* A hit tells what is known, within one time to live of the question; under
\* a clock that was set back it may tell a flagged entry.
LEMMA PromiseHit ==
    ASSUME IInv, Hit
    PROVE  Promise!TellKnown \/ Promise!TellFlagged
<1>1. /\ call # None /\ call.entry # None /\ call \in Call
      /\ ~IsExpired(call.entry, TTL[call.key], call.reference)
      /\ answer' = Told(call.entry)
      /\ call' = None
      /\ UNCHANGED <<elapsed, entries>>
    BY DEF IInv, TypeOK, Hit, InPhase, Usable
<1>2. /\ call.key \in Keys
      /\ call.entry \in Entry
      /\ call.entry = entries[call.key]
      /\ call.entry.fetched_at <= call.entry.value
    BY <1>1, CallEntry
<1>3. /\ known' = known /\ asked' = None
      /\ known[call.key] = call.entry.value
    BY <1>1, <1>2 DEF known, asked
<1>4. known[call.key] # None
    BY <1>2, <1>3, NoneAssumption DEF Entry
<1>5. call.asked - call.entry.value < TTL[call.key] + MaxSlips
    <2>1. call.reference - call.entry.fetched_at < TTL[call.key]
        BY <1>1, <1>2, UnexpiredAge DEF Call
    <2>2. call.asked <= call.reference + slips
        BY <1>1 DEF IInv, CallTimes
    <2>3. QED
        BY <1>1, <1>2, <2>1, <2>2, TTLAssumption, BoundsAssumption
        DEF IInv, TypeOK, Call, Entry
<1>6. asked # None /\ asked.key = call.key /\ asked.asked = call.asked
    BY <1>1, AskedRecord
<1>7. answer' = [kind |-> "told", key |-> asked.key, asked |-> asked.asked,
                 value |-> known[asked.key], is_stale |-> call.entry.is_stale]
    BY <1>1, <1>3, <1>6 DEF Told
<1>8. Promise!Reply("told", known[asked.key], call.entry.is_stale)
    BY <1>1, <1>3, <1>6, <1>7 DEF Promise!Reply, asked
<1>9. CASE call.entry.is_stale = TRUE
    BY <1>3, <1>4, <1>6, <1>8, <1>9 DEF Promise!TellFlagged, known, asked
<1>10. CASE call.entry.is_stale = FALSE
    BY <1>3, <1>4, <1>5, <1>6, <1>8, <1>10 DEF Promise!TellKnown, known, asked
<1>11. call.entry.is_stale \in BOOLEAN
    BY <1>2 DEF Entry
<1>12. QED
    BY <1>9, <1>10, <1>11

\* A failure refuses when nothing is known, and otherwise tells it, flagged.
LEMMA PromiseFail ==
    ASSUME IInv, RefreshFails
    PROVE  Promise!Refuse \/ Promise!TellFlagged
<1>1. /\ call # None /\ call \in Call /\ call.key \in Keys
      /\ call.entry = entries[call.key]
      /\ entries \in [Keys -> Entry \cup {None}]
      /\ call' = None
      /\ UNCHANGED elapsed
    BY DEF IInv, TypeOK, CallTimes, RefreshFails, Refreshing, InPhase, Call
<1>2. asked # None /\ asked.key = call.key /\ asked.asked = call.asked
    BY <1>1, AskedRecord
<1>3. asked' = None
    BY <1>1 DEF asked
<1>4. CASE /\ call.entry = None
           /\ answer' = Failed("raised")
           /\ UNCHANGED entries
    <2>1. known' = known /\ known[asked.key] = None
        BY <1>1, <1>2, <1>4 DEF known
    <2>2. Promise!Reply("raised", 0, FALSE)
        BY <1>1, <1>2, <1>3, <1>4 DEF Promise!Reply, Failed, asked
    <2>3. Promise!Refuse
        BY <1>2, <2>1, <2>2 DEF Promise!Refuse, known, asked
    <2>4. QED
        BY <2>3
<1>5. CASE /\ call.entry # None
           /\ entries' = [entries EXCEPT ![call.key] = StaleCopy(call.entry)]
           /\ answer' = Told(StaleCopy(call.entry))
    <2> DEFINE copy == StaleCopy(call.entry)
    <2>1. call.entry \in Entry
        BY <1>1, <1>5, CallEntry
    <2>2. /\ copy \in Entry /\ copy.value = call.entry.value
          /\ copy.is_stale = TRUE
        BY <2>1, StaleCopyFields DEF Entry
    <2>3. entries' = [entries EXCEPT ![call.key] = copy] /\ answer' = Told(copy)
        BY <1>5
    <2> HIDE DEF copy
    <2>4. known' = [known EXCEPT ![call.key] = copy.value]
        BY <1>1, <2>2, <2>3, KnownAfterStore
    <2>5. known[call.key] = call.entry.value
        BY <1>1, <1>5 DEF known
    <2>6. known' = known
        BY <2>2, <2>4, <2>5 DEF known
    <2>7. known[asked.key] # None
        BY <1>2, <2>1, <2>5, NoneAssumption DEF Entry
    <2>8. Promise!Reply("told", known[asked.key], TRUE)
        BY <1>1, <1>2, <1>3, <2>2, <2>3, <2>5 DEF Promise!Reply, Told, asked
    <2>9. Promise!TellFlagged
        BY <1>2, <2>6, <2>7, <2>8 DEF Promise!TellFlagged, known, asked
    <2>10. QED
        BY <2>9
<1>6. QED
    BY <1>4, <1>5 DEF RefreshFails

\* The other steps: time, a question, an unnamed exception, forgetting, and
\* what happens inside a call.
LEMMA PromiseOther ==
    ASSUME IInv,
           \/ Tick \/ ClockSetBack \/ (\E k \in Keys : Lookup(k))
           \/ StartRefresh \/ ProviderResponds \/ RefreshBreaks
           \/ (\E k \in Keys : Invalidate(k)) \/ Clear
    PROVE  Promise!Next \/ UNCHANGED <<elapsed, known, asked, answer>>
<1>1. CASE Tick
    <2>1. elapsed < MaxTime /\ elapsed' = elapsed + 1
          /\ UNCHANGED <<known, asked, answer>>
        BY <1>1 DEF Tick, known, asked
    <2>2. Promise!TimePasses
        BY <2>1 DEF Promise!TimePasses, known, asked
    <2>3. QED
        BY <2>2 DEF Promise!Next
<1>2. CASE ClockSetBack
    BY <1>2 DEF ClockSetBack, known, asked
<1>3. ASSUME NEW k \in Keys, Lookup(k)
      PROVE  Promise!Next
    <2> DEFINE begun == [phase |-> "lookup", key |-> k, reference |-> clock,
                         asked |-> elapsed, entry |-> entries[k], value |-> 0]
    <2>1. /\ call = None /\ call' = begun
          /\ UNCHANGED <<elapsed, entries, answer>>
        BY <1>3 DEF Lookup
    <2>2. begun \in Call
        BY BoundsAssumption DEF IInv, TypeOK, Call, Phases, clock
    <2>3. begun # None
        BY <2>2, NoneAssumption
    <2>4. /\ asked = None /\ asked' = [key |-> k, asked |-> elapsed]
          /\ known' = known
        BY <2>1, <2>3 DEF asked, known
    <2>5. Promise!Ask(k)
        BY <2>1, <2>4 DEF Promise!Ask, asked, known
    <2>6. QED
        BY <2>5 DEF Promise!Next
<1>4. CASE StartRefresh \/ ProviderResponds
    <2>1. /\ call # None /\ call \in Call
          /\ UNCHANGED <<elapsed, entries, answer>>
        BY <1>4 DEF IInv, TypeOK, StartRefresh, ProviderResponds, InPhase
    <2>2. /\ call' \in Call
          /\ call'.key = call.key /\ call'.asked = call.asked
        BY <1>4, <2>1
        DEF IInv, TypeOK, StartRefresh, ProviderResponds, InPhase, Call, Phases
    <2>3. call' # None
        BY <2>2, NoneAssumption
    <2>4. QED
        BY <2>1, <2>2, <2>3 DEF known, asked
<1>5. CASE RefreshBreaks
    <2>1. /\ call # None /\ call \in Call
          /\ answer' = Failed("broke") /\ call' = None
          /\ UNCHANGED <<elapsed, entries>>
        BY <1>5 DEF IInv, TypeOK, RefreshBreaks, Refreshing, InPhase
    <2>2. asked # None /\ asked.key = call.key /\ asked.asked = call.asked
        BY <2>1, AskedRecord
    <2>3. asked' = None /\ known' = known
        BY <2>1 DEF known, asked
    <2>4. Promise!Reply("broke", 0, FALSE)
        BY <2>1, <2>2, <2>3 DEF Promise!Reply, Failed, asked
    <2>5. Promise!Break
        BY <2>3, <2>4 DEF Promise!Break, known, asked
    <2>6. QED
        BY <2>5 DEF Promise!Next
<1>6. ASSUME NEW ks \in SUBSET Keys, Forget(ks)
      PROVE  Promise!Next
    <2>1. /\ call = None /\ UNCHANGED <<elapsed, call, answer>>
          /\ entries' = [k \in Keys |-> IF k \in ks THEN None ELSE entries[k]]
        BY <1>6 DEF Forget
    <2>2. known' = [k \in Keys |-> IF k \in ks THEN None ELSE known[k]]
        BY <2>1 DEF known
    <2>3. asked = None /\ asked' = asked
        BY <2>1 DEF asked
    <2>4. Promise!Forget(ks)
        BY <2>1, <2>2, <2>3 DEF Promise!Forget, known, asked
    <2>5. QED
        BY <2>4 DEF Promise!Next
<1>7. QED
    BY <1>1, <1>2, <1>3, <1>4, <1>5, <1>6 DEF Invalidate, Clear

\* The cache keeps the promise of its header: an unflagged answer is recent,
\* an old one is flagged, and an error means that nothing is known.
THEOREM CacheKeepsPromise == Spec => PromiseKept
<1>1. ASSUME IInv, [Next]_vars
      PROVE  Promise!Next \/ UNCHANGED <<elapsed, known, asked, answer>>
    <2>1. CASE FinishRefresh
        BY <1>1, <2>1, PromiseFinish DEF Promise!Next
    <2>2. CASE Hit
        BY <1>1, <2>2, PromiseHit DEF Promise!Next
    <2>3. CASE RefreshFails
        BY <1>1, <2>3, PromiseFail DEF Promise!Next
    <2>4. CASE UNCHANGED vars
        BY <2>4 DEF vars, known, asked
    <2>5. QED
        BY <1>1, <2>1, <2>2, <2>3, <2>4, PromiseOther DEF Next
<1>2. IInv /\ [Next]_vars => [Promise!Next]_(Promise!vars)
    BY <1>1 DEF Promise!vars, known, asked
<1>3. QED
    BY <1>2, PromiseInit, AlwaysIInv, PTL DEF Spec, PromiseKept, Promise!Spec

=============================================================================
