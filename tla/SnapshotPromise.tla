-------------------------- MODULE SnapshotPromise ---------------------------
(***************************************************************************)
(* What the header of services/football_data/cache.py promises the person  *)
(* who asks a question, with no clock, no timestamp and no flag kept       *)
(* anywhere: only what the cache has learned, and when.                    *)
(*                                                                         *)
(*   - an answer that is not flagged shows what the provider said either   *)
(*     after the question was asked, or less than one time to live before; *)
(*   - an older answer is flagged;                                         *)
(*   - the provider's failure is passed on only when nothing is known.     *)
(***************************************************************************)
EXTENDS Integers

CONSTANTS
    Keys,
    TTL,        \* time to live of each key
    None,
    MaxTime,    \* bound: ticks of real time
    Slack       \* how wrong the process's wall clock may be

VARIABLES
    now,        \* real time
    known,      \* when the provider said what is known of each key, or None
    asked,      \* the question being answered, [key, asked], or None
    told        \* the latest answer, or None

vars == <<now, known, asked, told>>

Init ==
    /\ now = 0
    /\ known = [k \in Keys |-> None]
    /\ asked = None
    /\ told = None

TimePasses ==
    /\ now < MaxTime
    /\ now' = now + 1
    /\ UNCHANGED <<known, asked, told>>

Ask(k) ==
    /\ asked = None
    /\ asked' = [key |-> k, asked |-> now]
    /\ UNCHANGED <<now, known, told>>

Reply(kind, value, flagged) ==
    /\ asked # None
    /\ asked' = None
    /\ told' = [kind |-> kind, key |-> asked.key, asked |-> asked.asked,
                value |-> value, is_stale |-> flagged]
    /\ UNCHANGED now

\* Something the provider said after the question was asked.
TellNew(value) ==
    /\ asked # None
    /\ asked.asked <= value
    /\ known' = [known EXCEPT ![asked.key] = value]
    /\ Reply("told", value, FALSE)

\* What is known, unflagged, as long as it is recent enough.
TellKnown ==
    /\ asked # None
    /\ known[asked.key] # None
    /\ asked.asked - known[asked.key] < TTL[asked.key] + Slack
    /\ Reply("told", known[asked.key], FALSE)
    /\ UNCHANGED known

\* What is known, however old, flagged.
TellFlagged ==
    /\ asked # None
    /\ known[asked.key] # None
    /\ Reply("told", known[asked.key], TRUE)
    /\ UNCHANGED known

\* The provider failed and nothing is known.
Refuse ==
    /\ asked # None
    /\ known[asked.key] = None
    /\ Reply("raised", 0, FALSE)
    /\ UNCHANGED known

\* The adapter failed in a way the package has no name for.
Break ==
    /\ Reply("broke", 0, FALSE)
    /\ UNCHANGED known

Forget(ks) ==
    /\ asked = None
    /\ known' = [k \in Keys |-> IF k \in ks THEN None ELSE known[k]]
    /\ UNCHANGED <<now, asked, told>>

Next ==
    \/ TimePasses
    \/ \E k \in Keys : Ask(k)
    \/ \E value \in 0..now : TellNew(value)
    \/ TellKnown
    \/ TellFlagged
    \/ Refuse
    \/ Break
    \/ \E ks \in SUBSET Keys : Forget(ks)

Spec == Init /\ [][Next]_vars
=============================================================================
