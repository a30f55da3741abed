---------------------------- MODULE ToolExecutor ----------------------------
(***************************************************************************)
(* The agent layer's one doorway to the tools (agents/executor.py): the    *)
(* calls of execute() while one question is being answered, and the        *)
(* request's evidence ledger.  execute() is synchronous and one question   *)
(* is answered by one thread, so a call is one step; what is open is which *)
(* calls are made, in which words and order, and how each tool run ends.   *)
(***************************************************************************)
EXTENDS Sequences, Integers

CONSTANTS
    Clubs,      \* canonical ids of the registry
    Spellings,  \* what callers write for a club
    ClubOf,     \* the registry: spelling -> club, or None
    Folded,     \* spelling -> what strip().casefold() makes of it
    Fitted,     \* the clubs that the frozen score model knows
    Extras,     \* the other arguments of a call, as one value
    Offered,    \* the tools that callers use
    None,
    MaxCalls    \* bound: calls of execute

TeamFields == {"team", "home_team", "away_team"}

ServiceTools == {"get_current_standings", "get_fixtures", "get_live_matches",
                 "get_live_match_state"}

ModelTools == {"run_outcome_prediction", "explain_outcome_prediction",
               "get_scoreline_prediction"}

Tools == ServiceTools \cup ModelTools

\* The team fields that the argument model of a tool has, and those that it
\* requires.
Optional(tool) == IF tool = "get_fixtures" THEN {"team"} ELSE {}

Required(tool) ==
    IF tool = "get_scoreline_prediction" THEN {"home_team", "away_team"} ELSE {}

Args == [TeamFields -> Spellings \cup {None}]

Given(args) == {field \in TeamFields : args[field] # None}

\* A call whose arguments are valid; it may name clubs nobody knows.
Call == {c \in [tool : Offered, args : Args, extra : Extras] :
            /\ Required(c.tool) \subseteq Given(c.args)
            /\ Given(c.args) \subseteq Required(c.tool) \cup Optional(c.tool)}

ASSUME RegistryAssumption ==
    /\ None \notin Clubs
    /\ None \notin Spellings
    /\ ClubOf \in [Spellings -> Clubs \cup {None}]
    /\ Fitted \subseteq Clubs
    /\ Offered \subseteq Tools
    /\ MaxCalls \in Nat

\* Folding a spelling that the registry does not resolve never gives the
\* canonical id of a club (nor nothing at all).  The table of teams.py sees to
\* it: each of its ids, read as a name, resolves to its own club.
ASSUME FoldedAssumption ==
    \A s \in Spellings : ClubOf[s] = None => Folded[s] \notin Clubs \cup {None}

VARIABLES
    configured,     \* whether a data service was injected
    items,          \* the ledger's evidence, in order
    byDedupKey,     \* the ledger's index: key -> position in items
    failures,       \* the ledger's failures
    result,         \* what the latest call returned or raised
    calls           \* how many calls have been made

vars == <<configured, items, byDedupKey, failures, result, calls>>

-----------------------------------------------------------------------------
(* Errors: the class hierarchy, and the table that gives each a code.      *)

\* The classes an exception of a tool is an instance of.
Ancestors ==
    [UnknownTeam              |-> {"UnknownTeam"},
     TeamNotInScoreModel      |-> {"TeamNotInScoreModel"},
     ModelArtifactUnavailable |-> {"ModelArtifactUnavailable"},
     ProviderRateLimited      |-> {"ProviderRateLimited", "ProviderUnavailable"},
     CurrentSeasonNotAvailable |-> {"CurrentSeasonNotAvailable"},
     MalformedProviderPayload |-> {"MalformedProviderPayload"},
     UnsupportedCapability    |-> {"UnsupportedCapability"},
     ProviderUnavailable      |-> {"ProviderUnavailable"},
     Unexpected               |-> {}]

Exceptions == DOMAIN Ancestors

\* _ERROR_CODES, each code named after its class.
ErrorCodes ==
    <<"UnknownTeam", "TeamNotInScoreModel", "ModelArtifactUnavailable",
      "ProviderRateLimited", "CurrentSeasonNotAvailable",
      "MalformedProviderPayload", "UnsupportedCapability",
      "ProviderUnavailable">>

Matches(exc, i) == ErrorCodes[i] \in Ancestors[exc]

Expected(exc) == \E i \in DOMAIN ErrorCodes : Matches(exc, i)

\* The first row that matches decides.
CodeOf(exc) ==
    ErrorCodes[CHOOSE i \in DOMAIN ErrorCodes :
                  Matches(exc, i) /\ \A j \in 1..(i - 1) : ~Matches(exc, j)]

-----------------------------------------------------------------------------
(* Keys.                                                                   *)

\* Mutant of CanonicalTeam: the caller's spelling is the key.
CanonicalTeamRaw(s) == Folded[s]

\* A club under all its spellings; what the registry cannot resolve, as it is.
CanonicalTeam(s) == IF ClubOf[s] # None THEN ClubOf[s] ELSE Folded[s]

\* Mutant of DedupKey: the two clubs of a match in no order.
DedupKeyUnordered(c) ==
    [tool |-> c.tool, extra |-> c.extra,
     teams |-> {CanonicalTeam(c.args[field]) : field \in Given(c.args)}]

\* The tool and its validated arguments, each club by its canonical id.
DedupKey(c) ==
    [tool |-> c.tool, extra |-> c.extra,
     teams |-> [field \in TeamFields |->
                  IF c.args[field] = None THEN None
                  ELSE CanonicalTeam(c.args[field])]]

\* The index with one more entry.
Indexed(key, position) ==
    [k \in DOMAIN byDedupKey \cup {key} |->
        IF k = key THEN position ELSE byDedupKey[k]]

Known(c) == DedupKey(c) \in DOMAIN byDedupKey

-----------------------------------------------------------------------------
(* How a tool run may end.                                                 *)

\* The frozen score model has parameters for the club.
Plays(s) == ClubOf[s] \in Fitted

\* The errors that a tool run owes to the clubs named in the call.  The
\* scoreline tool looks at the home club first.
TeamError(s) ==
    IF ClubOf[s] = None THEN "UnknownTeam" ELSE "TeamNotInScoreModel"

TeamErrors(c) ==
    CASE c.tool = "get_scoreline_prediction" ->
           IF ~Plays(c.args["home_team"]) THEN {TeamError(c.args["home_team"])}
           ELSE IF ~Plays(c.args["away_team"]) THEN {TeamError(c.args["away_team"])}
           ELSE {}
      [] OTHER ->
           {TeamError(c.args[field]) :
              field \in {f \in Given(c.args) : ClubOf[c.args[f]] = None}}

Answerable(c) == TeamErrors(c) = {}

\* A provider payload may name a club that the registry lacks.
ProviderErrors == {"UnknownTeam", "ProviderRateLimited",
    "CurrentSeasonNotAvailable", "MalformedProviderPayload",
    "UnsupportedCapability", "ProviderUnavailable"}

MayRaise(c) ==
    {"Unexpected"} \cup TeamErrors(c) \cup
    (IF c.tool \in ServiceTools THEN ProviderErrors
                                ELSE {"ModelArtifactUnavailable"})

-----------------------------------------------------------------------------
(* execute.                                                                *)

Init ==
    /\ configured \in BOOLEAN
    /\ items = <<>>
    /\ byDedupKey = [k \in {} |-> 0]
    /\ failures = <<>>
    /\ result = [kind |-> "none"]
    /\ calls = 0

Counted ==
    /\ calls < MaxCalls
    /\ calls' = calls + 1
    /\ UNCHANGED configured

\* An unknown tool, or arguments that its model refuses.
Refusals == {"unknown_tool", "invalid_arguments"}

Refuse(code) ==
    /\ Counted
    /\ failures' = Append(failures, [code |-> code, cause |-> None, call |-> None])
    /\ result' = [kind |-> "refusal"]
    /\ UNCHANGED <<items, byDedupKey>>

\* Step 3: an identical call reuses the evidence that is there.
Reuse(c) ==
    /\ Counted
    /\ Known(c)
    /\ result' = [kind |-> "evidence", call |-> c,
                  item |-> byDedupKey[DedupKey(c)]]
    /\ UNCHANGED <<items, byDedupKey, failures>>

Fail(c, code, cause) ==
    /\ Counted
    /\ ~Known(c)
    /\ failures' = Append(failures, [code |-> code, cause |-> cause, call |-> c])
    /\ result' = [kind |-> "failure", call |-> c]
    /\ UNCHANGED <<items, byDedupKey>>

NoService(c) ==
    /\ ~configured
    /\ c.tool \in ServiceTools
    /\ Fail(c, "service_not_configured", None)

Runs(c) == c.tool \in ServiceTools => configured

ToolFails(c, exc) ==
    /\ Runs(c)
    /\ Expected(exc)
    /\ Fail(c, CodeOf(exc), exc)

\* Mutant of ToolCrashes: an unexpected exception is masked as a failure.
ToolCrashesMasked(c, exc) ==
    /\ Runs(c)
    /\ ~Expected(exc)
    /\ Fail(c, "internal_error", exc)

\* An exception that the table does not list propagates; nothing is recorded.
ToolCrashes(c, exc) ==
    /\ Counted
    /\ ~Known(c)
    /\ Runs(c)
    /\ ~Expected(exc)
    /\ result' = [kind |-> "crash", call |-> c]
    /\ UNCHANGED <<items, byDedupKey, failures>>

\* EvidenceLedger.add.
Add(c) ==
    /\ items' = Append(items, [id |-> Len(items) + 1, call |-> c,
                               dedup_key |-> DedupKey(c)])
    /\ byDedupKey' = Indexed(DedupKey(c), Len(items) + 1)

\* Mutant of ToolAnswers: what already failed is not recorded as evidence.
ToolAnswersOnce(c) ==
    /\ Counted
    /\ ~Known(c)
    /\ Runs(c)
    /\ Answerable(c)
    /\ IF \E i \in DOMAIN failures : failures[i].call = c
         THEN UNCHANGED <<items, byDedupKey>>
         ELSE Add(c)
    /\ result' = [kind |-> "evidence", call |-> c, item |-> Len(items')]
    /\ UNCHANGED failures

ToolAnswers(c) ==
    /\ Counted
    /\ ~Known(c)
    /\ Runs(c)
    /\ Answerable(c)
    /\ Add(c)
    /\ result' = [kind |-> "evidence", call |-> c, item |-> Len(items) + 1]
    /\ UNCHANGED failures

Next ==
    \/ \E code \in Refusals : Refuse(code)
    \/ \E c \in Call :
          \/ Reuse(c)
          \/ NoService(c)
          \/ \E exc \in MayRaise(c) : ToolFails(c, exc) \/ ToolCrashes(c, exc)
          \/ ToolAnswers(c)

Spec == Init /\ [][Next]_vars

-----------------------------------------------------------------------------
(* Properties.                                                             *)

Key == {DedupKey(c) : c \in Call}

Evidence == [id : Nat \ {0}, call : Call, dedup_key : Key]

Failure == [code : Exceptions \cup Refusals \cup {"service_not_configured"},
            cause : Exceptions \cup {None}, call : Call \cup {None}]

Result == [kind : {"none", "refusal"}]
    \cup [kind : {"failure", "crash"}, call : Call]
    \cup [kind : {"evidence"}, call : Call, item : Nat]

TypeOK ==
    /\ configured \in BOOLEAN
    /\ items \in Seq(Evidence)
    /\ DOMAIN byDedupKey \subseteq Key
    /\ \A k \in DOMAIN byDedupKey : byDedupKey[k] \in DOMAIN items
    /\ failures \in Seq(Failure)
    /\ result \in Result
    /\ calls \in 0..MaxCalls

\* What a call is about: its tool and its clubs, whatever they were called.
Operation(c) ==
    [tool |-> c.tool, extra |-> c.extra,
     teams |-> [field \in TeamFields |->
        IF c.args[field] = None THEN <<"absent">>
        ELSE IF ClubOf[c.args[field]] = None
               THEN <<"unknown", Folded[c.args[field]]>>
               ELSE <<"club", ClubOf[c.args[field]]>>]]

\* "it stops the same deterministic operation being performed twice while
\* answering one question" (header of executor.py), also when two callers use
\* different names for a club.
PerformedOnce ==
    \A i, j \in DOMAIN items :
        Operation(items[i].call) = Operation(items[j].call) => i = j

\* Evidence that execute returns, reused or not, is about the operation that
\* was asked for, and no club in that operation is one nobody knows: the key
\* never merges two questions.
EvidenceAnswersCall ==
    result.kind = "evidence" =>
        /\ result.item \in DOMAIN items
        /\ Operation(items[result.item].call) = Operation(result.call)
        /\ Answerable(result.call)

\* The ledger's index and its list agree, and an evidence id names one item
\* for good (EvidenceLedger.add); failures are in neither.
LedgerIndexed ==
    /\ DOMAIN byDedupKey = {items[i].dedup_key : i \in DOMAIN items}
    /\ \A i \in DOMAIN items : byDedupKey[items[i].dedup_key] = i
    /\ \A i \in DOMAIN items : items[i].id = i

\* A failure keeps the identity of the error that caused it: a rate limit is
\* not reported as a general outage (_ERROR_CODES).
FailuresKeepTheirCause ==
    \A i \in DOMAIN failures :
        failures[i].cause # None => failures[i].code = failures[i].cause

Operations == {Operation(c) : c \in Call}

\* The executor keeps the promise of its header.
Promise == INSTANCE EvidencePromise WITH
    performed  <- {Operation(items[i].call) : i \in DOMAIN items},
    told       <- IF result.kind \in {"none", "refusal"}
                    THEN [kind |-> result.kind]
                    ELSE [kind |-> result.kind, about |-> Operation(result.call)]

PromiseKept == Promise!Spec

=============================================================================
