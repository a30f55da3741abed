---------------------------- MODULE PitchMindAPI ----------------------------
(***************************************************************************)
(* The HTTP server: api/main.py, api/dependencies.py, the data tools and   *)
(* the FootballDataService they call, one cache per service instance.      *)
(*                                                                         *)
(* Two schedulers meet here.  The dependency get_service is a plain        *)
(* function, so the framework runs it on a thread pool: several requests   *)
(* execute it at once, statement by statement.  The routes are coroutines  *)
(* without an await, so the event loop runs one of them at a time from its *)
(* first statement to its response, the provider request included.         *)
(*                                                                         *)
(*   idle -> check -> build -> return -> ready -> refreshing -> rendering  *)
(*               \-------------^             \-----------------^   -> done *)
(*           (thread pool)              (event loop)                       *)
(***************************************************************************)
EXTENDS CacheEntries

CONSTANTS
    Requests,   \* requests; a service is named after the request that built it
    Traffic,    \* the routes that clients use
    TTL,        \* time to live of each cache key, in ticks
    None,
    MaxTime     \* bound: ticks of real time

DataKeys == {"standings", "fixtures", "live"}

\* "team" is /fixtures?team=... for a club that no registry entry knows.
Routes == {"health", "standings", "fixtures", "team", "live"}

CacheKey == [standings |-> "standings", fixtures |-> "fixtures",
             team |-> "fixtures", live |-> "live"]

\* How a refresh can end.  All but the first and the last are raised as
\* FootballDataError; "unexpected" is any other exception of an adapter.
NamedErrors == {"unavailable", "rate_limited", "malformed", "unknown_team"}

StatusOf == [unavailable |-> 503, rate_limited |-> 429, malformed |-> 502,
             unknown_team |-> 404, unexpected |-> 500]

\* The live provider is the replay script, which always has an answer.
Errors(key) == IF key = "live" THEN {} ELSE NamedErrors \cup {"unexpected"}

ASSUME TrafficAssumption == Traffic \subseteq Routes
ASSUME TTLAssumption == TTL \in [DataKeys -> Nat \ {0}]
ASSUME NoneAssumption == None \notin Requests /\ None \notin Entry
ASSUME TimeAssumption == MaxTime \in Nat

VARIABLES
    hasKey,         \* whether the football-data.org key is configured
    elapsed,        \* time; the wall clock is assumed not to be set back here
    service,        \* dependencies._service: the shared service, or None
    caches,         \* the cache owned by the service each request may build
    pc, route, bound,           \* of each request: where it is, what it asks,
                                \* and the service it was given
    loop,           \* the request whose route occupies the event loop
    reference, held,            \* of each route: the clock and the entry it read
    response,
    lastSuccess     \* history: when the process last fetched each key

vars == <<hasKey, elapsed, service, caches, pc, route, bound, loop, reference,
          held, response, lastSuccess>>

request == <<route, bound, reference, held>>

PCs == {"idle", "check", "build", "return", "ready", "refreshing",
        "rendering", "done"}

Response == [status : {200, 404, 429, 500, 502, 503},
             payload : Nat \cup {None}, provenance : Entry \cup {None},
             age : Nat]

TypeOK ==
    /\ hasKey \in BOOLEAN
    /\ elapsed \in 0..MaxTime
    /\ service \in Requests \cup {None}
    /\ caches \in [Requests -> [DataKeys -> Entry \cup {None}]]
    /\ pc \in [Requests -> PCs]
    /\ route \in [Requests -> Routes]
    /\ bound \in [Requests -> Requests \cup {None}]
    /\ loop \in Requests \cup {None}
    /\ reference \in [Requests -> Nat]
    /\ held \in [Requests -> Entry \cup {None}]
    /\ response \in [Requests -> Response \cup {None}]
    /\ lastSuccess \in [DataKeys -> Nat \cup {None}]

\* The settings are read once, from the environment.
Init ==
    /\ hasKey \in BOOLEAN
    /\ elapsed = 0
    /\ service = None
    /\ caches = [s \in Requests |-> [k \in DataKeys |-> None]]
    /\ pc = [r \in Requests |-> "idle"]
    /\ route = [r \in Requests |-> "health"]
    /\ bound = [r \in Requests |-> None]
    /\ loop = None
    /\ reference = [r \in Requests |-> 0]
    /\ held = [r \in Requests |-> None]
    /\ response = [r \in Requests |-> None]
    /\ lastSuccess = [k \in DataKeys |-> None]

Goto(r, from, to) ==
    /\ pc[r] = from
    /\ pc' = [pc EXCEPT ![r] = to]

Tick ==
    /\ elapsed < MaxTime
    /\ elapsed' = elapsed + 1
    /\ UNCHANGED <<hasKey, service, caches, pc, loop, request, response, lastSuccess>>

\* Only the data routes depend on the service.
Arrive(r, path) ==
    /\ Goto(r, "idle", IF path = "health" THEN "ready" ELSE "check")
    /\ route' = [route EXCEPT ![r] = path]
    /\ UNCHANGED <<hasKey, elapsed, service, caches, bound, loop, reference, held,
                   response, lastSuccess>>

-----------------------------------------------------------------------------
(* get_service, on a thread of the pool.  Nothing guards the global.       *)

\* Mutant of CheckService: the service is rebuilt for every request.
CheckServiceNever(r) ==
    /\ Goto(r, "check", "build")
    /\ UNCHANGED <<hasKey, elapsed, service, caches, loop, request, response,
                   lastSuccess>>

CheckService(r) ==
    /\ Goto(r, "check", IF service = None THEN "build" ELSE "return")
    /\ UNCHANGED <<hasKey, elapsed, service, caches, loop, request, response,
                   lastSuccess>>

\* _service = build_service(): a new service, hence a new and empty cache.
BuildService(r) ==
    /\ Goto(r, "build", "return")
    /\ service' = r
    /\ UNCHANGED <<hasKey, elapsed, caches, loop, request, response, lastSuccess>>

\* "return _service" reads the global once more.
ReturnService(r) ==
    /\ Goto(r, "return", "ready")
    /\ bound' = [bound EXCEPT ![r] = service]
    /\ UNCHANGED <<hasKey, elapsed, service, caches, route, loop, reference, held,
                   response, lastSuccess>>

-----------------------------------------------------------------------------
(* The routes, on the event loop.                                          *)

Key(r) == CacheKey[route[r]]

Cached(r) == caches[bound[r]][Key(r)]

\* The event loop takes the request up, or goes on with it.
OnLoop(r) == loop \in {None, r}

\* The tools refuse the current-data routes before they touch the service.
Unconfigured(r) == Key(r) # "live" /\ ~hasKey

\* Mutant of Fresh: off by one.
FreshTooShort(r) ==
    Cached(r) # None /\ AgeSeconds(Cached(r), elapsed) + 1 < TTL[Key(r)]

Fresh(r) == Cached(r) # None /\ ~IsExpired(Cached(r), TTL[Key(r)], elapsed)

Respond(r, status, payload, provenance) ==
    /\ response' = [response EXCEPT ![r] =
            [status |-> status, payload |-> payload, provenance |-> provenance,
             age |-> IF provenance = None THEN 0
                     ELSE AgeSeconds(provenance, elapsed)]]
    /\ loop' = None
    /\ held' = [held EXCEPT ![r] = None]

AnswerHealth(r) ==
    /\ Goto(r, "ready", "done")
    /\ OnLoop(r)
    /\ route[r] = "health"
    /\ Respond(r, 200, None, None)
    /\ UNCHANGED <<hasKey, elapsed, service, caches, route, bound, reference,
                   lastSuccess>>

RefuseUnconfigured(r) ==
    /\ Goto(r, "ready", "done")
    /\ OnLoop(r)
    /\ route[r] # "health"
    /\ Unconfigured(r)
    /\ Respond(r, 503, None, None)
    /\ UNCHANGED <<hasKey, elapsed, service, caches, route, bound, reference,
                   lastSuccess>>

\* get_or_refresh finds an entry that has not expired.
ReadCache(r) ==
    /\ Goto(r, "ready", "rendering")
    /\ OnLoop(r)
    /\ route[r] # "health"
    /\ ~Unconfigured(r)
    /\ Fresh(r)
    /\ loop' = r
    /\ reference' = [reference EXCEPT ![r] = elapsed]
    /\ held' = [held EXCEPT ![r] = Cached(r)]
    /\ UNCHANGED <<hasKey, elapsed, service, caches, route, bound, response,
                   lastSuccess>>

\* get_or_refresh calls the provider and keeps the event loop meanwhile.
CallProvider(r) ==
    /\ Goto(r, "ready", "refreshing")
    /\ OnLoop(r)
    /\ route[r] # "health"
    /\ ~Unconfigured(r)
    /\ ~Fresh(r)
    /\ loop' = r
    /\ reference' = [reference EXCEPT ![r] = elapsed]
    /\ held' = [held EXCEPT ![r] = Cached(r)]
    /\ UNCHANGED <<hasKey, elapsed, service, caches, route, bound, response,
                   lastSuccess>>

Store(r, entry) ==
    /\ caches' = [caches EXCEPT ![bound[r]][Key(r)] = entry]
    /\ held' = [held EXCEPT ![r] = entry]

\* Mutant of ProviderSucceeds: an adapter that returns nothing instead of
\* raising.
ProviderSucceedsWithNothing(r) ==
    /\ Goto(r, "refreshing", "rendering")
    /\ Store(r, FreshEntry(None, reference[r]))
    /\ lastSuccess' = [lastSuccess EXCEPT ![Key(r)] = reference[r]]
    /\ UNCHANGED <<hasKey, elapsed, service, route, bound, loop, reference, response>>

ProviderSucceeds(r) ==
    /\ Goto(r, "refreshing", "rendering")
    /\ Store(r, FreshEntry(elapsed, reference[r]))
    /\ lastSuccess' = [lastSuccess EXCEPT ![Key(r)] = reference[r]]
    /\ UNCHANGED <<hasKey, elapsed, service, route, bound, loop, reference, response>>

\* Mutant of FallBack: the old entry is served as it is.
FallBackUnflagged(r) ==
    /\ Goto(r, "refreshing", "rendering")
    /\ held[r] # None
    /\ Errors(Key(r)) # {}
    /\ Store(r, held[r])
    /\ UNCHANGED <<hasKey, elapsed, service, route, bound, loop, reference, response,
                   lastSuccess>>

\* The last good entry stands in for a provider error.
FallBack(r) ==
    /\ Goto(r, "refreshing", "rendering")
    /\ held[r] # None
    /\ Errors(Key(r)) # {}
    /\ Store(r, StaleCopy(held[r]))
    /\ UNCHANGED <<hasKey, elapsed, service, route, bound, loop, reference, response,
                   lastSuccess>>

\* Mutants of PropagateError: errors are passed on although something is
\* cached; a failed request keeps the event loop.
PropagateAnyError(r, error) ==
    /\ Goto(r, "refreshing", "done")
    /\ error \in Errors(Key(r))
    /\ Respond(r, StatusOf[error], None, None)
    /\ UNCHANGED <<hasKey, elapsed, service, caches, route, bound, reference,
                   lastSuccess>>

PropagateErrorOnLoop(r, error) ==
    /\ Goto(r, "refreshing", "done")
    /\ error \in Errors(Key(r))
    /\ error = "unexpected" \/ held[r] = None
    /\ response' = [response EXCEPT ![r] =
            [status |-> StatusOf[error], payload |-> None,
             provenance |-> None, age |-> 0]]
    /\ UNCHANGED <<hasKey, elapsed, service, caches, route, bound, loop, reference,
                   held, lastSuccess>>

\* The error becomes the response: a named one if nothing was cached, any
\* other one in any case.
PropagateError(r, error) ==
    /\ Goto(r, "refreshing", "done")
    /\ error \in Errors(Key(r))
    /\ error = "unexpected" \/ held[r] = None
    /\ Respond(r, StatusOf[error], None, None)
    /\ UNCHANGED <<hasKey, elapsed, service, caches, route, bound, reference,
                   lastSuccess>>

\* The tool resolves the club it was asked for only now.
UnknownClub(r) ==
    /\ Goto(r, "rendering", "done")
    /\ route[r] = "team"
    /\ Respond(r, 404, None, None)
    /\ UNCHANGED <<hasKey, elapsed, service, caches, route, bound, reference,
                   lastSuccess>>

\* The provenance is read from the cache and the clock a second time.
Render(r) ==
    /\ Goto(r, "rendering", "done")
    /\ route[r] # "team"
    /\ Respond(r, 200, held[r].value, Cached(r))
    /\ UNCHANGED <<hasKey, elapsed, service, caches, route, bound, reference,
                   lastSuccess>>

Thread(r) == CheckService(r) \/ BuildService(r) \/ ReturnService(r)

TakeUp(r) ==
    AnswerHealth(r) \/ RefuseUnconfigured(r) \/ ReadCache(r) \/ CallProvider(r)

Finish(r) ==
    \/ ProviderSucceeds(r)
    \/ FallBack(r)
    \/ \E error \in NamedErrors \cup {"unexpected"} : PropagateError(r, error)
    \/ UnknownClub(r)
    \/ Render(r)

Next ==
    \/ Tick
    \/ \E r \in Requests, path \in Traffic : Arrive(r, path)
    \/ \E r \in Requests : Thread(r) \/ TakeUp(r) \/ Finish(r)

\* Threads run; the event loop takes requests up in the order in which they
\* become ready, so it passes none over for ever; and a provider request ends,
\* because the HTTP client's timeouts are finite.
Fairness ==
    \A r \in Requests :
        /\ WF_vars(Thread(r))
        /\ SF_vars(TakeUp(r))
        /\ WF_vars(Finish(r))

Spec == Init /\ [][Next]_vars

FairSpec == Spec /\ Fairness

-----------------------------------------------------------------------------
(* Properties.                                                             *)

DataResponse(r) ==
    response[r] # None /\ response[r].status = 200 /\ route[r] # "health"

\* The provenance that a tool reads from the cache after the data
\* (_provenance) describes the data it accompanies: nothing replaced the entry
\* between the two reads.
ProvenanceDescribesPayload ==
    \A r \in Requests :
        DataResponse(r) =>
            /\ response[r].provenance # None
            /\ response[r].provenance.value = response[r].payload

\* A response says how current it is (DataProvenance): unflagged data comes
\* from the provider less than one time to live before the route ran, and
\* flagged data is shown with an age of at least its time to live.
StalenessIsTold ==
    \A r \in Requests :
        DataResponse(r) =>
            IF response[r].provenance.is_stale
              THEN response[r].age >= TTL[Key(r)]
              ELSE reference[r] - response[r].payload < TTL[Key(r)]

\* A service never asks the provider twice within one time to live of a
\* request that succeeded (get_or_refresh), whoever asks.
OneRequestPerServiceWindow ==
    \A r \in Requests :
        pc[r] = "refreshing" =>
            \/ Cached(r) = None
            \/ reference[r] - Cached(r).fetched_at >= TTL[Key(r)]

\* "/health, /api/v1/live/* (replay-backed) ... work with no credentials at
\* all" (header of main.py), whatever happens to the other routes.
KeylessRoutesServe ==
    \A r \in Requests :
        (pc[r] = "done" /\ route[r] \in {"health", "live"}) =>
            response[r].status = 200

\* A route answers with a provider's error only if the service it was given
\* has nothing cached: after a good answer, an outage shows as staleness.
ErrorOnlyWithNothingCached ==
    [][\A r \in Requests :
          (pc[r] = "refreshing" /\ response'[r] # None
             /\ response'[r].status \in {404, 429, 502, 503})
          => Cached(r) = None]_vars

\* get_service: once a service is published and no thread is about to publish
\* another, that one is shared for the rest of the process's life.
ServiceSettles ==
    \A s \in Requests :
        []((service = s /\ \A r \in Requests : pc[r] \notin {"check", "build"})
             => [](service = s))

\* Every request is answered, whichever thread builds the service and however
\* many routes wait for the event loop.
EveryRequestAnswered ==
    \A r \in Requests : pc[r] # "idle" ~> pc[r] = "done"

\* "N reads inside one TTL window must perform exactly ONE provider request"
\* (TTLCache), for the process as a whole.
OneProviderRequestPerWindow ==
    \A r \in Requests :
        pc[r] = "refreshing" =>
            \/ lastSuccess[Key(r)] = None
            \/ reference[r] - lastSuccess[Key(r)] >= TTL[Key(r)]

\* "404: the requested team resource is not one we know" (main.py).
NotFoundNamesARequestedTeam ==
    \A r \in Requests :
        (response[r] # None /\ response[r].status = 404) => route[r] = "team"

=============================================================================
