------------------------ MODULE PitchMindAPI_proofs ------------------------
(***************************************************************************)
(* Safety of the server for any number of requests, routes and ticks.      *)
(*                                                                         *)
(* The event loop is what makes it hold: a request that refreshes or       *)
(* renders owns the loop, so the entry it read is still the one in the     *)
(* cache of its service (LoopOK), whatever the threads do to the global    *)
(* meanwhile.  What an entry says of itself stays true as time passes      *)
(* (CacheOK), and a response is never touched again (AnswerOK).            *)
(***************************************************************************)
EXTENDS PitchMindAPI, TLAPS

Working == {"refreshing", "rendering"}

\* A flagged entry has expired, and a payload is no older than its timestamp.
Honest(entry, key) ==
    /\ entry.fetched_at >= 0 /\ entry.fetched_at <= entry.value
    /\ entry.value <= elapsed
    /\ entry.is_stale => elapsed - entry.fetched_at >= TTL[key]

CacheOK ==
    \A s \in Requests, k \in DataKeys : caches[s][k] # None => Honest(caches[s][k], k)

ServiceOK ==
    /\ \A r \in Requests : pc[r] = "return" => service # None
    /\ \A r \in Requests :
          pc[r] \in {"ready"} \cup Working /\ route[r] # "health" => bound[r] # None

LoopOK ==
    \A r \in Requests :
        /\ pc[r] \in Working =>
              /\ loop = r /\ route[r] # "health"
              /\ held[r] = Cached(r) /\ reference[r] <= elapsed
        /\ pc[r] = "refreshing" /\ held[r] # None =>
              reference[r] - held[r].fetched_at >= TTL[Key(r)]
        /\ pc[r] = "rendering" =>
              /\ held[r] # None
              /\ IF held[r].is_stale THEN reference[r] - held[r].fetched_at >= TTL[Key(r)]
                 ELSE reference[r] - held[r].value < TTL[Key(r)]

AnswerOK ==
    /\ \A r \in Requests : response[r] # None => pc[r] = "done"
    /\ StalenessIsTold

IInv == TypeOK /\ CacheOK /\ ServiceOK /\ LoopOK /\ AnswerOK

-----------------------------------------------------------------------------
LEMMA KeyType ==
    ASSUME TypeOK, NEW r \in Requests, route[r] # "health"
    PROVE  Key(r) \in DataKeys /\ TTL[Key(r)] \in Nat /\ TTL[Key(r)] > 0
  BY TTLAssumption DEF TypeOK, Key, CacheKey, Routes, DataKeys

LEMMA InitInv == Init => IInv
  BY TimeAssumption DEF Init, IInv, TypeOK, CacheOK, ServiceOK, LoopOK, AnswerOK,
     StalenessIsTold, DataResponse, Routes, PCs, Working

\* Time passes: a flagged entry stays expired.
LEMMA TickInv == ASSUME IInv, Tick PROVE IInv'
  <1>1. elapsed' = elapsed + 1 /\ elapsed \in Nat
        /\ UNCHANGED <<hasKey, service, caches, pc, loop, request, response, lastSuccess>>
    BY TimeAssumption DEF Tick, IInv, TypeOK
  <1>2. TypeOK'
    BY <1>1, TimeAssumption DEF Tick, IInv, TypeOK, request
  <1>3. CacheOK'
    <2> SUFFICES ASSUME NEW s \in Requests, NEW k \in DataKeys, caches[s][k] # None
                 PROVE  Honest(caches[s][k], k)'
      BY <1>1 DEF CacheOK
    <2>1. Honest(caches[s][k], k) /\ caches[s][k] \in Entry /\ TTL[k] \in Nat
      BY TTLAssumption DEF IInv, CacheOK, TypeOK
    <2>2. QED
      BY <1>1, <2>1 DEF Honest, Entry
  <1>4. ServiceOK' /\ AnswerOK'
    BY <1>1 DEF IInv, ServiceOK, AnswerOK, StalenessIsTold, DataResponse, request, Key
  <1>5. LoopOK'
    <2>1. \A r \in Requests : reference[r] <= elapsed => reference[r] <= elapsed'
      BY <1>1 DEF IInv, TypeOK
    <2>2. QED
      BY <1>1, <2>1 DEF IInv, LoopOK, request, Key, Cached
  <1>6. QED
    BY <1>2, <1>3, <1>4, <1>5 DEF IInv

\* The thread pool: the routes at work and the caches are not touched.
LEMMA PoolInv ==
    ASSUME IInv, NEW r \in Requests,
           Thread(r) \/ \E path \in Traffic : Arrive(r, path)
    PROVE  IInv'
  <1>1. /\ UNCHANGED <<hasKey, elapsed, caches, loop, reference, held, response, lastSuccess>>
        /\ pc[r] \in {"idle", "check", "build", "return"}
        /\ \E to \in {"check", "build", "return", "ready"} : pc' = [pc EXCEPT ![r] = to]
        /\ \A s \in Requests \ {r} : route'[s] = route[s] /\ bound'[s] = bound[s]
        /\ route'[r] \in Routes /\ bound'[r] \in Requests \cup {None}
        /\ DOMAIN route' = Requests /\ DOMAIN bound' = Requests
        /\ route' \in [Requests -> Routes] /\ bound' \in [Requests -> Requests \cup {None}]
        /\ service' \in {service, r}
    <2>1. CASE Thread(r)
      <3>1. CASE CheckService(r)
        BY <3>1 DEF CheckService, Goto, request, IInv, TypeOK
      <3>2. CASE BuildService(r)
        BY <3>2 DEF BuildService, Goto, request, IInv, TypeOK
      <3>3. CASE ReturnService(r)
        BY <3>3 DEF ReturnService, Goto, IInv, TypeOK
      <3>4. QED
        BY <2>1, <3>1, <3>2, <3>3 DEF Thread
    <2>2. CASE \E path \in Traffic : Arrive(r, path)
      <3>1. PICK path \in Traffic : Arrive(r, path)
        BY <2>2
      <3>2. PICK to \in {"check", "ready"} : pc[r] = "idle" /\ pc' = [pc EXCEPT ![r] = to]
        BY <3>1 DEF Arrive, Goto
      <3>3. path \in Routes /\ route' = [route EXCEPT ![r] = path]
        BY <3>1, TrafficAssumption DEF Arrive
      <3>4. UNCHANGED <<hasKey, elapsed, service, caches, bound, loop, reference, held,
                        response, lastSuccess>>
        BY <3>1 DEF Arrive
      <3>5. QED
        BY <3>2, <3>3, <3>4 DEF IInv, TypeOK
    <2>3. QED
      BY <2>1, <2>2
  <1>2. \A s \in Requests : pc[s] \in Working => s # r
    BY <1>1 DEF Working
  <1>3. \A s \in Requests : s # r => pc'[s] = pc[s]
    BY <1>1 DEF IInv, TypeOK
  <1>4. pc'[r] \notin Working \cup {"done"} /\ pc[r] # "done"
    BY <1>1 DEF IInv, TypeOK, Working
  <1>5. TypeOK'
    <2>1. pc' \in [Requests -> PCs]
      BY <1>1 DEF IInv, TypeOK, PCs
    <2>2. service' \in Requests \cup {None}
      BY <1>1 DEF IInv, TypeOK
    <2>3. QED
      BY <1>1, <2>1, <2>2 DEF IInv, TypeOK
  <1>6. CacheOK'
    BY <1>1 DEF IInv, CacheOK, Honest
  <1>7. ServiceOK'
    <2>1. CASE Thread(r)
      BY <2>1, NoneAssumption DEF Thread, CheckService, BuildService, ReturnService, Goto,
         request, IInv, TypeOK, ServiceOK, Working
    <2>2. CASE \E path \in Traffic : Arrive(r, path)
      BY <2>2 DEF Arrive, Goto, IInv, TypeOK, ServiceOK, Working
    <2>3. QED
      BY <2>1, <2>2, <1>1
  <1>8. LoopOK'
    <2>1. \A s \in Requests : pc'[s] \in Working => s # r /\ pc[s] = pc'[s]
      BY <1>3, <1>4
    <2>2. QED
      BY <1>1, <2>1 DEF IInv, LoopOK, Key, Cached, Working
  <1>9. AnswerOK'
    <2>1. response[r] = None
      BY <1>4 DEF IInv, AnswerOK
    <2>2. QED
      BY <1>1, <1>3, <2>1 DEF IInv, AnswerOK, StalenessIsTold, DataResponse, Key
  <1>10. QED
    BY <1>5, <1>6, <1>7, <1>8, <1>9 DEF IInv

-----------------------------------------------------------------------------
(* The event loop: one request at a time.                                  *)

LEMMA OwnsLoop ==
    ASSUME IInv, NEW r \in Requests, OnLoop(r) \/ pc[r] \in Working
    PROVE  \A s \in Requests \ {r} : pc[s] \notin Working
  BY NoneAssumption DEF IInv, LoopOK, OnLoop

\* A response with no data, by whichever statement it is sent.
Closes(r, status) ==
    /\ pc' = [pc EXCEPT ![r] = "done"]
    /\ response' = [response EXCEPT ![r] = [status |-> status, payload |-> None,
                                           provenance |-> None, age |-> 0]]
    /\ loop' = None /\ held' = [held EXCEPT ![r] = None]
    /\ UNCHANGED <<hasKey, elapsed, service, caches, route, bound, reference, lastSuccess>>

LEMMA EmptyResponseInv ==
    ASSUME IInv, NEW r \in Requests, NEW status \in {200, 404, 429, 500, 502, 503},
           pc[r] \in {"ready"} \cup Working, OnLoop(r) \/ pc[r] \in Working,
           status = 200 => route[r] = "health",
           Closes(r, status)
    PROVE  IInv'
  <1>1. \A s \in Requests \ {r} : pc[s] \notin Working
    BY OwnsLoop
  <1>2. TypeOK'
    BY DEF Closes, IInv, TypeOK, PCs, Response
  <1>3. CacheOK' /\ ServiceOK'
    BY DEF Closes, IInv, TypeOK, CacheOK, Honest, ServiceOK, Working
  <1>4. LoopOK'
    BY <1>1 DEF Closes, IInv, TypeOK, LoopOK, Working
  <1>5. AnswerOK'
    <2>1. response'[r].status = status /\ \A s \in Requests \ {r} : response'[s] = response[s]
      BY DEF Closes, IInv, TypeOK
    <2>2. QED
      BY <2>1 DEF Closes, IInv, TypeOK, AnswerOK, StalenessIsTold, DataResponse, Key
  <1>6. QED
    BY <1>2, <1>3, <1>4, <1>5 DEF IInv

LEMMA TakeUpInv == ASSUME IInv, NEW r \in Requests, TakeUp(r) PROVE IInv'
  <1>1. CASE AnswerHealth(r)
    <2>1. pc[r] \in {"ready"} \cup Working /\ OnLoop(r)
      BY <1>1 DEF AnswerHealth, Goto
    <2>2. Closes(r, 200) /\ (200 = 200 => route[r] = "health")
      BY <1>1 DEF AnswerHealth, Goto, Respond, Closes
    <2>3. QED
      BY <2>1, <2>2, EmptyResponseInv
  <1>2. CASE RefuseUnconfigured(r)
    <2>1. pc[r] \in {"ready"} \cup Working /\ OnLoop(r)
      BY <1>2 DEF RefuseUnconfigured, Goto
    <2>2. Closes(r, 503) /\ (503 = 200 => route[r] = "health")
      BY <1>2 DEF RefuseUnconfigured, Goto, Respond, Closes
    <2>3. QED
      BY <2>1, <2>2, EmptyResponseInv
  <1>3. CASE ReadCache(r) \/ CallProvider(r)
    <2>1. /\ pc[r] = "ready" /\ OnLoop(r) /\ route[r] # "health"
          /\ loop' = r /\ reference' = [reference EXCEPT ![r] = elapsed]
          /\ held' = [held EXCEPT ![r] = Cached(r)]
          /\ UNCHANGED <<hasKey, elapsed, service, caches, route, bound, response, lastSuccess>>
          /\ \/ pc' = [pc EXCEPT ![r] = "rendering"] /\ Fresh(r)
             \/ pc' = [pc EXCEPT ![r] = "refreshing"] /\ ~Fresh(r)
      BY <1>3 DEF ReadCache, CallProvider, Goto
    <2>2. \A s \in Requests \ {r} : pc[s] \notin Working
      BY <2>1, OwnsLoop
    <2>3. bound[r] \in Requests /\ elapsed \in Nat
      BY <2>1, TimeAssumption DEF IInv, TypeOK, ServiceOK
    <2>4. Key(r) \in DataKeys /\ TTL[Key(r)] \in Nat /\ TTL[Key(r)] > 0
      BY <2>1, KeyType DEF IInv
    <2>5. PICK e, ttl : e = Cached(r) /\ ttl = TTL[Key(r)]
      OBVIOUS
    <2>6. e \in Entry \cup {None}
      BY <2>3, <2>4, <2>5 DEF IInv, TypeOK, Cached
    <2>7. e # None => Honest(e, Key(r)) /\ e \in Entry
      BY <2>3, <2>4, <2>5, <2>6 DEF IInv, CacheOK, Cached
    <2>8. /\ pc'[r] = "rendering" =>
                /\ e # None
                /\ IF e.is_stale THEN elapsed - e.fetched_at >= ttl
                   ELSE elapsed - e.value < ttl
          /\ pc'[r] = "refreshing" /\ e # None => elapsed - e.fetched_at >= ttl
      BY <2>1, <2>3, <2>4, <2>5, <2>7
         DEF IInv, TypeOK, Fresh, IsExpired, AgeSeconds, Honest, Entry
    <2>9. TypeOK'
      BY <2>1, <2>3, <2>5, <2>6 DEF IInv, TypeOK, PCs
    <2>10. CacheOK' /\ ServiceOK'
      BY <2>1 DEF IInv, TypeOK, CacheOK, Honest, ServiceOK, Working
    <2>11. LoopOK'
      <3>1. /\ reference'[r] = elapsed /\ held'[r] = e /\ elapsed' = elapsed
            /\ Key(r)' = Key(r) /\ Cached(r)' = e /\ loop' = r /\ route'[r] # "health"
            /\ \A s \in Requests \ {r} : pc'[s] \notin Working
        BY <2>1, <2>2, <2>5 DEF IInv, TypeOK, Key, Cached
      <3>2. QED
        BY <2>3, <2>5, <2>8, <3>1 DEF LoopOK, Working
    <2>12. AnswerOK'
      <3>1. response[r] = None
        BY <2>1 DEF IInv, AnswerOK
      <3>2. QED
        BY <2>1, <3>1 DEF IInv, TypeOK, AnswerOK, StalenessIsTold, DataResponse, Key
    <2>13. QED
      BY <2>9, <2>10, <2>11, <2>12 DEF IInv
  <1>4. QED
    BY <1>1, <1>2, <1>3 DEF TakeUp

\* What a refresh that went well, or fell back, stores.
LEMMA StoreInv ==
    ASSUME IInv, NEW r \in Requests, NEW entry \in Entry,
           pc[r] = "refreshing", pc' = [pc EXCEPT ![r] = "rendering"],
           Store(r, entry), Honest(entry, Key(r)),
           IF entry.is_stale THEN reference[r] - entry.fetched_at >= TTL[Key(r)]
           ELSE reference[r] - entry.value < TTL[Key(r)],
           lastSuccess' \in [DataKeys -> Nat \cup {None}],
           UNCHANGED <<hasKey, elapsed, service, route, bound, loop, reference, response>>
    PROVE  IInv'
  <1>1. \A s \in Requests \ {r} : pc[s] \notin Working
    BY OwnsLoop DEF Working
  <1>2. loop = r /\ route[r] # "health" /\ reference[r] <= elapsed
    BY DEF IInv, LoopOK, Working
  <1>3. bound[r] \in Requests /\ Key(r) \in DataKeys
    BY <1>2, KeyType DEF IInv, TypeOK, ServiceOK, Working
  <1>4. PICK k : k = Key(r)
    OBVIOUS
  <1>5. /\ caches' = [caches EXCEPT ![bound[r]][k] = entry]
        /\ held' = [held EXCEPT ![r] = entry]
    BY <1>4 DEF Store
  <1>6. TypeOK'
    BY <1>3, <1>4, <1>5 DEF IInv, TypeOK, PCs
  <1>7. CacheOK'
    <2>1. ASSUME NEW s \in Requests, NEW j \in DataKeys
          PROVE  caches'[s][j] = IF s = bound[r] /\ j = k THEN entry ELSE caches[s][j]
      BY <1>3, <1>4, <1>5 DEF IInv, TypeOK
    <2>2. QED
      BY <1>4, <2>1 DEF IInv, CacheOK, Honest
  <1>8. ServiceOK'
    BY DEF IInv, TypeOK, ServiceOK, Working
  <1>9. LoopOK'
    <2>1. Key(r)' = k /\ held'[r] = entry /\ Cached(r)' = entry
      BY <1>3, <1>4, <1>5 DEF IInv, TypeOK, Key, Cached
    <2>2. entry # None
      BY NoneAssumption
    <2>3. pc'[r] = "rendering" /\ \A s \in Requests \ {r} : pc'[s] \notin Working
      BY <1>1 DEF IInv, TypeOK
    <2>4. QED
      BY <1>2, <1>4, <2>1, <2>2, <2>3 DEF LoopOK, Working
  <1>10. AnswerOK'
    BY DEF IInv, TypeOK, AnswerOK, StalenessIsTold, DataResponse, Key
  <1>11. QED
    BY <1>6, <1>7, <1>8, <1>9, <1>10 DEF IInv

LEMMA FinishInv == ASSUME IInv, NEW r \in Requests, Finish(r) PROVE IInv'
  <1>1. pc[r] \in Working /\ elapsed \in Nat /\ reference[r] \in Nat
    BY TimeAssumption DEF Finish, ProviderSucceeds, FallBack, PropagateError, UnknownClub,
       Render, Goto, Working, IInv, TypeOK
  <1>2. /\ route[r] # "health" /\ held[r] = Cached(r) /\ reference[r] <= elapsed
        /\ bound[r] \in Requests
    BY <1>1 DEF IInv, LoopOK, ServiceOK, TypeOK
  <1>3. Key(r) \in DataKeys /\ TTL[Key(r)] \in Nat /\ TTL[Key(r)] > 0
    BY <1>2, KeyType DEF IInv
  <1>4. held[r] # None => held[r] \in Entry /\ Honest(held[r], Key(r))
    BY <1>2, <1>3 DEF IInv, TypeOK, CacheOK, Cached
  <1>5. CASE ProviderSucceeds(r)
    <2>1. PICK entry : entry = FreshEntry(elapsed, reference[r])
      OBVIOUS
    <2>2. /\ entry \in Entry /\ entry.fetched_at = reference[r] /\ entry.value = elapsed
          /\ ~entry.is_stale
      BY <1>1, <2>1 DEF FreshEntry, Entry
    <2>3. Honest(entry, Key(r))
      BY <1>1, <1>2, <2>2 DEF Honest
    <2>4. /\ pc[r] = "refreshing" /\ pc' = [pc EXCEPT ![r] = "rendering"] /\ Store(r, entry)
          /\ UNCHANGED <<hasKey, elapsed, service, route, bound, loop, reference, response>>
      BY <1>5, <2>1 DEF ProviderSucceeds, Goto
    <2>5. lastSuccess' \in [DataKeys -> Nat \cup {None}]
      BY <1>1, <1>3, <1>5 DEF ProviderSucceeds, IInv, TypeOK
    <2>6. reference[r] - entry.value < TTL[Key(r)]
      BY <1>1, <1>2, <1>3, <2>2
    <2>7. QED
      BY <2>2, <2>3, <2>4, <2>5, <2>6, StoreInv
  <1>6. CASE FallBack(r)
    <2>1. PICK entry : entry = StaleCopy(held[r])
      OBVIOUS
    <2>2. /\ pc[r] = "refreshing" /\ pc' = [pc EXCEPT ![r] = "rendering"] /\ Store(r, entry)
          /\ UNCHANGED <<hasKey, elapsed, service, route, bound, loop, reference, response>>
          /\ lastSuccess' = lastSuccess /\ held[r] # None
      BY <1>6, <2>1 DEF FallBack, Goto
    <2>3. /\ entry \in Entry /\ entry.is_stale
          /\ entry.fetched_at = held[r].fetched_at /\ entry.value = held[r].value
      BY <1>4, <2>1, <2>2 DEF StaleCopy, Entry
    <2>4. reference[r] - held[r].fetched_at >= TTL[Key(r)]
      BY <2>2 DEF IInv, LoopOK
    <2>5. Honest(entry, Key(r))
      BY <1>1, <1>2, <1>3, <1>4, <2>2, <2>3, <2>4 DEF Honest, Entry
    <2>6. lastSuccess' \in [DataKeys -> Nat \cup {None}]
      BY <2>2 DEF IInv, TypeOK
    <2>7. QED
      BY <2>2, <2>3, <2>4, <2>5, <2>6, StoreInv
  <1>7. ASSUME NEW error \in NamedErrors \cup {"unexpected"}, PropagateError(r, error)
        PROVE  IInv'
    <2>1. PICK st : st = StatusOf[error]
      OBVIOUS
    <2>2. /\ st \in {200, 404, 429, 500, 502, 503}
          /\ st = 200 => route[r] = "health"
      BY <2>1 DEF StatusOf, NamedErrors
    <2>3. Closes(r, st)
      BY <1>7, <2>1 DEF PropagateError, Goto, Respond, Closes
    <2>4. QED
      BY <1>1, <2>2, <2>3, EmptyResponseInv
  <1>8. CASE UnknownClub(r)
    <2>1. Closes(r, 404)
      BY <1>8 DEF UnknownClub, Goto, Respond, Closes
    <2>2. QED
      BY <1>1, <2>1, EmptyResponseInv
  <1>9. CASE Render(r)
    <2>1. PICK e, ttl : e = held[r] /\ ttl = TTL[Key(r)]
      OBVIOUS
    <2>2. /\ pc[r] = "rendering" /\ pc' = [pc EXCEPT ![r] = "done"]
          /\ Respond(r, 200, e.value, e)
          /\ UNCHANGED <<hasKey, elapsed, service, caches, route, bound, reference, lastSuccess>>
      BY <1>2, <1>9, <2>1 DEF Render, Goto
    <2>3. /\ e # None /\ e \in Entry /\ Honest(e, Key(r))
          /\ IF e.is_stale THEN reference[r] - e.fetched_at >= ttl
             ELSE reference[r] - e.value < ttl
      BY <1>4, <2>1, <2>2 DEF IInv, LoopOK
    <2>4. PICK age : age = AgeSeconds(e, elapsed)
      OBVIOUS
    <2>5. age \in Nat /\ (e.is_stale => age >= ttl)
      BY <1>1, <1>2, <1>3, <2>1, <2>3, <2>4 DEF AgeSeconds, Entry
    <2>6. /\ response' = [response EXCEPT ![r] = [status |-> 200, payload |-> e.value,
                                                  provenance |-> e, age |-> age]]
          /\ loop' = None /\ held' = [held EXCEPT ![r] = None]
      BY <2>2, <2>3, <2>4 DEF Respond
    <2>7. TypeOK'
      BY <2>2, <2>3, <2>5, <2>6 DEF IInv, TypeOK, PCs, Response, Entry
    <2>8. CacheOK' /\ ServiceOK'
      BY <2>2 DEF IInv, TypeOK, CacheOK, Honest, ServiceOK, Working
    <2>9. \A s \in Requests \ {r} : pc[s] \notin Working
      BY <1>1, OwnsLoop
    <2>10. LoopOK'
      BY <2>2, <2>9 DEF IInv, TypeOK, LoopOK, Working
    <2>11. AnswerOK'
      <3>1. /\ response'[r].provenance = e /\ response'[r].payload = e.value
            /\ response'[r].age = age /\ pc'[r] = "done"
            /\ \A s \in Requests \ {r} : response'[s] = response[s] /\ pc'[s] = pc[s]
        BY <2>2, <2>6 DEF IInv, TypeOK
      <3>2. QED
        BY <2>1, <2>2, <2>3, <2>5, <3>1 DEF IInv, AnswerOK, StalenessIsTold, DataResponse, Key
    <2>12. QED
      BY <2>7, <2>8, <2>10, <2>11 DEF IInv
  <1>10. QED
    BY <1>5, <1>6, <1>7, <1>8, <1>9 DEF Finish

LEMMA NextInv == IInv /\ [Next]_vars => IInv'
  <1> SUFFICES ASSUME IInv, [Next]_vars PROVE IInv'
    OBVIOUS
  <1>1. CASE UNCHANGED vars
    BY <1>1 DEF vars, IInv, TypeOK, CacheOK, Honest, ServiceOK, LoopOK, AnswerOK,
       StalenessIsTold, DataResponse, Key, Cached
  <1>2. CASE Tick
    BY <1>2, TickInv
  <1>3. CASE \E r \in Requests, path \in Traffic : Arrive(r, path)
    BY <1>3, PoolInv
  <1>4. CASE \E r \in Requests : Thread(r) \/ TakeUp(r) \/ Finish(r)
    BY <1>4, PoolInv, TakeUpInv, FinishInv
  <1>5. QED
    BY <1>1, <1>2, <1>3, <1>4 DEF Next

THEOREM AlwaysIInv == Spec => []IInv
  BY InitInv, NextInv, PTL DEF Spec

-----------------------------------------------------------------------------
\* The routes at work keep to the service and the key they were given
\* (get_service, _provenance).
THEOREM TypeCorrect == Spec => []TypeOK
  <1>1. IInv => TypeOK
    BY DEF IInv
  <1>2. QED
    BY <1>1, AlwaysIInv, PTL

\* Unflagged data of a response is recent and flagged data is shown with its
\* age, however long the provider took and whoever refreshed before.
THEOREM StalenessAlwaysTold == Spec => []StalenessIsTold
  <1>1. IInv => StalenessIsTold
    BY DEF IInv, AnswerOK
  <1>2. QED
    BY <1>1, AlwaysIInv, PTL

\* No service asks its provider again within one time to live of a success
\* (get_or_refresh behind the event loop).
THEOREM OneRequestPerWindow == Spec => []OneRequestPerServiceWindow
  <1>1. IInv => OneRequestPerServiceWindow
    BY DEF IInv, LoopOK, Working, OneRequestPerServiceWindow
  <1>2. QED
    BY <1>1, AlwaysIInv, PTL

-----------------------------------------------------------------------------
(* What responses say, and of which route they are.                        *)

\* A request that has its response is left alone.
LeftAlone(r) ==
    /\ response'[r] = response[r]
    /\ pc'[r] = "done" => pc[r] = "done" /\ route'[r] = route[r]

\* The ways in which a request gets its response: the health route, a refusal
\* or a failure, which the live route has none of, and data.
Sent(r) ==
    /\ route'[r] = route[r]
    /\ \/ response'[r].status = 200 /\ route[r] = "health"
       \/ response'[r].status # 200 /\ route[r] \notin {"health", "live"}
       \/ /\ response'[r].status = 200
          /\ response'[r].provenance # None
          /\ response'[r].provenance.value = response'[r].payload

LEMMA TakenUp ==
    ASSUME IInv, NEW r \in Requests, TakeUp(r)
    PROVE  LeftAlone(r) \/ Sent(r)
  <1>1. CASE AnswerHealth(r)
    <2>1. route' = route /\ route[r] = "health" /\ Closes(r, 200)
      BY <1>1 DEF AnswerHealth, Goto, Respond, Closes
    <2>2. response'[r].status = 200
      BY <2>1 DEF Closes, IInv, TypeOK
    <2>3. QED
      BY <2>1, <2>2 DEF Sent
  <1>2. CASE RefuseUnconfigured(r)
    <2>1. /\ route' = route /\ route[r] # "health" /\ Key(r) # "live"
          /\ Closes(r, 503)
      BY <1>2 DEF RefuseUnconfigured, Unconfigured, Goto, Respond, Closes
    <2>2. route[r] # "live"
      BY <2>1 DEF Key, CacheKey
    <2>3. response'[r].status = 503
      BY <2>1 DEF Closes, IInv, TypeOK
    <2>4. QED
      BY <2>1, <2>2, <2>3 DEF Sent
  <1>3. CASE ReadCache(r) \/ CallProvider(r)
    <2>1. /\ response' = response
          /\ \E to \in {"rendering", "refreshing"} : pc' = [pc EXCEPT ![r] = to]
      BY <1>3 DEF ReadCache, CallProvider, Goto
    <2>2. QED
      BY <2>1 DEF LeftAlone, IInv, TypeOK
  <1>4. QED
    BY <1>1, <1>2, <1>3 DEF TakeUp

LEMMA Finished ==
    ASSUME IInv, NEW r \in Requests, Finish(r)
    PROVE  LeftAlone(r) \/ Sent(r)
  <1>1. CASE ProviderSucceeds(r) \/ FallBack(r)
    <2>1. response' = response /\ pc' = [pc EXCEPT ![r] = "rendering"]
      BY <1>1 DEF ProviderSucceeds, FallBack, Goto
    <2>2. QED
      BY <2>1 DEF LeftAlone, IInv, TypeOK
  <1>2. ASSUME NEW error \in NamedErrors \cup {"unexpected"}, PropagateError(r, error)
        PROVE  Sent(r)
    <2>1. PICK status : status = StatusOf[error]
      OBVIOUS
    <2>2. route' = route /\ Key(r) # "live" /\ Closes(r, status)
      BY <1>2, <2>1 DEF PropagateError, Goto, Respond, Closes, Errors
    <2>3. route[r] \notin {"health", "live"}
      <3>1. route[r] # "health"
        BY <1>2 DEF PropagateError, Goto, IInv, LoopOK, Working
      <3>2. QED
        BY <2>2, <3>1 DEF Key, CacheKey
    <2>4. status # 200
      BY <2>1 DEF StatusOf, NamedErrors
    <2>5. response'[r].status = status
      BY <2>2 DEF Closes, IInv, TypeOK
    <2>6. QED
      BY <2>2, <2>3, <2>4, <2>5 DEF Sent
  <1>3. CASE UnknownClub(r)
    <2>1. route' = route /\ route[r] = "team" /\ Closes(r, 404)
      BY <1>3 DEF UnknownClub, Goto, Respond, Closes
    <2>2. response'[r].status = 404
      BY <2>1 DEF Closes, IInv, TypeOK
    <2>3. QED
      BY <2>1, <2>2 DEF Sent
  <1>4. CASE Render(r)
    <2>1. /\ held[r] = Cached(r) /\ held[r] # None
      BY <1>4 DEF Render, Goto, IInv, LoopOK, Working
    <2>2. PICK e : e = held[r]
      OBVIOUS
    <2>3. PICK age : age = IF Cached(r) = None THEN 0 ELSE AgeSeconds(Cached(r), elapsed)
      OBVIOUS
    <2>4. response' = [response EXCEPT ![r] = [status |-> 200, payload |-> e.value,
                                               provenance |-> e, age |-> age]]
      BY <1>4, <2>1, <2>2, <2>3 DEF Render, Respond
    <2>5. /\ response'[r].status = 200 /\ response'[r].payload = e.value
          /\ response'[r].provenance = e
      BY <2>4 DEF IInv, TypeOK
    <2>6. route' = route
      BY <1>4 DEF Render
    <2>7. QED
      BY <2>1, <2>2, <2>5, <2>6 DEF Sent
  <1>5. QED
    BY <1>1, <1>2, <1>3, <1>4 DEF Finish

LEMMA ResponseStep ==
    ASSUME IInv, [Next]_vars, NEW r \in Requests
    PROVE  LeftAlone(r) \/ Sent(r)
  <1>1. CASE UNCHANGED vars
    BY <1>1 DEF vars, LeftAlone
  <1>2. CASE Tick
    BY <1>2 DEF Tick, request, LeftAlone
  <1>3. ASSUME NEW s \in Requests, NEW path \in Traffic, Arrive(s, path)
        PROVE  LeftAlone(r)
    <2>1. PICK to \in {"ready", "check"} :
            /\ response' = response /\ pc' = [pc EXCEPT ![s] = to]
            /\ route' = [route EXCEPT ![s] = path]
      BY <1>3 DEF Arrive, Goto
    <2>2. QED
      BY <2>1 DEF LeftAlone, IInv, TypeOK
  <1>4. ASSUME NEW s \in Requests, Thread(s)
        PROVE  LeftAlone(r)
    <2>1. /\ response' = response /\ route' = route
          /\ \E to \in {"build", "return", "ready"} : pc' = [pc EXCEPT ![s] = to]
      BY <1>4 DEF Thread, CheckService, BuildService, ReturnService, Goto, request
    <2>2. QED
      BY <2>1 DEF LeftAlone, IInv, TypeOK
  <1>5. ASSUME NEW s \in Requests, TakeUp(s) \/ Finish(s), s # r
        PROVE  LeftAlone(r)
    <2>1. /\ route' = route
          /\ \E to : pc' = [pc EXCEPT ![s] = to]
          /\ response' = response \/ \E x : response' = [response EXCEPT ![s] = x]
      BY <1>5 DEF TakeUp, Finish, AnswerHealth, RefuseUnconfigured, ReadCache, CallProvider,
         ProviderSucceeds, FallBack, PropagateError, UnknownClub, Render, Respond, Goto
    <2>2. QED
      BY <1>5, <2>1 DEF LeftAlone, IInv, TypeOK
  <1>6. QED
    BY <1>1, <1>2, <1>3, <1>4, <1>5, TakenUp, Finished DEF Next

\* The second read of the cache (_provenance) sees the entry that the route
\* was answered from.
THEOREM ProvenanceAlwaysDescribes == Spec => []ProvenanceDescribesPayload
  <1>1. Init => ProvenanceDescribesPayload
    BY DEF Init, ProvenanceDescribesPayload, DataResponse
  <1>2. IInv /\ IInv' /\ ProvenanceDescribesPayload /\ [Next]_vars =>
            ProvenanceDescribesPayload'
    <2> SUFFICES ASSUME IInv, IInv', ProvenanceDescribesPayload, [Next]_vars,
                        NEW r \in Requests, DataResponse(r)'
                 PROVE  /\ response'[r].provenance # None
                        /\ response'[r].provenance.value = response'[r].payload
      BY DEF ProvenanceDescribesPayload
    <2>1. pc'[r] = "done"
      BY DEF DataResponse, IInv, AnswerOK
    <2>2. CASE LeftAlone(r)
      <3>1. DataResponse(r) /\ response'[r] = response[r]
        BY <2>1, <2>2 DEF LeftAlone, DataResponse
      <3>2. QED
        BY <3>1 DEF ProvenanceDescribesPayload
    <2>3. CASE Sent(r)
      BY <2>3 DEF Sent, DataResponse
    <2>4. QED
      BY <2>2, <2>3, ResponseStep
  <1>3. QED
    BY <1>1, <1>2, AlwaysIInv, PTL DEF Spec

\* The routes that need no key answer with data (header of main.py), whoever
\* holds the event loop and whatever the provider does.
THEOREM KeylessRoutesAlwaysServe == Spec => []KeylessRoutesServe
  <1>1. Init => KeylessRoutesServe
    BY DEF Init, KeylessRoutesServe
  <1>2. IInv /\ KeylessRoutesServe /\ [Next]_vars => KeylessRoutesServe'
    <2> SUFFICES ASSUME IInv, KeylessRoutesServe, [Next]_vars, NEW r \in Requests,
                        pc'[r] = "done", route'[r] \in {"health", "live"}
                 PROVE  response'[r].status = 200
      BY DEF KeylessRoutesServe
    <2>1. CASE LeftAlone(r)
      BY <2>1 DEF LeftAlone, KeylessRoutesServe
    <2>2. CASE Sent(r)
      BY <2>2 DEF Sent
    <2>3. QED
      BY <2>1, <2>2, ResponseStep
  <1>3. QED
    BY <1>1, <1>2, AlwaysIInv, PTL DEF Spec

\* A provider's error reaches a client only where nothing is cached
\* (get_or_refresh, "NEVER discarded on a failed refresh").
THEOREM ErrorsOnlyWithNothingCached == Spec => ErrorOnlyWithNothingCached
  <1>1. ASSUME IInv, [Next]_vars, NEW r \in Requests,
               pc[r] = "refreshing", response'[r] # None,
               response'[r].status \in {404, 429, 502, 503}
        PROVE  Cached(r) = None
    <2>1. response[r] = None /\ held[r] = Cached(r)
      BY <1>1 DEF IInv, AnswerOK, LoopOK, Working
    <2>2. response' # response
      BY <1>1, <2>1
    <2>3. PICK s \in Requests : TakeUp(s) \/ Finish(s)
      BY <1>1, <2>2 DEF Next, vars, Tick, Arrive, Thread, CheckService, BuildService,
         ReturnService
    <2>4. s = r
      <3>1. CASE s # r
        BY <1>1, <2>1, <2>3, <3>1 DEF TakeUp, Finish, AnswerHealth, RefuseUnconfigured,
           ReadCache, CallProvider, ProviderSucceeds, FallBack, PropagateError, UnknownClub,
           Render, Respond, IInv, TypeOK
      <3>2. QED
        BY <3>1
    <2>5. PICK error \in NamedErrors \cup {"unexpected"} : PropagateError(r, error)
      BY <1>1, <2>2, <2>3, <2>4 DEF TakeUp, Finish, AnswerHealth, RefuseUnconfigured,
         ReadCache, CallProvider, ProviderSucceeds, FallBack, UnknownClub, Render, Goto
    <2>6. response'[r].status = StatusOf[error]
      <3>1. PICK status : status = StatusOf[error]
        OBVIOUS
      <3>2. response' = [response EXCEPT ![r] = [status |-> status, payload |-> None,
                                                 provenance |-> None, age |-> 0]]
        BY <2>5, <3>1 DEF PropagateError, Respond
      <3>3. QED
        BY <1>1, <3>1, <3>2 DEF IInv, TypeOK
    <2>7. error # "unexpected"
      BY <1>1, <2>6 DEF StatusOf
    <2>8. QED
      BY <2>1, <2>5, <2>7 DEF PropagateError
  <1>2. IInv /\ [Next]_vars =>
          [\A r \in Requests :
              (pc[r] = "refreshing" /\ response'[r] # None
                 /\ response'[r].status \in {404, 429, 502, 503}) => Cached(r) = None]_vars
    BY <1>1
  <1>3. QED
    BY <1>2, AlwaysIInv, PTL DEF Spec, ErrorOnlyWithNothingCached

\* Once a service is published and no thread is between the check and the
\* assignment, no later request ever builds another (get_service).
THEOREM ServiceAlwaysSettles == Spec => ServiceSettles
  <1> SUFFICES ASSUME NEW s \in Requests
               PROVE  Spec => []((service = s /\ \A r \in Requests : pc[r] \notin {"check", "build"})
                                   => [](service = s))
    BY DEF ServiceSettles
  <1> DEFINE Settled == service = s /\ \A r \in Requests : pc[r] # "build"
  <1>1. IInv /\ Settled /\ [Next]_vars => Settled'
    <2> SUFFICES ASSUME IInv, Settled, [Next]_vars PROVE Settled'
      OBVIOUS
    <2>1. s # None
      BY NoneAssumption
    <2>2. CASE UNCHANGED vars \/ Tick
      BY <2>2 DEF vars, Tick
    <2>3. ASSUME NEW r \in Requests, NEW path \in Traffic, Arrive(r, path)
          PROVE  Settled'
      BY <2>3 DEF Arrive, Goto, IInv, TypeOK
    <2>4. ASSUME NEW r \in Requests, Thread(r)
          PROVE  Settled'
      BY <2>1, <2>4 DEF Thread, CheckService, BuildService, ReturnService, Goto, IInv, TypeOK
    <2>5. ASSUME NEW r \in Requests, TakeUp(r) \/ Finish(r)
          PROVE  Settled'
      <3>1. service' = service
        BY <2>5 DEF TakeUp, Finish, AnswerHealth, RefuseUnconfigured, ReadCache, CallProvider,
           ProviderSucceeds, FallBack, PropagateError, UnknownClub, Render
      <3>2. \E to \in {"refreshing", "rendering", "done"} : pc' = [pc EXCEPT ![r] = to]
        BY <2>5 DEF TakeUp, Finish, AnswerHealth, RefuseUnconfigured, ReadCache, CallProvider,
           ProviderSucceeds, FallBack, PropagateError, UnknownClub, Render, Goto
      <3>3. QED
        BY <3>1, <3>2 DEF IInv, TypeOK
    <2>6. QED
      BY <2>2, <2>3, <2>4, <2>5 DEF Next
  <1>2. Settled => service = s
    OBVIOUS
  <1>3. (service = s /\ \A r \in Requests : pc[r] \notin {"check", "build"}) => Settled
    OBVIOUS
  <1> HIDE DEF Settled
  <1>4. QED
    BY <1>1, <1>2, <1>3, AlwaysIInv, PTL DEF Spec
=============================================================================
