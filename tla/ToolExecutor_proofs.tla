------------------------ MODULE ToolExecutor_proofs ------------------------
(***************************************************************************)
(* Proofs about the tool executor, for every registry, every set of        *)
(* spellings and tools, and any number of calls.                           *)
(*                                                                         *)
(* The argument: a dedup key stands for exactly one operation (KeyLemma),  *)
(* and the ledger's index is a bijection between the keys in use and the   *)
(* evidence (IInv).                                                        *)
(***************************************************************************)
EXTENDS ToolExecutor, TLAPS

(* Calls, keys and operations.                                             *)

LEMMA CallFields ==
    ASSUME NEW c \in Call
    PROVE  /\ c \in [tool : Offered, args : Args, extra : Extras]
           /\ c.tool \in Tools
           /\ c.args \in [TeamFields -> Spellings \cup {None}]
           /\ Required(c.tool) \subseteq Given(c.args)
           /\ DedupKey(c) \in Key
  BY RegistryAssumption DEF Call, Args, Key

\* The canonical form of a spelling is never None.
LEMMA CanonicalIsSome ==
    ASSUME NEW s \in Spellings
    PROVE  CanonicalTeam(s) # None
  BY RegistryAssumption, FoldedAssumption DEF CanonicalTeam

\* Two spellings have the same canonical form exactly if the registry takes
\* them for the same club, or for none and they fold to the same text.
LEMMA CanonicalLemma ==
    ASSUME NEW s \in Spellings, NEW t \in Spellings,
           CanonicalTeam(s) = CanonicalTeam(t)
    PROVE  /\ ClubOf[s] = ClubOf[t]
           /\ ClubOf[s] = None => Folded[s] = Folded[t]
  BY RegistryAssumption, FoldedAssumption DEF CanonicalTeam

\* Calls with the same key name clubs in the same fields, and the same ones.
LEMMA SameKey ==
    ASSUME NEW c \in Call, NEW d \in Call, DedupKey(c) = DedupKey(d),
           NEW field \in TeamFields
    PROVE  /\ c.tool = d.tool
           /\ c.extra = d.extra
           /\ (c.args[field] = None) <=> (d.args[field] = None)
           /\ c.args[field] # None =>
                /\ ClubOf[c.args[field]] = ClubOf[d.args[field]]
                /\ ClubOf[c.args[field]] = None =>
                     Folded[c.args[field]] = Folded[d.args[field]]
  <1> DEFINE Team(e) == IF e.args[field] = None THEN None
                        ELSE CanonicalTeam(e.args[field])
  <1>1. c.args[field] \in Spellings \cup {None}
    BY CallFields
  <1>2. d.args[field] \in Spellings \cup {None}
    BY CallFields
  <1>3. /\ c.tool = d.tool
        /\ c.extra = d.extra
        /\ DedupKey(c).teams = DedupKey(d).teams
    BY DEF DedupKey
  <1>4. DedupKey(c).teams[field] = Team(c) /\ DedupKey(d).teams[field] = Team(d)
    BY DEF DedupKey
  <1>5. Team(c) = Team(d)
    BY <1>3, <1>4
  <1>6. (c.args[field] = None) <=> (d.args[field] = None)
    BY <1>1, <1>2, <1>5, CanonicalIsSome
  <1>7. c.args[field] # None =>
          CanonicalTeam(c.args[field]) = CanonicalTeam(d.args[field])
    BY <1>5, <1>6
  <1>8. QED
    BY <1>1, <1>2, <1>3, <1>6, <1>7, CanonicalLemma

\* A key stands for one operation, and an operation has one key.
LEMMA KeyLemma ==
    ASSUME NEW c \in Call, NEW d \in Call
    PROVE  (DedupKey(c) = DedupKey(d)) <=> (Operation(c) = Operation(d))
  <1> DEFINE Who(e, field) ==
               IF e.args[field] = None THEN <<"absent">>
               ELSE IF ClubOf[e.args[field]] = None
                      THEN <<"unknown", Folded[e.args[field]]>>
                      ELSE <<"club", ClubOf[e.args[field]]>>
  <1>1. ASSUME DedupKey(c) = DedupKey(d)
        PROVE  Operation(c) = Operation(d)
    <2>1. c.tool = d.tool /\ c.extra = d.extra
      BY <1>1 DEF DedupKey
    <2>2. ASSUME NEW field \in TeamFields
          PROVE  Who(c, field) = Who(d, field)
      BY <1>1, SameKey
    <2>3. [field \in TeamFields |-> Who(c, field)]
            = [field \in TeamFields |-> Who(d, field)]
      BY <2>2
    <2>4. QED
      BY <2>1, <2>3 DEF Operation
  <1>2. ASSUME Operation(c) = Operation(d)
        PROVE  DedupKey(c) = DedupKey(d)
    <2>1. c.tool = d.tool /\ c.extra = d.extra
      BY <1>2 DEF Operation
    <2>2. ASSUME NEW field \in TeamFields
          PROVE  (IF c.args[field] = None THEN None
                    ELSE CanonicalTeam(c.args[field]))
                 = (IF d.args[field] = None THEN None
                    ELSE CanonicalTeam(d.args[field]))
      <3>1. Operation(c).teams[field] = Who(c, field)
        BY DEF Operation
      <3>2. Operation(d).teams[field] = Who(d, field)
        BY DEF Operation
      <3>3. Who(c, field) = Who(d, field)
        BY <1>2, <3>1, <3>2
      <3>4. QED
        BY <3>3 DEF CanonicalTeam
    <2>3. QED
      BY <2>1, <2>2 DEF DedupKey
  <1>3. QED
    BY <1>1, <1>2

\* The failures of a call depend on its operation only: evidence is reused for
\* an answerable call only if the one it was produced for was answerable.
LEMMA AnswerableLemma ==
    ASSUME NEW c \in Call, NEW d \in Call, DedupKey(c) = DedupKey(d),
           Answerable(c)
    PROVE  Answerable(d)
  <1>1. c.tool = d.tool
    BY SameKey DEF TeamFields
  <1>2. \A field \in TeamFields :
          (field \in Given(c.args)) <=> (field \in Given(d.args))
    BY SameKey DEF Given
  <1>3. \A field \in Given(c.args) :
          ClubOf[c.args[field]] = ClubOf[d.args[field]]
    BY SameKey DEF Given
  <1>4. CASE c.tool = "get_scoreline_prediction"
    <2>1. {"home_team", "away_team"} \subseteq Given(c.args)
      BY <1>4, CallFields DEF Required
    <2>2. Plays(c.args["home_team"]) /\ Plays(c.args["away_team"])
      BY <1>4 DEF Answerable, TeamErrors
    <2>3. Plays(d.args["home_team"]) /\ Plays(d.args["away_team"])
      BY <1>3, <2>1, <2>2 DEF Plays
    <2>4. QED
      BY <1>1, <1>4, <2>3 DEF Answerable, TeamErrors
  <1>5. CASE c.tool # "get_scoreline_prediction"
    <2>1. \A field \in Given(c.args) : ClubOf[c.args[field]] # None
      BY <1>5 DEF Answerable, TeamErrors
    <2>2. \A field \in Given(d.args) : ClubOf[d.args[field]] # None
      BY <1>2, <1>3, <2>1 DEF Given
    <2>3. QED
      BY <1>1, <1>5, <2>2 DEF Answerable, TeamErrors
  <1>6. QED
    BY <1>4, <1>5

\* The table of codes has each class before its base classes, so that the
\* first row that matches is the class of the exception itself.
LEMMA CodeLemma ==
    ASSUME NEW exc \in Exceptions, Expected(exc)
    PROVE  CodeOf(exc) = exc
  <1>1. DOMAIN ErrorCodes = 1..8
    BY DEF ErrorCodes
  <1>2. exc \in DOMAIN Ancestors
    BY DEF Exceptions
  <1>3. PICK i \in 1..8 : /\ ErrorCodes[i] = exc
                          /\ Matches(exc, i)
                          /\ \A j \in 1..(i - 1) : ~Matches(exc, j)
    BY <1>1, <1>2 DEF Expected, Matches, ErrorCodes, Ancestors
  <1>4. ASSUME NEW k \in 1..8, Matches(exc, k),
               \A j \in 1..(k - 1) : ~Matches(exc, j)
        PROVE  k = i
    BY <1>3, <1>4
  <1>5. QED
    BY <1>1, <1>3, <1>4 DEF CodeOf

-----------------------------------------------------------------------------
(* The inductive invariant.                                                *)

\* Each item is filed under the key of the call that produced it, and that
\* call names no club that nobody knows.
ItemsFiled ==
    \A i \in DOMAIN items :
        /\ items[i].dedup_key = DedupKey(items[i].call)
        /\ Answerable(items[i].call)

IInv ==
    /\ TypeOK
    /\ LedgerIndexed
    /\ ItemsFiled
    /\ EvidenceAnswersCall
    /\ FailuresKeepTheirCause

LEMMA InitInv == Init => IInv
  <1> SUFFICES ASSUME Init PROVE IInv
    OBVIOUS
  <1>1. TypeOK
    BY RegistryAssumption DEF Init, TypeOK, Result
  <1>2. LedgerIndexed /\ ItemsFiled /\ FailuresKeepTheirCause
    BY DEF Init, LedgerIndexed, ItemsFiled, FailuresKeepTheirCause
  <1>3. EvidenceAnswersCall
    BY DEF Init, EvidenceAnswersCall
  <1>4. QED
    BY <1>1, <1>2, <1>3 DEF IInv

\* Steps that leave the ledger's evidence alone and return none preserve
\* the invariant.
LEMMA LedgerUntouched ==
    ASSUME IInv, UNCHANGED <<items, byDedupKey, configured>>,
           calls' \in 0..MaxCalls, result' \in Result,
           result'.kind # "evidence",
           failures' \in Seq(Failure), FailuresKeepTheirCause'
    PROVE  IInv'
  <1>1. TypeOK'
    BY DEF IInv, TypeOK
  <1>2. LedgerIndexed' /\ ItemsFiled'
    BY DEF IInv, LedgerIndexed, ItemsFiled
  <1>3. EvidenceAnswersCall'
    BY DEF EvidenceAnswersCall
  <1>4. QED
    BY <1>1, <1>2, <1>3 DEF IInv

\* A failure whose code is that of its cause may be recorded.
LEMMA FailureRecorded ==
    ASSUME IInv, NEW f \in Failure, f.cause # None => f.code = f.cause,
           failures' = Append(failures, f)
    PROVE  failures' \in Seq(Failure) /\ FailuresKeepTheirCause'
  <1>1. failures \in Seq(Failure)
    BY DEF IInv, TypeOK
  <1>2. failures' \in Seq(Failure)
    BY <1>1
  <1>3. ASSUME NEW i \in DOMAIN failures', failures'[i].cause # None
        PROVE  failures'[i].code = failures'[i].cause
    <2>1. CASE i \in DOMAIN failures
      BY <1>1, <1>3, <2>1 DEF IInv, FailuresKeepTheirCause
    <2>2. CASE i \notin DOMAIN failures
      <3>1. failures'[i] = f
        BY <1>1, <1>3, <2>2
      <3>2. QED
        BY <1>3, <3>1
    <2>3. QED
      BY <2>1, <2>2
  <1>4. QED
    BY <1>2, <1>3 DEF FailuresKeepTheirCause

LEMMA CallsCounted ==
    ASSUME TypeOK, Counted
    PROVE  calls' \in 0..MaxCalls /\ configured' = configured
  BY RegistryAssumption DEF TypeOK, Counted

LEMMA RefuseInv ==
    ASSUME IInv, NEW code \in Refusals, Refuse(code)
    PROVE  IInv'
  <1>1. [code |-> code, cause |-> None, call |-> None] \in Failure
    BY DEF Failure
  <1>2. failures' \in Seq(Failure) /\ FailuresKeepTheirCause'
    BY <1>1, FailureRecorded DEF Refuse
  <1>3. result' \in Result /\ result'.kind # "evidence"
    BY DEF Refuse, Result
  <1>4. QED
    BY <1>2, <1>3, CallsCounted, LedgerUntouched DEF Refuse, IInv

LEMMA FailInv ==
    ASSUME IInv, NEW c \in Call,
           NEW code \in Exceptions \cup {"service_not_configured"},
           NEW cause \in Exceptions \cup {None},
           cause # None => code = cause, Fail(c, code, cause)
    PROVE  IInv'
  <1>1. [code |-> code, cause |-> cause, call |-> c] \in Failure
    BY DEF Failure
  <1>2. failures' \in Seq(Failure) /\ FailuresKeepTheirCause'
    BY <1>1, FailureRecorded DEF Fail
  <1>3. result' \in Result /\ result'.kind # "evidence"
    BY DEF Fail, Result
  <1>4. QED
    BY <1>2, <1>3, CallsCounted, LedgerUntouched DEF Fail, IInv

LEMMA CrashInv ==
    ASSUME IInv, NEW c \in Call, NEW exc, ToolCrashes(c, exc)
    PROVE  IInv'
  <1>1. failures' \in Seq(Failure) /\ FailuresKeepTheirCause'
    BY DEF ToolCrashes, IInv, TypeOK, FailuresKeepTheirCause
  <1>2. result' \in Result /\ result'.kind # "evidence"
    BY DEF ToolCrashes, Result
  <1>3. QED
    BY <1>1, <1>2, CallsCounted, LedgerUntouched DEF ToolCrashes, IInv

\* Evidence that is there answers every call with its key.
LEMMA ReuseInv ==
    ASSUME IInv, NEW c \in Call, Reuse(c)
    PROVE  IInv'
  <1> DEFINE k == DedupKey(c)
             i == byDedupKey[k]
  <1>1. k \in DOMAIN byDedupKey /\ i \in DOMAIN items
    BY DEF Reuse, Known, IInv, TypeOK
  <1>2. items[i].call \in Call
    <2>1. items[i] \in Evidence
      BY <1>1 DEF IInv, TypeOK
    <2>2. QED
      BY <2>1 DEF Evidence
  <1>3. PICK j \in DOMAIN items : items[j].dedup_key = k
    BY <1>1 DEF IInv, LedgerIndexed
  <1>4. j = i
    BY <1>3 DEF IInv, LedgerIndexed
  <1>5. DedupKey(items[i].call) = k /\ Answerable(items[i].call)
    BY <1>1, <1>3, <1>4 DEF IInv, ItemsFiled
  <1>6. Operation(items[i].call) = Operation(c)
    BY <1>2, <1>5, KeyLemma
  <1>7. Answerable(c)
    BY <1>2, <1>5, AnswerableLemma
  <1>8. result' = [kind |-> "evidence", call |-> c, item |-> i]
    BY DEF Reuse
  <1>9. i \in Nat
    BY <1>1 DEF IInv, TypeOK
  <1>10. result' \in Result
    BY <1>8, <1>9 DEF Result
  <1>11. TypeOK'
    BY <1>10, CallsCounted DEF Reuse, IInv, TypeOK
  <1>12. EvidenceAnswersCall'
    <2>1. items' = items
      BY DEF Reuse
    <2>2. result'.item = i /\ result'.call = c
      BY <1>8
    <2>3. i \in DOMAIN items' /\ Operation(items'[i].call) = Operation(c)
      BY <1>1, <1>6, <2>1
    <2>4. QED
      BY <1>7, <2>2, <2>3 DEF EvidenceAnswersCall
  <1>13. LedgerIndexed' /\ ItemsFiled' /\ FailuresKeepTheirCause'
    BY DEF Reuse, IInv, LedgerIndexed, ItemsFiled, FailuresKeepTheirCause
  <1>14. QED
    BY <1>11, <1>12, <1>13 DEF IInv

\* New evidence takes the next place and a key that nothing is filed under.
LEMMA AnswersInv ==
    ASSUME IInv, NEW c \in Call, ToolAnswers(c)
    PROVE  IInv'
  <1> DEFINE k == DedupKey(c)
             n == Len(items) + 1
             item == [id |-> n, call |-> c, dedup_key |-> k]
  <1>1. items \in Seq(Evidence) /\ n \in Nat \ {0}
    BY DEF IInv, TypeOK
  <1>2. k \in Key /\ item \in Evidence
    BY <1>1, CallFields DEF Evidence
  <1>3. /\ items' = Append(items, item)
        /\ byDedupKey' = Indexed(k, n)
        /\ result' = [kind |-> "evidence", call |-> c, item |-> n]
        /\ failures' = failures
        /\ Answerable(c)
        /\ k \notin DOMAIN byDedupKey
    BY DEF ToolAnswers, Add, Known
  <1>4. /\ items' \in Seq(Evidence)
        /\ DOMAIN items' = DOMAIN items \cup {n}
        /\ n \notin DOMAIN items
        /\ items'[n] = item
        /\ \A i \in DOMAIN items : items'[i] = items[i]
    BY <1>1, <1>2, <1>3
  <1>5. /\ DOMAIN byDedupKey' = DOMAIN byDedupKey \cup {k}
        /\ byDedupKey'[k] = n
        /\ \A m \in DOMAIN byDedupKey : byDedupKey'[m] = byDedupKey[m]
    BY <1>3 DEF Indexed
  <1>6. TypeOK'
    <2>1. DOMAIN byDedupKey' \subseteq Key
      BY <1>2, <1>5 DEF IInv, TypeOK
    <2>2. \A m \in DOMAIN byDedupKey' : byDedupKey'[m] \in DOMAIN items'
      BY <1>4, <1>5 DEF IInv, TypeOK
    <2>3. result' \in Result
      BY <1>1, <1>3 DEF Result
    <2>4. calls' \in 0..MaxCalls /\ configured' = configured
      BY CallsCounted DEF IInv, ToolAnswers
    <2>5. QED
      BY <1>3, <1>4, <2>1, <2>2, <2>3, <2>4 DEF IInv, TypeOK
  <1>7. LedgerIndexed'
    <2>1. \A i \in DOMAIN items : items'[i].dedup_key = items[i].dedup_key
      BY <1>4
    <2>2. items'[n].dedup_key = k /\ items'[n].id = n
      BY <1>4
    <2>3. DOMAIN byDedupKey' = {items'[i].dedup_key : i \in DOMAIN items'}
      BY <1>4, <1>5, <2>1, <2>2 DEF IInv, LedgerIndexed
    <2>4. ASSUME NEW i \in DOMAIN items'
          PROVE  byDedupKey'[items'[i].dedup_key] = i /\ items'[i].id = i
      <3>1. CASE i = n
        BY <3>1, <1>5, <2>2
      <3>2. CASE i \in DOMAIN items
        <4>1. items[i].dedup_key \in DOMAIN byDedupKey
          BY <3>2 DEF IInv, LedgerIndexed
        <4>2. byDedupKey[items[i].dedup_key] = i /\ items[i].id = i
          BY <3>2 DEF IInv, LedgerIndexed
        <4>3. QED
          BY <1>4, <1>5, <3>2, <4>1, <4>2
      <3>3. QED
        BY <1>4, <3>1, <3>2
    <2>5. QED
      BY <2>3, <2>4 DEF LedgerIndexed
  <1>8. ItemsFiled'
    BY <1>3, <1>4 DEF IInv, ItemsFiled
  <1>9. EvidenceAnswersCall'
    <2>1. result'.item = n /\ result'.call = c
      BY <1>3
    <2>2. n \in DOMAIN items' /\ items'[n].call = c
      BY <1>4
    <2>3. QED
      BY <1>3, <2>1, <2>2 DEF EvidenceAnswersCall
  <1>10. FailuresKeepTheirCause'
    BY <1>3 DEF IInv, FailuresKeepTheirCause
  <1>11. QED
    BY <1>6, <1>7, <1>8, <1>9, <1>10 DEF IInv

LEMMA NextInv == IInv /\ [Next]_vars => IInv'
  <1> SUFFICES ASSUME IInv, [Next]_vars PROVE IInv'
    OBVIOUS
  <1>1. ASSUME NEW code \in Refusals, Refuse(code)
        PROVE  IInv'
    BY <1>1, RefuseInv
  <1>2. ASSUME NEW c \in Call, NoService(c)
        PROVE  IInv'
    BY <1>2, FailInv DEF NoService
  <1>3. ASSUME NEW c \in Call, NEW exc \in MayRaise(c), ToolFails(c, exc)
        PROVE  IInv'
    <2>1. exc \in Exceptions
      BY <1>3 DEF ToolFails, Expected, Matches, Exceptions, Ancestors, MayRaise,
           TeamErrors, TeamError, ProviderErrors
    <2>2. CodeOf(exc) = exc
      BY <1>3, <2>1, CodeLemma DEF ToolFails
    <2>3. Fail(c, exc, exc)
      BY <1>3, <2>2 DEF ToolFails
    <2>4. QED
      BY <2>1, <2>3, FailInv
  <1>4. ASSUME NEW c \in Call, NEW exc \in MayRaise(c), ToolCrashes(c, exc)
        PROVE  IInv'
    BY <1>4, CrashInv
  <1>5. ASSUME NEW c \in Call, Reuse(c)
        PROVE  IInv'
    BY <1>5, ReuseInv
  <1>6. ASSUME NEW c \in Call, ToolAnswers(c)
        PROVE  IInv'
    BY <1>6, AnswersInv
  <1>7. CASE UNCHANGED vars
    BY <1>7 DEF vars, IInv, TypeOK, LedgerIndexed, ItemsFiled,
         EvidenceAnswersCall, FailuresKeepTheirCause
  <1>8. QED
    BY <1>1, <1>2, <1>3, <1>4, <1>5, <1>6, <1>7 DEF Next

THEOREM AlwaysIInv == Spec => []IInv
  BY InitInv, NextInv, PTL DEF Spec

\* The types of the ledger, its index, its failures and a call's result.
THEOREM TypeCorrect == Spec => []TypeOK
  BY AlwaysIInv, PTL DEF IInv

\* The index and the list of the ledger always agree (EvidenceLedger.add).
THEOREM LedgerAlwaysIndexed == Spec => []LedgerIndexed
  BY AlwaysIInv, PTL DEF IInv

\* Evidence that execute returns is about the operation that was asked for.
THEOREM EvidenceAlwaysAnswersCall == Spec => []EvidenceAnswersCall
  BY AlwaysIInv, PTL DEF IInv

\* No failure is reported under another error's code (_ERROR_CODES).
THEOREM FailuresAlwaysKeepTheirCause == Spec => []FailuresKeepTheirCause
  BY AlwaysIInv, PTL DEF IInv

\* No operation is performed twice while one question is answered, whatever
\* names its callers use (header of executor.py).
THEOREM NeverPerformedTwice == Spec => []PerformedOnce
  <1>1. IInv => PerformedOnce
    <2> SUFFICES ASSUME IInv, NEW i \in DOMAIN items, NEW j \in DOMAIN items,
                        Operation(items[i].call) = Operation(items[j].call)
                 PROVE  i = j
      BY DEF PerformedOnce
    <2>1. items[i] \in Evidence /\ items[j] \in Evidence
      BY DEF IInv, TypeOK
    <2>2. items[i].call \in Call /\ items[j].call \in Call
      BY <2>1 DEF Evidence
    <2>3. items[i].dedup_key = items[j].dedup_key
      BY <2>2, KeyLemma DEF IInv, ItemsFiled
    <2>4. QED
      BY <2>3 DEF IInv, LedgerIndexed
  <1>2. QED
    BY <1>1, AlwaysIInv, PTL

-----------------------------------------------------------------------------
(* The executor implements the promise of its header.                      *)

performed == {Operation(items[i].call) : i \in DOMAIN items}

told == IF result.kind \in {"none", "refusal"}
          THEN [kind |-> result.kind]
          ELSE [kind |-> result.kind, about |-> Operation(result.call)]

LEMMA PromiseInit == Init => Promise!Init
  BY DEF Init, Promise!Init

\* The promise's set of performed operations and the ledger's index agree.
LEMMA KnownIsPerformed ==
    ASSUME IInv, NEW c \in Call
    PROVE  Known(c) <=> Operation(c) \in performed
  <1>1. \A i \in DOMAIN items : items[i] \in Evidence
    BY DEF IInv, TypeOK
  <1>2. \A i \in DOMAIN items : items[i].call \in Call
    BY <1>1 DEF Evidence
  <1>3. Known(c) <=> \E i \in DOMAIN items : DedupKey(items[i].call) = DedupKey(c)
    BY DEF Known, IInv, LedgerIndexed, ItemsFiled
  <1>4. QED
    BY <1>2, <1>3, KeyLemma DEF performed

LEMMA PromiseFail ==
    ASSUME IInv, NEW c \in Call, ~Known(c), UNCHANGED items,
           result' = [kind |-> "failure", call |-> c]
    PROVE  Promise!Fail(Operation(c))
  <1>1. Operation(c) \notin performed
    BY KnownIsPerformed
  <1>2. told' = [kind |-> "failure", about |-> Operation(c)]
    BY DEF told
  <1>3. QED
    BY <1>1, <1>2 DEF Promise!Fail, performed, told

LEMMA PromiseCrash ==
    ASSUME IInv, NEW c \in Call, ~Known(c), UNCHANGED items,
           result' = [kind |-> "crash", call |-> c]
    PROVE  Promise!Crash(Operation(c))
  <1>1. Operation(c) \notin performed
    BY KnownIsPerformed
  <1>2. told' = [kind |-> "crash", about |-> Operation(c)]
    BY DEF told
  <1>3. QED
    BY <1>1, <1>2 DEF Promise!Crash, performed, told

LEMMA PromiseReuse ==
    ASSUME IInv, NEW c \in Call, Reuse(c)
    PROVE  Promise!Reuse(Operation(c))
  <1>1. Operation(c) \in performed
    BY KnownIsPerformed DEF Reuse
  <1>2. told' = [kind |-> "evidence", about |-> Operation(c)]
    BY DEF Reuse, told
  <1>3. items' = items
    BY DEF Reuse
  <1>4. QED
    BY <1>1, <1>2, <1>3 DEF Promise!Reuse, performed, told

LEMMA PromisePerform ==
    ASSUME IInv, NEW c \in Call, ToolAnswers(c)
    PROVE  Promise!Perform(Operation(c))
  <1> DEFINE n == Len(items) + 1
             item == [id |-> n, call |-> c, dedup_key |-> DedupKey(c)]
  <1>1. Operation(c) \notin performed
    BY KnownIsPerformed DEF ToolAnswers
  <1>2. told' = [kind |-> "evidence", about |-> Operation(c)]
    BY DEF ToolAnswers, told
  <1>3. items \in Seq(Evidence) /\ items' = Append(items, item)
    BY DEF ToolAnswers, Add, IInv, TypeOK
  <1>4. /\ DOMAIN items' = DOMAIN items \cup {n}
        /\ n \notin DOMAIN items
        /\ items'[n] = item
        /\ \A i \in DOMAIN items : items'[i] = items[i]
    BY <1>3
  <1>5. performed' = performed \cup {Operation(c)}
    <2>1. items'[n].call = c
      BY <1>4
    <2>2. performed' = {Operation(items'[i].call) : i \in DOMAIN items'}
      BY DEF performed, Operation
    <2>3. QED
      BY <1>4, <2>1, <2>2 DEF performed
  <1>6. QED
    BY <1>1, <1>2, <1>5 DEF Promise!Perform, performed, told

\* Every call of execute is one that the promise allows: the abstract system
\* knows nothing of keys and indexes.
THEOREM ExecutorKeepsPromise == Spec => PromiseKept
  <1>1. ASSUME IInv, [Next]_vars
        PROVE  Promise!Next \/ UNCHANGED <<performed, told>>
    <2>1. ASSUME NEW code \in Refusals, Refuse(code)
          PROVE  Promise!Next
      BY <2>1 DEF Refuse, Promise!Next, Promise!Refuse, performed, told
    <2>2. ASSUME NEW c \in Call, Reuse(c)
          PROVE  Promise!Next
      BY <1>1, <2>2, PromiseReuse DEF Promise!Next, Operations
    <2>3. ASSUME NEW c \in Call, NoService(c)
          PROVE  Promise!Next
      BY <1>1, <2>3, PromiseFail DEF NoService, Fail, Promise!Next, Operations
    <2>4. ASSUME NEW c \in Call, NEW exc, ToolFails(c, exc)
          PROVE  Promise!Next
      BY <1>1, <2>4, PromiseFail DEF ToolFails, Fail, Promise!Next, Operations
    <2>5. ASSUME NEW c \in Call, NEW exc, ToolCrashes(c, exc)
          PROVE  Promise!Next
      BY <1>1, <2>5, PromiseCrash DEF ToolCrashes, Promise!Next, Operations
    <2>6. ASSUME NEW c \in Call, ToolAnswers(c)
          PROVE  Promise!Next
      BY <1>1, <2>6, PromisePerform DEF Promise!Next, Operations
    <2>7. CASE UNCHANGED vars
      BY <2>7 DEF vars, performed, told
    <2>8. QED
      BY <1>1, <2>1, <2>2, <2>3, <2>4, <2>5, <2>6, <2>7 DEF Next
  <1>2. IInv /\ [Next]_vars => [Promise!Next]_(Promise!vars)
    BY <1>1 DEF Promise!vars, performed, told
  <1>3. QED
    BY <1>2, PromiseInit, AlwaysIInv, PTL DEF Spec, PromiseKept, Promise!Spec
=============================================================================
