--------------------------- MODULE Routing_proofs ---------------------------
(***************************************************************************)
(* Proofs about a question, for every question and every table of aliases: *)
(* extract_teams (module TeamScan) and route_and_plan (module Router).     *)
(*                                                                         *)
(* extract_teams.  The scan leaves no alias behind that it has passed and  *)
(* that is still free (Passed), so that a shorter name is taken only where *)
(* no longer one was possible.  A name that stands apart can lose a word   *)
(* only to itself (AloneFound): what takes a word of it lies inside some   *)
(* name, which can be no other, and if it were a shorter part, the whole   *)
(* would have been passed and would not be free.                           *)
(*                                                                         *)
(* route_and_plan.  Routing is one step, so the invariant only says which  *)
(* answers there are (AnswerOK).  The work is in the tables: subsumption   *)
(* always leaves an intent (SomethingIsLeft), a single one that is left    *)
(* has absorbed all the others itself (LastAbsorbs), and the four criteria *)
(* of the gate say what the list of ambiguity codes says                   *)
(* (GateIsNoAmbiguity).                                                    *)
(***************************************************************************)
EXTENDS TeamScan, Router, FiniteSetTheorems, NaturalsInduction, WellFoundedInduction, TLAPS

\* ScanTypeOK but for the entities: what the loop maintains.
LoopType ==
    /\ tokens \in Seq(Words)
    /\ span \in 0..MaxSpan
    /\ start \in Nat \ {0}
    /\ consumed \subseteq DOMAIN tokens
    /\ matches \in Seq(Match)

\* Every alias that the scan has passed has lost a word to a name.
Passed ==
    \A o \in Occurrences :
        (o.length > span \/ (o.length = span /\ o.start < start)) =>
            Covers(o) \cap consumed # {}

\* A name that stands apart and has lost a word has been found.
AloneFound ==
    \A o \in Names : Alone(o) /\ Covers(o) \cap consumed # {} => Found(Named(o))

\* The clubs found, by where their names start.
InOrder ==
    [r \in DOMAIN matches |-> matches[CHOOSE i \in DOMAIN matches : Rank(i) = r].club]

\* Once the clubs are returned, the scan is over.
Returned == entities # None => span = 0 /\ entities = InOrder

IInv ==
    /\ LoopType
    /\ Passed
    /\ WordsServeOneName
    /\ ClubsDiffer
    /\ LongestWins
    /\ AloneFound
    /\ Returned

LEMMA InitInv == ScanInit => IInv
  <1> SUFFICES ASSUME ScanInit PROVE IInv
    OBVIOUS
  <1>1. tokens \in Seq(Words) /\ Len(tokens) \in Nat
    BY ScanAssumption DEF ScanInit
  <1>2. /\ span \in 0..MaxSpan
        /\ span <= Len(tokens) /\ (span = MaxSpan \/ span = Len(tokens))
        /\ start = 1
    BY <1>1, ScanAssumption DEF ScanInit, FirstSpan, Least
  <1>3. LoopType
    BY <1>1, <1>2 DEF ScanInit, LoopType
  <1>4. Passed
    <2> SUFFICES ASSUME NEW o \in Occurrences,
                        o.length > span \/ (o.length = span /\ o.start < start)
                 PROVE  FALSE
      BY DEF Passed
    <2>1. /\ o.start \in DOMAIN tokens /\ o.length \in 1..MaxSpan
          /\ o.start + o.length - 1 <= Len(tokens)
      BY DEF Occurrences
    <2>2. QED
      BY <1>1, <1>2, <2>1, ScanAssumption
  <1>5. WordsServeOneName /\ ClubsDiffer /\ LongestWins
    BY DEF ScanInit, WordsServeOneName, ClubsDiffer, LongestWins
  <1>6. AloneFound /\ Returned
    BY DEF ScanInit, AloneFound, Returned
  <1>7. QED
    BY <1>3, <1>4, <1>5, <1>6 DEF IInv

-----------------------------------------------------------------------------
(* Names and the words they cover.                                         *)

\* An occurrence whose words are among another's is that one, or shorter.
LEMMA CoversLonger ==
    ASSUME tokens \in Seq(Words), NEW p \in Occurrences, NEW q \in Occurrences,
           Covers(p) \subseteq Covers(q)
    PROVE  p = q \/ p.length < q.length
  <1>1. /\ p \in [start : DOMAIN tokens, length : 1..MaxSpan]
        /\ q \in [start : DOMAIN tokens, length : 1..MaxSpan]
    BY DEF Occurrences
  <1>2. /\ p.start \in Nat /\ p.length \in Nat \ {0}
        /\ q.start \in Nat /\ q.length \in Nat \ {0}
    BY <1>1, ScanAssumption
  <1>3. p.start \in Covers(p) /\ p.start + p.length - 1 \in Covers(p)
    BY <1>2 DEF Covers, Positions
  <1>4. q.start <= p.start /\ p.start + p.length - 1 <= q.start + q.length - 1
    BY <1>2, <1>3 DEF Covers, Positions
  <1>5. p.length < q.length \/ (p.length = q.length /\ p.start = q.start)
    <2> DEFINE a == p.start
               m == p.length
               b == q.start
               n == q.length
    <2>1. a \in Nat /\ m \in Nat /\ b \in Nat /\ n \in Nat
      BY <1>2
    <2>2. b <= a /\ a + m - 1 <= b + n - 1
      BY <1>4
    <2> HIDE DEF a, b, m, n
    <2>3. m < n \/ (m = n /\ a = b)
      BY <2>1, <2>2
    <2>4. QED
      BY <2>3 DEF a, b, m, n
  <1>6. /\ p = [start |-> p.start, length |-> p.length]
        /\ q = [start |-> q.start, length |-> q.length]
    BY <1>1
  <1>7. QED
    BY <1>5, <1>6

\* The words of every occurrence belong to a name that a reader sees: the
\* longest one around it.
LEMMA InsideAName ==
    ASSUME tokens \in Seq(Words), NEW o \in Occurrences
    PROVE  \E p \in Names : Covers(o) \subseteq Covers(p)
  <1> DEFINE T == {n \in Nat : \E q \in Occurrences :
                      Covers(o) \subseteq Covers(q) /\ n = MaxSpan - q.length}
  <1>1. \A q \in Occurrences : MaxSpan - q.length \in Nat /\ q.length \in Nat
    BY ScanAssumption DEF Occurrences
  <1>2. T \subseteq Nat /\ T # {}
    BY <1>1
  <1>3. PICK n \in T : \A m \in T : ~(<<m, n>> \in OpToRel(<, Nat))
    <2> HIDE DEF T
    <2> QED
      BY <1>2, WFMin, NatLessThanWellFounded
  <1>4. PICK q \in Occurrences : Covers(o) \subseteq Covers(q) /\ n = MaxSpan - q.length
    OBVIOUS
  <1>5. ASSUME NEW p \in Occurrences, Covers(q) \subseteq Covers(p), p # q
        PROVE  FALSE
    <2>1. q.length < p.length
      BY <1>5, CoversLonger
    <2>2. MaxSpan - p.length \in T
      BY <1>1, <1>4, <1>5
    <2>3. MaxSpan - p.length < n
      BY <1>1, <1>4, <2>1, ScanAssumption
    <2>4. <<MaxSpan - p.length, n>> \in OpToRel(<, Nat)
      BY <1>1, <1>4, <2>3 DEF OpToRel
    <2>5. QED
      BY <1>3, <2>2, <2>4
  <1>6. q \in Names
    BY <1>5 DEF Names
  <1>7. QED
    BY <1>4, <1>6

-----------------------------------------------------------------------------
(* Every step preserves the invariant.                                     *)

\* What the question spells where does not change.
LEMMA SameQuestion ==
    ASSUME tokens' = tokens
    PROVE  /\ Occurrences' = Occurrences
           /\ \A f, n : Run(f, n)' = Run(f, n)
           /\ Names' = Names
           /\ \A o : Covers(o)' = Covers(o) /\ Named(o)' = Named(o) /\ Alone(o)' = Alone(o)
  <1>1. /\ Occurrences' = Occurrences
        /\ \A f, n : Run(f, n)' = Run(f, n)
    BY DEF Occurrences, Run
  <1>2. \A o : Covers(o)' = Covers(o)
    BY DEF Covers, Positions
  <1>3. Names' = Names
    BY <1>1, <1>2 DEF Names
  <1>4. QED
    BY <1>1, <1>2, <1>3 DEF Named, Alone

\* The positions here, while there is something to scan.
LEMMA HereLemma ==
    ASSUME LoopType, Scanning
    PROVE  /\ Here \subseteq DOMAIN tokens
           /\ start \in Here
           /\ span \in 1..MaxSpan /\ start \in 1..Len(tokens)
           /\ start + span - 1 <= Len(tokens)
           /\ Candidate \in Alias =>
                [start |-> start, length |-> span] \in Occurrences
  <1>1. tokens \in Seq(Words) /\ Len(tokens) \in Nat
    BY DEF LoopType
  <1>2. /\ span \in 1..MaxSpan /\ start \in 1..Len(tokens)
        /\ start + span - 1 <= Len(tokens)
    BY <1>1, ScanAssumption DEF LoopType, Scanning
  <1>3. Here \subseteq DOMAIN tokens /\ start \in Here
    BY <1>1, <1>2, ScanAssumption DEF Here, Positions
  <1>4. QED
    BY <1>1, <1>2, <1>3 DEF Occurrences, Candidate, Run

\* An alias that the scan passes by moving on is one it passed before, or the
\* one that is here.
LEMMA PassedMovesOn ==
    ASSUME LoopType, Passed, Scanning, UNCHANGED <<tokens, span>>,
           start' = start + 1, consumed \subseteq consumed',
           Candidate \in Alias => Here \cap consumed' # {}
    PROVE  Passed'
  <1> SUFFICES ASSUME NEW o \in Occurrences,
                      o.length > span \/ (o.length = span /\ o.start < start + 1)
               PROVE  Covers(o) \cap consumed' # {}
    BY SameQuestion DEF Passed, Covers, Positions
  <1>1. o.start \in Nat /\ o.length \in Nat /\ span \in Nat /\ start \in Nat
    BY ScanAssumption DEF Occurrences, LoopType
  <1>2. CASE o.length > span \/ (o.length = span /\ o.start < start)
    BY <1>2 DEF Passed
  <1>3. CASE o.length = span /\ o.start = start
    BY <1>3 DEF Occurrences, Candidate, Covers, Here
  <1>4. QED
    BY <1>1, <1>2, <1>3

\* A run that properly contains the one here is longer.
LEMMA LongerRun ==
    ASSUME LoopType, Scanning, NEW o \in Occurrences,
           Here \subseteq Covers(o), Here # Covers(o)
    PROVE  o.length > span
  <1>1. /\ o.start \in Nat /\ o.length \in Nat
        /\ span \in Nat \ {0} /\ start \in Nat
    <2>1. o.start \in DOMAIN tokens /\ o.length \in 1..MaxSpan
      BY DEF Occurrences
    <2>2. span \in Nat \ {0} /\ start \in Nat
      BY ScanAssumption DEF LoopType, Scanning
    <2>3. DOMAIN tokens \subseteq Nat
      BY DEF LoopType
    <2>4. QED
      BY <2>1, <2>2, <2>3, ScanAssumption
  <1>2. start \in Here /\ start + span - 1 \in Here
    BY <1>1 DEF Here, Positions
  <1>3. /\ o.start <= start
        /\ start + span - 1 <= o.start + o.length - 1
    BY <1>1, <1>2 DEF Covers, Positions
  <1>4. CASE o.length = span
    <2>1. o.start = start
      BY <1>1, <1>3, <1>4
    <2>2. QED
      BY <1>4, <2>1 DEF Here, Covers
  <1>5. QED
    BY <1>1, <1>3, <1>4

\* Found, in the next state.
FoundNext(club) == \E i \in DOMAIN matches' : matches'[i].club = club

\* A name that stands apart loses a word only when it is found.
LEMMA AloneFoundStep ==
    ASSUME IInv, tokens' = tokens, matches' = matches \/ Mention,
           \/ consumed' = consumed
           \/ /\ Scanning /\ Free /\ Candidate \in Alias
              /\ consumed' = consumed \cup Here
              /\ FoundNext(ClubNamed[Candidate])
    PROVE  AloneFound'
  <1>1. ASSUME NEW club, Found(club) PROVE FoundNext(club)
    <2>1. PICK i \in DOMAIN matches : matches[i].club = club
      BY <1>1 DEF Found
    <2>2. i \in DOMAIN matches' /\ matches'[i] = matches[i]
      <3>1. CASE matches' = matches
        BY <2>1, <3>1
      <3>2. CASE Mention
        <4>1. matches \in Seq(Match) /\ \E m : matches' = Append(matches, m)
          BY <3>2 DEF IInv, LoopType, Mention
        <4>2. PICK m : matches' = Append(matches, m)
          BY <4>1
        <4>3. \A k \in DOMAIN matches : k \in 1..Len(matches) + 1 /\ Append(matches, m)[k] = matches[k]
          BY <4>1
        <4>4. DOMAIN matches' = 1..Len(matches) + 1
          BY <4>1, <4>2
        <4>5. QED
          BY <2>1, <4>2, <4>3, <4>4
      <3>3. QED
        BY <3>1, <3>2
    <2>3. QED
      BY <2>1, <2>2 DEF FoundNext
  <1>0. AloneFound' <=>
          \A o \in Names : Alone(o) /\ Covers(o) \cap consumed' # {} => FoundNext(Named(o))
    BY SameQuestion DEF AloneFound, Found, FoundNext
  <1> SUFFICES ASSUME NEW o \in Names, Alone(o), Covers(o) \cap consumed' # {}
               PROVE  FoundNext(Named(o))
    BY <1>0
  <1>2. CASE Covers(o) \cap consumed # {}
    BY <1>1, <1>2 DEF IInv, AloneFound
  <1>3. CASE Covers(o) \cap consumed = {}
    <2> DEFINE h == [start |-> start, length |-> span]
    <2>1. /\ Scanning /\ Free /\ Candidate \in Alias
          /\ consumed' = consumed \cup Here
          /\ FoundNext(ClubNamed[Candidate])
      BY <1>3
    <2>2. h \in Occurrences /\ Covers(h) = Here /\ Named(h) = ClubNamed[Candidate]
      BY <2>1, HereLemma DEF IInv, Covers, Here, Named, Candidate
    <2>3. o \in Occurrences /\ tokens \in Seq(Words)
      BY DEF Names, IInv, LoopType
    <2> HIDE DEF h
    <2>4. PICK p \in Names : Covers(h) \subseteq Covers(p)
      BY <2>2, <2>3, InsideAName
    <2>5. p = o
      BY <1>3, <2>1, <2>2, <2>4 DEF Alone
    <2>6. Here = Covers(o)
      <3> SUFFICES ASSUME Here # Covers(o) PROVE FALSE
        OBVIOUS
      <3>1. o.length > span
        BY <2>1, <2>2, <2>3, <2>4, <2>5, LongerRun DEF IInv
      <3>2. QED
        BY <1>3, <2>3, <3>1 DEF IInv, Passed
    <2>7. h = o
      <3>1. o = h \/ o.length < h.length
        BY <2>2, <2>3, <2>6, CoversLonger
      <3>2. h = o \/ h.length < o.length
        BY <2>2, <2>3, <2>6, CoversLonger
      <3>3. o.length \in Nat /\ h.length \in Nat
        BY <2>2, <2>3, ScanAssumption DEF Occurrences
      <3>4. QED
        BY <3>1, <3>2, <3>3
    <2>8. Named(o) = ClubNamed[Candidate]
      BY <2>2, <2>7
    <2>9. QED
      BY <2>1, <2>8
  <1>4. QED
    BY <1>2, <1>3

\* With the same matches and no fewer words consumed, what holds of the
\* matches goes on to hold.
LEMMA SameMatches ==
    ASSUME WordsServeOneName, ClubsDiffer, LongestWins,
           UNCHANGED <<tokens, matches>>, consumed \subseteq consumed'
    PROVE  WordsServeOneName' /\ ClubsDiffer' /\ LongestWins'
  <1>1. \A i \in DOMAIN matches : At(i)' = At(i)
    BY DEF At, Positions
  <1>2. WordsServeOneName'
    BY <1>1, SameQuestion DEF WordsServeOneName
  <1>3. ClubsDiffer'
    BY DEF ClubsDiffer
  <1>4. LongestWins'
    <2> SUFFICES ASSUME NEW i \in DOMAIN matches, NEW o \in Occurrences,
                        At(i) \subseteq Covers(o), At(i) # Covers(o)
                 PROVE  (Covers(o) \ At(i)) \cap consumed' # {}
      BY <1>1, SameQuestion DEF LongestWins, Covers, Positions
    <2>1. (Covers(o) \ At(i)) \cap consumed # {}
      BY DEF LongestWins
    <2>2. QED
      BY <2>1
  <1>5. QED
    BY <1>2, <1>3, <1>4

LEMMA SkipInv ==
    ASSUME IInv, Skip
    PROVE  IInv'
  <1>1. LoopType'
    BY DEF IInv, LoopType, Skip
  <1>2. Passed'
    BY PassedMovesOn DEF IInv, Skip, Free
  <1>3. AloneFound'
    BY AloneFoundStep DEF Skip
  <1>4. QED
    BY <1>1, <1>2, <1>3, SameMatches DEF IInv, Skip, Returned, Scanning

LEMMA MentionAgainInv ==
    ASSUME IInv, MentionAgain
    PROVE  IInv'
  <1>1. Here \subseteq DOMAIN tokens /\ start \in Here
    BY HereLemma DEF IInv, MentionAgain
  <1>2. LoopType'
    BY <1>1 DEF IInv, LoopType, MentionAgain
  <1>3. Passed'
    BY <1>1, PassedMovesOn DEF IInv, MentionAgain
  <1>4. AloneFound'
    BY AloneFoundStep DEF MentionAgain, Found, FoundNext
  <1>5. QED
    BY <1>2, <1>3, <1>4, SameMatches DEF IInv, MentionAgain, Returned, Scanning

LEMMA ShorterInv ==
    ASSUME IInv, Shorter
    PROVE  IInv'
  <1>1. LoopType'
    BY ScanAssumption DEF IInv, LoopType, Shorter
  <1>2. Passed'
    <2> SUFFICES ASSUME NEW o \in Occurrences,
                        o.length > span - 1 \/ (o.length = span - 1 /\ o.start < 1)
                 PROVE  Covers(o) \cap consumed # {}
      BY SameQuestion DEF Passed, Covers, Positions, Shorter
    <2>1. /\ o.start \in Nat \ {0} /\ o.length \in Nat
          /\ o.start + o.length - 1 <= Len(tokens)
          /\ span \in Nat /\ start \in Nat /\ Len(tokens) \in Nat
      BY ScanAssumption DEF Occurrences, IInv, LoopType
    <2>2. span > 0 /\ ~(start + span - 1 <= Len(tokens))
      BY DEF Shorter, Scanning
    <2>3. ~(o.length = span - 1 /\ o.start < 1)
      BY <2>1
    <2>4. o.length > span \/ o.length = span
      BY <2>1, <2>3
    <2>5. o.length = span => o.start < start
      BY <2>1, <2>2
    <2>6. QED
      BY <2>4, <2>5 DEF IInv, Passed
  <1>3. AloneFound'
    BY AloneFoundStep DEF Shorter
  <1>4. QED
    BY <1>1, <1>2, <1>3, SameMatches DEF IInv, Shorter, Returned

\* A new name lies on free words, so that every longer alias around it has
\* lost a word outside it.
LEMMA MentionInv ==
    ASSUME IInv, Mention
    PROVE  IInv'
  <1> DEFINE m == [club |-> ClubNamed[Candidate], start |-> start, length |-> span]
  <1>0. PICK n \in Nat : n = Len(matches) + 1
    BY DEF IInv, LoopType
  <1>1. /\ Here \subseteq DOMAIN tokens /\ start \in Here
        /\ span \in 1..MaxSpan /\ Here \cap consumed = {}
        /\ Candidate \in Alias
        /\ ~Found(ClubNamed[Candidate])
        /\ consumed' = consumed \cup Here
        /\ matches' = Append(matches, m)
        /\ UNCHANGED <<tokens, span>>
    BY HereLemma DEF IInv, Mention, Free
  <1>2. m \in Match
    BY <1>1, ScanAssumption DEF IInv, LoopType, Match
  <1>3. /\ matches' \in Seq(Match)
        /\ DOMAIN matches' = DOMAIN matches \cup {n}
        /\ n \notin DOMAIN matches
        /\ matches'[n] = m
        /\ \A i \in DOMAIN matches : matches'[i] = matches[i]
    BY <1>0, <1>1, <1>2 DEF IInv, LoopType
  <1>4. (\A i \in DOMAIN matches : At(i)' = At(i)) /\ At(n)' = Here
    BY <1>3 DEF At, Positions, Here
  <1>5. LoopType'
    BY <1>1, <1>3 DEF IInv, LoopType, Mention
  <1>6. Passed'
    BY <1>1, PassedMovesOn DEF IInv, Mention
  <1>7. WordsServeOneName'
    <2>1. ASSUME NEW i \in DOMAIN matches'
          PROVE  /\ At(i)' \subseteq consumed'
                 /\ Run(matches'[i].start, matches'[i].length) \in Alias
                 /\ ClubNamed[Run(matches'[i].start, matches'[i].length)]
                      = matches'[i].club
      <3>1. CASE i = n
        BY <1>1, <1>3, <1>4, <3>1 DEF Candidate
      <3>2. CASE i \in DOMAIN matches
        BY <1>1, <1>3, <1>4, <3>2 DEF IInv, WordsServeOneName
      <3>3. QED
        BY <1>3, <3>1, <3>2
    <2>2. ASSUME NEW i \in DOMAIN matches', NEW j \in DOMAIN matches', i # j
          PROVE  At(i)' \cap At(j)' = {}
      <3>1. CASE i \in DOMAIN matches /\ j \in DOMAIN matches
        BY <1>4, <2>2, <3>1 DEF IInv, WordsServeOneName
      <3>2. CASE i = n
        BY <1>1, <1>3, <1>4, <2>2, <3>2 DEF IInv, WordsServeOneName
      <3>3. CASE j = n
        BY <1>1, <1>3, <1>4, <2>2, <3>3 DEF IInv, WordsServeOneName
      <3>4. QED
        BY <1>3, <3>1, <3>2, <3>3
    <2>3. QED
      BY <1>1, <2>1, <2>2, SameQuestion DEF WordsServeOneName
  <1>8. ClubsDiffer'
    BY <1>1, <1>3 DEF IInv, ClubsDiffer, Found
  <1>9. LongestWins'
    <2> SUFFICES ASSUME NEW i \in DOMAIN matches', NEW o \in Occurrences,
                        At(i)' \subseteq Covers(o), At(i)' # Covers(o)
                 PROVE  (Covers(o) \ At(i)') \cap consumed' # {}
      BY <1>1, SameQuestion DEF LongestWins, Covers, Positions
    <2>1. CASE i = n
      <3>1. Here \subseteq Covers(o) /\ Here # Covers(o)
        BY <1>4, <2>1
      <3>2. o.length > span
        BY <3>1, LongerRun DEF IInv, Mention
      <3>3. Covers(o) \cap consumed # {}
        BY <3>2 DEF IInv, Passed
      <3>4. QED
        BY <1>1, <1>4, <2>1, <3>3
    <2>2. CASE i \in DOMAIN matches
      <3>1. (Covers(o) \ At(i)) \cap consumed # {}
        BY <1>4, <2>2 DEF IInv, LongestWins
      <3>2. QED
        BY <1>1, <1>4, <2>2, <3>1
    <2>3. QED
      BY <1>3, <2>1, <2>2
  <1>10. AloneFound'
    <2>1. FoundNext(ClubNamed[Candidate])
      BY <1>1, <1>3 DEF FoundNext
    <2>2. QED
      BY <1>1, <2>1, AloneFoundStep DEF Mention
  <1>11. Returned'
    BY DEF IInv, Returned, Mention, Scanning
  <1>12. QED
    BY <1>5, <1>6, <1>7, <1>8, <1>9, <1>10, <1>11 DEF IInv

LEMMA NextInv == IInv /\ [ScanNext]_scanVars => IInv'
  <1> SUFFICES ASSUME IInv, [ScanNext]_scanVars PROVE IInv'
    OBVIOUS
  <1>1. CASE Return \/ UNCHANGED scanVars
    <2>1. UNCHANGED <<tokens, span, start, consumed, matches>>
      BY <1>1 DEF Return, scanVars
    <2>2. LoopType'
      BY <2>1 DEF IInv, LoopType
    <2>3. Passed'
      BY <2>1, SameQuestion DEF IInv, Passed, Covers, Positions
    <2>4. AloneFound'
      BY <2>1, AloneFoundStep
    <2>5. Returned'
      <3>1. InOrder' = InOrder
        BY <2>1 DEF InOrder, Rank
      <3>2. CASE Return
        BY <2>1, <3>1, <3>2 DEF Return, Returned, InOrder
      <3>3. CASE UNCHANGED scanVars
        BY <3>1, <3>3 DEF IInv, Returned, scanVars
      <3>4. QED
        BY <1>1, <3>2, <3>3
    <2>6. QED
      BY <2>1, <2>2, <2>3, <2>4, <2>5, SameMatches DEF IInv
  <1>2. QED
    BY <1>1, SkipInv, MentionAgainInv, MentionInv, ShorterInv DEF ScanNext

THEOREM AlwaysIInv == ScanSpec => []IInv
  BY InitInv, NextInv, PTL DEF ScanSpec

\* "consumed tokens are not reused" (extract_teams): every club found is
\* spelled by words that spell no other club's name.
THEOREM WordsAlwaysServeOneName == ScanSpec => []WordsServeOneName
  BY AlwaysIInv, PTL DEF IInv

\* A club that the question names several times is found once.
THEOREM ClubsAlwaysDiffer == ScanSpec => []ClubsDiffer
  BY AlwaysIInv, PTL DEF IInv

\* "Longest match wins" (extract_teams), for every table of aliases, those
\* whose aliases overlap included.
THEOREM LongestAlwaysWins == ScanSpec => []LongestWins
  BY AlwaysIInv, PTL DEF IInv

-----------------------------------------------------------------------------
(* Sorting the matches by where they start.                                *)

\* Two names start at two words, so that no two have one rank, and every place
\* is taken.
LEMMA RankIsBijective ==
    ASSUME LoopType, WordsServeOneName
    PROVE  /\ \A i \in DOMAIN matches : Rank(i) \in DOMAIN matches
           /\ \A i, j \in DOMAIN matches : Rank(i) = Rank(j) => i = j
           /\ \A r \in DOMAIN matches : \E i \in DOMAIN matches : Rank(i) = r
  <1> DEFINE D == DOMAIN matches
             Upto(i) == {j \in D : matches[j].start <= matches[i].start}
             f == [i \in D |-> Rank(i)]
  <1>1. PICK n \in Nat : D = 1..n
    BY DEF LoopType
  <1>2. IsFiniteSet(D) /\ Cardinality(D) = n
    BY <1>1, FS_Interval
  <1>3. \A i \in D : /\ matches[i].start \in Nat /\ matches[i].length \in Nat \ {0}
                     /\ matches[i].start \in At(i)
    <2> SUFFICES ASSUME NEW i \in D
                 PROVE  /\ matches[i].start \in Nat /\ matches[i].length \in Nat \ {0}
                        /\ matches[i].start \in At(i)
      OBVIOUS
    <2>1. matches[i] \in Match
      BY DEF LoopType
    <2>2. matches[i].start \in Nat /\ matches[i].length \in Nat \ {0}
      BY <2>1, ScanAssumption DEF Match
    <2>3. QED
      BY <2>2 DEF At, Positions
  <1>4. \A i, j \in D : i # j => matches[i].start # matches[j].start
    BY <1>3 DEF WordsServeOneName
  <1>5. \A i \in D : /\ i \in Upto(i) /\ Upto(i) \in SUBSET D
                     /\ IsFiniteSet(Upto(i)) /\ Rank(i) = Cardinality(Upto(i))
    BY <1>2, <1>3, FS_Subset DEF Rank
  <1>6. ASSUME NEW i \in D PROVE Rank(i) \in D
    <2>1. Cardinality(Upto(i)) <= n /\ Cardinality(Upto(i)) \in Nat
      BY <1>2, <1>5, FS_Subset, FS_CardinalityType
    <2>2. Cardinality(Upto(i)) # 0
      BY <1>5, FS_EmptySet
    <2>3. Rank(i) \in 1..n
      <3>1. Rank(i) = Cardinality(Upto(i))
        BY <1>5
      <3> HIDE DEF Upto, D
      <3>2. QED
        BY <2>1, <2>2, <3>1
    <2>4. QED
      BY <1>1, <2>3
  <1>7. ASSUME NEW i \in D, NEW j \in D, matches[i].start < matches[j].start
        PROVE  Rank(i) # Rank(j)
    <2>1. Upto(i) \in SUBSET Upto(j) /\ j \in Upto(j) /\ j \notin Upto(i)
      BY <1>3, <1>7
    <2> HIDE DEF Upto
    <2>2. Cardinality(Upto(i)) # Cardinality(Upto(j))
      BY <1>5, <2>1, FS_Subset
    <2>3. QED
      BY <1>5, <2>2
  <1>8. \A i, j \in D : Rank(i) = Rank(j) => i = j
    <2> SUFFICES ASSUME NEW i \in D, NEW j \in D, i # j PROVE Rank(i) # Rank(j)
      OBVIOUS
    <2>1. matches[i].start < matches[j].start \/ matches[j].start < matches[i].start
      BY <1>3, <1>4
    <2>2. QED
      BY <1>7, <2>1
  <1>9. f \in Injection(D, D)
    BY <1>6, <1>8 DEF Injection, IsInjective
  <1>10. f \in Surjection(D, D)
    <2> HIDE DEF f, D
    <2> QED
      BY <1>2, <1>9, FS_Injection
  <1>11. \A r \in D : \E i \in D : Rank(i) = r
    BY <1>10 DEF Surjection
  <1>12. QED
    BY <1>6, <1>8, <1>11

\* What is returned are the clubs found, each of them.
LEMMA InOrderType ==
    ASSUME LoopType, WordsServeOneName
    PROVE  /\ InOrder \in Seq(Clubs)
           /\ \A i \in DOMAIN matches :
                 Rank(i) \in DOMAIN InOrder /\ InOrder[Rank(i)] = matches[i].club
  <1> DEFINE at(r) == CHOOSE i \in DOMAIN matches : Rank(i) = r
  <1>1. PICK n \in Nat : DOMAIN matches = 1..n
    BY DEF LoopType
  <1>2. \A i \in DOMAIN matches : matches[i].club \in Clubs
    <2>1. \A i \in DOMAIN matches : matches[i] \in Match
      BY DEF LoopType
    <2>2. QED
      BY <2>1 DEF Match
  <1>3. \A r \in DOMAIN matches : at(r) \in DOMAIN matches /\ Rank(at(r)) = r
    BY RankIsBijective
  <1>4. InOrder = [r \in 1..n |-> matches[at(r)].club]
    BY <1>1 DEF InOrder
  <1> HIDE DEF at
  <1>5. \A i \in DOMAIN matches : Rank(i) \in DOMAIN matches /\ at(Rank(i)) = i
    BY <1>3, RankIsBijective
  <1>6. InOrder \in [1..n -> Clubs]
    BY <1>1, <1>2, <1>3, <1>4
  <1>7. InOrder \in Seq(Clubs)
    BY <1>6
  <1>8. QED
    BY <1>1, <1>4, <1>5, <1>7

-----------------------------------------------------------------------------
\* What the scan keeps and what it returns: the clubs found, each in its place,
\* for no two names start at one word (extract_teams, matches.sort).
THEOREM ScanTypeCorrect == ScanSpec => []ScanTypeOK
  <1>1. IInv => ScanTypeOK
    BY InOrderType DEF IInv, LoopType, Returned, ScanTypeOK
  <1>2. QED
    BY <1>1, AlwaysIInv, PTL

\* When the scan has ended, every alias in the question has given a word to a
\* name, and every club that is named apart from other names is returned, for
\* every question and every table of aliases (extract_teams).
THEOREM NothingEverMissed == ScanSpec => []NothingMissed
  <1>1. IInv => NothingMissed
    <2> SUFFICES ASSUME IInv, entities # None
                 PROVE  /\ \A o \in Occurrences : Covers(o) \cap consumed # {}
                        /\ \A o \in Names :
                              Alone(o) => \E i \in DOMAIN entities : entities[i] = Named(o)
      BY DEF NothingMissed
    <2>1. span = 0 /\ entities = InOrder
      BY DEF IInv, Returned
    <2>2. \A o \in Occurrences : Covers(o) \cap consumed # {}
      BY <2>1, ScanAssumption DEF IInv, Passed, Occurrences
    <2>3. ASSUME NEW o \in Names, Alone(o)
          PROVE  \E i \in DOMAIN entities : entities[i] = Named(o)
      <3>1. Found(Named(o))
        BY <2>2, <2>3 DEF IInv, AloneFound, Names
      <3>2. PICK i \in DOMAIN matches : matches[i].club = Named(o)
        BY <3>1 DEF Found
      <3>3. QED
        BY <2>1, <3>2, InOrderType DEF IInv
    <2>4. QED
      BY <2>2, <2>3
  <1>2. QED
    BY <1>1, AlwaysIInv, PTL

-----------------------------------------------------------------------------
(* Routing of the question, module Router.                                 *)

\* The clubs that Router finds in a question: different ones, of the registry.
Mentions == {s \in BoundedSeq(Clubs, MaxTeams) : IsInjective(s)}

\* What extract_teams returns is what Router takes for the clubs of a question
\* (route_and_plan hands it on), up to Router's bound.
THEOREM ScanGivesMentions ==
    ScanSpec => [](entities # None /\ Len(entities) <= MaxTeams => entities \in Mentions)
  <1>1. ASSUME IInv, entities # None, Len(entities) <= MaxTeams
        PROVE  entities \in Mentions
    <2>1. entities = InOrder
      BY <1>1 DEF IInv, Returned
    <2>2. /\ InOrder \in Seq(Clubs)
          /\ \A i \in DOMAIN matches :
                Rank(i) \in DOMAIN InOrder /\ InOrder[Rank(i)] = matches[i].club
      BY <1>1, InOrderType DEF IInv
    <2>3. \A r \in DOMAIN InOrder : \E i \in DOMAIN matches : Rank(i) = r
      BY <1>1, RankIsBijective DEF IInv, InOrder
    <2>4. IsInjective(InOrder)
      <3> SUFFICES ASSUME NEW r \in DOMAIN InOrder, NEW s \in DOMAIN InOrder,
                          InOrder[r] = InOrder[s]
                   PROVE  r = s
        BY DEF IsInjective
      <3>1. PICK i \in DOMAIN matches, j \in DOMAIN matches : Rank(i) = r /\ Rank(j) = s
        BY <2>3
      <3>2. matches[i].club = matches[j].club
        BY <2>2, <3>1
      <3>3. i = j
        BY <1>1, <3>2 DEF IInv, ClubsDiffer
      <3> QED
        BY <3>1, <3>3
    <2>5. entities \in BoundedSeq(Clubs, MaxTeams)
      <3>1. PICK n \in Nat : entities \in [1..n -> Clubs] /\ n = Len(entities)
        BY <2>1, <2>2
      <3>2. n \in 0..MaxTeams
        BY <1>1, <3>1
      <3> QED
        BY <3>1, <3>2 DEF BoundedSeq, SeqOf
    <2> QED
      BY <2>1, <2>4, <2>5 DEF Mentions
  <1> QED
    BY <1>1, AlwaysIInv, PTL

Intents ==
    {"SIMPLE_FACT", "LIVE", "HISTORICAL", "PREDICTION", "PREDICTION_EXPLANATION",
     "SCORELINE", "RESEARCH", "TACTICAL", "WHAT_IF", "SCOUTING"}

\* Every intent is absorbed by one that is not absorbed itself, and so by the
\* only one that is left, if one is.
LEMMA LastAbsorbs ==
    ASSUME NEW matched \in SUBSET Intents, NEW i, Effective(matched) = {i}
    PROVE  matched \subseteq {i} \cup Subsumption(i)
  <1>1. /\ i \in matched
        /\ \A d \in matched : (\A e \in matched : d \notin Subsumption(e)) => d = i
    BY DEF Effective
  <1> SUFFICES ASSUME NEW j \in matched, j # i
               PROVE  j \in Subsumption(i)
    OBVIOUS
  <1>2. CASE j = "SIMPLE_FACT"
    BY <1>1, <1>2 DEF Subsumption
  <1>3. \A top \in {"PREDICTION_EXPLANATION", "WHAT_IF"} : top \in matched => top = i
    <2>1. \A e \in matched, top \in {"PREDICTION_EXPLANATION", "WHAT_IF"} :
             top \notin Subsumption(e)
      BY DEF Subsumption, Intents
    <2> QED
      BY <1>1, <2>1
  <1>4. PICK d \in matched : j \in Subsumption(d)
    BY <1>1
  <1>5. CASE j = "PREDICTION"
    <2>1. d \in {"PREDICTION_EXPLANATION", "WHAT_IF"}
      BY <1>4, <1>5 DEF Subsumption, Intents
    <2> QED
      BY <1>3, <1>4, <2>1
  <1>6. CASE j = "SCORELINE"
    <2>1. d \in {"PREDICTION_EXPLANATION", "WHAT_IF", "PREDICTION"}
      BY <1>4, <1>6 DEF Subsumption, Intents
    <2>2. CASE d = "PREDICTION" /\ d # i
      <3>1. PICK e \in matched : d \in Subsumption(e)
        BY <1>1, <2>2
      <3>2. e \in {"PREDICTION_EXPLANATION", "WHAT_IF"}
        BY <2>2, <3>1 DEF Subsumption, Intents
      <3>3. e = i
        BY <1>3, <3>2
      <3> QED
        BY <1>6, <3>2, <3>3 DEF Subsumption
    <2> QED
      BY <1>3, <1>4, <2>1, <2>2
  <1>7. j \in {"SIMPLE_FACT", "PREDICTION", "SCORELINE"}
    BY <1>4 DEF Subsumption, Intents
  <1> QED
    BY <1>2, <1>5, <1>6, <1>7

\* Something is left of what matched.
LEMMA SomethingIsLeft ==
    ASSUME NEW matched \in SUBSET Intents, matched # {}
    PROVE  Effective(matched) # {}
  <1> SUFFICES ASSUME Effective(matched) = {} PROVE FALSE
    OBVIOUS
  <1>1. \A d \in matched : \E e \in matched : d \in Subsumption(e)
    BY DEF Effective
  <1>2. ASSUME NEW d \in matched PROVE d \notin {"PREDICTION_EXPLANATION", "WHAT_IF"}
    BY <1>1 DEF Subsumption, Intents
  <1>3. ASSUME NEW d \in matched PROVE d # "PREDICTION"
    BY <1>1, <1>2 DEF Subsumption, Intents
  <1>4. ASSUME NEW d \in matched PROVE d # "SCORELINE"
    BY <1>1, <1>2, <1>3 DEF Subsumption, Intents
  <1>5. PICK d \in matched, e \in matched, f \in matched :
           d \in Subsumption(e) /\ e \in Subsumption(f)
    BY <1>1
  <1>6. d = "SIMPLE_FACT" /\ e = "SIMPLE_FACT"
    BY <1>2, <1>3, <1>4, <1>5 DEF Subsumption, Intents
  <1> QED
    BY <1>5, <1>6 DEF Subsumption

LEMMA MatchedTypes ==
    ASSUME NEW words
    PROVE  /\ MatchedIntents(words) \in SUBSET Intents
           /\ MatchedSignals(words) # {} => MatchedIntents(words) # {}
           /\ IsFiniteSet(Effective(MatchedIntents(words)))
  <1>1. MatchedSignals(words) \subseteq Signals
    BY DEF MatchedSignals
  <1>2. \A s \in Signals : IntentOf(s) \in Intents
    BY DEF Signals, Trigger, IntentOf, Intents
  <1>3. MatchedIntents(words) \in SUBSET Intents
    BY <1>1, <1>2 DEF MatchedIntents
  <1>4. IsFiniteSet(Intents)
    <2> DEFINE f == <<"SIMPLE_FACT", "LIVE", "HISTORICAL", "PREDICTION",
                      "PREDICTION_EXPLANATION", "SCORELINE", "RESEARCH", "TACTICAL",
                      "WHAT_IF", "SCOUTING">>
    <2>1. f \in Surjection(1..10, Intents)
      BY DEF Surjection, Intents
    <2> HIDE DEF f
    <2>2. \A n \in Nat : IsFiniteSet(1..n)
      BY FS_Interval
    <2>3. IsFiniteSet(1..10)
      BY <2>2
    <2> QED
      BY <2>1, <2>3, FS_Surjection
  <1>5. Effective(MatchedIntents(words)) \subseteq Intents
    BY <1>3 DEF Effective
  <1> QED
    BY <1>1, <1>3, <1>4, <1>5, FS_Subset DEF MatchedIntents

\* What classify_intent returns: no intent and why, several intents in one, or
\* the only one that is left.
ClassOK(class, matched) ==
    \/ class.intent = None /\ class.failure \in {"NO_CLEAR_INTENT", "MULTIPLE_INTENTS"}
    \/ class.intent = "COMPLEX_SYNTHESIS" /\ class.failure = None
    \/ /\ class.intent \in matched /\ class.failure = None
       /\ Effective(matched) = {class.intent}

LEMMA ClassifyIs ==
    ASSUME NEW words
    PROVE  ClassOK(Classify(words), MatchedIntents(words))
  <1> DEFINE matched == MatchedIntents(words)
             effective == Effective(matched)
             class == Classify(words)
  <1>1. /\ matched \in SUBSET Intents
        /\ IsFiniteSet(effective) /\ effective \subseteq matched
        /\ MatchedSignals(words) # {} => effective # {}
    BY MatchedTypes, SomethingIsLeft DEF Effective
  <1>2. Cardinality(effective) \in Nat /\ (effective # {} => Cardinality(effective) # 0)
    BY <1>1, FS_CardinalityType, FS_EmptySet
  <1> SUFFICES ClassOK(class, matched)
    OBVIOUS
  <1>3. CASE MatchedSignals(words) = {}
    <2>1. class = [intent |-> None, failure |-> "NO_CLEAR_INTENT"]
      <3>1. effective = {} /\ Cardinality(effective) = 0
        BY <1>3, FS_EmptySet DEF MatchedIntents, Effective
      <3> QED
        BY <1>3, <3>1 DEF Classify
    <2>2. class.intent = None /\ class.failure = "NO_CLEAR_INTENT"
      BY <2>1
    <2> HIDE DEF class, matched
    <2> QED
      BY <2>2 DEF ClassOK
  <1>4. CASE MatchedSignals(words) # {} /\ Cardinality(effective) >= 2
    <2>1. \/ class = [intent |-> "COMPLEX_SYNTHESIS", failure |-> None]
          \/ class = [intent |-> None, failure |-> "MULTIPLE_INTENTS"]
      BY <1>4 DEF Classify
    <2>2. \/ class.intent = "COMPLEX_SYNTHESIS" /\ class.failure = None
          \/ class.intent = None /\ class.failure = "MULTIPLE_INTENTS"
      BY <2>1
    <2> HIDE DEF class, matched
    <2> QED
      BY <2>2 DEF ClassOK
  <1>5. CASE MatchedSignals(words) # {} /\ Cardinality(effective) = 1
    <2>1. PICK i : effective = {i}
      BY <1>1, <1>5, FS_Singleton
    <2>2. class = [intent |-> CHOOSE j \in effective : TRUE, failure |-> None]
      BY <1>5 DEF Classify
    <2>3. (CHOOSE j \in effective : TRUE) = i
      BY <2>1
    <2>4. class.intent = i /\ class.failure = None
      BY <2>2, <2>3
    <2> HIDE DEF class, matched
    <2> QED
      BY <1>1, <2>1, <2>4 DEF ClassOK
  <1> QED
    BY <1>1, <1>2, <1>3, <1>4, <1>5

-----------------------------------------------------------------------------
(* The gate and the plan.                                                  *)

\* The clubs of a question are a sequence, and of the registry if all known.
LEMMA EntitiesTypes ==
    ASSUME NEW q \in Questions
    PROVE  /\ Len(Entities(q)) \in Nat
           /\ None \notin Range(Entities(q)) =>
                Entities(q) \in BoundedSeq(Clubs, MaxTeams)
  <1>1. /\ q.teams \in BoundedSeq(Spellings, MaxTeams)
        /\ q.mentions \in BoundedSeq(Clubs, MaxTeams)
    BY DEF Questions
  <1>2. CASE q.teams = <<>>
    <2>1. Entities(q) = q.mentions
      BY <1>2 DEF Entities
    <2>2. PICK n \in 0..MaxTeams : q.mentions \in [1..n -> Clubs]
      BY <1>1 DEF BoundedSeq, SeqOf
    <2>3. n \in Nat
      BY RouterAssumption DEF RouterAssumption
    <2> QED
      BY <1>1, <2>1, <2>2, <2>3
  <1>3. CASE q.teams # <<>>
    <2>1. PICK n \in 0..MaxTeams : q.teams \in [1..n -> Spellings]
      BY <1>1 DEF BoundedSeq, SeqOf
    <2>2. n \in Nat
      BY RouterAssumption DEF RouterAssumption
    <2>3. Entities(q) = [i \in 1..n |-> ClubOf[q.teams[i]]]
      BY <1>3, <2>1 DEF Entities
    <2>4. \A i \in 1..n : ClubOf[q.teams[i]] \in Clubs \cup {None}
      BY <2>1, RouterAssumption DEF RouterAssumption
    <2>5. ASSUME None \notin Range(Entities(q))
          PROVE  Entities(q) \in [1..n -> Clubs]
      <3>1. \A i \in 1..n : ClubOf[q.teams[i]] # None
        BY <2>3, <2>5 DEF Range
      <3> QED
        BY <2>3, <2>4, <3>1
    <2> QED
      BY <2>1, <2>2, <2>3, <2>5 DEF BoundedSeq, SeqOf
  <1> QED
    BY <1>2, <1>3

\* The gate passes exactly the questions that are not ambiguous.
LEMMA GateIsNoAmbiguity ==
    ASSUME NEW class, NEW matched \in SUBSET Intents, NEW clubs,
           ClassOK(class, matched), Len(clubs) \in Nat
    PROVE  GatePassed(class, clubs) <=>
               Failures(class, clubs) \cap AmbiguityCodes = {}
  <1>1. /\ None \notin {"NO_CLEAR_INTENT", "MULTIPLE_INTENTS", "COMPLEX_SYNTHESIS"}
        /\ None \notin Intents
    BY RouterAssumption DEF RouterAssumption, NoIntentReasons, Intents, IntentCategory
  <1>2. CASE class.intent = None /\ class.failure \in {"NO_CLEAR_INTENT", "MULTIPLE_INTENTS"}
    BY <1>1, <1>2 DEF GatePassed, Failures, AmbiguityCodes
  <1>3. CASE class.intent # None /\ class.failure = None
    <2>1. GatePassed(class, clubs) <=> EnoughTeams(class.intent, clubs)
      BY <1>1, <1>3 DEF GatePassed
    <2>2. CASE EnoughTeams(class.intent, clubs)
      <3>1. Failures(class, clubs) \subseteq {"UNAVAILABLE"}
        BY <1>3, <2>2 DEF Failures
      <3> QED
        BY <2>1, <2>2, <3>1 DEF AmbiguityCodes
    <2>3. CASE ~EnoughTeams(class.intent, clubs)
      <3>1. \/ "MISSING_MATCHUP" \in Failures(class, clubs)
            \/ "MISSING_REQUIRED_TEAM" \in Failures(class, clubs)
        BY <2>3 DEF Failures
      <3> QED
        BY <2>1, <2>3, <3>1 DEF AmbiguityCodes
    <2> QED
      BY <2>2, <2>3
  <1> QED
    BY <1>1, <1>2, <1>3 DEF ClassOK

Plans == [tier : 0..3, planned_tools : SUBSET ToolName,
          planned_specialists : SUBSET SpecialistName,
          requires_llm_fallback : BOOLEAN]

\* What can be planned for an intent: a plan of tier 0 needs no specialist.
LEMMA PlanTypes ==
    ASSUME NEW intent, NEW words
    PROVE  /\ PlanFor(intent, words) \in Plans
           /\ PlanFor(intent, words).requires_llm_fallback = FALSE
           /\ PlanFor(intent, words).tier = 0 =>
                PlanFor(intent, words).planned_specialists = {}
  <1> DEFINE plan == PlanFor(intent, words)
  <1> USE DEF PlanFor, Plan
  <1>1. CASE intent = "SIMPLE_FACT"
    BY <1>1 DEF Plans, ToolName, SpecialistName
  <1>2. CASE intent = "HISTORICAL"
    BY <1>2 DEF Plans, ToolName, SpecialistName
  <1>3. CASE intent = "PREDICTION"
    BY <1>3 DEF Plans, ToolName, SpecialistName
  <1>4. CASE intent = "PREDICTION_EXPLANATION"
    BY <1>4 DEF Plans, ToolName, SpecialistName
  <1>5. CASE intent = "SCORELINE"
    BY <1>5 DEF Plans, ToolName, SpecialistName
  <1>6. CASE intent = "LIVE"
    BY <1>6 DEF Plans, ToolName, SpecialistName
  <1>7. CASE intent \in {"RESEARCH", "TACTICAL", "COMPLEX_SYNTHESIS"}
    BY <1>7 DEF Plans, ToolName, SpecialistName
  <1>8. CASE intent \notin {"SIMPLE_FACT", "HISTORICAL", "PREDICTION",
                            "PREDICTION_EXPLANATION", "SCORELINE", "LIVE", "RESEARCH",
                            "TACTICAL", "COMPLEX_SYNTHESIS"}
    <2>1. plan = Plan(0, {}, {})
      BY <1>8
    <2> QED
      BY <2>1 DEF Plans, ToolName, SpecialistName
  <1> QED
    BY <1>1, <1>2, <1>3, <1>4, <1>5, <1>6, <1>7, <1>8

-----------------------------------------------------------------------------
(* The answer to a question.                                               *)

ClassFor(q) == Classify(q.words)

DecisionFor(q) == Decision(ClassFor(q), Entities(q))

PlanOf(q) == ExecutionPlan(DecisionFor(q), q.words)

\* The only answers there are.
AnswerOK(q, r) ==
    \/ r = None
    \/ r = [kind |-> "raised", error |-> "UnknownTeam"]
    \/ /\ r = [kind |-> "routed", decision |-> DecisionFor(q), plan |-> PlanOf(q)]
       /\ None \notin Range(Entities(q))

RInv ==
    /\ question \in Questions
    /\ AnswerOK(question, routed)

LEMMA InitAnswer == Init => RInv
  BY DEF Init, RInv, AnswerOK

LEMMA NextAnswer ==
    ASSUME RInv, [Next]_vars
    PROVE  RInv'
  <1>1. ClassFor(question).failure # "StopIteration"
    <2>1. None # "StopIteration"
      BY RouterAssumption DEF RouterAssumption, NoIntentReasons
    <2>2. ClassOK(ClassFor(question), MatchedIntents(question.words))
      BY ClassifyIs DEF ClassFor
    <2> QED
      BY <2>1, <2>2 DEF ClassOK
  <1>2. CASE Raises
    BY <1>1, <1>2 DEF RInv, AnswerOK, Raises, ClassFor
  <1>3. CASE Routes
    BY <1>3 DEF RInv, AnswerOK, Routes, ClassFor, DecisionFor, PlanOf
  <1>4. CASE UNCHANGED vars
    BY <1>4 DEF RInv, vars
  <1> QED
    BY <1>2, <1>3, <1>4 DEF Next

LEMMA AlwaysAnswer == Spec => []RInv
  <1>1. RInv /\ [Next]_vars => RInv'
    BY NextAnswer
  <1> QED
    BY <1>1, InitAnswer, PTL DEF Spec

LEMMA RoutedIs ==
    ASSUME RInv, Routed
    PROVE  /\ routed.decision = DecisionFor(question)
           /\ routed.plan = PlanOf(question)
           /\ None \notin Range(Entities(question))
  BY DEF RInv, AnswerOK, Routed

\* The fields of a decision.
LEMMA DecisionIs ==
    ASSUME NEW q \in Questions
    PROVE  /\ DecisionFor(q).intent = ClassFor(q).intent
           /\ DecisionFor(q).entities = Entities(q)
           /\ DecisionFor(q).gate_passed \in BOOLEAN
           /\ DecisionFor(q).requires_llm_fallback \in BOOLEAN
           /\ DecisionFor(q).gate_passed <=> ~DecisionFor(q).requires_llm_fallback
           /\ ClassOK(ClassFor(q), MatchedIntents(q.words))
           /\ DecisionFor(q).intent = None => DecisionFor(q).requires_llm_fallback
  <1> DEFINE class == ClassFor(q)
             clubs == Entities(q)
             matched == MatchedIntents(q.words)
  <1>1. ClassOK(class, matched) /\ matched \in SUBSET Intents /\ Len(clubs) \in Nat
    BY ClassifyIs, MatchedTypes, EntitiesTypes DEF ClassFor
  <1>2. DecisionFor(q) =
          [intent |-> class.intent, entities |-> clubs,
           gate_passed |-> GatePassed(class, clubs),
           requires_llm_fallback |-> Failures(class, clubs) \cap AmbiguityCodes # {}]
    BY DEF DecisionFor, Decision
  <1> HIDE DEF class, clubs, matched
  <1>3. GatePassed(class, clubs) <=>
          Failures(class, clubs) \cap AmbiguityCodes = {}
    BY <1>1, GateIsNoAmbiguity
  <1>4. GatePassed(class, clubs) \in BOOLEAN
    BY DEF GatePassed, EnoughTeams
  <1>5. class.intent = None => ~GatePassed(class, clubs)
    BY DEF GatePassed
  <1>6. /\ DecisionFor(q).intent = class.intent /\ DecisionFor(q).entities = clubs
        /\ DecisionFor(q).gate_passed = GatePassed(class, clubs)
        /\ DecisionFor(q).requires_llm_fallback =
             (Failures(class, clubs) \cap AmbiguityCodes # {})
    BY <1>2
  <1> QED
    BY <1>1, <1>3, <1>4, <1>5, <1>6 DEF class, clubs, matched

\* A plan of tier 0 is for a question that passed the gate.
LEMMA PlanIs ==
    ASSUME NEW q \in Questions
    PROVE  /\ PlanOf(q) \in Plans
           /\ PlanOf(q).tier = 0 =>
                /\ ~DecisionFor(q).requires_llm_fallback
                /\ ~PlanOf(q).requires_llm_fallback
                /\ PlanOf(q).planned_specialists = {}
           /\ (/\ DecisionFor(q).intent \notin Unavailable
               /\ ~DecisionFor(q).requires_llm_fallback) =>
                PlanOf(q) = PlanFor(DecisionFor(q).intent, q.words)
  <1> DEFINE decision == DecisionFor(q)
  <1>1. CASE decision.intent \in Unavailable
    <2>1. PlanOf(q) = Plan(0, {}, {})
      BY <1>1 DEF PlanOf, ExecutionPlan
    <2>2. ~decision.requires_llm_fallback
      <3>1. EnoughTeams(decision.intent, Entities(q))
        <4>1. MinTeams(decision.intent) = 0
          BY <1>1 DEF MinTeams, Unavailable
        <4> QED
          BY <4>1, EntitiesTypes DEF EnoughTeams
      <3>2. ClassFor(q).intent # None /\ ClassFor(q).failure # "MULTIPLE_INTENTS"
        <4>1. None \notin Unavailable \cup {"MULTIPLE_INTENTS"}
          BY RouterAssumption DEF RouterAssumption, Unavailable, IntentCategory,
                 NoIntentReasons
        <4> QED
          BY <1>1, <4>1, DecisionIs DEF ClassOK
      <3>3. decision.gate_passed = GatePassed(ClassFor(q), Entities(q))
        BY DEF DecisionFor, Decision
      <3> QED
        BY <3>1, <3>2, <3>3, DecisionIs DEF GatePassed
    <2> QED
      BY <1>1, <2>1, <2>2 DEF Plans, Plan
  <1>2. CASE decision.intent \notin Unavailable /\ decision.requires_llm_fallback
    <2>1. PlanOf(q) = [tier |-> 1, planned_tools |-> {}, planned_specialists |-> {},
                       requires_llm_fallback |-> TRUE]
      BY <1>2 DEF PlanOf, ExecutionPlan, Plan
    <2> QED
      BY <1>2, <2>1 DEF Plans
  <1>3. CASE decision.intent \notin Unavailable /\ ~decision.requires_llm_fallback
    <2>1. PlanOf(q) = PlanFor(decision.intent, q.words)
      BY <1>3 DEF PlanOf, ExecutionPlan
    <2>2. /\ PlanOf(q) \in Plans
          /\ PlanOf(q).requires_llm_fallback = FALSE
          /\ PlanOf(q).tier = 0 => PlanOf(q).planned_specialists = {}
      <3> DEFINE intent == decision.intent
                 words == q.words
      <3> HIDE DEF intent, words
      <3>1. /\ PlanFor(intent, words) \in Plans
            /\ PlanFor(intent, words).requires_llm_fallback = FALSE
            /\ PlanFor(intent, words).tier = 0 =>
                 PlanFor(intent, words).planned_specialists = {}
        BY PlanTypes
      <3> QED
        BY <2>1, <3>1 DEF intent, words
    <2> QED
      BY <1>3, <2>1, <2>2
  <1> QED
    BY <1>1, <1>2, <1>3

\* Whatever else matched is absorbed by the intent that is chosen.
THEOREM WinnerNeverPicked == Spec => []NoWinnerPicked
  <1>1. ASSUME RInv, Routed, Intent \notin {None, "COMPLEX_SYNTHESIS"}
        PROVE  MatchedIntents(question.words) \subseteq
                 {Intent} \cup Subsumption(Intent)
    <2>1. question \in Questions /\ Intent = DecisionFor(question).intent
      BY <1>1, RoutedIs DEF RInv, Intent
    <2>2. Effective(MatchedIntents(question.words)) = {Intent}
      BY <1>1, <2>1, DecisionIs DEF ClassOK
    <2> HIDE DEF Intent
    <2> QED
      BY <2>2, MatchedTypes, LastAbsorbs
  <1>2. RInv => NoWinnerPicked
    BY <1>1 DEF NoWinnerPicked
  <1> QED
    BY <1>2, AlwaysAnswer, PTL

\* The signals, and the intent of each.
LEMMA SignalsAre ==
    /\ Signals = {"STANDINGS", "FIXTURES", "LIVE", "HISTORICAL", "PREDICTION",
                  "EXPLANATION", "SCORELINE", "RESEARCH", "TACTICAL", "WHAT_IF",
                  "SCOUTING"}
    /\ \A signal \in Signals :
          IntentOf(signal) = CASE signal \in {"STANDINGS", "FIXTURES"} -> "SIMPLE_FACT"
                               [] signal = "EXPLANATION" -> "PREDICTION_EXPLANATION"
                               [] OTHER -> signal
  BY DEF Signals, Trigger, IntentOf

\* The plan of a question that passes the gate is made for its intent, which is
\* a synthesis or has absorbed the intent of each signal.
LEMMA PlannedFor ==
    ASSUME RInv, Routed, routed.decision.gate_passed, Intent \notin Unavailable,
           NEW signal \in MatchedSignals(question.words)
    PROVE  /\ routed.plan = PlanFor(Intent, question.words)
           /\ signal \in Signals
           /\ \/ Intent = "COMPLEX_SYNTHESIS"
              \/ /\ Intent \in Intents
                 /\ IntentOf(signal) \in {Intent} \cup Subsumption(Intent)
  <1> DEFINE matched == MatchedIntents(question.words)
  <1>1. /\ question \in Questions /\ Intent = DecisionFor(question).intent
        /\ ~DecisionFor(question).requires_llm_fallback
        /\ routed.plan = PlanOf(question)
    BY RoutedIs, DecisionIs DEF RInv, Intent
  <1>2. routed.plan = PlanFor(Intent, question.words)
    BY <1>1, PlanIs
  <1>3. signal \in Signals /\ IntentOf(signal) \in matched
    BY DEF MatchedSignals, MatchedIntents
  <1>4. \/ Intent = "COMPLEX_SYNTHESIS"
        \/ Intent \in matched /\ Effective(matched) = {Intent}
    BY <1>1, DecisionIs DEF ClassOK
  <1> HIDE DEF Intent, matched
  <1>5. Intent # "COMPLEX_SYNTHESIS" =>
          Intent \in Intents /\ matched \subseteq {Intent} \cup Subsumption(Intent)
    BY <1>4, MatchedTypes, LastAbsorbs DEF matched
  <1> QED
    BY <1>2, <1>3, <1>5

\* What a question asks for is served, but for what is dropped: the plan of the
\* intent that is left answers every intent that it absorbed.
THEOREM HeardIsAlwaysServed == Spec => []WhatIsHeardIsServed
  <1>1. ASSUME RInv, Routed, routed.decision.gate_passed, Intent \notin Unavailable,
               NEW signal \in MatchedSignals(question.words), ~Scopes(signal)
        PROVE  Served(signal) <=> ~Dropped(signal)
    <2> DEFINE intent == Intent
               plan == PlanFor(intent, question.words)
               answers == plan.planned_tools \cup plan.planned_specialists
    <2>1. /\ routed.plan = plan /\ signal \in Signals
          /\ \/ intent = "COMPLEX_SYNTHESIS"
             \/ /\ intent \in Intents
                /\ IntentOf(signal) \in {intent} \cup Subsumption(intent)
      BY <1>1, PlannedFor
    <2>2. Served(signal) <=> Needs[signal] \subseteq answers
      BY <2>1 DEF Served
    <2>3. /\ intent \notin Unavailable
          /\ ~(/\ IntentOf(signal) = "SIMPLE_FACT"
               /\ intent \notin {"SIMPLE_FACT", "HISTORICAL", "COMPLEX_SYNTHESIS"})
          /\ Dropped(signal) <=>
               \/ /\ intent = "SIMPLE_FACT" /\ signal = "FIXTURES"
                  /\ "STANDINGS" \in MatchedSignals(question.words)
               \/ intent = "PREDICTION_EXPLANATION" /\ signal = "SCORELINE"
               \/ intent = "COMPLEX_SYNTHESIS" /\ signal \in {"LIVE", "WHAT_IF", "SCOUTING"}
      BY <1>1 DEF Scopes, Dropped
    <2> HIDE DEF intent
    <2>4. CASE intent = "COMPLEX_SYNTHESIS"
      <3>1. answers = {"get_current_standings", "get_fixtures", "run_outcome_prediction",
                       "explain_outcome_prediction", "get_scoreline_prediction",
                       "research", "tactical"}
        BY <2>4 DEF PlanFor, Plan
      <3> HIDE DEF answers
      <3> QED
        BY <2>1, <2>2, <2>3, <2>4, <3>1, SignalsAre DEF Needs
    <2>5. CASE intent = "SIMPLE_FACT"
      <3>1. answers = IF "STANDINGS" \in MatchedSignals(question.words)
                        THEN {"get_current_standings"} ELSE {"get_fixtures"}
        BY <2>5 DEF PlanFor, Plan
      <3>2. signal \in {"STANDINGS", "FIXTURES"}
        BY <2>1, <2>5, SignalsAre DEF Subsumption
      <3>3. signal = "STANDINGS" => "STANDINGS" \in MatchedSignals(question.words)
        BY <1>1
      <3> HIDE DEF answers
      <3> QED
        BY <2>2, <2>3, <2>5, <3>1, <3>2, <3>3 DEF Needs
    <2>6. CASE intent = "HISTORICAL"
      <3>1. answers = {"get_fixtures", "get_current_standings"}
        BY <2>6 DEF PlanFor, Plan
      <3>2. signal \in {"STANDINGS", "FIXTURES", "HISTORICAL"}
        BY <2>1, <2>6, SignalsAre DEF Subsumption
      <3> HIDE DEF answers
      <3> QED
        BY <2>2, <2>3, <2>6, <3>1, <3>2 DEF Needs
    <2>7. CASE intent \in {"PREDICTION", "PREDICTION_EXPLANATION", "SCORELINE"}
      <3>1. answers =
              CASE intent = "PREDICTION" ->
                     {"run_outcome_prediction", "get_scoreline_prediction"}
                [] intent = "PREDICTION_EXPLANATION" ->
                     {"run_outcome_prediction", "explain_outcome_prediction"}
                [] intent = "SCORELINE" -> {"get_scoreline_prediction"}
        BY <2>7 DEF PlanFor, Plan
      <3>2. signal \in CASE intent = "PREDICTION" -> {"PREDICTION", "SCORELINE"}
                         [] intent = "PREDICTION_EXPLANATION" ->
                              {"EXPLANATION", "PREDICTION", "SCORELINE"}
                         [] intent = "SCORELINE" -> {"SCORELINE"}
        BY <2>1, <2>3, <2>7, SignalsAre DEF Subsumption
      <3> HIDE DEF answers
      <3> QED
        BY <2>2, <2>3, <2>7, <3>1, <3>2 DEF Needs
    <2>8. CASE intent \in {"LIVE", "RESEARCH", "TACTICAL"}
      <3>1. /\ intent = "LIVE" => "get_live_matches" \in answers
            /\ intent = "RESEARCH" => "research" \in answers
            /\ intent = "TACTICAL" => "tactical" \in answers
        BY <2>8 DEF PlanFor, Plan
      <3>2. signal = intent
        BY <2>1, <2>3, <2>8, SignalsAre DEF Subsumption
      <3> HIDE DEF answers
      <3> QED
        BY <2>2, <2>3, <2>8, <3>1, <3>2 DEF Needs
    <2> QED
      BY <2>1, <2>3, <2>4, <2>5, <2>6, <2>7, <2>8 DEF Intents, Unavailable
  <1>2. RInv => WhatIsHeardIsServed
    BY <1>1 DEF WhatIsHeardIsServed
  <1> QED
    BY <1>2, AlwaysAnswer, PTL

\* The gate passes where, and only where, no fallback is asked for.
THEOREM GateAlwaysMeansNoFallback == Spec => []GateMeansNoFallback
  <1>1. RInv => GateMeansNoFallback
    BY RoutedIs, DecisionIs DEF RInv, GateMeansNoFallback
  <1> QED
    BY <1>1, AlwaysAnswer, PTL

\* A plan of tier 0 costs no call, not even to route the question.
THEOREM TierZeroAlwaysFree == Spec => []TierZeroIsFree
  <1>1. RInv => TierZeroIsFree
    BY RoutedIs, DecisionIs, PlanIs DEF RInv, TierZeroIsFree
  <1> QED
    BY <1>1, AlwaysAnswer, PTL

\* Routing raises for a club that nobody knows, and for nothing else.
THEOREM OnlyUnknownTeamsEverRaise == Spec => []OnlyUnknownTeamsRaise
  <1>1. RInv => OnlyUnknownTeamsRaise
    BY DEF RInv, AnswerOK, OnlyUnknownTeamsRaise
  <1> QED
    BY <1>1, AlwaysAnswer, PTL

\* Questions, decisions and plans are well typed: only tools that exist are
\* planned, and only clubs of the registry are decided about.
THEOREM TypeCorrect == Spec => []TypeOK
  <1> DEFINE Decisions == [intent : IntentCategory \cup {None},
                           entities : BoundedSeq(Clubs, MaxTeams),
                           gate_passed : BOOLEAN, requires_llm_fallback : BOOLEAN]
  <1>1. ASSUME RInv, None \notin Range(Entities(question))
        PROVE  DecisionFor(question) \in Decisions
    <2>1. question \in Questions
      BY <1>1 DEF RInv
    <2>2. Entities(question) \in BoundedSeq(Clubs, MaxTeams)
      BY <1>1, <2>1, EntitiesTypes
    <2>3. ClassFor(question).intent \in IntentCategory \cup {None}
      BY <2>1, DecisionIs, MatchedTypes DEF ClassOK, Intents, IntentCategory
    <2>4. /\ DecisionFor(question).gate_passed \in BOOLEAN
          /\ DecisionFor(question).requires_llm_fallback \in BOOLEAN
      BY <2>1, DecisionIs
    <2> QED
      BY <2>2, <2>3, <2>4 DEF DecisionFor, Decision
  <1>2. RInv => TypeOK
    <2> SUFFICES ASSUME RInv PROVE TypeOK
      OBVIOUS
    <2>1. question \in Questions /\ PlanOf(question) \in Plans
      BY PlanIs DEF RInv
    <2>2. CASE routed = [kind |-> "routed", decision |-> DecisionFor(question),
                         plan |-> PlanOf(question)]
               /\ None \notin Range(Entities(question))
      <3>1. DecisionFor(question) \in Decisions
        BY <1>1, <2>2
      <3> QED
        BY <2>1, <2>2, <3>1 DEF TypeOK, Plans
    <2> QED
      BY <2>1, <2>2 DEF RInv, AnswerOK, TypeOK
  <1> QED
    BY <1>2, AlwaysAnswer, PTL
=============================================================================
