------------------------------ MODULE TeamScan ------------------------------
(***************************************************************************)
(* extract_teams of agents/planner.py: the clubs that a question names,    *)
(* found by exact lookup of every run of words in the registry's aliases,  *)
(* longest runs first; words that belong to a name are not used again.     *)
(*                                                                         *)
(* A step is one pass of the inner loop.                                   *)
(***************************************************************************)
EXTENDS Registry, Sequences, Integers, FiniteSets

CONSTANTS
    Words,      \* the words of a normalised question
    ClubNamed,  \* _alias_index: normalised alias (a sequence of words) -> club
    MaxSpan,    \* the words of the longest alias
    MaxTokens   \* bound: words of a question

Alias == DOMAIN ClubNamed

ASSUME ScanAssumption ==
    /\ MaxTokens \in Nat
    /\ MaxSpan \in Nat
    /\ \A alias \in Alias :
          /\ alias \in Seq(Words)
          /\ Len(alias) \in 1..MaxSpan
          /\ ClubNamed[alias] \in Clubs
    /\ None \notin Clubs

VARIABLES
    tokens,     \* the question
    span,       \* how many words are looked at
    start,      \* the first of them
    consumed,   \* positions of words that belong to a name already
    matches,    \* the clubs found, in the order they were found
    entities    \* None, or the clubs returned

scanVars == <<tokens, span, start, consumed, matches, entities>>

-----------------------------------------------------------------------------

\* The words from first on, and the positions they have.
Run(first, length) == SubSeq(tokens, first, first + length - 1)

Positions(first, length) == first..(first + length - 1)

Here == Positions(start, span)

Candidate == Run(start, span)

Least(m, n) == IF m <= n THEN m ELSE n

\* Mutant of FirstSpan: a bound one too small.
FirstSpanShort == Least(MaxSpan, Len(tokens)) - 1

FirstSpan == Least(MaxSpan, Len(tokens))

ScanInit ==
    /\ tokens \in UNION {[1..n -> Words] : n \in 0..MaxTokens}
    /\ span = FirstSpan
    /\ start = 1
    /\ consumed = {}
    /\ matches = <<>>
    /\ entities = None

Scanning == span > 0 /\ start + span - 1 <= Len(tokens)

\* Mutant of Free: only the first word is looked at.
FreeAtStart == start \notin consumed

Free == Here \cap consumed = {}

\* A club that has been found already.
Found(club) == \E i \in DOMAIN matches : matches[i].club = club

\* Words that belong to a name, or are no name.
Skip ==
    /\ Scanning
    /\ ~Free \/ Candidate \notin Alias
    /\ start' = start + 1
    /\ UNCHANGED <<tokens, span, consumed, matches, entities>>

\* Mutant of MentionAgain: the words of a repeated name stay free.
MentionAgainUnconsumed ==
    /\ Scanning
    /\ Free
    /\ Candidate \in Alias
    /\ Found(ClubNamed[Candidate])
    /\ start' = start + 1
    /\ UNCHANGED <<tokens, span, consumed, matches, entities>>

\* A club that the question names once more.
MentionAgain ==
    /\ Scanning
    /\ Free
    /\ Candidate \in Alias
    /\ Found(ClubNamed[Candidate])
    /\ consumed' = consumed \cup Here
    /\ start' = start + 1
    /\ UNCHANGED <<tokens, span, matches, entities>>

\* Mutant of Mention: the word after the name belongs to it too.
MentionOneMore ==
    /\ Scanning
    /\ Free
    /\ Candidate \in Alias
    /\ ~Found(ClubNamed[Candidate])
    /\ matches' = Append(matches, [club |-> ClubNamed[Candidate],
                                   start |-> start, length |-> span])
    /\ consumed' = consumed \cup start..(start + span)
    /\ start' = start + 1
    /\ UNCHANGED <<tokens, span, entities>>

Mention ==
    /\ Scanning
    /\ Free
    /\ Candidate \in Alias
    /\ ~Found(ClubNamed[Candidate])
    /\ matches' = Append(matches, [club |-> ClubNamed[Candidate],
                                   start |-> start, length |-> span])
    /\ consumed' = consumed \cup Here
    /\ start' = start + 1
    /\ UNCHANGED <<tokens, span, entities>>

Shorter ==
    /\ span > 0
    /\ ~Scanning
    /\ span' = span - 1
    /\ start' = 1
    /\ UNCHANGED <<tokens, consumed, matches, entities>>

\* The place of a match when the matches are sorted by where they start.
Rank(i) == Cardinality({j \in DOMAIN matches : matches[j].start <= matches[i].start})

Return ==
    /\ span = 0
    /\ entities = None
    /\ entities' = [r \in DOMAIN matches |->
          matches[CHOOSE i \in DOMAIN matches : Rank(i) = r].club]
    /\ UNCHANGED <<tokens, span, start, consumed, matches>>

ScanNext == Skip \/ MentionAgain \/ Mention \/ Shorter \/ Return

ScanSpec == ScanInit /\ [][ScanNext]_scanVars

-----------------------------------------------------------------------------
(* Properties.                                                             *)

Match == [club : Clubs, start : Nat \ {0}, length : 1..MaxSpan]

ScanTypeOK ==
    /\ tokens \in Seq(Words)
    /\ span \in 0..MaxSpan
    /\ start \in Nat \ {0}
    /\ consumed \subseteq DOMAIN tokens
    /\ matches \in Seq(Match)
    /\ entities = None \/ entities \in Seq(Clubs)

At(i) == Positions(matches[i].start, matches[i].length)

\* "consumed tokens are not reused" (extract_teams): each match lies on words
\* that spell an alias of its club, and no word serves two of them.
WordsServeOneName ==
    /\ \A i \in DOMAIN matches :
          /\ At(i) \subseteq consumed
          /\ Run(matches[i].start, matches[i].length) \in Alias
          /\ ClubNamed[Run(matches[i].start, matches[i].length)] = matches[i].club
    /\ \A i, j \in DOMAIN matches : i # j => At(i) \cap At(j) = {}

\* A question that names a club twice, under two names perhaps, has it once
\* among its entities: two entities are two clubs.
ClubsDiffer ==
    \A i, j \in DOMAIN matches : matches[i].club = matches[j].club => i = j

\* The places where the question spells an alias.
Occurrences ==
    {o \in [start : DOMAIN tokens, length : 1..MaxSpan] :
        /\ o.start + o.length - 1 <= Len(tokens)
        /\ Run(o.start, o.length) \in Alias}

Covers(o) == Positions(o.start, o.length)

\* "Longest match wins" (extract_teams): a name inside a longer name counts
\* only where the longer one has lost another of its words.
LongestWins ==
    \A i \in DOMAIN matches, o \in Occurrences :
        At(i) \subseteq Covers(o) /\ At(i) # Covers(o) =>
            (Covers(o) \ At(i)) \cap consumed # {}

Named(o) == ClubNamed[Run(o.start, o.length)]

\* The occurrences that a reader sees: those inside no longer one.
Names == {o \in Occurrences :
            \A p \in Occurrences : Covers(o) \subseteq Covers(p) => p = o}

\* No other name shares a word with the one here.
Alone(o) == \A p \in Names : p # o => Covers(p) \cap Covers(o) = {}

\* When the scan ends it has passed over no alias: some word of each belongs
\* to a name, and a club that is named apart from other names is found.
NothingMissed ==
    entities # None =>
        /\ \A o \in Occurrences : Covers(o) \cap consumed # {}
        /\ \A o \in Names :
              Alone(o) => \E i \in DOMAIN entities : entities[i] = Named(o)

\* "keep the user's ordering (home, away)" (extract_teams), and
\* test_entity_order_follows_the_question: where no two names share words,
\* the club that the question names first comes first.
UserOrderKept ==
    (entities # None /\ Len(entities) = 2 /\ \A o \in Names : Alone(o)) =>
        \A o \in Names :
            (\A p \in Names : o.start <= p.start) => entities[1] = Named(o)

=============================================================================
