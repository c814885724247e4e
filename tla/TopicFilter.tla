---------------------------- MODULE TopicFilter ----------------------------
(***************************************************************************)
(* mqtt5::topic_filter: parsing a filter into levels, the assertions on    *)
(* it, printing it, and matching it against a topic name.                  *)
(*                                                                         *)
(* The class has no state of its own.  The state machine here enumerates   *)
(* its inputs: a filter and a name grow by one character at a time.        *)
(* A text is a sequence of characters, and so is a level.                  *)
(*                                                                         *)
(* Definitions named ...Fault are not the program: each is what a likely   *)
(* slip in the definition below it would be, and a property rules it out.  *)
(***************************************************************************)
EXTENDS Naturals, Sequences, SequencesExt

CONSTANTS
    Letters,    \* characters without a meaning of their own
    MaxFilter,  \* bound on the length of filters
    MaxName     \* bound on the length of topic names

ASSUME LettersAssumption == Letters \cap {"$", "+", "#", "/"} = {}
ASSUME BoundsAssumption == MaxFilter \in Nat /\ MaxName \in Nat

VARIABLES
    filter,   \* the text a filter is made from
    name      \* the topic name of a PUBLISH

vars == <<filter, name>>

NameChars == Letters \cup {"$", "/"}
FilterChars == NameChars \cup {"+", "#"}

Init == filter = <<>> /\ name = <<>>

ExtendFilter(ch) ==
    Len(filter) < MaxFilter /\ filter' = Append(filter, ch) /\ UNCHANGED name

ExtendName(ch) ==
    Len(name) < MaxName /\ name' = Append(name, ch) /\ UNCHANGED filter

Next ==
    \/ \E ch \in FilterChars : ExtendFilter(ch)
    \/ \E ch \in NameChars : ExtendName(ch)

Spec == Init /\ [][Next]_vars
-----------------------------------------------------------------------------
(* The program *)

AnyLevel == <<"+">>
AnyLevels == <<"#">>

Split(levels, ch) ==
    IF ch = "/" THEN Append(levels, <<>>) ELSE [levels EXCEPT ![Len(levels)] = Append(@, ch)]

\* Nothing is added for the separator a text ends with.
ParseFault(text) ==
    IF text = <<>> THEN <<>>
    ELSE FoldLeft(Split, << <<>> >>, IF Last(text) = "/" THEN Front(text) ELSE text)

\* parse_inplace: levels_.  A separator at the end is followed by an empty
\* level; an empty text has no level.
Parse(text) == IF text = <<>> THEN <<>> ELSE FoldLeft(Split, << <<>> >>, text)

Text(levels) ==
    FlattenSeq([i \in DOMAIN levels |-> IF i = 1 THEN levels[i] ELSE <<"/">> \o levels[i]])

\* A wildcard need not be all of its level.
IsValidLevelFault(level, last) == level = AnyLevels => last

\* `last': the rest of the filter is empty.
IsValidLevel(level, last) ==
    /\ level = AnyLevels => last
    /\ Contains(level, "#") => level = AnyLevels
    /\ Contains(level, "+") => Len(level) = 1

\* The levels that are levels_.back() when the assertion in parse_inplace is
\* evaluated: the one before a separator at the end is not.
Asserted(levels) ==
    {i \in DOMAIN levels : ~(i = Len(levels) - 1 /\ Last(levels) = <<>>)}

\* Constructing a topic_filter with assertions on.
Accepted(text) ==
    /\ text # <<>>
    /\ LET levels == Parse(text) IN
        \A i \in Asserted(levels) : IsValidLevel(levels[i], i = Len(levels))

LevelMatches(levels, i, other) ==
    \/ i = Len(levels) /\ levels[i] = AnyLevels
    \/ levels[i] = AnyLevel
    \/ levels[i] = other

\* matches_n_levels
MatchesNLevels(levels, other, n) == \A i \in 1 .. n : LevelMatches(levels, i, other[i])

\* The level that # may stand for is not optional.
MatchesFault(levels, topic) ==
    LET other == Parse(topic) IN
    /\ ~(Head(topic) = "$" /\ (Head(levels) = <<>> \/ Head(levels)[1] # "$"))
    /\ Len(other) >= Len(levels)
    /\ Len(other) > Len(levels) => Last(levels) = AnyLevels
    /\ MatchesNLevels(levels, other, Len(levels))

\* matches() of a filter with these levels; the topic is not empty.
Matches(levels, topic) ==
    LET other == Parse(topic) IN
    /\ ~(Head(topic) = "$" /\ (Head(levels) = <<>> \/ Head(levels)[1] # "$"))
    /\ \/ /\ Len(other) < Len(levels)
          /\ Len(other) = Len(levels) - 1
          /\ Last(levels) = AnyLevels
          /\ MatchesNLevels(levels, other, Len(other))
       \/ /\ Len(other) > Len(levels)
          /\ Last(levels) = AnyLevels
          /\ MatchesNLevels(levels, other, Len(levels) - 1)
       \/ /\ Len(other) = Len(levels)
          /\ MatchesNLevels(levels, other, Len(levels))
-----------------------------------------------------------------------------
(* Properties *)

\* What the comments of is_valid_level say of a valid filter: # is the whole
\* of the last level, + the whole of its level.
Valid(text) ==
    LET levels == Parse(text) IN
    /\ text # <<>>
    /\ \A i \in DOMAIN levels :
        /\ Contains(levels[i], "#") => levels[i] = AnyLevels /\ i = Len(levels)
        /\ Contains(levels[i], "+") => levels[i] = AnyLevel

\* The assertions let every valid filter pass, and an invalid one only if it
\* ends with an empty level, which hides the one in front of it from them.
\* to_string gives back the text a filter was parsed from, so that what is
\* subscribed is what was asked for and == compares texts.
ValidIsKept ==
    /\ Valid(filter) => Accepted(filter)
    /\ Accepted(filter) /\ Last(Parse(filter)) # <<>> => Valid(filter)
    /\ Text(Parse(filter)) = filter

\* The filter with its # replaced by k levels that each match anything.
Expanded(levels, k) ==
    IF Last(levels) = AnyLevels
    THEN Front(levels) \o [i \in 1 .. k |-> AnyLevel]
    ELSE levels

\* A name fits a filter if it does so level by level for some number of levels
\* that # stands for.  Names that begin with $ are hidden from filters that
\* begin with a wildcard.
Fits(levels, other) ==
    /\ \E k \in 0 .. Len(other) :
        LET e == Expanded(levels, k) IN
        /\ Len(e) = Len(other)
        /\ \A i \in DOMAIN e : e[i] \in {AnyLevel, other[i]}
    /\ ~(other[1] # <<>> /\ other[1][1] = "$" /\ Head(levels) \in {AnyLevel, AnyLevels})

\* matches() agrees with that definition for every valid filter: with empty
\* levels, with # standing for no level at all, with names that begin with $.
MatchesWhatFits ==
    Valid(filter) /\ name # <<>> =>
        (Matches(Parse(filter), name) <=> Fits(Parse(filter), Parse(name)))
=============================================================================
