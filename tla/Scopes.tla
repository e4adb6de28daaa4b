------------------------------- MODULE Scopes -------------------------------
(***************************************************************************)
(* The scope language: a scope is a sequence of segments, a held scope may *)
(* carry wildcards, and a required one may not.                            *)
(***************************************************************************)
EXTENDS Integers, Sequences, FiniteSets

CONSTANTS
    One,        \* WILDCARD_ONE, "*"
    Many,       \* WILDCARD_MANY, "**"
    EmptySegment

ASSUME WildcardAssumption == One # Many /\ EmptySegment \notin {One, Many}

\* The first position at which a wildcard means anything (1-based here).
FirstWildcardPosition == 3

Segments(s) == {s[i] : i \in 1..Len(s)}
IsScope(s) == s \in Seq(Segments(s))

\* assertRequiredScope does not throw.
RequiredScope(s) == Len(s) >= 2 /\ Segments(s) \cap {EmptySegment, One, Many} = {}

\* assertHeldScope does not throw.
HeldScope(s) == Len(s) >= 2 /\ EmptySegment \notin Segments(s)

\* Mutant: a wildcard counts wherever it stands.
WildcardAt_Anywhere(i) == i >= 1
\* Is a wildcard at position i of a held scope honored?
WildcardAt(i) == i >= FirstWildcardPosition

\* walkMatch: both scopes are walked in step.
WalkMatch(required, held) ==
    LET walk[i \in 1..Len(held) + 1] ==
            IF i > Len(held) THEN Len(required) = Len(held)
            ELSE IF WildcardAt(i) /\ held[i] = Many /\ i = Len(held)
                 THEN Len(required) >= i
            ELSE /\ i <= Len(required)
                 /\ held[i] # required[i] => WildcardAt(i) /\ held[i] = One
                 /\ walk[i + 1]
    IN walk[1]

ScopeMatches(required, held) == required = held \/ WalkMatch(required, held)

MatchesAny(required, held) == \E h \in held : ScopeMatches(required, h)

\* normalize, which throws on a scope that is not one, sorts and drops doubles:
\* here the set is the normal form.
Normalizable(a) == \A s \in a : HeldScope(s)

\* intersect, by exact scopes: wildcards mean nothing to it.
Intersect(a, b) == a \cap b
-----------------------------------------------------------------------------
\* What a held scope grants, as the documentation of the language has it: the
\* namespace and the operation literally, then segment by segment, a One for
\* any one, and a last Many for one or more.
Grants(held, required) ==
    LET n == Len(held)
        open == n >= FirstWildcardPosition /\ held[n] = Many
        fixed == IF open THEN n - 1 ELSE n
    IN /\ IF open THEN Len(required) > fixed ELSE Len(required) = fixed
       /\ \A i \in 1..fixed :
            \/ held[i] = required[i]
            \/ held[i] = One /\ i > 2
=============================================================================
