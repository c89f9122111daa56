------------------------------ MODULE HostRouter ------------------------------
(***************************************************************************)
(* The host matcher of one listen port, src/src/core/host_router.rs: every *)
(* configured host pattern is classified once and stored in the structure  *)
(* of its class; a lookup tries the classes in a fixed order.              *)
(*                                                                         *)
(* A host is a non-empty sequence of labels (the parts between dots), a    *)
(* pattern a sequence of labels in which "*", "**" and the labels of       *)
(* PartialLabels contain stars.  Matching never looks inside a label.      *)
(***************************************************************************)
EXTENDS Integers, SequencesExt

CONSTANTS
    Hosts,          \* the Host values looked up
    Patterns,       \* the patterns a service file may give
    PartialLabels,  \* labels with one star among other characters, as "api*"
    MaxPatterns     \* bound on the number of patterns of a port

\* A host and a pattern have at least one label (`split` returns one part
\* for an empty string).
ASSUME LabelsAssumption == Hosts \cup Patterns \subseteq Seq(STRING) \ {<<>>}
ASSUME MaxPatternsAssumption == MaxPatterns \in Nat

VARIABLES
    configured,     \* the patterns added so far; the i-th has index i (the
                    \* code gives those of one file the same: the matcher
                    \* stores an index and hands it back, unseen)
    router          \* the HostRouter value

vars == <<configured, router>>

None == 0

-----------------------------------------------------------------------------
\* Classification of a pattern.

\* `matches('*').count()` of a label.
StarsIn(label) ==
    IF label = "**" THEN 2
    ELSE IF label \in PartialLabels \cup {"*"} THEN 1 ELSE 0

StarCount(p) ==
    LET count[n \in 0..Len(p)] ==
            IF n = 0 THEN 0 ELSE count[n - 1] + StarsIn(p[n])
    IN  count[Len(p)]

\* No label contains a star.
IsPlain(p) == \A i \in DOMAIN p : StarsIn(p[i]) = 0

Has(p, label)     == Contains(p, label)
FirstPos(p, label) == SelectInSeq(p, LAMBDA l : l = label)
Wildcards(p)      == Cardinality({i \in DOMAIN p : p[i] = "*"})
Interior(i, p)    == 1 < i /\ i < Len(p)

\* Fault: every pattern that starts with `*.` is a leading wildcard.
StartsWithStar(p) == Len(p) > 1 /\ Head(p) = "*"

IsCatchAll(p)   == p \in {<<"*">>, <<"**">>}
IsLeading(p)    == StarCount(p) = 1 /\ Len(p) > 1 /\ Head(p) = "*"
IsTrailing(p)   == StarCount(p) = 1 /\ Len(p) > 1 /\ Last(p) = "*"
IsDoubleLeading(p)  == Head(p) = "**" /\ IsPlain(Tail(p))
IsDoubleTrailing(p) == Last(p) = "**" /\ IsPlain(Front(p))
IsSimpleInternal(p) == /\ ~Has(p, "**") /\ Wildcards(p) = 1
                       /\ Interior(FirstPos(p, "*"), p)
IsMultiStar(p)      == ~Has(p, "**") /\ Wildcards(p) > 1
IsDoubleInternal(p) == /\ Has(p, "**") /\ ~Has(p, "*")
                       /\ Interior(FirstPos(p, "**"), p)

\* The field of HostRouter that stores a pattern: the first class in the
\* order of the if-chain of add_pattern.
ClassOf(p) ==
    IF IsCatchAll(p) THEN "catch_all"
    ELSE IF StarCount(p) = 0 THEN "exact_matches"
    ELSE IF IsLeading(p) THEN "leading_wildcards"
    ELSE IF IsTrailing(p) THEN "trailing_wildcards"
    ELSE IF IsDoubleLeading(p) THEN "double_star_leading"
    ELSE IF IsDoubleTrailing(p) THEN "double_star_trailing"
    ELSE IF IsSimpleInternal(p) THEN "simple_internal_wildcards"
    ELSE IF IsMultiStar(p) THEN "multi_star_trie"
    ELSE IF IsDoubleInternal(p) THEN "internal_double_star_wildcards"
    ELSE "complex_patterns"

-----------------------------------------------------------------------------
\* The structures.  Hash maps and the `**` edge maps (a map per known-part
\* length) are functions from label sequences to indexes, the trie is the
\* function from the patterns inserted to their values, a Vec is a sequence.

NoEntry == [key \in {} |-> None]

EmptyRouter ==
    [exact_matches |-> NoEntry, leading_wildcards |-> NoEntry,
     trailing_wildcards |-> NoEntry, double_star_leading |-> NoEntry,
     double_star_trailing |-> NoEntry, multi_star_trie |-> NoEntry,
     simple_internal_wildcards |-> <<>>,
     internal_double_star_wildcards |-> <<>>, complex_patterns |-> <<>>,
     catch_all |-> None]

\* HashMap::insert replaces; the trie keeps the value a node already has.
Insert(map, key, index) ==
    [k \in DOMAIN map \cup {key} |-> IF k = key THEN index ELSE map[k]]
TrieInsert(map, key, index) ==
    IF key \in DOMAIN map THEN map ELSE Insert(map, key, index)

\* A pattern cut in two at position i, as the internal classes store it.
CutAt(p, i, index) ==
    [prefix |-> SubSeq(p, 1, i - 1), suffix |-> SubSeq(p, i + 1, Len(p)),
     index |-> index]

AddPattern(r, p, index) ==
    LET class == ClassOf(p) IN
    [r EXCEPT ![class] =
        CASE class = "catch_all" -> IF @ = None THEN index ELSE @
          [] class = "exact_matches" -> Insert(@, p, index)
          [] class \in {"leading_wildcards", "double_star_leading"} ->
                Insert(@, Tail(p), index)
          [] class \in {"trailing_wildcards", "double_star_trailing"} ->
                Insert(@, Front(p), index)
          [] class = "simple_internal_wildcards" ->
                Append(@, CutAt(p, FirstPos(p, "*"), index))
          [] class = "multi_star_trie" -> TrieInsert(@, p, index)
          [] class = "internal_double_star_wildcards" ->
                Append(@, CutAt(p, FirstPos(p, "**"), index))
          [] class = "complex_patterns" ->
                Append(@, [labels |-> p, index |-> index])]

-----------------------------------------------------------------------------
\* Lookup.

Lookup(map, key) == IF key \in DOMAIN map THEN map[key] ELSE None

\* The first answer of a sequence of attempts.
FirstFound(attempts) ==
    LET i == SelectInSeq(attempts, LAMBDA a : a # None) IN
    IF i = 0 THEN None ELSE attempts[i]

\* The index of the first entry of a Vec that passes a test.
FirstEntry(entries, Test(_)) ==
    LET i == SelectInSeq(entries, Test) IN
    IF i = 0 THEN None ELSE entries[i].index

\* The last k and the first k labels of a host, for every k.
Endings(h)    == [k \in 1..Len(h) |-> SubSeq(h, Len(h) - k + 1, Len(h))]
Beginnings(h) == [k \in 1..Len(h) |-> SubSeq(h, 1, k)]

\* Fault: the known parts are tried from the shortest one.
ShortestKnown(map, parts) ==
    LET lengths == {k \in DOMAIN parts : parts[k] \in DOMAIN map} IN
    IF lengths = {} THEN None ELSE map[parts[Min(lengths)]]

\* The entry with the longest known part that is among the parts of a host
\* (BTreeMap iterated in reverse).
LongestKnown(map, parts) ==
    LET lengths == {k \in DOMAIN parts : parts[k] \in DOMAIN map} IN
    IF lengths = {} THEN None ELSE map[parts[Max(lengths)]]

MatchesSingleInternal(e, h) ==
    /\ Len(e.prefix) + 1 + Len(e.suffix) = Len(h)
    /\ IsPrefix(e.prefix, h) /\ IsSuffix(e.suffix, h)

\* Fault: prefix and suffix may overlap in the host.
MatchesOverlapping(e, h) == IsPrefix(e.prefix, h) /\ IsSuffix(e.suffix, h)

MatchesInternalDoubleStar(e, h) ==
    /\ Len(e.prefix) + Len(e.suffix) <= Len(h)
    /\ IsPrefix(e.prefix, h) /\ IsSuffix(e.suffix, h)

\* A node of the trie is the path that leads to it.
Nodes(trie) == {<<>>} \cup UNION {Prefixes(p) : p \in DOMAIN trie}

\* Fault: the wildcard child is explored before that of the label.
TrieWildcardFirst(trie, h) ==
    LET from[node \in Nodes(trie)] ==
            LET Child(label) == LET child == Append(node, label) IN
                    IF child \in Nodes(trie) THEN from[child] ELSE None
                star == Child("*")
            IN  IF Len(node) >= Len(h) THEN Lookup(trie, node)
                ELSE IF star # None THEN star ELSE Child(h[Len(node) + 1])
    IN  from[<<>>]

\* Fault: no return to the wildcard child once the literal child was taken.
TrieDescent(trie, h) ==
    LET from[node \in Nodes(trie)] ==
            LET Child(label) == Append(node, label)
                label == h[Len(node) + 1]
            IN  IF Len(node) >= Len(h) THEN Lookup(trie, node)
                ELSE IF Child(label) \in Nodes(trie) THEN from[Child(label)]
                ELSE IF Child("*") \in Nodes(trie) THEN from[Child("*")]
                ELSE None
    IN  from[<<>>]

\* lookup_from: the child of the host's label is explored before the
\* wildcard child.
TrieLookup(trie, h) ==
    LET from[node \in Nodes(trie)] ==
            LET Child(label) == LET child == Append(node, label) IN
                    IF child \in Nodes(trie) THEN from[child] ELSE None
                literal  == Child(h[Len(node) + 1])
            IN  IF Len(node) >= Len(h) THEN Lookup(trie, node)
                ELSE IF literal # None THEN literal ELSE Child("*")
    IN  from[<<>>]

\* dp_host_matches: matches[<<i, j>>] says that the first i labels of the
\* pattern match the first j labels of the host.
DpMatches(p, h) ==
    LET matches[cell \in (0..Len(p)) \X (0..Len(h))] ==
            LET i == cell[1]
                j == cell[2]
            IN  IF i = 0 THEN j = 0
                ELSE IF p[i] = "**"
                THEN matches[<<i - 1, j>>] \/ (j > 0 /\ matches[<<i, j - 1>>])
                ELSE /\ j > 0 /\ p[i] \in {"*", h[j]}
                     /\ matches[<<i - 1, j - 1>>]
    IN  matches[<<Len(p), Len(h)>>]

\* HostRouter::matches.
Matches(r, h) ==
    FirstFound(<<
        Lookup(r.exact_matches, h),
        LongestKnown(r.double_star_leading, Endings(h)),
        LongestKnown(r.double_star_trailing, Beginnings(h)),
        FirstEntry(r.simple_internal_wildcards,
                   LAMBDA e : MatchesSingleInternal(e, h)),
        FirstEntry(r.internal_double_star_wildcards,
                   LAMBDA e : MatchesInternalDoubleStar(e, h)),
        TrieLookup(r.multi_star_trie, h),
        FirstEntry(r.complex_patterns, LAMBDA e : DpMatches(e.labels, h)),
        IF Len(h) > 1 THEN Lookup(r.leading_wildcards, Tail(h)) ELSE None,
        IF Len(h) > 1 THEN Lookup(r.trailing_wildcards, Front(h)) ELSE None,
        r.catch_all >>)

-----------------------------------------------------------------------------
Init == configured = <<>> /\ router = EmptyRouter

\* Fault: indexes counted from the wrong end of the push.
ConfigureShifted(p) ==
    /\ Len(configured) < MaxPatterns
    /\ configured' = Append(configured, p)
    /\ router' = AddPattern(router, p, Len(configured) + 2)

\* One turn of the loop of SearchRouter::new.
Configure(p) ==
    /\ Len(configured) < MaxPatterns
    /\ configured' = Append(configured, p)
    /\ router' = AddPattern(router, p, Len(configured) + 1)

Next == \E p \in Patterns : Configure(p)

Spec == Init /\ [][Next]_vars

Route(h) == Matches(router, h)

-----------------------------------------------------------------------------
\* What a pattern means, independently of how it is stored: the host is cut
\* into one piece per label of the pattern, a piece of "**" having any
\* length, that of another label one label, equal to it unless it is "*".
Covers(p, h) ==
    \/ IsCatchAll(p)
    \/ \E inner \in [1..(Len(p) - 1) -> 0..Len(h)] :
          LET cut(i) == IF i = 0 THEN 0
                        ELSE IF i = Len(p) THEN Len(h) ELSE inner[i]
          IN  \A i \in DOMAIN p :
                 IF p[i] = "**" THEN cut(i - 1) <= cut(i)
                 ELSE /\ cut(i) = cut(i - 1) + 1
                      /\ p[i] \in {"*", h[cut(i)]}

Covered == [p \in Patterns |-> {h \in Hosts : Covers(p, h)}]

Indexes == DOMAIN configured

\* Every stored index is the index of a configured pattern.
TypeOK ==
    /\ configured \in Seq(Patterns) /\ Len(configured) <= MaxPatterns
    /\ DOMAIN router = DOMAIN EmptyRouter
    /\ \A h \in Hosts : Route(h) \in Indexes \cup {None}

\* No structure ever answers for a pattern that does not match the host: a
\* request is only sent to a service one of whose patterns covers its Host.
\* Every class cuts and compares labels in its own way (host_router.rs:66-146
\* against :149-226), the reference definition has one.
RoutesAreSound ==
    \A h \in Hosts : Route(h) # None => h \in Covered[configured[Route(h)]]

\* No configured pattern is lost in its structure: a host that some pattern
\* covers is routed.  README.md:155-157 promises it for wildcards anywhere in
\* a pattern.
RoutesAreComplete ==
    \A h \in Hosts :
        (\E i \in Indexes : h \in Covered[configured[i]]) => Route(h) # None

\* One more pattern changes the route of the hosts it covers only, and only
\* to itself: whatever the order of the service files, a pattern takes no
\* host away from another one except those it serves (duplicates replace in
\* the maps, and are ignored in the trie, the Vecs and the catch-all).
NewPatternTakesOnlyItsHosts ==
    [][LET new == Len(configured') IN
       \A h \in Hosts :
          LET route == Matches(router', h) IN
          route # Route(h) =>
              route = new /\ h \in Covered[configured'[new]]]_vars

\* The classes in which a strictly narrower pattern has precedence over a
\* wider one, whatever the order in which they were added.
Ranked(p, q) ==
    \/ ClassOf(p) = "exact_matches" \/ ClassOf(q) = "catch_all"
    \/ /\ ClassOf(p) = ClassOf(q)
       /\ ClassOf(p) \in {"double_star_leading", "double_star_trailing",
                          "multi_star_trie"}

\* A host is never sent to a pattern when a strictly narrower pattern of a
\* ranked class covers it too: longest known part first for the `**` edges
\* (host_router.rs:158-173), literal before wildcard at every node of the
\* trie, with backtracking (host_router.rs:274-287), exact hosts first, the
\* catch-all last.
NarrowerPatternWins ==
    \A h \in Hosts, i \in Indexes :
        (Route(h) # None /\ h \in Covered[configured[i]]) =>
            LET p == configured[i]
                q == configured[Route(h)]
            IN  Ranked(p, q) => ~(Covered[p] \subseteq Covered[q] /\ Covered[p] # Covered[q])

\* The classes, those with precedence first.
Order == <<"exact_matches", "double_star_leading", "double_star_trailing",
           "simple_internal_wildcards", "internal_double_star_wildcards",
           "multi_star_trie", "complex_patterns", "leading_wildcards",
           "trailing_wildcards", "catch_all">>

\* Where p and q first differ, p has a wildcard and q a label.
Looser(p, q) ==
    \E i \in DOMAIN p :
        p[i] = "*" /\ q[i] # "*" /\ \A j \in 1..(i - 1) : p[j] = q[j]

\* The pattern q has precedence over p, both covering a host: by its class, by
\* a longer known part, or by the first label in which they differ.
Precedes(q, p) ==
    \/ \E m, n \in DOMAIN Order :
          m < n /\ Order[m] = ClassOf(q) /\ Order[n] = ClassOf(p)
    \/ /\ ClassOf(p) = ClassOf(q)
       /\ ClassOf(p) \in {"double_star_leading", "double_star_trailing"}
       /\ Len(q) > Len(p)
    \/ /\ ClassOf(p) = ClassOf(q) /\ ClassOf(p) = "multi_star_trie"
       /\ Looser(p, q)

\* The classes of which the pattern that was added first is found first.
ByFileOrder == {"simple_internal_wildcards", "internal_double_star_wildcards",
                "complex_patterns", "catch_all"}

\* A host goes to the pattern that has precedence among those that cover it,
\* which the patterns alone determine: the order of the service files decides
\* only between patterns of one class that is searched in that order
\* (host_router.rs:51-146, 149-226, 274-287).
FileOrderDecidesLast ==
    \A h \in Hosts, i \in Indexes :
        (Route(h) # None /\ h \in Covered[configured[i]]) =>
            LET p == configured[i]
                q == configured[Route(h)]
            IN  \/ p = q \/ Precedes(q, p)
                \/ ClassOf(p) = ClassOf(q) /\ ClassOf(p) \in ByFileOrder
=============================================================================
