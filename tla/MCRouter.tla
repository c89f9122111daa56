------------------------------- MODULE MCRouter -------------------------------
(***************************************************************************)
(* Instances of SearchRouter, and with it of HostRouter, for TLC.          *)
(***************************************************************************)
EXTENDS SearchRouter

SeqsUpTo(S, n) == UNION {[1..k -> S] : k \in 1..n}

MCPartialLabels == {"p*"}

\* Every host of up to three labels, and a few of four.
MCHosts ==
    SeqsUpTo({"a", "b"}, 3) \cup
    { <<"a", "b", "a", "b">>, <<"a", "a", "a", "b">>, <<"a", "b", "b", "a">>,
      <<"a", "a", "b", "b">>, <<"b", "b", "b", "a">> }

\* A pattern without single stars whose first `**` is interior and which has
\* another one after it.
RepeatedDoubleStar(p) ==
    /\ IsDoubleInternal(p)
    /\ Cardinality({i \in DOMAIN p : p[i] = "**"}) > 1

\* Every pattern of up to three labels without a label of PartialLabels, but
\* the repeated `**` ones.
ShortPatterns ==
    {p \in SeqsUpTo({"a", "b", "*", "**"}, 3) : ~RepeatedDoubleStar(p)}

\* Patterns of up to four labels, several of each class.
LongPatterns ==
    { <<"a", "b">>, <<"a", "a", "b">>, <<"*">>, <<"**">>,
      <<"*", "b">>, <<"a", "*">>,
      <<"**", "b">>, <<"**", "a", "b">>, <<"a", "**">>, <<"a", "b", "**">>,
      <<"a", "*", "b">>, <<"a", "**", "b">>, <<"a", "**", "a", "b">>,
      <<"*", "*">>, <<"*", "a", "*">>, <<"*", "*", "*">>, <<"a", "*", "*">>,
      <<"a", "b", "*", "*">>, <<"*", "b", "*", "a">>,
      <<"*", "**", "b">>, <<"**", "a", "**">> }

\* Patterns with a star inside a label, which no host matches.
PartialPatterns ==
    { <<"p*">>, <<"p*", "b">>, <<"a", "p*">>, <<"a", "p*", "b">>,
      <<"**", "p*">>, <<"p*", "*">>, <<"a", "*", "p*">> }

MCPatterns == ShortPatterns \cup LongPatterns \cup PartialPatterns

\* Lookups go on behind three of the routers, and of four hosts: with a cache of
\* two entries every third of them evicts one.
CachedHosts   == {<<"a">>, <<"b">>, <<"a", "b">>, <<"b", "a">>}
CachedRouters == { <<<<"**", "b">>>>, <<<<"a">>, <<"**", "b">>>>,
                   <<<<"*", "a">>, <<"a", "b">>>> }

FewAreShared ==
    shared => /\ configured \in CachedRouters
              /\ \A t \in Tasks : answer[t] = NoAnswer \/ answer[t].host \in CachedHosts

\* Patterns with several wildcards of the same kind.
RepeatedPatterns ==
    { <<"a", "**", "b", "**">>, <<"a", "**", "b", "**", "b">>,
      <<"a", "**", "**">>, <<"**", "a", "**">>, <<"a", "*", "**">>,
      <<"*", "*", "a">>, <<"a", "**", "b">>, <<"**", "b">>,
      <<"a", "**">>, <<"*", "b">>, <<"a", "*">> }
=============================================================================
