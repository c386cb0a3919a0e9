-------------------------- MODULE MCCrawlFrontier --------------------------
(***************************************************************************)
(* CrawlFrontier with three pages.  The seed s links to a and b, which     *)
(* share a host that allows one page; a links back, and b redirects to a.  *)
(* Between them their fetches come to every kind of answer.                *)
(***************************************************************************)
EXTENDS CrawlFrontier, TLC

CONSTANTS s, a, b, hostS, hostAB, w1, w2

MCURLs == {s, a, b}
MCSeeds == {s}
MCHosts == {hostS, hostAB}
MCHostOf == s :> hostS @@ a :> hostAB @@ b :> hostAB
MCLinks == s :> {a, b} @@ a :> {s, b} @@ b :> {}
MCTarget == s :> s @@ a :> a @@ b :> a
MCInScope == {a, b}
MCWorkers == {w1, w2}
MCAnswers == s :> {"page"} @@ a :> {"page", "failed", "barred"}
             @@ b :> {"redirected", "deferred", "rejected"}

\* A chain and a shortcut: s links to a and b, a to b, and b to c, so that c
\* is within two links of the seed whichever way b is found.
CONSTANT c
ChainURLs == {s, a, b, c}
ChainHosts == {hostS}
ChainHostOf == [u \in ChainURLs |-> hostS]
ChainLinks == s :> {a, b} @@ a :> {b} @@ b :> {c} @@ c :> {}
ChainTarget == [u \in ChainURLs |-> u]
ChainAnswers == [u \in ChainURLs |-> {"page"}]

\* doc/specification.md:29: a run ends when its profile admits no more URLs, so
\* every page within MaxDepth links of the seeds is found when nothing went
\* wrong.  The code does not keep it (README, what the code does not keep).
Within[n \in 0 .. MaxDepth] ==
    IF n = 0 THEN Seeds
    ELSE Within[n - 1] \cup {v \in InScope : \E u \in Within[n - 1] : v \in Links[u]}

RunReachesItsDepth ==
    Done /\ disruptions = 0 => \A u \in Within[MaxDepth] : copies[u] > 0
=============================================================================
