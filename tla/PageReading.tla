----------------------------- MODULE PageReading -----------------------------
(***************************************************************************)
(* What a page call of webresearchmcp promises about one page, whatever    *)
(* the scraping services do meanwhile: the markdown it answers with is one *)
(* it saw the corpus hold, a call answers once, "fetched" and "not needed" *)
(* carry markdown, and "not readable" is said only of a page whose scrape  *)
(* failed or whose markdown the corpus refused.                            *)
(***************************************************************************)
CONSTANTS Calls, Fetches, None

VARIABLES
    held,      \* the fetch whose markdown the corpus holds, or None
    refused,   \* some scrape of the page failed or was rejected
    seen,      \* what each call last saw the corpus hold
    answer     \* the outcome each call answered with, or None

vars == <<held, refused, seen, answer>>

Outcomes ==
    {"FetchNotNeeded", "PageFetched", "PageNotReadable", "FetchUnfinished", "Error"}

Init ==
    /\ held = None /\ refused = FALSE
    /\ seen = [c \in Calls |-> None]
    /\ answer = [c \in Calls |-> None]

Keep(f) == held' = f /\ UNCHANGED <<refused, seen, answer>>

Refuse == refused' = TRUE /\ UNCHANGED <<held, seen, answer>>

Say(c, outcome) ==
    /\ answer[c] = None
    /\ answer' = [answer EXCEPT ![c] = outcome]

\* The call looks at the corpus, and may answer with what it sees.
Look(c) ==
    /\ answer[c] = None
    /\ seen' = [seen EXCEPT ![c] = held]
    /\ \/ UNCHANGED answer
       \/ held # None /\ \E o \in {"FetchNotNeeded", "PageFetched"} : Say(c, o)
    /\ UNCHANGED <<held, refused>>

\* The call gives up on a fetch, and answers with what it saw before.
Settle(c) ==
    /\ \/ Say(c, "FetchUnfinished")
       \/ Say(c, "Error")
       \/ refused /\ Say(c, "PageNotReadable")
    /\ UNCHANGED <<held, refused, seen>>

Next ==
    \/ \E f \in Fetches : Keep(f)
    \/ Refuse
    \/ \E c \in Calls : Look(c) \/ Settle(c)

Spec == Init /\ [][Next]_vars
=============================================================================
