---------------------------- MODULE PageRendering ----------------------------
(* What the render proxy promises its clients: every page asked for gets one *)
(* reply, the last that the origin told of this page unless none was to be had  *)
(* in time, and no more than so many pages are worked on at once.               *)
EXTENDS Naturals, FiniteSets

CONSTANTS Renders, RenderConcurrency

VARIABLES
    asked,      \* requests that arrived
    rendering,  \* those that are worked on
    told,       \* request -> the last the origin told of its page
    excused,    \* requests whose time is over, or whose caller or browser left
    replies     \* request -> the reply it got, for those that got one

renderingVars == <<asked, rendering, told, excused, replies>>

Nothing == <<>>
Failures == {<<"refused">>, <<"failed">>}

Init == /\ asked = {} /\ rendering = {} /\ excused = {}
        /\ told = [r \in Renders |-> Nothing] /\ replies = [r \in {} |-> <<"failed">>]

WithRoom(others) == Cardinality(others) <= RenderConcurrency

Ask(r) ==
    /\ r \notin asked /\ asked' = asked \union {r}
    /\ rendering' \in {rendering, rendering \union {r}} /\ WithRoom(rendering')
    /\ UNCHANGED <<told, excused, replies>>

Begin(r) ==
    /\ r \in asked \ DOMAIN replies
    /\ rendering' = rendering \union {r} /\ WithRoom(rendering')
    /\ UNCHANGED <<asked, told, excused, replies>>

Tell(r) ==
    /\ r \in rendering
    /\ \A other \in Renders \ {r} : told'[other] = told[other]
    /\ UNCHANGED <<asked, rendering, excused, replies>>

Excuse == /\ excused \subseteq excused' /\ UNCHANGED <<asked, rendering, told, replies>>

\* The origin may tell the reply it is answered with.
Reply(r) ==
    /\ r \notin DOMAIN replies
    /\ asked' = asked \union {r} /\ rendering' = rendering \ {r}
    /\ \A other \in Renders \ {r} : told'[other] = told[other]
    /\ DOMAIN replies' = DOMAIN replies \union {r}
    /\ \A other \in DOMAIN replies : replies'[other] = replies[other]
    /\ \/ replies'[r] = told'[r] /\ told'[r] # Nothing
       \/ replies'[r] \in Failures
       \/ replies'[r] = <<"timeout">> /\ r \in excused
    /\ UNCHANGED excused

Next == Excuse \/ \E r \in Renders : Ask(r) \/ Begin(r) \/ Tell(r) \/ Reply(r)

EveryRequestIsAnswered == \A r \in Renders : r \in asked ~> r \in DOMAIN replies

Spec == Init /\ [][Next]_renderingVars /\ EveryRequestIsAnswered
=============================================================================
