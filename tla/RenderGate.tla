------------------------------ MODULE RenderGate ------------------------------
(***************************************************************************)
(* The render proxy: a request waits for one of a few places, asks the     *)
(* origin itself, and leaves to a browser what is hypertext.  The place is *)
(* taken before the deadline of the render begins, and given back with the *)
(* answer, whatever the answer is.  The browser hangs on the signal that   *)
(* stops the process.                                                      *)
(***************************************************************************)
EXTENDS Naturals, FiniteSets

CONSTANTS
    Renders,            \* requests
    RenderConcurrency,  \* places
    StatusCodes         \* statuses an origin answers a page with

ASSUME PlacesAssumption == RenderConcurrency \in Nat \ {0}

VARIABLES
    render,         \* request -> "none", "waiting", "preflight", "browser", "answered"
    places,         \* places taken
    conditional,    \* requests that state what their client has of the page
    overdue,        \* requests whose deadline is over
    gone,           \* requests whose client gave up
    tab,            \* request -> the document its tab is bound to, and its status
    closed,         \* the browser is closed
    answer,         \* request -> what it was answered
    learned         \* request -> the last its origin told of the page itself

gateVars == <<render, places, conditional, overdue, gone, tab, closed, answer, learned>>

\* A page and its frames are documents the tab asks for.
Documents == {"page", "frame"}
NoDocument == "none"
NoStatus == 0
NoAnswer == <<>>

NewTab == [bound |-> NoDocument, status |-> NoStatus]

PageOf(status) == <<"page", status>>
Only(reply) == <<reply>>

GateInit ==
    /\ render = [r \in Renders |-> "none"] /\ places = 0
    /\ conditional = {} /\ overdue = {} /\ gone = {} /\ closed = FALSE
    /\ tab = [r \in Renders |-> NewTab]
    /\ answer = [r \in Renders |-> NoAnswer]
    /\ learned = [r \in Renders |-> NoAnswer]

----------------------------------------------------------------------------
\* proxyintake and the places

\* Tunnels and requests that name no page are turned away.
Refuse(r) ==
    /\ render[r] = "none"
    /\ render' = [render EXCEPT ![r] = "answered"]
    /\ answer' = [answer EXCEPT ![r] = Only("refused")]
    /\ UNCHANGED <<places, conditional, overdue, gone, tab, closed, learned>>

Request(r, stated) ==
    /\ render[r] = "none"
    /\ conditional' = IF stated THEN conditional \union {r} ELSE conditional
    /\ IF places < RenderConcurrency
       THEN render' = [render EXCEPT ![r] = "preflight"] /\ places' = places + 1
       ELSE render' = [render EXCEPT ![r] = "waiting"] /\ UNCHANGED places
    /\ UNCHANGED <<overdue, gone, tab, closed, answer, learned>>

acquireRenderCapacity(r) ==
    /\ render[r] = "waiting" /\ places < RenderConcurrency
    /\ render' = [render EXCEPT ![r] = "preflight"] /\ places' = places + 1
    /\ UNCHANGED <<conditional, overdue, gone, tab, closed, answer, learned>>

EndedWhileWaiting(r) ==
    /\ render[r] = "waiting" /\ r \in gone
    /\ render' = [render EXCEPT ![r] = "answered"]
    /\ answer' = [answer EXCEPT ![r] = Only("timeout")]
    /\ UNCHANGED <<places, conditional, overdue, gone, tab, closed, learned>>

InHand == {r \in Renders : render[r] \in {"preflight", "browser"}}

GiveUp(r) ==
    /\ render[r] \in {"waiting", "preflight", "browser"} /\ r \notin gone
    /\ gone' = gone \union {r}
    /\ UNCHANGED <<render, places, conditional, overdue, tab, closed, answer, learned>>

DeadlinePasses(r) ==
    /\ r \in InHand \ overdue
    /\ overdue' = overdue \union {r}
    /\ UNCHANGED <<render, places, conditional, gone, tab, closed, answer, learned>>

\* A mutant: the place is given back with a page only.
LetGoKeepingPlace(r, reply) ==
    /\ render' = [render EXCEPT ![r] = "answered"]
    /\ answer' = [answer EXCEPT ![r] = reply]
    /\ places' = IF reply \in {Only("failed"), Only("timeout")} THEN places ELSE places - 1

LetGo(r, reply) ==
    /\ render' = [render EXCEPT ![r] = "answered"]
    /\ answer' = [answer EXCEPT ![r] = reply]
    /\ places' = places - 1

\* An error of a call whose context is over, which is told as a timeout.
CutShort(r) ==
    /\ r \in InHand \intersect (gone \union overdue)
    /\ LetGo(r, Only("timeout"))
    /\ UNCHANGED <<conditional, overdue, gone, tab, closed, learned>>

----------------------------------------------------------------------------
\* originpreflight

Fails(r) ==
    /\ render[r] = "preflight"
    /\ LetGo(r, Only("failed"))
    /\ UNCHANGED <<conditional, overdue, gone, tab, closed, learned>>

\* What needs no browser is answered as the origin answers it: unchanged, a
\* redirect, or a body of another type within the limit.
Relays(r, reply) ==
    /\ render[r] = "preflight"
    /\ reply = "unchanged" => r \in conditional
    /\ learned' = [learned EXCEPT ![r] = Only(reply)]
    /\ LetGo(r, Only(reply))
    /\ UNCHANGED <<conditional, overdue, gone, tab, closed>>

IsHypertext(r) ==
    /\ render[r] = "preflight"
    /\ render' = [render EXCEPT ![r] = "browser"]
    /\ UNCHANGED <<places, conditional, overdue, gone, tab, closed, answer, learned>>

----------------------------------------------------------------------------
\* cdprender and its binding: the tab's first document is the page.

Shown(r) == IF tab[r].bound = NoDocument THEN {"page"} ELSE Documents

BoundTo(r, document) ==
    IF tab[r].bound = NoDocument THEN [tab[r] EXCEPT !.bound = document] ELSE tab[r]

RequestWillBeSent(r, document) ==
    /\ render[r] = "browser" /\ ~closed /\ document \in Shown(r)
    /\ tab' = [tab EXCEPT ![r] = BoundTo(r, document)]
    /\ UNCHANGED <<render, places, conditional, overdue, gone, closed, answer, learned>>

\* A page that was redirected responds more than once.
ResponseReceived(r, document, status) ==
    /\ render[r] = "browser" /\ ~closed
    /\ tab[r].bound # NoDocument /\ document \in Shown(r)
    /\ tab' = IF document = tab[r].bound THEN [tab EXCEPT ![r].status = status] ELSE tab
    /\ learned' = IF document = "page" THEN [learned EXCEPT ![r] = PageOf(status)] ELSE learned
    /\ UNCHANGED <<render, places, conditional, overdue, gone, closed, answer>>

\* The page is loaded and its document is read, if it is not too large.
Rendered(r) ==
    /\ render[r] = "browser" /\ ~closed
    /\ \/ tab[r].status # NoStatus /\ LetGo(r, PageOf(tab[r].status))
       \/ LetGo(r, Only("failed"))
    /\ UNCHANGED <<conditional, overdue, gone, tab, closed, learned>>

BrowserCloses ==
    /\ ~closed /\ closed' = TRUE
    /\ UNCHANGED <<render, places, conditional, overdue, gone, tab, answer, learned>>

\* The tab ends with its browser, which is told as if the caller had given up.
TabEnds(r) ==
    /\ render[r] = "browser" /\ closed
    /\ \E reply \in {"timeout", "failed"} : LetGo(r, Only(reply))
    /\ UNCHANGED <<conditional, overdue, gone, tab, closed, learned>>

----------------------------------------------------------------------------
\* Nobody asks any more.
AllReplied == (\A r \in Renders : render[r] = "answered") /\ UNCHANGED gateVars

GateNext ==
    \/ BrowserCloses
    \/ \E r \in Renders :
        \/ Refuse(r) \/ (\E stated \in BOOLEAN : Request(r, stated))
        \/ acquireRenderCapacity(r) \/ EndedWhileWaiting(r) \/ GiveUp(r) \/ DeadlinePasses(r)
        \/ CutShort(r) \/ Fails(r) \/ IsHypertext(r) \/ Rendered(r) \/ TabEnds(r)
        \/ \E reply \in {"unchanged", "redirect", "body"} : Relays(r, reply)
        \/ \E document \in Documents :
            \/ RequestWillBeSent(r, document)
            \/ \E status \in StatusCodes : ResponseReceived(r, document, status)
    \/ AllReplied

\* A deadline passes, and a call whose context is over returns; a place that is
\* free goes to a request that waits.  Origins and browsers need not answer.
GateFairness ==
    \A r \in Renders : /\ WF_gateVars(DeadlinePasses(r)) /\ WF_gateVars(CutShort(r))
                       /\ SF_gateVars(acquireRenderCapacity(r))

GateSpec == GateInit /\ [][GateNext]_gateVars /\ GateFairness

(***************************************************************************)
(* The render proxy keeps the promise of PageRendering: each request gets  *)
(* one answer, though origins and browsers hang and clients leave; a page  *)
(* is answered with the last status of the document that was asked for,    *)
(* never of a frame in it; and no more than RenderConcurrency requests are *)
(* in hand (rendergate, originpreflight, cdpdocumentbinding).              *)
(***************************************************************************)
Rendering == INSTANCE PageRendering WITH
    asked <- {r \in Renders : render[r] # "none"},
    rendering <- InHand,
    told <- learned,
    excused <- overdue \union gone \union (IF closed THEN Renders ELSE {}),
    replies <- [r \in {s \in Renders : render[s] = "answered"} |-> answer[r]]

ImplementsRendering == Rendering!Spec
=============================================================================
