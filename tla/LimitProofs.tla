---------------------------- MODULE LimitProofs -----------------------------
(***************************************************************************)
(* Proofs about the limits that several ask of.  RecordRevision, for any   *)
(* number of writers, any limit and any number of attempts: the record     *)
(* loses no update and implements the atomic allowance that CrawlFrontier  *)
(* takes host pages from.  RenderGate: its places are never more than they *)
(* are, and a page is answered as its origin told it.                      *)
(***************************************************************************)
EXTENDS SharedLimits, FiniteSetTheorems, TLAPS

\* What a writer about to write knows: if its revision still stands, so does
\* the value it read, and that value left room.
ReadStands ==
    \A w \in Writers :
        /\ seen[w].revision <= revision
        /\ stage[w] = "writing" =>
              /\ seen[w].pages < Limit
              /\ RevisionStands(w) => seen[w].pages = pages

\* A writer that still tries has not used up its attempts.
AttemptsLeft ==
    \A w \in Writers : stage[w] \in {"reading", "writing"} => attempts[w] < ContendedAttempts

\* The inductive invariant.
RevisionInv ==
    /\ TypeOK
    /\ LimitHolds
    /\ EveryGrantCounted
    /\ RefusedOnlyWhenUsedUp
    /\ ReadStands
    /\ AttemptsLeft

----------------------------------------------------------------------------
\* The writers that were granted a page are finitely many (takePageOfHost is
\* asked by the page visits of one order).
LEMMA GrantedFinite ==
    ASSUME TypeOK
    PROVE  IsFiniteSet(Granted) /\ Cardinality(Granted) \in Nat
<1>1. Granted \subseteq Writers BY DEF Granted
<1> QED BY <1>1, WritersAssumption, FS_Subset, FS_CardinalityType

\* A write that is answered makes its writer one more that was granted a page
\* (reviseOnce).
LEMMA GrantAddsOne ==
    ASSUME TypeOK, NEW w \in Writers, stage[w] = "writing",
           stage' = [stage EXCEPT ![w] = "granted"]
    PROVE  /\ Granted' = Granted \cup {w}
           /\ Cardinality(Granted') = Cardinality(Granted) + 1
<1>1. Granted' = Granted \cup {w} BY DEF Granted, TypeOK
<1>2. w \notin Granted BY DEF Granted
<1> QED BY <1>1, <1>2, GrantedFinite, FS_AddElement

\* A writer moved between stages other than the grant leaves the granted
\* writers as they are.
LEMMA GrantedKept ==
    ASSUME TypeOK, NEW w \in Writers, NEW s \in Stages \ {"granted"}, stage[w] # "granted",
           stage' = [stage EXCEPT ![w] = s]
    PROVE  Granted' = Granted
BY DEF Granted, TypeOK, Stages

----------------------------------------------------------------------------
\* Before the first revision nothing is taken and nobody was refused.
LEMMA InitInv == Init => RevisionInv
<1> SUFFICES ASSUME Init PROVE RevisionInv OBVIOUS
<1>1. Granted = {} BY DEF Init, Granted
<1>2. Cardinality({}) = 0 BY FS_EmptySet
<1>3. TypeOK BY LimitAssumption, AttemptsAssumption DEF Init, TypeOK, Stages, NothingSeen
<1>4. EveryGrantCounted BY <1>1, <1>2 DEF Init, EveryGrantCounted
<1>5. LimitHolds /\ RefusedOnlyWhenUsedUp
    BY LimitAssumption DEF Init, LimitHolds, RefusedOnlyWhenUsedUp
<1>6. ReadStands /\ AttemptsLeft
    BY LimitAssumption, AttemptsAssumption
    DEF Init, ReadStands, AttemptsLeft, NothingSeen, RevisionStands
<1> QED BY <1>3, <1>4, <1>5, <1>6 DEF RevisionInv

\* A read changes no record: it tells the writer what stands, and refuses it
\* only at the limit.
LEMMA ReadKeepsInv ==
    ASSUME RevisionInv, NEW w \in Writers, Read(w)
    PROVE  RevisionInv'
<1> USE DEF RevisionInv
<1>1. TypeOK' BY DEF Read, TypeOK, Stages
<1>2. PICK s \in Stages \ {"granted"} : stage' = [stage EXCEPT ![w] = s]
    <2>1. CASE pages >= Limit BY <2>1 DEF Read, Stages
    <2>2. CASE ~(pages >= Limit) BY <2>2 DEF Read, Stages
    <2> QED BY <2>1, <2>2
<1>3. Granted' = Granted BY <1>2, GrantedKept DEF Read
<1>4. EveryGrantCounted' BY <1>3 DEF Read, EveryGrantCounted
<1>5. LimitHolds' BY DEF Read, LimitHolds
<1>6. RefusedOnlyWhenUsedUp'
    BY LimitAssumption DEF Read, TypeOK, LimitHolds, RefusedOnlyWhenUsedUp
<1>7. ReadStands' BY LimitAssumption DEF Read, TypeOK, ReadStands, RevisionStands
<1>8. AttemptsLeft' BY DEF Read, TypeOK, AttemptsLeft
<1> QED BY <1>1, <1>4, <1>5, <1>6, <1>7, <1>8

\* A conditional write adds one page to the value that stands, whether or not
\* its answer comes back.
LEMMA WriteRecordKeeps ==
    ASSUME RevisionInv, NEW w \in Writers, WriteRecord(w),
           NEW s \in {"granted", "failed"}, stage' = [stage EXCEPT ![w] = s],
           UNCHANGED <<seen, attempts>>
    PROVE  /\ pages' = pages + 1
           /\ LimitHolds'
           /\ RefusedOnlyWhenUsedUp'
           /\ ReadStands'
           /\ AttemptsLeft'
<1> USE DEF RevisionInv
<1>1. pages' = pages + 1 /\ pages < Limit
    BY DEF WriteRecord, ReadStands, RevisionStands
<1>2. LimitHolds' BY <1>1, LimitAssumption DEF LimitHolds, TypeOK
<1>3. RefusedOnlyWhenUsedUp'
    BY <1>1, LimitAssumption DEF RefusedOnlyWhenUsedUp, TypeOK
<1>4. ReadStands'
    <2> SUFFICES ASSUME NEW v \in Writers
                 PROVE  /\ seen[v].revision <= revision'
                        /\ stage'[v] = "writing" =>
                              /\ seen[v].pages < Limit
                              /\ seen[v].revision = revision' => seen[v].pages = pages'
        BY DEF ReadStands, RevisionStands
    <2>1. seen[v].revision <= revision /\ revision \in Nat /\ seen[v].revision \in Nat
        BY DEF ReadStands, TypeOK
    <2>2. seen[v].revision <= revision' /\ seen[v].revision # revision'
        BY <2>1 DEF WriteRecord
    <2>3. stage'[v] = "writing" => stage[v] = "writing" BY DEF TypeOK
    <2> QED BY <2>2, <2>3 DEF ReadStands
<1>5. AttemptsLeft' BY DEF TypeOK, AttemptsLeft
<1> QED BY <1>1, <1>2, <1>3, <1>4, <1>5

\* An answered write counts its writer.
LEMMA WriteKeepsInv ==
    ASSUME RevisionInv, NEW w \in Writers, Write(w)
    PROVE  RevisionInv'
<1> USE DEF RevisionInv
<1>1. TypeOK' BY DEF Write, WriteRecord, TypeOK, Stages
<1>2. /\ pages' = pages + 1
      /\ LimitHolds' /\ RefusedOnlyWhenUsedUp' /\ ReadStands' /\ AttemptsLeft'
    BY WriteRecordKeeps DEF Write
<1>3. Cardinality(Granted') = Cardinality(Granted) + 1
    BY GrantAddsOne DEF Write, WriteRecord
<1>4. EveryGrantCounted'
    BY <1>2, <1>3, GrantedFinite DEF Write, EveryGrantCounted, TypeOK
<1> QED BY <1>1, <1>2, <1>4

\* A write whose answer is lost is counted as unanswered.
LEMMA UnansweredKeepsInv ==
    ASSUME RevisionInv, NEW w \in Writers, WriteUnanswered(w)
    PROVE  RevisionInv'
<1> USE DEF RevisionInv
<1>1. TypeOK' BY DEF WriteUnanswered, WriteRecord, TypeOK, Stages
<1>2. /\ pages' = pages + 1
      /\ LimitHolds' /\ RefusedOnlyWhenUsedUp' /\ ReadStands' /\ AttemptsLeft'
    BY WriteRecordKeeps DEF WriteUnanswered
<1>3. Granted' = Granted
    BY GrantedKept DEF WriteUnanswered, WriteRecord, Stages
<1>4. EveryGrantCounted'
    BY <1>2, <1>3, GrantedFinite DEF WriteUnanswered, EveryGrantCounted, TypeOK
<1> QED BY <1>1, <1>2, <1>4

\* A lost race, a refused request and a redelivery leave the record alone.
LEMMA RestKeepsInv ==
    ASSUME RevisionInv, NEW w \in Writers, Contended(w) \/ Fail(w) \/ Redelivered(w)
    PROVE  RevisionInv'
<1> USE DEF RevisionInv
<1>1. PICK s \in {"reading", "failed"} :
        /\ stage[w] \notin {"granted", "refused"}
        /\ stage' = [stage EXCEPT ![w] = s]
    <2>1. CASE Contended(w)
        <3>1. CASE attempts[w] + 1 < ContendedAttempts BY <2>1, <3>1 DEF Contended
        <3>2. CASE ~(attempts[w] + 1 < ContendedAttempts) BY <2>1, <3>2 DEF Contended
        <3> QED BY <3>1, <3>2
    <2>2. CASE Fail(w) BY <2>2 DEF Fail
    <2>3. CASE Redelivered(w) BY <2>3 DEF Redelivered
    <2> QED BY <2>1, <2>2, <2>3
<1>2. UNCHANGED <<pages, revision, seen, unanswered>> BY DEF Contended, Fail, Redelivered
<1>3. TypeOK'
    <2>1. CASE Contended(w)
        BY <2>1, AttemptsAssumption DEF Contended, TypeOK, Stages, AttemptsLeft
    <2>2. CASE Fail(w) BY <2>2 DEF Fail, TypeOK, Stages
    <2>3. CASE Redelivered(w)
        BY <2>3, AttemptsAssumption DEF Redelivered, TypeOK, Stages
    <2> QED BY <2>1, <2>2, <2>3
<1>4. Granted' = Granted BY <1>1, GrantedKept DEF Stages
<1>5. EveryGrantCounted' BY <1>2, <1>4 DEF EveryGrantCounted
<1>6. LimitHolds' BY <1>2 DEF LimitHolds
<1>7. RefusedOnlyWhenUsedUp' BY <1>1, <1>2 DEF RefusedOnlyWhenUsedUp, TypeOK
<1>8. ReadStands' BY <1>1, <1>2 DEF ReadStands, RevisionStands, TypeOK
<1>9. AttemptsLeft'
    <2>1. CASE Contended(w)
        BY <2>1, AttemptsAssumption DEF Contended, TypeOK, AttemptsLeft
    <2>2. CASE Fail(w) BY <2>2 DEF Fail, TypeOK, AttemptsLeft
    <2>3. CASE Redelivered(w)
        BY <2>3, AttemptsAssumption DEF Redelivered, TypeOK, AttemptsLeft
    <2> QED BY <2>1, <2>2, <2>3
<1> QED BY <1>3, <1>5, <1>6, <1>7, <1>8, <1>9

\* Every step keeps the invariant.
LEMMA StepInv == RevisionInv /\ [Next]_vars => RevisionInv'
<1> SUFFICES ASSUME RevisionInv, [Next]_vars PROVE RevisionInv' OBVIOUS
<1>1. CASE UNCHANGED vars
    BY <1>1 DEF vars, RevisionInv, TypeOK, LimitHolds, EveryGrantCounted,
        RefusedOnlyWhenUsedUp, ReadStands, AttemptsLeft, Granted, RevisionStands
<1>2. ASSUME NEW w \in Writers, Step(w) \/ WriteUnanswered(w) \/ Fail(w) PROVE RevisionInv'
    BY <1>2, ReadKeepsInv, WriteKeepsInv, UnansweredKeepsInv, RestKeepsInv DEF Step
<1>3. CASE Answered BY <1>1, <1>3 DEF Answered
<1> QED BY <1>1, <1>2, <1>3 DEF Next

\* The inductive invariant holds in every reachable state.
THEOREM InvHolds == Spec => []RevisionInv
<1> QED BY InitInv, StepInv, PTL DEF Spec

----------------------------------------------------------------------------
\* Every record and every writer's bookkeeping keeps its type; in particular
\* no writer starts over more often than contendedAttempts.
THEOREM RevisionTypeCorrect == Spec => []TypeOK
<1>1. RevisionInv => TypeOK BY DEF RevisionInv
<1> QED BY <1>1, InvHolds, PTL

\* A host gives no more pages than the order's profile allows, whatever the
\* number of writers and however they interleave (pageWithinHostLimit).
THEOREM HostLimitHolds == Spec => []LimitHolds
<1>1. RevisionInv => LimitHolds BY DEF RevisionInv
<1> QED BY <1>1, InvHolds, PTL

\* Conditional writes lose no update: each grant is counted exactly once
\* (Records.Revise).
THEOREM NoGrantIsLost == Spec => []EveryGrantCounted
<1>1. RevisionInv => EveryGrantCounted BY DEF RevisionInv
<1> QED BY <1>1, InvHolds, PTL

\* No page visit is turned away while the host still has pages left.
THEOREM NoneRefusedEarly == Spec => []RefusedOnlyWhenUsedUp
<1>1. RevisionInv => RefusedOnlyWhenUsedUp BY DEF RevisionInv
<1> QED BY <1>1, InvHolds, PTL

\* The read and the conditional write of Revise implement one atomic step that
\* takes a page, refuses it, or takes it for nobody.
THEOREM RevisionImplementsAllowance == Spec => ImplementsAllowance
<1> DEFINE Refused == {w \in Writers : stage[w] = "refused"}
<1>1. Init => Allowance!Init BY DEF Init, Allowance!Init, Granted
<1>2. RevisionInv /\ RevisionInv' /\ [Next]_vars => [Allowance!Next]_(Allowance!vars)
    <2> SUFFICES ASSUME RevisionInv, RevisionInv', [Next]_vars
                 PROVE  [Allowance!Next]_(Allowance!vars)
        OBVIOUS
    <2> USE DEF RevisionInv
    <2>1. CASE UNCHANGED vars BY <2>1 DEF vars, Allowance!vars, Granted
    <2>2. ASSUME NEW w \in Writers, Read(w) PROVE [Allowance!Next]_(Allowance!vars)
        <3>1. CASE pages >= Limit
            <4>1. stage' = [stage EXCEPT ![w] = "refused"] /\ stage[w] = "reading"
                BY <2>2, <3>1 DEF Read
            <4>2. Granted' = Granted /\ Refused' = Refused \cup {w}
                BY <4>1 DEF Granted, TypeOK
            <4>3. w \notin Granted \cup Refused BY <4>1 DEF Granted
            <4>4. pages = Limit BY <3>1, LimitAssumption DEF LimitHolds, TypeOK
            <4>5. Allowance!Refuse(w)
                BY <2>2, <4>2, <4>3, <4>4 DEF Read, Allowance!Refuse
            <4> QED BY <4>5 DEF Allowance!Next
        <3>2. CASE ~(pages >= Limit)
            BY <2>2, <3>2 DEF Read, TypeOK, Granted, Allowance!vars
        <3> QED BY <3>1, <3>2
    <2>3. ASSUME NEW w \in Writers, Write(w) PROVE [Allowance!Next]_(Allowance!vars)
        <3>1. stage[w] = "writing" /\ stage' = [stage EXCEPT ![w] = "granted"]
            BY <2>3 DEF Write, WriteRecord
        <3>2. Granted' = Granted \cup {w} BY <3>1, GrantAddsOne
        <3>3. Refused' = Refused BY <3>1 DEF TypeOK
        <3>4. w \notin Granted \cup Refused BY <3>1 DEF Granted
        <3>5. pages < Limit /\ pages' = pages + 1
            BY <2>3 DEF Write, WriteRecord, ReadStands, RevisionStands
        <3>6. Allowance!Grant(w)
            BY <3>2, <3>3, <3>4, <3>5 DEF Allowance!Grant, Allowance!TakePage
        <3> QED BY <3>6 DEF Allowance!Next
    <2>4. ASSUME NEW w \in Writers, WriteUnanswered(w)
          PROVE  [Allowance!Next]_(Allowance!vars)
        <3>1. stage[w] = "writing" /\ stage' = [stage EXCEPT ![w] = "failed"]
            BY <2>4 DEF WriteUnanswered, WriteRecord
        <3>2. Granted' = Granted /\ Refused' = Refused
            BY <3>1 DEF Granted, TypeOK
        <3>3. pages < Limit /\ pages' = pages + 1
            BY <2>4 DEF WriteUnanswered, WriteRecord, ReadStands, RevisionStands
        <3>4. Allowance!Leak
            BY <3>2, <3>3 DEF Allowance!Leak, Allowance!TakePage
        <3> QED BY <3>4 DEF Allowance!Next
    <2>5. ASSUME NEW w \in Writers, Contended(w) \/ Fail(w) \/ Redelivered(w)
          PROVE  [Allowance!Next]_(Allowance!vars)
        <3>1. PICK s \in {"reading", "failed"} :
                /\ stage[w] \notin {"granted", "refused"}
                /\ stage' = [stage EXCEPT ![w] = s]
            <4>1. CASE attempts[w] + 1 < ContendedAttempts
                BY <2>5, <4>1 DEF Contended, Fail, Redelivered
            <4>2. CASE ~(attempts[w] + 1 < ContendedAttempts)
                BY <2>5, <4>2 DEF Contended, Fail, Redelivered
            <4> QED BY <4>1, <4>2
        <3>2. Granted' = Granted /\ Refused' = Refused BY <3>1 DEF Granted, TypeOK
        <3> QED BY <2>5, <3>2 DEF Contended, Fail, Redelivered, Allowance!vars
    <2>6. CASE Answered BY <2>1, <2>6 DEF Answered
    <2> QED BY <2>1, <2>2, <2>3, <2>4, <2>5, <2>6 DEF Next, Step
<1> QED BY <1>1, <1>2, InvHolds, PTL DEF Spec, ImplementsAllowance, Allowance!Spec

----------------------------------------------------------------------------
(***************************************************************************)
(* The render proxy, for any requests and any number of places.            *)
(***************************************************************************)

RenderStages == {"none", "waiting", "preflight", "browser", "answered"}

GateTypeOK ==
    /\ render \in [Renders -> RenderStages]
    /\ tab \in [Renders -> [bound : {NoDocument, "page"}, status : StatusCodes \cup {NoStatus}]]
    /\ answer = [r \in Renders |-> answer[r]] /\ learned = [r \in Renders |-> learned[r]]

\* A place is taken by every request in hand, and by no other.
PlacesCounted ==
    /\ IsFiniteSet(InHand) /\ places = Cardinality(InHand)
    /\ places <= RenderConcurrency

\* A tab has the status its origin told last of the page.
StatusOfPage ==
    \A r \in Renders :
        render[r] = "browser" /\ tab[r].status # NoStatus =>
            tab[r].bound = "page" /\ learned[r] = PageOf(tab[r].status)

\* A tab is opened by the browser.
TabsOpened ==
    \A r \in Renders : render[r] \notin {"browser", "answered"} => tab[r] = NewTab

\* The inductive invariant.
GateInv == GateTypeOK /\ PlacesCounted /\ StatusOfPage /\ TabsOpened

----------------------------------------------------------------------------
\* What the steps do.

\* A place is taken for a request that had none (acquireRenderCapacity).
LEMMA PlaceTaken ==
    ASSUME GateInv, NEW r \in Renders, r \notin InHand, places < RenderConcurrency,
           NEW s \in {"preflight", "browser"},
           render' = [render EXCEPT ![r] = s], places' = places + 1
    PROVE  PlacesCounted' /\ InHand' = InHand \cup {r}
<1>1. InHand' = InHand \cup {r}
    BY DEF InHand, GateInv, GateTypeOK
<1>2. Cardinality(InHand') = Cardinality(InHand) + 1 /\ IsFiniteSet(InHand')
    BY <1>1, FS_AddElement DEF GateInv, PlacesCounted
<1>3. Cardinality(InHand) \in Nat
    BY FS_CardinalityType DEF GateInv, PlacesCounted
<1> QED BY <1>1, <1>2, <1>3, PlacesAssumption DEF GateInv, PlacesCounted

\* An answer gives the place back (releaseRenderCapacity).
LEMMA PlaceGivenBack ==
    ASSUME GateInv, NEW r \in InHand, NEW reply, LetGo(r, reply)
    PROVE  PlacesCounted' /\ InHand' = InHand \ {r}
<1>1. InHand' = InHand \ {r}
    BY DEF InHand, LetGo, GateInv, GateTypeOK
<1>2. Cardinality(InHand') = Cardinality(InHand) - 1 /\ IsFiniteSet(InHand')
    BY <1>1, FS_RemoveElement DEF GateInv, PlacesCounted
<1>3. Cardinality(InHand) \in Nat /\ Cardinality(InHand') \in Nat
    BY <1>2, FS_CardinalityType DEF GateInv, PlacesCounted
<1> QED BY <1>1, <1>2, <1>3, PlacesAssumption DEF GateInv, PlacesCounted, LetGo

\* Who holds a place stays, when no request comes into hand or leaves it.
LEMMA PlacesStay ==
    ASSUME GateInv, InHand' = InHand, UNCHANGED places
    PROVE  PlacesCounted'
BY DEF GateInv, PlacesCounted

\* An answer is given in one of these steps.
Answers(r) ==
    \/ CutShort(r) \/ Fails(r) \/ Rendered(r) \/ TabEnds(r)
    \/ \E reply \in {"unchanged", "redirect", "body"} : Relays(r, reply)

\* What an answer does to its request, and what it can be: what the origin told,
\* a failure, or a timeout of a request whose time, client or browser is gone.
LEMMA AnswerGiven ==
    ASSUME GateInv, NEW r \in Renders, Answers(r)
    PROVE  /\ r \in InHand
           /\ \E reply : /\ LetGo(r, reply)
                         /\ \/ reply = learned'[r] /\ reply # NoAnswer
                            \/ reply = Only("failed")
                            \/ reply = Only("timeout") /\ (closed \/ r \in overdue \cup gone)
           /\ \E told : learned' = [learned EXCEPT ![r] = told]
           /\ UNCHANGED <<conditional, overdue, gone, tab, closed>>
<1> USE DEF InHand
<1>0. DOMAIN learned = Renders /\ learned = [learned EXCEPT ![r] = learned[r]]
    BY DEF GateInv, GateTypeOK
<1>1. CASE CutShort(r)
    BY <1>0, <1>1 DEF CutShort
<1>2. CASE Fails(r)
    BY <1>0, <1>2 DEF Fails
<1>3. CASE TabEnds(r)
    BY <1>0, <1>3 DEF TabEnds
<1>4. CASE Rendered(r)
    <2>1. CASE LetGo(r, Only("failed"))
        BY <1>0, <1>4, <2>1 DEF Rendered
    <2>2. CASE tab[r].status # NoStatus /\ LetGo(r, PageOf(tab[r].status))
        <3>1. learned'[r] = PageOf(tab[r].status)
            BY <1>4, <2>2 DEF Rendered, GateInv, StatusOfPage
        <3>2. PageOf(tab[r].status) # NoAnswer
            BY DEF PageOf, NoAnswer
        <3> QED BY <1>0, <1>4, <2>2, <3>1, <3>2 DEF Rendered
    <2> QED BY <1>4, <2>1, <2>2 DEF Rendered
<1>5. ASSUME NEW reply \in {"unchanged", "redirect", "body"}, Relays(r, reply)
      PROVE  /\ r \in InHand /\ LetGo(r, Only(reply)) /\ Only(reply) = learned'[r]
             /\ Only(reply) # NoAnswer /\ learned' = [learned EXCEPT ![r] = Only(reply)]
             /\ UNCHANGED <<conditional, overdue, gone, tab, closed>>
    <2>1. Only(reply) # NoAnswer
        BY DEF Only, NoAnswer
    <2> QED BY <1>0, <1>5, <2>1 DEF Relays
<1> QED BY <1>1, <1>2, <1>3, <1>4, <1>5 DEF Answers

----------------------------------------------------------------------------
\* It holds with no request yet.
LEMMA GateInitInv == GateInit => GateInv
<1> SUFFICES ASSUME GateInit PROVE GateInv
    OBVIOUS
<1>1. InHand = {}
    BY DEF GateInit, InHand
<1>2. PlacesCounted
    BY <1>1, FS_EmptySet, PlacesAssumption DEF GateInit, PlacesCounted
<1> QED BY <1>2 DEF GateInit, GateInv, GateTypeOK, RenderStages, StatusOfPage, TabsOpened, NewTab

\* An answer keeps the invariant.
LEMMA AnswerKeeps ==
    ASSUME GateInv, NEW r \in Renders, Answers(r)
    PROVE  GateInv'
<1>1. PICK reply : LetGo(r, reply)
    BY AnswerGiven
<1>2. r \in InHand /\ UNCHANGED tab /\ \E told : learned' = [learned EXCEPT ![r] = told]
    BY AnswerGiven
<1>3. PlacesCounted'
    BY <1>1, <1>2, PlaceGivenBack
<1>4. render' = [render EXCEPT ![r] = "answered"] /\ answer' = [answer EXCEPT ![r] = reply]
    BY <1>1 DEF LetGo
<1> QED BY <1>2, <1>3, <1>4
       DEF GateInv, GateTypeOK, RenderStages, StatusOfPage, TabsOpened, InHand

\* So does a request that comes and waits, begins or goes without an answer.
LEMMA RequestKeeps ==
    ASSUME GateInv, NEW r \in Renders,
           \/ Refuse(r) \/ (\E stated \in BOOLEAN : Request(r, stated))
           \/ acquireRenderCapacity(r) \/ EndedWhileWaiting(r)
    PROVE  GateInv'
<1>1. PICK s \in {"answered", "preflight", "waiting"} : render' = [render EXCEPT ![r] = s]
    BY DEF Refuse, Request, acquireRenderCapacity, EndedWhileWaiting
<1>2. render[r] \in {"none", "waiting"} /\ UNCHANGED <<tab, learned>>
    BY DEF Refuse, Request, acquireRenderCapacity, EndedWhileWaiting
<1>3. PlacesCounted'
    <2>1. CASE s = "preflight"
        <3>1. places < RenderConcurrency /\ places' = places + 1
            BY <1>1, <1>2, <2>1
               DEF Refuse, Request, acquireRenderCapacity, EndedWhileWaiting, GateInv, GateTypeOK
        <3> QED BY <1>1, <1>2, <2>1, <3>1, PlaceTaken DEF InHand
    <2>2. CASE s # "preflight"
        <3>1. UNCHANGED places
            BY <1>1, <1>2, <2>2
               DEF Refuse, Request, acquireRenderCapacity, EndedWhileWaiting, GateInv, GateTypeOK
        <3>2. InHand' = InHand
            BY <1>1, <1>2, <2>2 DEF InHand, GateInv, GateTypeOK
        <3> QED BY <3>1, <3>2, PlacesStay
    <2> QED BY <2>1, <2>2
<1>4. answer' = [x \in Renders |-> answer'[x]]
    BY DEF Refuse, Request, acquireRenderCapacity, EndedWhileWaiting, GateInv, GateTypeOK
<1> QED BY <1>1, <1>2, <1>3, <1>4 DEF GateInv, GateTypeOK, RenderStages, StatusOfPage, TabsOpened

\* So does what the browser tells of a tab: its first document is the page, and
\* what responds as the page is told of it.
LEMMA TabKeeps ==
    ASSUME GateInv, NEW r \in Renders,
           \/ IsHypertext(r)
           \/ \E document \in Documents :
                 \/ RequestWillBeSent(r, document)
                 \/ \E status \in StatusCodes : ResponseReceived(r, document, status)
    PROVE  GateInv' /\ InHand' = InHand
<1>1. PlacesCounted' /\ InHand' = InHand
    <2>1. render' = [render EXCEPT ![r] = "browser"] /\ r \in InHand /\ UNCHANGED places
        BY DEF IsHypertext, RequestWillBeSent, ResponseReceived, InHand, GateInv, GateTypeOK
    <2>2. InHand' = InHand
        BY <2>1 DEF InHand, GateInv, GateTypeOK
    <2> QED BY <2>1, <2>2, PlacesStay
<1>2. CASE IsHypertext(r)
    <2>1. tab[r].status = NoStatus
        BY <1>2 DEF IsHypertext, GateInv, TabsOpened, NewTab
    <2> QED BY <1>1, <1>2, <2>1
           DEF IsHypertext, GateInv, GateTypeOK, RenderStages, StatusOfPage, TabsOpened
<1>3. ASSUME NEW document \in Documents, RequestWillBeSent(r, document) PROVE GateInv'
    <2>1. /\ tab' = [tab EXCEPT ![r] = IF tab[r].bound = NoDocument
                                         THEN [tab[r] EXCEPT !.bound = "page"] ELSE tab[r]]
          /\ UNCHANGED <<render, learned, answer>>
        BY <1>3 DEF RequestWillBeSent, BoundTo, Shown
    <2> QED BY <1>1, <1>3, <2>1
           DEF RequestWillBeSent, GateInv, GateTypeOK, RenderStages, StatusOfPage, TabsOpened, NoDocument
<1>4. ASSUME NEW document \in Documents, NEW status \in StatusCodes,
             ResponseReceived(r, document, status)
      PROVE  GateInv'
    <2>1. tab[r].bound = "page" /\ render[r] = "browser" /\ UNCHANGED <<render, answer>>
        BY <1>4 DEF ResponseReceived, GateInv, GateTypeOK
    <2>2. CASE document = "page"
        <3>1. /\ tab' = [tab EXCEPT ![r].status = status]
              /\ learned' = [learned EXCEPT ![r] = PageOf(status)]
            BY <1>4, <2>1, <2>2 DEF ResponseReceived
        <3> QED BY <1>1, <2>1, <3>1
               DEF GateInv, GateTypeOK, RenderStages, StatusOfPage, TabsOpened
    <2>3. CASE document # "page"
        <3>1. UNCHANGED <<tab, learned>>
            BY <1>4, <2>1, <2>3 DEF ResponseReceived
        <3> QED BY <1>1, <2>1, <3>1
               DEF GateInv, GateTypeOK, RenderStages, StatusOfPage, TabsOpened
    <2> QED BY <2>2, <2>3
<1> QED BY <1>1, <1>2, <1>3, <1>4

\* So does whoever gives up, a deadline, and a browser that closes.
Excuses == BrowserCloses \/ \E r \in Renders : GiveUp(r) \/ DeadlinePasses(r)

LEMMA ExcuseKeeps ==
    ASSUME GateInv, Excuses \/ UNCHANGED gateVars
    PROVE  GateInv' /\ InHand' = InHand
<1>1. UNCHANGED <<render, places, tab, answer, learned>>
    BY DEF Excuses, BrowserCloses, GiveUp, DeadlinePasses, gateVars
<1>2. InHand' = InHand
    BY <1>1 DEF InHand
<1> QED BY <1>1, <1>2, PlacesStay
       DEF GateInv, GateTypeOK, RenderStages, StatusOfPage, TabsOpened

\* Every step keeps it.
LEMMA GateStepInv == GateInv /\ [GateNext]_gateVars => GateInv'
<1> SUFFICES ASSUME GateInv, [GateNext]_gateVars PROVE GateInv'
    OBVIOUS
<1> QED BY AnswerKeeps, RequestKeeps, TabKeeps, ExcuseKeeps DEF GateNext, Answers, Excuses, AllReplied

----------------------------------------------------------------------------
\* The answers given, as the promise has them.
Replied == {r \in Renders : render[r] = "answered"}
Replies == [r \in Replied |-> answer[r]]
Excused == overdue \union gone \union (IF closed THEN Renders ELSE {})

\* An answer is a reply of the promise, of a request that has none yet.
LEMMA ReplyGiven ==
    ASSUME GateInv, GateInv', NEW r \in Renders, render[r] # "answered", NEW reply,
           render' = [render EXCEPT ![r] = "answered"],
           answer' = [answer EXCEPT ![r] = reply],
           InHand' = InHand \ {r},
           \E told : learned' = [learned EXCEPT ![r] = told],
           UNCHANGED <<overdue, gone, closed>>,
           \/ reply = learned'[r] /\ reply # NoAnswer
           \/ reply = Only("failed") \/ reply = Only("refused")
           \/ reply = Only("timeout") /\ (closed \/ r \in overdue \cup gone)
    PROVE  Rendering!Reply(r)
<1>1. Replied' = Replied \cup {r} /\ r \notin Replied
    BY DEF Replied, GateInv, GateTypeOK
<1>2. {x \in Renders : render[x] # "none"}' = {x \in Renders : render[x] # "none"} \cup {r}
    BY DEF GateInv, GateTypeOK
<1>3. \A other \in Renders \ {r} : learned'[other] = learned[other]
    BY DEF GateInv, GateTypeOK
<1>4. /\ \A other \in Replied : Replies'[other] = Replies[other]
      /\ Replies'[r] = reply
      /\ DOMAIN Replies = Replied /\ DOMAIN Replies' = Replied \cup {r}
    <2>1. \A other \in Replied : answer'[other] = answer[other] /\ other \in Replied'
        BY <1>1 DEF Replied
    <2>2. answer'[r] = reply /\ r \in Replied'
        BY <1>1 DEF GateInv, GateTypeOK
    <2> QED BY <1>1, <2>1, <2>2 DEF Replies
<1>5. Excused' = Excused
    BY DEF Excused
<1>6. \/ reply = learned'[r] /\ learned'[r] # Rendering!Nothing
      \/ reply \in Rendering!Failures
      \/ reply = <<"timeout">> /\ r \in Excused
    BY DEF Rendering!Nothing, Rendering!Failures, Only, NoAnswer, Excused
<1> QED BY <1>1, <1>2, <1>3, <1>4, <1>5, <1>6 DEF Rendering!Reply, Replied, Replies, Excused

\* Whatever ends a request in hand is a reply of the promise.
LEMMA AnswerPromised ==
    ASSUME GateInv, GateInv', NEW r \in Renders, Answers(r)
    PROVE  Rendering!Reply(r)
<1>1. PICK reply : /\ LetGo(r, reply)
                   /\ \/ reply = learned'[r] /\ reply # NoAnswer
                      \/ reply = Only("failed")
                      \/ reply = Only("timeout") /\ (closed \/ r \in overdue \cup gone)
    BY AnswerGiven
<1>2. /\ r \in InHand /\ \E told : learned' = [learned EXCEPT ![r] = told]
      /\ UNCHANGED <<overdue, gone, closed>>
    BY AnswerGiven
<1>3. InHand' = InHand \ {r} /\ render[r] # "answered"
    BY <1>1, <1>2, PlaceGivenBack DEF InHand
<1> QED BY <1>1, <1>2, <1>3, ReplyGiven DEF LetGo

\* So is a refusal, and the end of a wait.
LEMMA RefusalPromised ==
    ASSUME GateInv, GateInv', NEW r \in Renders, Refuse(r) \/ EndedWhileWaiting(r)
    PROVE  Rendering!Reply(r)
<1>1. PICK reply : /\ answer' = [answer EXCEPT ![r] = reply]
                   /\ reply = Only("refused") \/ (reply = Only("timeout") /\ r \in gone)
    BY DEF Refuse, EndedWhileWaiting
<1>2. /\ render[r] \in {"none", "waiting"} /\ render' = [render EXCEPT ![r] = "answered"]
      /\ UNCHANGED <<overdue, gone, closed, learned>>
    BY DEF Refuse, EndedWhileWaiting
<1>3. InHand' = InHand \ {r}
    BY <1>2 DEF InHand, GateInv, GateTypeOK
<1>4. learned' = [learned EXCEPT ![r] = learned[r]]
    BY <1>2 DEF GateInv, GateTypeOK
<1> QED BY <1>1, <1>2, <1>3, <1>4, ReplyGiven

\* A request that comes or gets its place leaves the promise's room.
LEMMA RequestPromised ==
    ASSUME GateInv, GateInv', NEW r \in Renders,
           (\E stated \in BOOLEAN : Request(r, stated)) \/ acquireRenderCapacity(r)
    PROVE  Rendering!Ask(r) \/ Rendering!Begin(r)
<1>1. Rendering!Cardinality(InHand') <= RenderConcurrency
    <2>1. Rendering!Cardinality(InHand') = Cardinality(InHand')
        BY DEF Cardinality, Rendering!Cardinality
    <2> QED BY <2>1 DEF GateInv, PlacesCounted
<1>2. PICK s \in {"preflight", "waiting"} : render' = [render EXCEPT ![r] = s]
    BY DEF Request, acquireRenderCapacity
<1>3. /\ render[r] \in {"none", "waiting"}
      /\ UNCHANGED <<overdue, gone, closed, answer, learned>>
    BY DEF Request, acquireRenderCapacity
<1>4. /\ Replied' = Replied /\ r \notin Replied
      /\ InHand' = IF s = "preflight" THEN InHand \cup {r} ELSE InHand
      /\ {x \in Renders : render[x] # "none"}' = {x \in Renders : render[x] # "none"} \cup {r}
    BY <1>2, <1>3 DEF Replied, InHand, GateInv, GateTypeOK
<1>5. Replies' = Replies /\ Excused' = Excused /\ DOMAIN Replies = Replied
    BY <1>3, <1>4 DEF Replies, Excused
<1>6. CASE render[r] = "none"
    <2>1. r \notin {x \in Renders : render[x] # "none"}
        BY <1>6
    <2>2. InHand' \in {InHand, InHand \cup {r}}
        BY <1>4
    <2>3. Rendering!WithRoom(InHand')
        BY <1>1 DEF Rendering!WithRoom
    <2>4. Rendering!Ask(r)
        BY <1>3, <1>4, <1>5, <2>1, <2>2, <2>3 DEF Rendering!Ask, Replied, Replies, Excused
    <2> QED BY <2>4
<1>7. CASE render[r] = "waiting"
    <2>1. s = "preflight"
        BY <1>2, <1>7 DEF Request, acquireRenderCapacity, GateInv, GateTypeOK
    <2>2. {x \in Renders : render[x] # "none"} \cup {r} = {x \in Renders : render[x] # "none"}
        BY <1>7
    <2>3. Rendering!WithRoom(InHand')
        BY <1>1 DEF Rendering!WithRoom
    <2>4. r \in {x \in Renders : render[x] # "none"} \ DOMAIN Replies
        BY <1>4, <1>5, <1>7
    <2>5. Rendering!Begin(r)
        BY <1>3, <1>4, <1>5, <2>1, <2>2, <2>3, <2>4
           DEF Rendering!Begin, Replied, Replies, Excused
    <2> QED BY <2>5
<1> QED BY <1>3, <1>6, <1>7

\* What the browser tells of a tab is told of its page, or of nothing.
LEMMA TabPromised ==
    ASSUME GateInv, GateInv', NEW r \in Renders,
           \/ IsHypertext(r)
           \/ \E document \in Documents :
                 \/ RequestWillBeSent(r, document)
                 \/ \E status \in StatusCodes : ResponseReceived(r, document, status)
    PROVE  Rendering!Tell(r)
<1>1. InHand' = InHand
    BY TabKeeps
<1>2. /\ r \in InHand /\ render[r] \in {"preflight", "browser"}
      /\ render' = [render EXCEPT ![r] = "browser"]
      /\ UNCHANGED <<overdue, gone, closed, answer>>
    BY DEF IsHypertext, RequestWillBeSent, ResponseReceived, InHand, GateInv, GateTypeOK
<1>3. \A other \in Renders \ {r} : learned'[other] = learned[other]
    BY DEF IsHypertext, RequestWillBeSent, ResponseReceived, GateInv, GateTypeOK
<1>4. /\ Replied' = Replied
      /\ {x \in Renders : render[x] # "none"}' = {x \in Renders : render[x] # "none"}
    BY <1>2 DEF Replied, GateInv, GateTypeOK
<1>5. Replies' = Replies /\ Excused' = Excused
    BY <1>2, <1>4 DEF Replies, Excused
<1> QED BY <1>1, <1>2, <1>3, <1>4, <1>5 DEF Rendering!Tell, Replied, Replies, Excused

\* Whoever leaves excuses their request.
LEMMA ExcusePromised ==
    ASSUME GateInv, Excuses \/ UNCHANGED gateVars
    PROVE  Rendering!Excuse
<1>1. InHand' = InHand
    BY ExcuseKeeps
<1>2. UNCHANGED <<render, answer, learned>>
    BY DEF Excuses, BrowserCloses, GiveUp, DeadlinePasses, gateVars
<1>3. Excused \subseteq Excused'
    BY DEF Excused, Excuses, BrowserCloses, GiveUp, DeadlinePasses, gateVars
<1>4. Replies' = Replies
    BY <1>2 DEF Replies, Replied
<1> QED BY <1>1, <1>2, <1>3, <1>4 DEF Rendering!Excuse, Replied, Replies, Excused

\* The safety of ImplementsRendering.
RendersAsPromised == Rendering!Init /\ [][Rendering!Next]_(Rendering!renderingVars)

\* However requests wait, clients leave, deadlines pass and browsers end: each
\* request gets one answer, a page's is the last status its origin told of the
\* document asked for, and no more than RenderConcurrency pages are in hand.
THEOREM GateImplementsRendering == GateSpec => RendersAsPromised
<1>1. GateInit => Rendering!Init
    <2> SUFFICES ASSUME GateInit PROVE Rendering!Init
        OBVIOUS
    <2>1. InHand = {} /\ Replied = {} /\ {r \in Renders : render[r] # "none"} = {}
        BY DEF GateInit, InHand, Replied
    <2>2. Replies = [r \in {} |-> <<"failed">>]
        BY <2>1 DEF Replies
    <2> QED BY <2>1, <2>2
           DEF GateInit, Rendering!Init, Rendering!Nothing, NoAnswer, Replies, Replied
<1>2. GateInv /\ GateInv' /\ [GateNext]_gateVars
        => [Rendering!Next]_(Rendering!renderingVars)
    <2> SUFFICES ASSUME GateInv, GateInv', [GateNext]_gateVars PROVE Rendering!Next
        OBVIOUS
    <2> QED BY AnswerPromised, RefusalPromised, RequestPromised, TabPromised, ExcusePromised
           DEF GateNext, Answers, Excuses, AllReplied, Rendering!Next
<1> QED BY <1>1, <1>2, GateInitInv, GateStepInv, PTL DEF GateSpec, RendersAsPromised
=============================================================================
