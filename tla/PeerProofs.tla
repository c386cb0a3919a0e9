----------------------------- MODULE PeerProofs ------------------------------
(* What the roster keeps for every set of peers, contacts and handlers and   *)
(* every capacity: its type invariant, that an uncontested failed contact    *)
(* ends its peer's credibility, and that the known roster is bounded and     *)
(* evicts the stalest.                                                       *)
EXTENDS PeerContacts, FiniteSetTheorems, SequenceTheorems, TLAPS

-----------------------------------------------------------------------------
(* What a worker has still to do. *)

(* A sequence of steps with one of these about the peer in it.               *)
Has(s, x, steps) == \E i \in DOMAIN s : s[i].do \in steps /\ s[i].peer = x

(* A finished worker has no step left.                                       *)
LEMMA HasNone == ASSUME NEW x, NEW steps PROVE ~Has(<<>>, x, steps)
BY DEF Has

(* A worker that did a step has the others left. *)
LEMMA HasTail ==
  ASSUME NEW s \in Seq(Step), s # <<>>, NEW x, NEW steps
  PROVE  /\ Has(s, x, steps) <=> (Head(s).do \in steps /\ Head(s).peer = x) \/ Has(Tail(s), x, steps)
         /\ Tail(s) \in Seq(Step)
         /\ Head(s) \in Step
<1>1. /\ Len(s) \in Nat \ {0} /\ Tail(s) \in Seq(Step) /\ Len(Tail(s)) = Len(s) - 1
      /\ DOMAIN s = 1 .. Len(s) /\ DOMAIN Tail(s) = 1 .. (Len(s) - 1)
      /\ Head(s) = s[1] /\ Head(s) \in Step
  BY HeadTailProperties, LenProperties
<1>2. \A i \in 1 .. (Len(s) - 1) : Tail(s)[i] = s[i + 1]
  BY <1>1, HeadTailProperties
<1>3. ASSUME Has(s, x, steps), ~Has(Tail(s), x, steps)
      PROVE  Head(s).do \in steps /\ Head(s).peer = x
  <2>1. PICK i \in 1 .. Len(s) : s[i].do \in steps /\ s[i].peer = x
    BY <1>1, <1>3 DEF Has
  <2>2. CASE i = 1
    BY <1>1, <2>1, <2>2
  <2>3. CASE i # 1
    <3>1. i - 1 \in 1 .. (Len(s) - 1) /\ (i - 1) + 1 = i
      BY <1>1, <2>3
    <3>2. Tail(s)[i - 1] = s[i]
      BY <1>2, <3>1
    <3> QED BY <1>1, <1>3, <2>1, <3>1, <3>2 DEF Has
  <2> QED BY <2>2, <2>3
<1>4. ASSUME Has(Tail(s), x, steps) PROVE Has(s, x, steps)
  <2>1. PICK i \in 1 .. (Len(s) - 1) : Tail(s)[i].do \in steps /\ Tail(s)[i].peer = x
    BY <1>1, <1>4 DEF Has
  <2>2. i + 1 \in 1 .. Len(s) /\ s[i + 1] = Tail(s)[i]
    BY <1>1, <1>2, <2>1
  <2> QED BY <1>1, <2>1, <2>2 DEF Has
<1>5. ASSUME Head(s).do \in steps /\ Head(s).peer = x PROVE Has(s, x, steps)
  <2>1. 1 \in DOMAIN s
    BY <1>1
  <2> QED BY <1>1, <1>5, <2>1 DEF Has
<1> QED BY <1>1, <1>3, <1>4, <1>5

(* Two calls one after the other have the steps of both. *)
LEMMA HasBoth ==
  ASSUME NEW s \in Seq(Step), NEW t \in Seq(Step), NEW x, NEW steps
  PROVE  /\ Has(s \o t, x, steps) <=> Has(s, x, steps) \/ Has(t, x, steps)
         /\ s \o t \in Seq(Step)
<1>1. /\ s \o t \in Seq(Step) /\ Len(s) \in Nat /\ Len(t) \in Nat
      /\ DOMAIN s = 1 .. Len(s) /\ DOMAIN t = 1 .. Len(t)
      /\ DOMAIN (s \o t) = 1 .. (Len(s) + Len(t))
      /\ \A i \in 1 .. Len(s) + Len(t) :
           (s \o t)[i] = IF i <= Len(s) THEN s[i] ELSE t[i - Len(s)]
  BY ConcatProperties, LenProperties
<1>2. ASSUME Has(s \o t, x, steps) PROVE Has(s, x, steps) \/ Has(t, x, steps)
  <2>1. PICK i \in 1 .. (Len(s) + Len(t)) : (s \o t)[i].do \in steps /\ (s \o t)[i].peer = x
    BY <1>1, <1>2 DEF Has
  <2>2. CASE i <= Len(s)
    <3>1. i \in DOMAIN s /\ (s \o t)[i] = s[i]
      BY <1>1, <2>2
    <3> QED BY <2>1, <3>1 DEF Has
  <2>3. CASE ~(i <= Len(s))
    <3>1. i - Len(s) \in DOMAIN t /\ (s \o t)[i] = t[i - Len(s)]
      BY <1>1, <2>3
    <3> QED BY <2>1, <3>1 DEF Has
  <2> QED BY <2>2, <2>3
<1>3. ASSUME Has(s, x, steps) PROVE Has(s \o t, x, steps)
  <2>1. PICK i \in 1 .. Len(s) : s[i].do \in steps /\ s[i].peer = x
    BY <1>1, <1>3 DEF Has
  <2>2. i \in DOMAIN (s \o t) /\ (s \o t)[i] = s[i]
    BY <1>1
  <2> QED BY <2>1, <2>2 DEF Has
<1>4. ASSUME Has(t, x, steps) PROVE Has(s \o t, x, steps)
  <2>1. PICK i \in 1 .. Len(t) : t[i].do \in steps /\ t[i].peer = x
    BY <1>1, <1>4 DEF Has
  <2>2. i + Len(s) \in DOMAIN (s \o t) /\ (s \o t)[i + Len(s)] = t[i]
    BY <1>1
  <2> QED BY <2>1, <2>2 DEF Has
<1> QED BY <1>1, <1>2, <1>3, <1>4

(* The calls and the steps they have. *)
LEMMA CallSteps ==
  ASSUME NEW y \in Peers, NEW x
  PROVE  /\ ConfirmUnreachable(y) \in Seq(Step)
         /\ ~Has(ConfirmUnreachable(y), x, {"confirm", "admit"})
         /\ Has(ConfirmUnreachable(y), x, {"forget", "deny"}) <=> x = y
         /\ Has(ConfirmUnreachable(y), x, {"forget"}) <=> x = y
         /\ Has(ConfirmUnreachable(y), x, {"deny"}) <=> x = y
         /\ ConfirmReachable(y) \in Seq(Step)
         /\ Has(ConfirmReachable(y), x, {"confirm", "admit"}) <=> x = y
         /\ ~Has(ConfirmReachable(y), x, {"forget", "deny"})
         /\ ~Has(ConfirmReachable(y), x, {"forget"})
         /\ ~Has(ConfirmReachable(y), x, {"deny"})
<1>1. /\ ConfirmUnreachable(y) \in Seq(Step) /\ ConfirmReachable(y) \in Seq(Step)
  BY DEF ConfirmUnreachable, ConfirmReachable, Step
<1>2. /\ ~Has(ConfirmUnreachable(y), x, {"confirm", "admit"})
      /\ Has(ConfirmUnreachable(y), x, {"forget", "deny"}) <=> x = y
      /\ Has(ConfirmUnreachable(y), x, {"forget"}) <=> x = y
      /\ Has(ConfirmUnreachable(y), x, {"deny"}) <=> x = y
  BY DEF ConfirmUnreachable, Has
<1>3. /\ Has(ConfirmReachable(y), x, {"confirm", "admit"}) <=> x = y
      /\ ~Has(ConfirmReachable(y), x, {"forget", "deny"})
      /\ ~Has(ConfirmReachable(y), x, {"forget"}) /\ ~Has(ConfirmReachable(y), x, {"deny"})
  BY DEF ConfirmReachable, Has
<1> QED BY <1>1, <1>2, <1>3

(* A discovery confirms and denies nobody. *)
LEMMA DiscoverSteps ==
  ASSUME NEW seeds \in SUBSET Peers, NEW x, NEW steps \in SUBSET {"forget", "deny", "confirm", "admit"}
  PROVE  Discover(seeds) \in Seq(Step) /\ ~Has(Discover(seeds), x, steps)
BY DEF Discover, Has, Step

(* Of a call, no step greets, and a confirmation on disk is followed by the  *)
(* one in memory, of the same peer.                                          *)
OfCalls(s) ==
  \A i \in DOMAIN s :
    /\ s[i].do # "greet"
    /\ s[i].do = "confirm" =>
         i + 1 \in DOMAIN s /\ s[i + 1] = [do |-> "admit", peer |-> s[i].peer]

(* A worker that is to greet has nothing else to do. *)
Orderly(s) == OfCalls(s) \/ \E x \in Peers : s = <<[do |-> "greet", peer |-> x]>>

(* What is left of a call.                                                   *)
LEMMA OfCallsTail ==
  ASSUME NEW s \in Seq(Step), s # <<>>, OfCalls(s)
  PROVE  /\ OfCalls(Tail(s))
         /\ Head(s).do = "confirm" =>
              Tail(s) # <<>> /\ Head(Tail(s)) = [do |-> "admit", peer |-> Head(s).peer]
<1>1. /\ Len(s) \in Nat \ {0} /\ Tail(s) \in Seq(Step) /\ Len(Tail(s)) = Len(s) - 1
      /\ DOMAIN s = 1 .. Len(s) /\ DOMAIN Tail(s) = 1 .. (Len(s) - 1)
      /\ Head(s) = s[1] /\ Head(s) \in Step
  BY HeadTailProperties, LenProperties
<1>2. \A i \in 1 .. (Len(s) - 1) : Tail(s)[i] = s[i + 1]
  BY <1>1, HeadTailProperties
<1>3. ASSUME NEW i \in DOMAIN Tail(s)
      PROVE  /\ Tail(s)[i].do # "greet"
             /\ Tail(s)[i].do = "confirm" =>
                  /\ i + 1 \in DOMAIN Tail(s)
                  /\ Tail(s)[i + 1] = [do |-> "admit", peer |-> Tail(s)[i].peer]
  <2>1. i + 1 \in DOMAIN s /\ Tail(s)[i] = s[i + 1] /\ i \in Nat
    BY <1>1, <1>2
  <2>2. i + 1 + 1 \in DOMAIN s => i + 1 \in DOMAIN Tail(s) /\ Tail(s)[i + 1] = s[i + 1 + 1]
    BY <1>1, <1>2, <2>1
  <2> QED BY <2>1, <2>2 DEF OfCalls
<1>4. ASSUME Head(s).do = "confirm"
      PROVE  Tail(s) # <<>> /\ Head(Tail(s)) = [do |-> "admit", peer |-> Head(s).peer]
  <2>1. 1 + 1 \in DOMAIN s /\ s[1 + 1] = [do |-> "admit", peer |-> s[1].peer]
    BY <1>1, <1>4 DEF OfCalls
  <2>2. 1 \in 1 .. (Len(s) - 1) /\ Tail(s)[1] = s[1 + 1]
    BY <1>1, <1>2, <2>1
  <2>3. Tail(s) # <<>>
    BY <1>1, <2>2
  <2> QED BY <1>1, <2>1, <2>2, <2>3
<1> QED BY <1>3, <1>4 DEF OfCalls

(* Calls one after the other.                                                *)
LEMMA OfCallsBoth ==
  ASSUME NEW s \in Seq(Step), NEW t \in Seq(Step), OfCalls(s), OfCalls(t)
  PROVE  OfCalls(s \o t)
<1>1. /\ Len(s) \in Nat /\ Len(t) \in Nat
      /\ DOMAIN s = 1 .. Len(s) /\ DOMAIN t = 1 .. Len(t)
      /\ DOMAIN (s \o t) = 1 .. (Len(s) + Len(t))
      /\ \A i \in 1 .. Len(s) + Len(t) :
           (s \o t)[i] = IF i <= Len(s) THEN s[i] ELSE t[i - Len(s)]
  BY ConcatProperties, LenProperties
<1>2. ASSUME NEW i \in DOMAIN (s \o t)
      PROVE  /\ (s \o t)[i].do # "greet"
             /\ (s \o t)[i].do = "confirm" =>
                  /\ i + 1 \in DOMAIN (s \o t)
                  /\ (s \o t)[i + 1] = [do |-> "admit", peer |-> (s \o t)[i].peer]
  <2>1. CASE i <= Len(s)
    <3>1. i \in DOMAIN s /\ (s \o t)[i] = s[i]
      BY <1>1, <2>1
    <3>2. i + 1 \in DOMAIN s => i + 1 \in DOMAIN (s \o t) /\ (s \o t)[i + 1] = s[i + 1]
      BY <1>1
    <3> QED BY <3>1, <3>2 DEF OfCalls
  <2>2. CASE ~(i <= Len(s))
    <3>1. i - Len(s) \in DOMAIN t /\ (s \o t)[i] = t[i - Len(s)]
      BY <1>1, <2>2
    <3>2. (i - Len(s)) + 1 \in DOMAIN t =>
            i + 1 \in DOMAIN (s \o t) /\ (s \o t)[i + 1] = t[(i - Len(s)) + 1]
      BY <1>1, <2>2
    <3> QED BY <3>1, <3>2 DEF OfCalls
  <2> QED BY <2>1, <2>2
<1> QED BY <1>2 DEF OfCalls

(* Each call of the roster.                                                  *)
LEMMA CallsAreCalls ==
  /\ OfCalls(<<>>)
  /\ \A y \in Peers : OfCalls(ConfirmUnreachable(y)) /\ OfCalls(ConfirmReachable(y))
  /\ \A seeds \in SUBSET Peers : OfCalls(Discover(seeds))
BY DEF OfCalls, ConfirmUnreachable, ConfirmReachable, Discover

(* What a worker goes on to do when another peer than the one it greets      *)
(* answers, or this one.                                                     *)
Wrong(x, y) == IF y = x THEN <<>> ELSE ConfirmUnreachable(x)
Answered(x, y, seeds) == Wrong(x, y) \o ConfirmReachable(y) \o Discover(seeds)

(* It confirms the one that answered, and denies the other.                  *)
LEMMA AnsweredWork ==
  ASSUME NEW x \in Peers, NEW y \in Peers, NEW seeds \in SUBSET Peers
  PROVE  LET s == Answered(x, y, seeds)
         IN  /\ s \in Seq(Step) /\ OfCalls(s)
             /\ \A z : Has(s, z, {"confirm", "admit"}) <=> z = y
             /\ \A z : Has(s, z, {"forget", "deny"}) <=> z = x /\ x # y
             /\ \A z : Has(s, z, {"forget"}) <=> z = x /\ x # y
             /\ \A z : Has(s, z, {"deny"}) <=> z = x /\ x # y
<1> DEFINE wrong == Wrong(x, y)
           s     == Answered(x, y, seeds)
<1>1. /\ wrong \in Seq(Step) /\ OfCalls(wrong)
      /\ \A z : /\ ~Has(wrong, z, {"confirm", "admit"})
                /\ Has(wrong, z, {"forget", "deny"}) <=> z = x /\ x # y
                /\ Has(wrong, z, {"forget"}) <=> z = x /\ x # y
                /\ Has(wrong, z, {"deny"}) <=> z = x /\ x # y
  <2>1. CASE y = x
    <3>1. wrong = <<>> /\ <<>> \in Seq(Step)
      BY <2>1 DEF Wrong
    <3> HIDE DEF wrong
    <3> QED BY <2>1, <3>1, HasNone, CallsAreCalls
  <2>2. CASE y # x
    <3>1. wrong = ConfirmUnreachable(x)
      BY <2>2 DEF Wrong
    <3> HIDE DEF wrong
    <3> QED BY <2>2, <3>1, CallSteps, CallsAreCalls
  <2> QED BY <2>1, <2>2
<1>2. PICK u : u = wrong \o ConfirmReachable(y) /\ s = u \o Discover(seeds)
  BY DEF Answered
<1> HIDE DEF wrong, s
<1>3. ConfirmReachable(y) \in Seq(Step) /\ Discover(seeds) \in Seq(Step)
  BY CallSteps, DiscoverSteps
<1>4. u \in Seq(Step) /\ OfCalls(u)
  BY <1>1, <1>2, <1>3, HasBoth, OfCallsBoth, CallsAreCalls
<1>5. \A z, steps : Has(u, z, steps) <=> Has(wrong, z, steps) \/ Has(ConfirmReachable(y), z, steps)
  BY <1>1, <1>2, <1>3, HasBoth
<1>6. \A z, steps : Has(s, z, steps) <=> Has(u, z, steps) \/ Has(Discover(seeds), z, steps)
  BY <1>2, <1>3, <1>4, HasBoth
<1>7. s \in Seq(Step) /\ OfCalls(s)
  BY <1>2, <1>3, <1>4, HasBoth, OfCallsBoth, CallsAreCalls
<1>8. \A z : /\ ~Has(Discover(seeds), z, {"confirm", "admit"})
             /\ ~Has(Discover(seeds), z, {"forget", "deny"})
             /\ ~Has(Discover(seeds), z, {"forget"}) /\ ~Has(Discover(seeds), z, {"deny"})
  BY DiscoverSteps
<1>9. \A z : /\ Has(ConfirmReachable(y), z, {"confirm", "admit"}) <=> z = y
             /\ ~Has(ConfirmReachable(y), z, {"forget", "deny"})
             /\ ~Has(ConfirmReachable(y), z, {"forget"}) /\ ~Has(ConfirmReachable(y), z, {"deny"})
  BY CallSteps
<1>10. /\ s \in Seq(Step) /\ OfCalls(s)
       /\ \A z : Has(s, z, {"confirm", "admit"}) <=> z = y
       /\ \A z : Has(s, z, {"forget", "deny"}) <=> z = x /\ x # y
       /\ \A z : Has(s, z, {"forget"}) <=> z = x /\ x # y
       /\ \A z : Has(s, z, {"deny"}) <=> z = x /\ x # y
  BY <1>1, <1>5, <1>6, <1>7, <1>8, <1>9
<1> QED BY <1>10 DEF s

(* What a misdirected worker goes on to do.                                  *)
LEMMA MisdirectedWork ==
  ASSUME NEW x \in Peers,
         NEW rest \in {ConfirmUnreachable(x)} \cup {Discover(seeds) : seeds \in SeedsTold},
         NEW s, s = ConfirmUnreachable(x) \o rest
  PROVE  /\ s \in Seq(Step) /\ OfCalls(s)
         /\ \A z : ~Has(s, z, {"confirm", "admit"})
         /\ \A z : Has(s, z, {"forget", "deny"}) <=> z = x
         /\ \A z : Has(s, z, {"forget"}) <=> z = x
         /\ \A z : Has(s, z, {"deny"}) <=> z = x
<1>1. /\ rest \in Seq(Step) /\ OfCalls(rest)
      /\ \A z : ~Has(rest, z, {"confirm", "admit"})
      /\ \A z : /\ Has(rest, z, {"forget", "deny"}) => z = x
                /\ Has(rest, z, {"forget"}) => z = x
                /\ Has(rest, z, {"deny"}) => z = x
  <2>1. CASE rest = ConfirmUnreachable(x)
    BY <2>1, CallSteps, CallsAreCalls
  <2>2. ASSUME NEW seeds \in SeedsTold, rest = Discover(seeds)
        PROVE  /\ rest \in Seq(Step) /\ OfCalls(rest)
               /\ \A z : ~Has(rest, z, {"confirm", "admit"})
               /\ \A z : /\ ~Has(rest, z, {"forget", "deny"}) /\ ~Has(rest, z, {"forget"})
                         /\ ~Has(rest, z, {"deny"})
    <3>1. seeds \in SUBSET Peers
      BY ContactsAssumption
    <3> QED BY <2>2, <3>1, DiscoverSteps, CallsAreCalls
  <2> QED BY <2>1, <2>2
<1>2. ConfirmUnreachable(x) \in Seq(Step) /\ OfCalls(ConfirmUnreachable(x))
  BY CallSteps, CallsAreCalls
<1>3. s \in Seq(Step) /\ OfCalls(s)
  BY <1>1, <1>2, HasBoth, OfCallsBoth
<1>4. \A z, steps : Has(s, z, steps) <=> Has(ConfirmUnreachable(x), z, steps) \/ Has(rest, z, steps)
  BY <1>1, <1>2, HasBoth
<1>5. \A z : /\ ~Has(ConfirmUnreachable(x), z, {"confirm", "admit"})
             /\ Has(ConfirmUnreachable(x), z, {"forget", "deny"}) <=> z = x
             /\ Has(ConfirmUnreachable(x), z, {"forget"}) <=> z = x
             /\ Has(ConfirmUnreachable(x), z, {"deny"}) <=> z = x
  BY CallSteps
<1> QED BY <1>1, <1>3, <1>4, <1>5

-----------------------------------------------------------------------------
(* Type correctness, and what workers have to do. *)

(* Every worker is within a call, or about to greet, and no contact is made  *)
(* before the seed lists are read.                                           *)
WorkInv ==
  /\ work \in [Workers -> Seq(Step)]
  /\ \A w \in Workers : Orderly(work[w])
  /\ stage = "boot" => \A c \in Contacts : Idle(c)

(* A step is pending when some worker has it. *)
LEMMA PendingIs ==
  ASSUME NEW x, NEW steps
  PROVE  /\ Pending(x, steps) <=> \E w \in Workers : Has(work[w], x, steps)
         /\ Pending(x, steps)' <=> \E w \in Workers : Has(work'[w], x, steps)
BY DEF Pending, Has

(* A worker that did a step.                                                 *)
LEMMA WorkDone ==
  ASSUME WorkInv, NEW w \in Workers, ~Idle(w), Head(work[w]).do # "greet", Done(w)
  PROVE  /\ work' \in [Workers -> Seq(Step)] /\ \A v \in Workers : Orderly(work'[v])
         /\ Head(work[w]) \in Step
         /\ \A x, steps : Pending(x, steps) <=>
              (Head(work[w]).do \in steps /\ Head(work[w]).peer = x) \/ Pending(x, steps)'
<1>1. PICK s : s = work[w]
  OBVIOUS
<1>2. s \in Seq(Step) /\ s # <<>> /\ Head(s).do # "greet" /\ Orderly(s)
  BY <1>1 DEF WorkInv, Idle
<1>3. OfCalls(s)
  BY <1>2 DEF Orderly
<1>4. OfCalls(Tail(s)) /\ Tail(s) \in Seq(Step) /\ Head(s) \in Step
  BY <1>2, <1>3, OfCallsTail, HeadTailProperties
<1>5. work' = [work EXCEPT ![w] = Tail(s)] /\ work \in [Workers -> Seq(Step)]
  BY <1>1 DEF Done, WorkInv
<1>6. ASSUME NEW x, NEW steps
      PROVE  Pending(x, steps) <=> (Head(s).do \in steps /\ Head(s).peer = x) \/ Pending(x, steps)'
  <2>1. Has(s, x, steps) <=> (Head(s).do \in steps /\ Head(s).peer = x) \/ Has(Tail(s), x, steps)
    BY <1>2, HasTail
  <2>2. \A v \in Workers : work'[v] = IF v = w THEN Tail(s) ELSE work[v]
    BY <1>5
  <2> QED BY <1>1, <2>1, <2>2, PendingIs
<1>7. \A v \in Workers : Orderly(work'[v])
  BY <1>4, <1>5 DEF WorkInv, Orderly
<1> QED BY <1>1, <1>4, <1>5, <1>6, <1>7

(* A worker that was idle, or greeted, is given a call or a greeting.        *)
LEMMA WorkGiven ==
  ASSUME WorkInv, NEW w \in Workers, Idle(w) \/ Head(work[w]).do = "greet",
         NEW s \in Seq(Step), Orderly(s), work' = [work EXCEPT ![w] = s]
  PROVE  /\ work' \in [Workers -> Seq(Step)] /\ \A v \in Workers : Orderly(work'[v])
         /\ \A x, steps : "greet" \notin steps =>
              (Pending(x, steps)' <=> Has(s, x, steps) \/ Pending(x, steps))
<1>1. work' \in [Workers -> Seq(Step)] /\ \A v \in Workers : Orderly(work'[v])
  BY DEF WorkInv
<1>2. ASSUME NEW x, NEW steps, "greet" \notin steps
      PROVE  Pending(x, steps)' <=> Has(s, x, steps) \/ Pending(x, steps)
  <2>1. ~Has(work[w], x, steps)
    <3>1. CASE Idle(w)
      BY <3>1, HasNone DEF Idle
    <3>2. CASE ~Idle(w)
      <4>1. PICK t : t = work[w]
        OBVIOUS
      <4>2. t \in Seq(Step) /\ t # <<>> /\ Head(t).do = "greet" /\ Orderly(t)
        BY <3>2, <4>1 DEF WorkInv, Idle
      <4>3. ~OfCalls(t)
        <5>1. 1 \in DOMAIN t /\ Head(t) = t[1]
          BY <4>2
        <5> QED BY <4>2, <5>1 DEF OfCalls
      <4>4. PICK y \in Peers : t = <<[do |-> "greet", peer |-> y]>>
        BY <4>2, <4>3 DEF Orderly
      <4>5. \A i \in DOMAIN t : t[i].do = "greet"
        BY <4>4
      <4> QED BY <1>2, <4>1, <4>5 DEF Has
    <3> QED BY <3>1, <3>2
  <2>2. \A v \in Workers : work'[v] = IF v = w THEN s ELSE work[v]
    BY DEF WorkInv
  <2> QED BY <2>1, <2>2, PendingIs
<1> QED BY <1>1, <1>2

(* The call a worker is in lets a failed confirmation drop the admission that *)
(* follows it.                                                               *)
LEMMA ConfirmationDropped ==
  ASSUME WorkInv, NEW w \in Workers, Doing(w, "confirm"),
         work' = [work EXCEPT ![w] = Tail(Tail(@))]
  PROVE  /\ work' \in [Workers -> Seq(Step)] /\ \A v \in Workers : Orderly(work'[v])
         /\ Head(work[w]).peer \in Peers
         /\ \A x : Pending(x, {"forget"}) <=> Pending(x, {"forget"})'
         /\ \A x : Pending(x, {"deny"}) <=> Pending(x, {"deny"})'
         /\ \A x : Pending(x, {"confirm", "admit"})' => Pending(x, {"confirm", "admit"})
<1>1. PICK s : s = work[w]
  OBVIOUS
<1>2. s \in Seq(Step) /\ s # <<>> /\ Head(s).do = "confirm" /\ Orderly(s)
  BY <1>1 DEF WorkInv, Idle, Doing
<1>3. OfCalls(s)
  BY <1>2 DEF Orderly
<1>4. PICK t : t = Tail(s)
  OBVIOUS
<1>5. OfCalls(t) /\ t \in Seq(Step) /\ Head(s) \in Step /\ t # <<>> /\ Head(t).do = "admit"
  BY <1>2, <1>3, <1>4, OfCallsTail, HeadTailProperties
<1>6. OfCalls(Tail(t)) /\ Tail(t) \in Seq(Step)
  BY <1>5, OfCallsTail, HeadTailProperties
<1>7. work' = [work EXCEPT ![w] = Tail(t)] /\ work \in [Workers -> Seq(Step)]
  BY <1>1, <1>4 DEF WorkInv
<1>8. ASSUME NEW x, NEW steps
      PROVE  /\ Has(s, x, steps) <=> (Head(s).do \in steps /\ Head(s).peer = x) \/ Has(t, x, steps)
             /\ Has(t, x, steps) <=> (Head(t).do \in steps /\ Head(t).peer = x) \/ Has(Tail(t), x, steps)
  BY <1>2, <1>4, <1>5, HasTail
<1>9. \A v \in Workers : work'[v] = IF v = w THEN Tail(t) ELSE work[v]
  BY <1>7
<1>10. ASSUME NEW x
       PROVE  /\ Pending(x, {"forget"}) <=> Pending(x, {"forget"})'
              /\ Pending(x, {"deny"}) <=> Pending(x, {"deny"})'
              /\ Pending(x, {"confirm", "admit"})' => Pending(x, {"confirm", "admit"})
  <2>1. Has(s, x, {"forget"}) <=> Has(Tail(t), x, {"forget"})
    BY <1>2, <1>5, <1>8
  <2>2. Has(s, x, {"deny"}) <=> Has(Tail(t), x, {"deny"})
    BY <1>2, <1>5, <1>8
  <2>3. Has(Tail(t), x, {"confirm", "admit"}) => Has(s, x, {"confirm", "admit"})
    BY <1>8
  <2> QED BY <1>1, <1>9, <2>1, <2>2, <2>3, PendingIs
<1>11. \A v \in Workers : Orderly(work'[v])
  BY <1>6, <1>7 DEF WorkInv, Orderly
<1>12. Head(s).peer \in Peers
  BY <1>2, <1>5 DEF Step
<1> QED BY <1>1, <1>6, <1>7, <1>10, <1>11, <1>12

-----------------------------------------------------------------------------
(* The roster. *)

(* A commit leaves what it was given but its victims: the roster stays       *)
(* within the larger capacity, and of those outside the reachable set the    *)
(* transaction read, no staler peer outlives one that went.                  *)
LEMMA CommitEffect ==
  ASSUME RosterTypeOK, NEW entries, DOMAIN entries \in SUBSET Peers,
         \A x \in DOMAIN entries : entries[x] \in Entry, CommitWithin(entries)
  PROVE  /\ writer' = NoWriter
         /\ Known' \subseteq DOMAIN entries /\ \A x \in Known' : roster'[x] = entries[x]
         /\ Cardinality(Known') <= MaxOf(KnownCapacity, ReachableCapacity)
         /\ \A x \in DOMAIN entries \ Known' :
              /\ x \notin writer.reachable
              /\ \A y \in Known' \ writer.reachable :
                   entries[y].contacted <= entries[x].contacted
<1>1. PICK kept : kept = writer.reachable
  OBVIOUS
<1>2. PICK E : E = DOMAIN entries
  OBVIOUS
<1>3. PICK candidates : candidates = E \ kept
  OBVIOUS
<1>4. PICK V \in SUBSET candidates :
        /\ Cardinality(V) = MinOf(Overflow(entries), Cardinality(candidates))
        /\ \A x \in V, y \in candidates \ V : entries[x].contacted >= entries[y].contacted
        /\ roster' = [x \in E \ V |-> entries[x]]
        /\ writer' = NoWriter
  BY <1>1, <1>2, <1>3 DEF CommitWithin, StalestBeyondCapacity
<1>5. Known' = E \ V /\ \A x \in Known' : roster'[x] = entries[x]
  BY <1>4 DEF Known
<1>6. Cardinality(E \ V) <= MaxOf(KnownCapacity, ReachableCapacity)
  <2>1. IsFiniteSet(E) /\ IsFiniteSet(candidates) /\ IsFiniteSet(V) /\ IsFiniteSet(E \ V)
    BY <1>2, <1>3, <1>4, RosterAssumption, FS_Subset
  <2>2. /\ Cardinality(E) \in Nat /\ Cardinality(candidates) \in Nat /\ Cardinality(V) \in Nat
        /\ Cardinality(E \ V) \in Nat
    BY <2>1, FS_CardinalityType
  <2>3. KnownCapacity \in Nat /\ ReachableCapacity \in Nat
    BY RosterAssumption
  <2>4. Cardinality(E) = Cardinality(E \ V) + Cardinality(V)
    <3>1. E = (E \ V) \cup V /\ (E \ V) \cap V = {}
      BY <1>3, <1>4
    <3>2. Cardinality(E) = Cardinality(E \ V) + Cardinality(V) - Cardinality({})
      BY <2>1, <3>1, FS_Union
    <3> QED BY <2>2, <3>2, FS_EmptySet
  <2>5. Overflow(entries) \in Nat /\ Overflow(entries) >= Cardinality(E) - KnownCapacity
        /\ (Overflow(entries) = Cardinality(E) - KnownCapacity \/ Overflow(entries) = 0)
    BY <1>2, <2>2, <2>3 DEF Overflow, MaxOf
  <2>6. CASE Overflow(entries) <= Cardinality(candidates)
    <3>1. Cardinality(V) = Overflow(entries)
      BY <1>4, <2>2, <2>5, <2>6 DEF MinOf
    <3> QED BY <2>2, <2>3, <2>4, <2>5, <3>1 DEF MaxOf
  <2>7. CASE ~(Overflow(entries) <= Cardinality(candidates))
    <3>1. Cardinality(V) = Cardinality(candidates)
      BY <1>4, <2>2, <2>5, <2>7 DEF MinOf
    <3>2. V = candidates
      BY <1>4, <2>1, <3>1, FS_Subset
    <3>3. E \ V \in SUBSET kept
      BY <1>3, <3>2
    <3>4. kept \in SUBSET Peers /\ Cardinality(kept) <= ReachableCapacity
      BY <1>1 DEF RosterTypeOK
    <3>5. IsFiniteSet(kept) /\ Cardinality(kept) \in Nat
      BY <3>4, RosterAssumption, FS_Subset, FS_CardinalityType
    <3>6. Cardinality(E \ V) <= Cardinality(kept)
      BY <3>3, <3>5, FS_Subset
    <3> QED BY <2>2, <2>3, <3>4, <3>5, <3>6 DEF MaxOf
  <2> QED BY <2>6, <2>7
<1>7. ASSUME NEW x \in E \ Known'
      PROVE  /\ x \notin kept
             /\ \A y \in Known' \ kept : entries[y].contacted <= entries[x].contacted
  <2>1. x \in V
    BY <1>5, <1>7
  <2>2. \A y \in Known' \ kept : y \in candidates \ V /\ y \in E
    BY <1>3, <1>5
  <2>3. \A y \in E : entries[y].contacted \in Nat
    BY <1>2, RosterAssumption DEF Entry
  <2> QED BY <1>3, <1>4, <2>1, <2>2, <2>3
<1> QED BY <1>1, <1>2, <1>4, <1>5, <1>6, <1>7

(* The entries a confirmation commits.                                       *)
LEMMA ReachableEntries ==
  ASSUME RosterTypeOK, NEW x \in Peers,
         NEW entries, entries = [y \in Known \cup {x} |->
           IF y = x THEN [contacted |-> 0, confirmed |-> 0] ELSE roster[y]]
  PROVE  DOMAIN entries \in SUBSET Peers /\ \A y \in DOMAIN entries : entries[y] \in Entry
<1>1. [contacted |-> 0, confirmed |-> 0] \in Entry
  BY RosterAssumption DEF Entry, Never
<1> QED BY <1>1 DEF RosterTypeOK

(* The entries a discovery commits.                                          *)
LEMMA DiscoveredEntries ==
  ASSUME RosterTypeOK, NEW seeds \in SUBSET Peers,
         NEW entries, entries = [y \in Known \cup seeds |->
           IF y \in Known THEN roster[y] ELSE [contacted |-> 0, confirmed |-> Never]]
  PROVE  DOMAIN entries \in SUBSET Peers /\ \A y \in DOMAIN entries : entries[y] \in Entry
<1>1. [contacted |-> 0, confirmed |-> Never] \in Entry
  BY RosterAssumption DEF Entry, Never
<1> QED BY <1>1 DEF RosterTypeOK

(* Nobody has the transaction.                                               *)
LEMMA NoWriterTyped ==
  NoWriter \in [held : BOOLEAN, reachable : {S \in SUBSET Peers :
                                               Cardinality(S) <= ReachableCapacity}]
BY FS_EmptySet, RosterAssumption DEF NoWriter

(* Commits keep the roster's types.                                          *)
LEMMA CommitType ==
  ASSUME RosterTypeOK, UNCHANGED reachable,
         \/ \E x \in Peers : CommitReachable(x)
         \/ \E seeds \in SUBSET Peers : CommitDiscovered(seeds)
  PROVE  RosterTypeOK'
<1>1. PICK entries : /\ DOMAIN entries \in SUBSET Peers
                     /\ \A y \in DOMAIN entries : entries[y] \in Entry
                     /\ CommitWithin(entries)
  BY ReachableEntries, DiscoveredEntries DEF CommitReachable, CommitDiscovered
<1>2. /\ Known' \subseteq DOMAIN entries /\ \A x \in Known' : roster'[x] = entries[x]
      /\ writer' = NoWriter
  BY <1>1, CommitEffect
<1>3. Known' \subseteq Peers /\ \A x \in Known' : roster'[x] \in Entry
  BY <1>1, <1>2
<1>4. reachable' \subseteq Peers /\ Cardinality(reachable') <= ReachableCapacity
  BY DEF RosterTypeOK
<1>5. writer' \in [held : BOOLEAN, reachable : {S \in SUBSET Peers :
                                                  Cardinality(S) <= ReachableCapacity}]
  <2>1. writer' = NoWriter
    BY <1>2
  <2> QED BY <2>1, NoWriterTyped, Zenon
<1> QED BY <1>3, <1>4, <1>5 DEF RosterTypeOK

(* So do the reachable set's changes: an admission finds a place or none.    *)
LEMMA ReachableType ==
  ASSUME RosterTypeOK, UNCHANGED <<roster, writer>>,
         NEW x \in Peers, Admit(x) \/ Forget(x)
  PROVE  RosterTypeOK'
<1>1. IsFiniteSet(reachable) /\ Cardinality(reachable) \in Nat
  BY RosterAssumption, FS_Subset, FS_CardinalityType DEF RosterTypeOK
<1>2. reachable' \subseteq Peers /\ Cardinality(reachable') <= ReachableCapacity
  <2>1. CASE Forget(x)
    <3>1. reachable' \in SUBSET reachable
      BY <2>1 DEF Forget
    <3>2. Cardinality(reachable') <= Cardinality(reachable) /\ Cardinality(reachable') \in Nat
      BY <1>1, <3>1, FS_Subset, FS_CardinalityType
    <3> QED BY <1>1, <3>1, <3>2, RosterAssumption DEF RosterTypeOK
  <2>2. CASE Admit(x)
    <3>1. CASE x \in reachable \/ ~(Cardinality(reachable) < ReachableCapacity)
      BY <2>2, <3>1 DEF Admit, RosterTypeOK
    <3>2. CASE x \notin reachable /\ Cardinality(reachable) < ReachableCapacity
      <4>1. reachable' = reachable \cup {x}
        BY <2>2, <3>2 DEF Admit
      <4>2. Cardinality(reachable') = Cardinality(reachable) + 1
        BY <1>1, <3>2, <4>1, FS_AddElement
      <4> QED BY <1>1, <3>2, <4>1, <4>2, RosterAssumption DEF RosterTypeOK
    <3> QED BY <3>1, <3>2
  <2> QED BY <2>1, <2>2
<1> QED BY <1>2 DEF RosterTypeOK, Known

(* So does a transaction that opens, with the reachable set it reads.        *)
LEMMA UpdateType ==
  ASSUME RosterTypeOK, UNCHANGED <<roster, reachable>>, BeginUpdate \/ writer' = NoWriter
  PROVE  RosterTypeOK'
<1>1. writer' \in [held : BOOLEAN, reachable : {S \in SUBSET Peers :
                                                  Cardinality(S) <= ReachableCapacity}]
  <2>1. CASE writer' = NoWriter
    BY <2>1, NoWriterTyped, Zenon
  <2>2. CASE BeginUpdate
    <3>1. reachable \in {S \in SUBSET Peers : Cardinality(S) <= ReachableCapacity}
      BY DEF RosterTypeOK
    <3> QED BY <2>2, <3>1 DEF BeginUpdate
  <2> QED BY <2>1, <2>2
<1>2. /\ Known' \subseteq Peers /\ \A x \in Known' : roster'[x] \in Entry
      /\ reachable' \subseteq Peers /\ Cardinality(reachable') <= ReachableCapacity
  BY DEF RosterTypeOK, Known
<1> QED BY <1>1, <1>2 DEF RosterTypeOK

(* So do a failed contact and the passing of a round: ages stay ages.        *)
LEMMA AgesType ==
  ASSUME RosterTypeOK, UNCHANGED <<reachable, writer>>,
         RosterAges \/ \E x \in Peers : RecordUnreachable(x)
  PROVE  RosterTypeOK' /\ Known' = Known
<1>1. Known' = Known
  BY DEF RosterAges, RecordUnreachable, Known
<1>2. ASSUME NEW y \in Known PROVE roster'[y] \in Entry
  <2>1. roster[y].contacted \in 0 .. MaxAge /\ roster[y].confirmed \in 0 .. Never
    BY DEF RosterTypeOK, Entry
  <2>2. roster[y] \in Entry /\ MaxAge \in Nat
    BY RosterAssumption DEF RosterTypeOK
  <2>3. CASE RosterAges
    <3>1. /\ MinOf(roster[y].contacted + 1, MaxAge) \in 0 .. MaxAge
          /\ Older(roster[y].confirmed) \in 0 .. Never
      BY <2>1, <2>2 DEF MinOf, Older, Never
    <3> QED BY <2>3, <3>1 DEF RosterAges, Entry, Known
  <2>4. CASE \E x \in Peers : RecordUnreachable(x)
    <3>1. [contacted |-> 0, confirmed |-> Never] \in Entry
      BY <2>2 DEF Entry, Never
    <3> QED BY <2>2, <2>4, <3>1 DEF RecordUnreachable, Known
  <2> QED BY <2>3, <2>4
<1> QED BY <1>1, <1>2 DEF RosterTypeOK

-----------------------------------------------------------------------------
(* Every step keeps the types and the workers' order.                        *)

TypesAndWork == TypeOK /\ WorkInv

(* The types of the work follow from the workers' order.                     *)
LEMMA WorkIsTyped ==
  ASSUME work' \in [Workers -> Seq(Step)]
  PROVE  \A w \in Workers : \A i \in DOMAIN work'[w] : work'[w][i] \in Step
<1>1. ASSUME NEW w \in Workers PROVE \A i \in DOMAIN work'[w] : work'[w][i] \in Step
  <2>1. work'[w] \in Seq(Step)
    OBVIOUS
  <2> QED BY <2>1, LenProperties
<1> QED BY <1>1

(* The empty roster is well typed.                                           *)
LEMMA TypesInit == Init => TypesAndWork
<1> SUFFICES ASSUME Init PROVE TypesAndWork
  OBVIOUS
<1>1. RosterTypeOK
  <2>1. Known \subseteq Peers /\ \A x \in Known : roster[x] \in Entry
    BY DEF Init, RosterInit, Known
  <2>2. reachable \subseteq Peers /\ Cardinality(reachable) <= ReachableCapacity
    BY FS_EmptySet, RosterAssumption DEF Init, RosterInit
  <2>3. writer = NoWriter
    BY DEF Init, RosterInit
  <2>4. writer \in [held : BOOLEAN, reachable : {S \in SUBSET Peers :
                                                 Cardinality(S) <= ReachableCapacity}]
    BY <2>3, NoWriterTyped, Zenon
  <2> QED BY <2>1, <2>2, <2>4 DEF RosterTypeOK
<1>2. WorkInv
  <2>1. <<>> \in Seq(Step) /\ Orderly(<<>>)
    BY CallsAreCalls DEF Orderly
  <2> QED BY <2>1 DEF Init, WorkInv, Idle, Workers
<1>3. /\ stage \in Stages /\ due \in BOOLEAN /\ targets \subseteq Peers
      /\ outcome \in [Peers -> {"none", "confirmed", "denied"}] /\ contested \subseteq Peers
      /\ failures \in 0 .. MaxFailures
  BY ContactsAssumption DEF Init, Stages
<1>4. \A w \in Workers : \A i \in DOMAIN work[w] : work[w][i] \in Step
  BY DEF Init
<1> QED BY <1>1, <1>2, <1>3, <1>4 DEF TypesAndWork, TypeOK

(* History keeps its type whatever contacts say.                             *)
LEMMA HistoryType ==
  ASSUME TypeOK,
         \/ \E denied, confirmed \in SUBSET Peers : Says(denied, confirmed)
         \/ \E peers : Unsaid(peers)
         \/ UNCHANGED historyVars
  PROVE  outcome' \in [Peers -> {"none", "confirmed", "denied"}] /\ contested' \subseteq Peers
BY DEF TypeOK, Says, Unsaid, historyVars

(* Being told a call keeps the types of everything else.                     *)
LEMMA StepTypes ==
  ASSUME TypesAndWork, RosterTypeOK',
         work' \in [Workers -> Seq(Step)], \A w \in Workers : Orderly(work'[w]),
         stage' \in Stages, due' \in BOOLEAN, targets' \subseteq Peers,
         stage' = "boot" => \A c \in Contacts : Idle(c)',
         \/ \E denied, confirmed \in SUBSET Peers : Says(denied, confirmed)
         \/ \E peers : Unsaid(peers)
         \/ UNCHANGED historyVars,
         Fail \/ UNCHANGED failures
  PROVE  TypesAndWork'
<1>1. outcome' \in [Peers -> {"none", "confirmed", "denied"}] /\ contested' \subseteq Peers
  BY HistoryType DEF TypesAndWork
<1>2. failures' \in 0 .. MaxFailures
  BY ContactsAssumption DEF TypesAndWork, TypeOK, Fail
<1>3. WorkInv'
  BY DEF WorkInv
<1>4. TypeOK'
  BY <1>1, <1>2, WorkIsTyped DEF TypeOK
<1> QED BY <1>3, <1>4 DEF TypesAndWork

(* The steps between two contacts.                                           *)
LEMMA RoundTypes ==
  ASSUME TypesAndWork,
         (\E c \in Contacts : Bootstrap(c) \/ StartContact(c)) \/ BeginRound \/ ChooseProbes
           \/ EndRound \/ Tick \/ Restart
  PROVE  TypesAndWork'
<1> USE DEF Stages
<1>1. CASE \E c \in Contacts : Bootstrap(c)
  <2>1. PICK c \in Contacts, seeds \in SeedsTold :
          stage = "boot" /\ work' = [work EXCEPT ![c] = Discover(seeds)]
    BY <1>1 DEF Bootstrap
  <2>2. Discover(seeds) \in Seq(Step) /\ Orderly(Discover(seeds)) /\ c \in Workers /\ Idle(c)
    BY <2>1, DiscoverSteps, CallsAreCalls, ContactsAssumption
       DEF Orderly, Workers, TypesAndWork, WorkInv
  <2>3. work' \in [Workers -> Seq(Step)] /\ \A v \in Workers : Orderly(work'[v])
    BY <2>1, <2>2, WorkGiven DEF TypesAndWork
  <2>4. RosterTypeOK' /\ stage' = "idle" /\ UNCHANGED <<due, targets, historyVars, failures>>
    BY <1>1 DEF Bootstrap, TypesAndWork, TypeOK, rosterVars, RosterTypeOK, Known
  <2> QED BY <2>3, <2>4, StepTypes DEF TypesAndWork, TypeOK
<1>2. CASE \E c \in Contacts : StartContact(c)
  <2>1. PICK c \in Contacts : StartContact(c)
    BY <1>2
  <2>2. PICK x \in targets :
          /\ targets' = targets \ {x}
          /\ work' = IF x \in Known THEN [work EXCEPT ![c] = <<[do |-> "greet", peer |-> x]>>]
                                     ELSE work
    BY <2>1 DEF StartContact
  <2>3. x \in Peers /\ c \in Workers /\ Idle(c)
    BY <2>1, <2>2 DEF StartContact, TypesAndWork, TypeOK, Workers
  <2>4. <<[do |-> "greet", peer |-> x]>> \in Seq(Step) /\ Orderly(<<[do |-> "greet", peer |-> x]>>)
    BY <2>3 DEF Step, Orderly
  <2>5. work' \in [Workers -> Seq(Step)] /\ \A v \in Workers : Orderly(work'[v])
    <3>1. CASE x \in Known
      BY <2>2, <2>3, <2>4, <3>1, WorkGiven DEF TypesAndWork
    <3>2. CASE x \notin Known
      BY <2>2, <3>2 DEF TypesAndWork, WorkInv
    <3> QED BY <3>1, <3>2
  <2>6. /\ RosterTypeOK' /\ stage' = "contacting" /\ targets' \subseteq Peers
        /\ UNCHANGED <<due, historyVars, failures>>
    BY <2>1, <2>2 DEF StartContact, TypesAndWork, TypeOK, rosterVars, RosterTypeOK, Known
  <2> QED BY <2>5, <2>6, StepTypes DEF TypesAndWork, TypeOK
<1>3. CASE BeginRound \/ ChooseProbes \/ EndRound
  <2>1. /\ RosterTypeOK' /\ UNCHANGED <<work, historyVars, failures>>
        /\ stage' \in {"probing", "contacting", "idle"} /\ due' \in BOOLEAN
    BY <1>3 DEF BeginRound, ChooseProbes, EndRound, TypesAndWork, TypeOK, rosterVars, RosterTypeOK,
                Known
  <2>2. targets' \subseteq Peers
    BY <1>3 DEF BeginRound, ChooseProbes, EndRound, TypesAndWork, TypeOK, RosterTypeOK, Unreachable
  <2>3. work' \in [Workers -> Seq(Step)] /\ \A v \in Workers : Orderly(work'[v])
    BY <2>1 DEF TypesAndWork, WorkInv
  <2> QED BY <2>1, <2>2, <2>3, StepTypes
<1>4. CASE Tick
  <2>1. RosterTypeOK'
    BY <1>4, AgesType DEF Tick, TypesAndWork, TypeOK
  <2>2. UNCHANGED <<work, stage, targets, historyVars, failures>> /\ due' \in BOOLEAN
    BY <1>4 DEF Tick
  <2>3. /\ work' \in [Workers -> Seq(Step)] /\ \A v \in Workers : Orderly(work'[v])
        /\ stage' = "boot" => \A c \in Contacts : Idle(c)'
    BY <2>2 DEF TypesAndWork, WorkInv, Idle
  <2> QED BY <2>1, <2>2, <2>3, StepTypes DEF TypesAndWork, TypeOK
<1>5. CASE Restart
  <2>1. RosterTypeOK'
    <3>1. Known' \subseteq Peers /\ \A x \in Known' : roster'[x] \in Entry
      BY <1>5 DEF Restart, TypesAndWork, TypeOK, RosterTypeOK, Known
    <3>2. reachable' \subseteq Peers /\ Cardinality(reachable') <= ReachableCapacity
      BY <1>5, FS_EmptySet, RosterAssumption DEF Restart
    <3>3. writer' = NoWriter
      BY <1>5 DEF Restart
    <3>4. writer' \in [held : BOOLEAN, reachable : {S \in SUBSET Peers :
                                                    Cardinality(S) <= ReachableCapacity}]
      BY <3>3, NoWriterTyped, Zenon
    <3> QED BY <3>1, <3>2, <3>4 DEF RosterTypeOK
  <2>2. <<>> \in Seq(Step) /\ Orderly(<<>>)
    BY CallsAreCalls DEF Orderly
  <2>3. /\ work' \in [Workers -> Seq(Step)] /\ \A v \in Workers : Orderly(work'[v])
        /\ \A c \in Contacts : Idle(c)'
    BY <1>5, <2>2 DEF Restart, Idle, Workers
  <2>4. /\ stage' = "boot" /\ due' = TRUE /\ targets' = {} /\ Fail
        /\ \E peers : Unsaid(peers)
    BY <1>5 DEF Restart
  <2> QED BY <2>1, <2>3, <2>4, StepTypes
<1> QED BY <1>1, <1>2, <1>3, <1>4, <1>5

(* The steps of a contact and of its calls.                                  *)
LEMMA GreetTypes ==
  ASSUME TypesAndWork, NEW w \in Workers,
         (w \in Contacts /\ Greet(w)) \/ (w \in Handlers /\ Hello(w))
  PROVE  TypesAndWork'
<1>1. RosterTypeOK' /\ UNCHANGED <<due, targets, stage, failures>>
  BY DEF Greet, GreetFails, GreetAnswered, GreetMisdirected, Hello, TypesAndWork, TypeOK,
         rosterVars, contactVars, RosterTypeOK, Known
<1>2. w \in Contacts => stage # "boot"
  BY ContactsAssumption
     DEF Greet, GreetFails, GreetAnswered, GreetMisdirected, Hello, Doing, TypesAndWork, WorkInv
<1>3. Idle(w) \/ (Head(work[w]).do = "greet" /\ Head(work[w]).peer \in Peers)
  <2>1. ASSUME Doing(w, "greet")
        PROVE  Head(work[w]).do = "greet" /\ Head(work[w]).peer \in Peers
    <3>1. Head(work[w]) \in Step
      BY <2>1, HeadTailProperties DEF Doing, Idle, TypesAndWork, WorkInv
    <3> QED BY <2>1, <3>1 DEF Doing, Step
  <2> QED BY <2>1 DEF Greet, GreetFails, GreetAnswered, GreetMisdirected, Hello
<1>4. PICK x : x = Head(work[w]).peer
  OBVIOUS
<1>5. \E s \in Seq(Step) : Orderly(s) /\ work' = [work EXCEPT ![w] = s]
  <2>1. CASE Hello(w)
    <3>1. PICK y \in Callers : work' = [work EXCEPT ![w] = ConfirmReachable(y)]
      BY <2>1 DEF Hello
    <3>2. y \in Peers
      BY ContactsAssumption
    <3> QED BY <3>1, <3>2, CallSteps, CallsAreCalls DEF Orderly
  <2>2. CASE GreetFails(w)
    <3>1. x \in Peers /\ work' = [work EXCEPT ![w] = ConfirmUnreachable(x)]
      BY <1>3, <1>4, <2>2 DEF GreetFails, Doing
    <3> QED BY <3>1, CallSteps, CallsAreCalls DEF Orderly
  <2>3. CASE GreetAnswered(w)
    <3>1. PICK y \in Peers, seeds \in SeedsTold : work' = [work EXCEPT ![w] = Answered(x, y, seeds)]
      BY <1>4, <2>3 DEF GreetAnswered, Answered, Wrong
    <3>2. x \in Peers /\ seeds \in SUBSET Peers
      BY <1>3, <1>4, <2>3, ContactsAssumption DEF GreetAnswered, Doing
    <3>3. Answered(x, y, seeds) \in Seq(Step) /\ OfCalls(Answered(x, y, seeds))
      BY <3>2, AnsweredWork
    <3> QED BY <3>1, <3>3 DEF Orderly
  <2>4. CASE GreetMisdirected(w)
    <3>1. PICK rest \in {ConfirmUnreachable(x)} \cup {Discover(seeds) : seeds \in SeedsTold} :
            work' = [work EXCEPT ![w] = ConfirmUnreachable(x) \o rest]
      BY <1>4, <2>4 DEF GreetMisdirected
    <3>2. x \in Peers
      BY <1>3, <1>4, <2>4 DEF GreetMisdirected, Doing
    <3> QED BY <3>1, <3>2, MisdirectedWork DEF Orderly
  <2> QED BY <2>1, <2>2, <2>3, <2>4 DEF Greet
<1>6. work' \in [Workers -> Seq(Step)] /\ \A v \in Workers : Orderly(work'[v])
  BY <1>3, <1>5, WorkGiven DEF TypesAndWork
<1>7. stage' = "boot" => \A c \in Contacts : Idle(c)'
  <2>1. ASSUME stage = "boot" PROVE \A c \in Contacts : Idle(c)'
    <3>1. w \notin Contacts /\ \A c \in Contacts : Idle(c)
      BY <1>2, <2>1 DEF TypesAndWork, WorkInv
    <3> QED BY <1>5, <3>1 DEF Idle, TypesAndWork, WorkInv, Workers
  <2> QED BY <1>1, <2>1
<1>8. \E denied, confirmed \in SUBSET Peers : Says(denied, confirmed)
  <2>1. CASE Hello(w)
    <3>1. PICK y \in Callers : Says({}, {y})
      BY <2>1 DEF Hello
    <3>2. {y} \in SUBSET Peers /\ {} \in SUBSET Peers
      BY ContactsAssumption
    <3> QED BY <3>1, <3>2
  <2>2. CASE ~Hello(w)
    <3>1. x \in Peers /\ (Says({x}, {}) \/ \E y \in Peers : Says({x} \ {y}, {y}))
      BY <1>3, <1>4, <2>2 DEF Greet, GreetFails, GreetAnswered, GreetMisdirected, Doing
    <3>2. {} \in SUBSET Peers /\ {x} \in SUBSET Peers
          /\ \A y \in Peers : {y} \in SUBSET Peers /\ {x} \ {y} \in SUBSET Peers
      BY <3>1
    <3> QED BY <3>1, <3>2
  <2> QED BY <2>1, <2>2
<1>9. stage' \in Stages /\ due' \in BOOLEAN /\ targets' \subseteq Peers
  BY <1>1 DEF TypesAndWork, TypeOK
<1> QED BY <1>1, <1>6, <1>7, <1>8, <1>9, StepTypes

(* A step of a call, or its failure.                                        *)
LEMMA CallTypes ==
  ASSUME TypesAndWork, NEW w \in Workers, CallStep(w) \/ UpdateFails(w)
  PROVE  TypesAndWork'
<1>1. ~Idle(w) /\ Head(work[w]).do # "greet" /\ UNCHANGED <<due, targets, stage>>
  BY DEF CallStep, ForgetReachable, DenyOnDisk, OpenUpdate, Commit, AdmitReachable, UpdateFails,
         Doing, contactVars
<1>2. Head(work[w]) \in Step
  BY <1>1, HeadTailProperties DEF Idle, TypesAndWork, WorkInv
<1>3. work' \in [Workers -> Seq(Step)] /\ \A v \in Workers : Orderly(work'[v])
  <2>1. CASE Done(w)
    BY <1>1, <2>1, WorkDone DEF TypesAndWork
  <2>2. CASE ~Done(w)
    <3>1. Doing(w, "confirm") /\ work' = [work EXCEPT ![w] = Tail(Tail(@))]
      BY <2>2 DEF CallStep, ForgetReachable, DenyOnDisk, OpenUpdate, Commit, AdmitReachable,
                  UpdateFails
    <3> QED BY <3>1, ConfirmationDropped DEF TypesAndWork
  <2> QED BY <2>1, <2>2
<1>4. RosterTypeOK'
  <2>1. CASE ForgetReachable(w)
    <3>1. Head(work[w]).peer \in Peers
      BY <1>2, <2>1 DEF ForgetReachable, Doing, Step
    <3> QED BY <2>1, <3>1, ReachableType DEF ForgetReachable, TypesAndWork, TypeOK
  <2>2. CASE AdmitReachable(w)
    <3>1. Head(work[w]).peer \in Peers
      BY <1>2, <2>2 DEF AdmitReachable, Doing, Step
    <3> QED BY <2>2, <3>1, ReachableType DEF AdmitReachable, TypesAndWork, TypeOK
  <2>3. CASE DenyOnDisk(w)
    <3>1. Head(work[w]).peer \in Peers
      BY <1>2, <2>3 DEF DenyOnDisk, Doing, Step
    <3> QED BY <2>3, <3>1, AgesType DEF DenyOnDisk, TypesAndWork, TypeOK
  <2>4. CASE OpenUpdate(w)
    BY <2>4, UpdateType DEF OpenUpdate, TypesAndWork, TypeOK
  <2>5. CASE Commit(w)
    <3>1. \/ \E x \in Peers : CommitReachable(x)
          \/ \E seeds \in SUBSET Peers : CommitDiscovered(seeds)
      BY <1>2, <2>5 DEF Commit, Doing, Step
    <3> QED BY <2>5, <3>1, CommitType DEF Commit, TypesAndWork, TypeOK
  <2>6. CASE UpdateFails(w)
    <3>1. UNCHANGED <<roster, reachable>> /\ (writer' = NoWriter \/ UNCHANGED writer)
      BY <2>6 DEF UpdateFails
    <3>2. CASE writer' = NoWriter
      BY <3>1, <3>2, UpdateType DEF TypesAndWork, TypeOK
    <3>3. CASE UNCHANGED writer
      BY <3>1, <3>3 DEF TypesAndWork, TypeOK, RosterTypeOK, Known
    <3> QED BY <3>1, <3>2, <3>3
  <2> QED BY <2>1, <2>2, <2>3, <2>4, <2>5, <2>6 DEF CallStep
<1>5. \/ \E peers : Unsaid(peers)
      \/ UNCHANGED historyVars
  BY DEF CallStep, ForgetReachable, DenyOnDisk, OpenUpdate, Commit, AdmitReachable, UpdateFails
<1>6. Fail \/ UNCHANGED failures
  BY DEF CallStep, ForgetReachable, DenyOnDisk, OpenUpdate, Commit, AdmitReachable, UpdateFails
<1>7. stage' = "boot" => \A c \in Contacts : Idle(c)'
  <2>1. ASSUME stage = "boot" PROVE \A c \in Contacts : Idle(c)'
    <3>1. w \notin Contacts /\ \A c \in Contacts : Idle(c)
      BY <1>1, <2>1 DEF TypesAndWork, WorkInv
    <3>2. \E s : work' = [work EXCEPT ![w] = s]
      BY DEF CallStep, ForgetReachable, DenyOnDisk, OpenUpdate, Commit, AdmitReachable,
             UpdateFails, Done
    <3> QED BY <3>1, <3>2 DEF Idle, TypesAndWork, WorkInv, Workers
  <2> QED BY <1>1, <2>1
<1>8. stage' \in Stages /\ due' \in BOOLEAN /\ targets' \subseteq Peers
  BY <1>1 DEF TypesAndWork, TypeOK
<1> QED BY <1>3, <1>4, <1>5, <1>6, <1>7, <1>8, StepTypes

(* Every step keeps the types and the workers' order.                        *)
LEMMA TypesStep == TypesAndWork /\ [Next]_vars => TypesAndWork'
<1> SUFFICES ASSUME TypesAndWork, [Next]_vars PROVE TypesAndWork'
  OBVIOUS
<1>1. CASE Round \/ Tick \/ Restart \/ \E c \in Contacts : StartContact(c)
  BY <1>1, RoundTypes DEF Round
<1>2. CASE \E c \in Contacts : Greet(c)
  BY <1>2, GreetTypes DEF Workers
<1>3. CASE \E h \in Handlers : Hello(h)
  BY <1>3, GreetTypes DEF Workers
<1>4. CASE \E w \in Workers : CallStep(w) \/ UpdateFails(w)
  BY <1>4, CallTypes
<1>5. CASE UNCHANGED vars
  BY <1>5 DEF vars, rosterVars, contactVars, historyVars, TypesAndWork, TypeOK, WorkInv, RosterTypeOK,
              Known, Idle
<1> QED BY <1>1, <1>2, <1>3, <1>4, <1>5 DEF Next

(* Every variable of the roster, the loop and the contacts keeps its type.   *)
THEOREM PeerTypeCorrect == Spec => []TypeOK
<1>1. TypesAndWork => TypeOK
  BY DEF TypesAndWork
<1> QED BY <1>1, TypesInit, TypesStep, PTL DEF Spec

-----------------------------------------------------------------------------
(* A failed contact that nothing contests.  What it says comes true step by  *)
(* step: until the peer left the reachable set some worker is to take it     *)
(* out, and until its confirmation is gone from disk some worker is to       *)
(* withdraw it; nobody confirms it meanwhile.                                *)

Stands(x) == outcome[x] = "denied" /\ x \notin contested

DeniedStands(x) ==
  Stands(x) => /\ ~Confirming(x)
               /\ x \in reachable => Pending(x, {"forget"})
               /\ IsRecentlyReachable(x) => Pending(x, {"deny"})

PeerInv == TypesAndWork /\ \A x \in Peers : DeniedStands(x)

(* A peer with nothing to be denied has neither step of a denial pending.    *)
LEMMA DenialSteps ==
  ASSUME NEW x
  PROVE  /\ Pending(x, {"forget"}) => Denying(x)
         /\ Pending(x, {"deny"}) => Denying(x)
BY DEF Pending, Denying

(* A contact that fails or is answered, and a hello.                         *)
LEMMA GreetKeeps ==
  ASSUME PeerInv, NEW w \in Workers, NEW x \in Peers,
         (w \in Contacts /\ Greet(w)) \/ (w \in Handlers /\ Hello(w))
  PROVE  DeniedStands(x)'
<1> SUFFICES ASSUME Stands(x)'
             PROVE  /\ ~Confirming(x)'
                    /\ x \in reachable' => Pending(x, {"forget"})'
                    /\ IsRecentlyReachable(x)' => Pending(x, {"deny"})'
  BY DEF DeniedStands
<1>1. WorkInv /\ DeniedStands(x)
  BY DEF PeerInv, TypesAndWork
<1>2. UNCHANGED rosterVars
  BY DEF Greet, GreetFails, GreetAnswered, GreetMisdirected, Hello
<1>3. Idle(w) \/ Head(work[w]).do = "greet"
  BY DEF Greet, GreetFails, GreetAnswered, GreetMisdirected, Hello, Doing
<1>4. ASSUME NEW s \in Seq(Step), OfCalls(s), work' = [work EXCEPT ![w] = s]
      PROVE  /\ Confirming(x)' <=> Has(s, x, {"confirm", "admit"}) \/ Confirming(x)
             /\ Pending(x, {"forget"})' <=> Has(s, x, {"forget"}) \/ Pending(x, {"forget"})
             /\ Pending(x, {"deny"})' <=> Has(s, x, {"deny"}) \/ Pending(x, {"deny"})
  <2>1. \A z, steps : "greet" \notin steps =>
          (Pending(z, steps)' <=> Has(s, z, steps) \/ Pending(z, steps))
    BY <1>1, <1>3, <1>4, WorkGiven DEF Orderly
  <2>2. "greet" \notin {"confirm", "admit"} /\ "greet" \notin {"forget"} /\ "greet" \notin {"deny"}
    OBVIOUS
  <2> QED BY <2>1, <2>2 DEF Confirming
<1>5. x \in reachable' => x \in reachable
  BY <1>2 DEF rosterVars
<1>6. IsRecentlyReachable(x)' => IsRecentlyReachable(x)
  BY <1>2 DEF rosterVars, IsRecentlyReachable, Known
<1>7. PICK e : e = Head(work[w]).peer
  OBVIOUS
<1>8. ~Idle(w) => e \in Peers
  <2>1. ASSUME ~Idle(w) PROVE e \in Peers
    <3>1. Head(work[w]) \in Step /\ Head(work[w]).do = "greet"
      BY <1>1, <1>3, <2>1, HeadTailProperties DEF Idle, WorkInv
    <3> QED BY <1>7, <3>1 DEF Step
  <2> QED BY <2>1
(* The call denies one peer, or confirms one, or both. *)
<1>9. ASSUME NEW s \in Seq(Step), OfCalls(s), work' = [work EXCEPT ![w] = s],
             NEW denied \in SUBSET Peers, NEW confirmed \in SUBSET Peers, Says(denied, confirmed),
             \A z : Has(s, z, {"confirm", "admit"}) <=> z \in confirmed,
             \A z : Has(s, z, {"forget"}) <=> z \in denied,
             \A z : Has(s, z, {"deny"}) <=> z \in denied
      PROVE  /\ ~Confirming(x)'
             /\ x \in reachable' => Pending(x, {"forget"})'
             /\ IsRecentlyReachable(x)' => Pending(x, {"deny"})'
  <2>1. x \notin confirmed
    BY <1>9 DEF Stands, Says
  <2>2. CASE x \in denied
    <3>1. ~Confirming(x)
      BY <1>9, <2>2 DEF Stands, Says
    <3> QED BY <1>4, <1>9, <2>1, <2>2, <3>1
  <2>3. CASE x \notin denied
    <3>1. Stands(x)
      BY <1>9, <2>1, <2>3 DEF Stands, Says
    <3> QED BY <1>1, <1>4, <1>5, <1>6, <1>9, <2>1, <3>1 DEF DeniedStands
  <2> QED BY <2>2, <2>3
<1>10. CASE Hello(w)
  <2>1. PICK y \in Callers : work' = [work EXCEPT ![w] = ConfirmReachable(y)] /\ Says({}, {y})
    BY <1>10 DEF Hello
  <2>2. y \in Peers /\ {} \in SUBSET Peers /\ {y} \in SUBSET Peers
    BY ContactsAssumption
  <2>3. /\ ConfirmReachable(y) \in Seq(Step) /\ OfCalls(ConfirmReachable(y))
        /\ \A z : Has(ConfirmReachable(y), z, {"confirm", "admit"}) <=> z \in {y}
        /\ \A z : Has(ConfirmReachable(y), z, {"forget"}) <=> z \in {}
        /\ \A z : Has(ConfirmReachable(y), z, {"deny"}) <=> z \in {}
    BY <2>2, CallSteps, CallsAreCalls
  <2> QED BY <1>9, <2>1, <2>2, <2>3
<1>11. CASE GreetFails(w)
  <2>1. /\ work' = [work EXCEPT ![w] = ConfirmUnreachable(e)] /\ Says({e}, {}) /\ ~Idle(w)
    BY <1>7, <1>11 DEF GreetFails, Doing
  <2>2. e \in Peers /\ {} \in SUBSET Peers /\ {e} \in SUBSET Peers
    BY <1>8, <2>1
  <2>3. /\ ConfirmUnreachable(e) \in Seq(Step) /\ OfCalls(ConfirmUnreachable(e))
        /\ \A z : Has(ConfirmUnreachable(e), z, {"confirm", "admit"}) <=> z \in {}
        /\ \A z : Has(ConfirmUnreachable(e), z, {"forget"}) <=> z \in {e}
        /\ \A z : Has(ConfirmUnreachable(e), z, {"deny"}) <=> z \in {e}
    BY <2>2, CallSteps, CallsAreCalls
  <2> QED BY <1>9, <2>1, <2>2, <2>3
<1>12. CASE GreetAnswered(w)
  <2>1. PICK y \in Peers, seeds \in SeedsTold :
          /\ work' = [work EXCEPT ![w] = Answered(e, y, seeds)]
          /\ Says({e} \ {y}, {y}) /\ ~Idle(w)
    BY <1>7, <1>12 DEF GreetAnswered, Answered, Wrong, Doing
  <2>2. e \in Peers /\ seeds \in SUBSET Peers /\ {e} \ {y} \in SUBSET Peers /\ {y} \in SUBSET Peers
    BY <1>8, <2>1, ContactsAssumption
  <2>3. PICK s : s = Answered(e, y, seeds)
    OBVIOUS
  <2>4. /\ s \in Seq(Step) /\ OfCalls(s)
        /\ \A z : Has(s, z, {"confirm", "admit"}) <=> z = y
        /\ \A z : Has(s, z, {"forget"}) <=> z = e /\ e # y
        /\ \A z : Has(s, z, {"deny"}) <=> z = e /\ e # y
    BY <2>2, <2>3, AnsweredWork
  <2>5. /\ \A z : z \in {y} <=> z = y
        /\ \A z : z \in {e} \ {y} <=> z = e /\ e # y
    OBVIOUS
  <2>6. /\ \A z : Has(s, z, {"confirm", "admit"}) <=> z \in {y}
        /\ \A z : Has(s, z, {"forget"}) <=> z \in {e} \ {y}
        /\ \A z : Has(s, z, {"deny"}) <=> z \in {e} \ {y}
    BY <2>4, <2>5
  <2> QED BY <1>9, <2>1, <2>2, <2>3, <2>4, <2>6
<1>13. CASE GreetMisdirected(w)
  <2>1. PICK rest \in {ConfirmUnreachable(e)} \cup {Discover(seeds) : seeds \in SeedsTold} :
          work' = [work EXCEPT ![w] = ConfirmUnreachable(e) \o rest]
    BY <1>7, <1>13 DEF GreetMisdirected
  <2>2. Says({e}, {}) /\ ~Idle(w)
    BY <1>7, <1>13 DEF GreetMisdirected, Doing
  <2>3. e \in Peers /\ {} \in SUBSET Peers /\ {e} \in SUBSET Peers
    BY <1>8, <2>2
  <2>4. PICK s : s = ConfirmUnreachable(e) \o rest
    OBVIOUS
  <2>5. /\ s \in Seq(Step) /\ OfCalls(s)
        /\ \A z : Has(s, z, {"confirm", "admit"}) <=> z \in {}
        /\ \A z : Has(s, z, {"forget"}) <=> z \in {e}
        /\ \A z : Has(s, z, {"deny"}) <=> z \in {e}
    BY <2>3, <2>4, MisdirectedWork
  <2> QED BY <1>9, <2>1, <2>2, <2>3, <2>4, <2>5
<1> QED BY <1>10, <1>11, <1>12, <1>13 DEF Greet

(* A peer that was known and is not made credible by a commit; one it is     *)
(* told of has no confirmation.                                              *)
LEMMA CommitKeeps ==
  ASSUME TypesAndWork, NEW x \in Peers, x \in Known',
         \/ \E y \in Peers \ {x} : CommitReachable(y)
         \/ \E seeds \in SUBSET Peers : CommitDiscovered(seeds)
  PROVE  IsRecentlyReachable(x)' => IsRecentlyReachable(x)
<1>1. RosterTypeOK
  BY DEF TypesAndWork, TypeOK
<1>2. ASSUME NEW y \in Peers \ {x}, CommitReachable(y)
      PROVE  IsRecentlyReachable(x)' => IsRecentlyReachable(x)
  <2>1. PICK entries : entries = [z \in Known \cup {y} |->
                         IF z = y THEN [contacted |-> 0, confirmed |-> 0] ELSE roster[z]]
    OBVIOUS
  <2>2. CommitWithin(entries)
    BY <1>2, <2>1 DEF CommitReachable
  <2>3. DOMAIN entries \in SUBSET Peers /\ \A z \in DOMAIN entries : entries[z] \in Entry
    BY <1>1, <2>1, ReachableEntries
  <2>4. x \in DOMAIN entries /\ roster'[x] = entries[x]
    BY <1>1, <2>2, <2>3, CommitEffect
  <2>5. x \in Known /\ entries[x] = roster[x]
    BY <2>1, <2>4
  <2> QED BY <2>4, <2>5 DEF IsRecentlyReachable
<1>3. ASSUME NEW seeds \in SUBSET Peers, CommitDiscovered(seeds)
      PROVE  IsRecentlyReachable(x)' => IsRecentlyReachable(x)
  <2>1. PICK entries : entries = [z \in Known \cup seeds |->
                         IF z \in Known THEN roster[z] ELSE [contacted |-> 0, confirmed |-> Never]]
    OBVIOUS
  <2>2. CommitWithin(entries)
    BY <1>3, <2>1 DEF CommitDiscovered
  <2>3. DOMAIN entries \in SUBSET Peers /\ \A z \in DOMAIN entries : entries[z] \in Entry
    BY <1>1, <2>1, DiscoveredEntries
  <2>4. x \in DOMAIN entries /\ roster'[x] = entries[x]
    BY <1>1, <2>2, <2>3, CommitEffect
  <2>5. CASE x \in Known
    BY <2>1, <2>4, <2>5 DEF IsRecentlyReachable
  <2>6. CASE x \notin Known
    <3>1. roster'[x].confirmed = Never
      BY <2>1, <2>4, <2>6
    <3>2. ~(Never < StaleAfter)
      BY RosterAssumption DEF Never
    <3> QED BY <3>1, <3>2 DEF IsRecentlyReachable
  <2> QED BY <2>5, <2>6
<1> QED BY <1>2, <1>3

(* A step of a call, or its failure.                                         *)
LEMMA CallKeeps ==
  ASSUME PeerInv, NEW w \in Workers, NEW x \in Peers, CallStep(w) \/ UpdateFails(w)
  PROVE  DeniedStands(x)'
<1> SUFFICES ASSUME Stands(x)'
             PROVE  /\ ~Confirming(x)'
                    /\ x \in reachable' => Pending(x, {"forget"})'
                    /\ IsRecentlyReachable(x)' => Pending(x, {"deny"})'
  BY DEF DeniedStands
<1>1. TypesAndWork /\ WorkInv /\ DeniedStands(x)
  BY DEF PeerInv, TypesAndWork
<1>2. Stands(x)
  BY DEF Stands, Unsaid, historyVars, CallStep, ForgetReachable, DenyOnDisk, OpenUpdate, Commit,
         AdmitReachable, UpdateFails
<1>3. /\ ~Confirming(x)
      /\ x \in reachable => Pending(x, {"forget"})
      /\ IsRecentlyReachable(x) => Pending(x, {"deny"})
  BY <1>1, <1>2 DEF DeniedStands
<1>4. PICK e : e = Head(work[w])
  OBVIOUS
<1>5. e \in Step /\ ~Idle(w) /\ e.do # "greet"
  <2>1. ~Idle(w) /\ e.do # "greet"
    BY <1>4 DEF CallStep, ForgetReachable, DenyOnDisk, OpenUpdate, Commit, AdmitReachable,
                UpdateFails, Doing
  <2> QED BY <1>1, <1>4, <2>1, HeadTailProperties DEF Idle, WorkInv
<1>6. ASSUME Done(w)
      PROVE  /\ ~Confirming(x)'
             /\ ~(e.do \in {"confirm", "admit"} /\ e.peer = x)
             /\ Pending(x, {"forget"}) => (e.do = "forget" /\ e.peer = x) \/ Pending(x, {"forget"})'
             /\ Pending(x, {"deny"}) => (e.do = "deny" /\ e.peer = x) \/ Pending(x, {"deny"})'
  <2>1. \A z, steps : Pending(z, steps) <=>
          (e.do \in steps /\ e.peer = z) \/ Pending(z, steps)'
    BY <1>1, <1>4, <1>5, <1>6, WorkDone
  <2>2. ~Pending(x, {"confirm", "admit"})
    BY <1>3 DEF Confirming
  <2>3. Confirming(x)' <=> Pending(x, {"confirm", "admit"})'
    BY DEF Confirming
  <2> QED BY <2>1, <2>2, <2>3
<1>7. CASE ForgetReachable(w)
  <2>1. /\ e.do = "forget" /\ reachable' = reachable \ {e.peer} /\ Done(w)
        /\ UNCHANGED roster
    BY <1>4, <1>7 DEF ForgetReachable, Doing, Forget
  <2>2. IsRecentlyReachable(x)' => IsRecentlyReachable(x)
    BY <2>1 DEF IsRecentlyReachable, Known
  <2> QED BY <1>3, <1>6, <2>1, <2>2
<1>8. CASE DenyOnDisk(w)
  <2>1. /\ e.do = "deny" /\ RecordUnreachable(e.peer) /\ Done(w) /\ UNCHANGED reachable
    BY <1>4, <1>8 DEF DenyOnDisk, Doing
  <2>2. IsRecentlyReachable(x)' => IsRecentlyReachable(x) /\ e.peer # x
    <3>1. Known' = Known
      BY <2>1 DEF RecordUnreachable, Known
    <3>2. ~(Never < StaleAfter)
      BY RosterAssumption DEF Never
    <3>3. x \in Known => roster'[x] = IF x = e.peer THEN [contacted |-> 0, confirmed |-> Never]
                                                   ELSE roster[x]
      BY <2>1 DEF RecordUnreachable
    <3> QED BY <3>1, <3>2, <3>3 DEF IsRecentlyReachable
  <2> QED BY <1>3, <1>6, <2>1, <2>2
<1>9. CASE OpenUpdate(w)
  <2>1. e.do = "read" /\ Done(w) /\ UNCHANGED <<roster, reachable>>
    BY <1>4, <1>9 DEF OpenUpdate, Doing
  <2>2. IsRecentlyReachable(x)' => IsRecentlyReachable(x)
    BY <2>1 DEF IsRecentlyReachable, Known
  <2> QED BY <1>3, <1>6, <2>1, <2>2
<1>10. CASE Commit(w)
  <2>1. /\ Done(w) /\ UNCHANGED reachable /\ e.do \in {"confirm", "discover"}
        /\ \/ e.do = "confirm" /\ CommitReachable(e.peer)
           \/ e.do = "discover" /\ CommitDiscovered(e.seeds)
    BY <1>4, <1>10 DEF Commit, Doing
  <2>2. x \in Known'
    BY <1>10 DEF Commit, Stands, Unsaid, Known
  <2>3. \/ \E y \in Peers \ {x} : CommitReachable(y)
        \/ \E seeds \in SUBSET Peers : CommitDiscovered(seeds)
    <3>1. CASE e.do = "confirm" /\ CommitReachable(e.peer)
      <4>1. e.peer \in Peers /\ e.peer # x
        BY <1>5, <1>6, <2>1, <3>1 DEF Step
      <4> QED BY <3>1, <4>1
    <3>2. CASE e.do = "discover" /\ CommitDiscovered(e.seeds)
      <4>1. e.seeds \in SUBSET Peers
        BY <1>5, <3>2 DEF Step
      <4> QED BY <3>2, <4>1
    <3> QED BY <2>1, <3>1, <3>2
  <2>4. IsRecentlyReachable(x)' => IsRecentlyReachable(x)
    BY <1>1, <2>2, <2>3, CommitKeeps
  <2> QED BY <1>3, <1>6, <2>1, <2>4
<1>11. CASE AdmitReachable(w)
  <2>1. e.do = "admit" /\ Done(w) /\ UNCHANGED roster /\ reachable' \subseteq reachable \cup {e.peer}
    BY <1>4, <1>11 DEF AdmitReachable, Doing, Admit
  <2>2. IsRecentlyReachable(x)' => IsRecentlyReachable(x)
    BY <2>1 DEF IsRecentlyReachable, Known
  <2> QED BY <1>3, <1>6, <2>1, <2>2
<1>12. CASE UpdateFails(w)
  <2>1. UNCHANGED <<roster, reachable>>
    BY <1>12 DEF UpdateFails
  <2>2. IsRecentlyReachable(x)' => IsRecentlyReachable(x)
    BY <2>1 DEF IsRecentlyReachable, Known
  <2>3. CASE Doing(w, "confirm") /\ work' = [work EXCEPT ![w] = Tail(Tail(@))]
    <3>1. /\ Pending(x, {"forget"}) <=> Pending(x, {"forget"})'
          /\ Pending(x, {"deny"}) <=> Pending(x, {"deny"})'
          /\ Pending(x, {"confirm", "admit"})' => Pending(x, {"confirm", "admit"})
      BY <1>1, <2>3, ConfirmationDropped
    <3>2. Confirming(x)' => Confirming(x)
      BY <3>1 DEF Confirming
    <3> QED BY <1>3, <2>1, <2>2, <3>1, <3>2
  <2>4. CASE Doing(w, "discover") /\ Done(w)
    <3>1. e.do = "discover"
      BY <1>4, <2>4 DEF Doing
    <3> QED BY <1>3, <1>6, <2>1, <2>2, <2>4, <3>1
  <2>5. CASE Doing(w, "deny") /\ Done(w) /\ Unsaid({Head(work[w]).peer})
    <3>1. e.do = "deny" /\ e.peer # x
      BY <1>4, <2>5 DEF Doing, Unsaid, Stands
    <3> QED BY <1>3, <1>6, <2>1, <2>2, <2>5, <3>1
  <2> QED BY <1>12, <2>3, <2>4, <2>5 DEF UpdateFails
<1> QED BY <1>7, <1>8, <1>9, <1>10, <1>11, <1>12 DEF CallStep

(* The steps between two contacts.                                           *)
LEMMA RoundKeeps ==
  ASSUME PeerInv, NEW x \in Peers,
         (\E c \in Contacts : Bootstrap(c) \/ StartContact(c)) \/ BeginRound \/ ChooseProbes
           \/ EndRound \/ Tick \/ Restart \/ UNCHANGED vars
  PROVE  DeniedStands(x)'
<1> SUFFICES ASSUME Stands(x)'
             PROVE  /\ ~Confirming(x)'
                    /\ x \in reachable' => Pending(x, {"forget"})'
                    /\ IsRecentlyReachable(x)' => Pending(x, {"deny"})'
  BY DEF DeniedStands
<1>1. TypesAndWork /\ WorkInv /\ RosterTypeOK /\ DeniedStands(x)
  BY DEF PeerInv, TypesAndWork, TypeOK
<1>2. ASSUME UNCHANGED <<reachable, historyVars>>,
             IsRecentlyReachable(x)' => IsRecentlyReachable(x),
             Confirming(x)' => Confirming(x),
             Pending(x, {"forget"}) => Pending(x, {"forget"})',
             Pending(x, {"deny"}) => Pending(x, {"deny"})'
      PROVE  /\ ~Confirming(x)'
             /\ x \in reachable' => Pending(x, {"forget"})'
             /\ IsRecentlyReachable(x)' => Pending(x, {"deny"})'
  <2>1. Stands(x)
    BY <1>2 DEF Stands, historyVars
  <2> QED BY <1>1, <1>2, <2>1 DEF DeniedStands
<1>3. ASSUME UNCHANGED work
      PROVE  /\ Confirming(x)' => Confirming(x)
             /\ Pending(x, {"forget"}) => Pending(x, {"forget"})'
             /\ Pending(x, {"deny"}) => Pending(x, {"deny"})'
  BY <1>3 DEF Confirming, Pending
<1>4. ASSUME UNCHANGED roster PROVE IsRecentlyReachable(x)' => IsRecentlyReachable(x)
  BY <1>4 DEF IsRecentlyReachable, Known
<1>5. ASSUME NEW c \in Contacts, Idle(c), NEW s \in Seq(Step), Orderly(s),
             work' = [work EXCEPT ![c] = s],
             ~Has(s, x, {"confirm", "admit"}), UNCHANGED <<roster, reachable, historyVars>>
      PROVE  /\ ~Confirming(x)'
             /\ x \in reachable' => Pending(x, {"forget"})'
             /\ IsRecentlyReachable(x)' => Pending(x, {"deny"})'
  <2>1. \A z, steps : "greet" \notin steps =>
          (Pending(z, steps)' <=> Has(s, z, steps) \/ Pending(z, steps))
    BY <1>1, <1>5, WorkGiven DEF Workers
  <2>2. "greet" \notin {"confirm", "admit"} /\ "greet" \notin {"forget"} /\ "greet" \notin {"deny"}
    OBVIOUS
  <2>3. Confirming(x)' => Confirming(x)
    BY <1>5, <2>1, <2>2 DEF Confirming
  <2> QED BY <1>2, <1>4, <1>5, <2>1, <2>2, <2>3
<1>6. CASE \E c \in Contacts : Bootstrap(c)
  <2>1. PICK c \in Contacts, seeds \in SeedsTold :
          stage = "boot" /\ work' = [work EXCEPT ![c] = Discover(seeds)]
    BY <1>6 DEF Bootstrap
  <2>2. UNCHANGED <<roster, reachable, historyVars>> /\ Idle(c)
    BY <1>1, <1>6, <2>1 DEF Bootstrap, rosterVars, WorkInv
  <2>3. seeds \in SUBSET Peers
    BY ContactsAssumption
  <2>4. Discover(seeds) \in Seq(Step) /\ Orderly(Discover(seeds))
        /\ ~Has(Discover(seeds), x, {"confirm", "admit"})
    BY <2>3, DiscoverSteps, CallsAreCalls DEF Orderly
  <2> QED BY <1>5, <2>1, <2>2, <2>4
<1>7. CASE \E c \in Contacts : StartContact(c)
  <2>1. PICK c \in Contacts : StartContact(c)
    BY <1>7
  <2>2. PICK y \in targets :
          work' = IF y \in Known THEN [work EXCEPT ![c] = <<[do |-> "greet", peer |-> y]>>] ELSE work
    BY <2>1 DEF StartContact
  <2>3. UNCHANGED <<roster, reachable, historyVars>> /\ Idle(c) /\ y \in Peers
    BY <1>1, <2>1, <2>2 DEF StartContact, rosterVars, TypesAndWork, TypeOK
  <2>4. CASE y \in Known
    <3>1. PICK s : s = <<[do |-> "greet", peer |-> y]>>
      OBVIOUS
    <3>2. s \in Seq(Step) /\ Orderly(s) /\ ~Has(s, x, {"confirm", "admit"})
      BY <2>3, <3>1 DEF Step, Orderly, Has
    <3> QED BY <1>5, <2>2, <2>3, <2>4, <3>1, <3>2
  <2>5. CASE y \notin Known
    BY <1>2, <1>3, <1>4, <2>2, <2>3, <2>5
  <2> QED BY <2>4, <2>5
<1>8. CASE BeginRound \/ ChooseProbes \/ EndRound \/ UNCHANGED vars
  <2>1. UNCHANGED <<work, roster, reachable, historyVars>>
    BY <1>8 DEF BeginRound, ChooseProbes, EndRound, vars, rosterVars
  <2> QED BY <1>2, <1>3, <1>4, <2>1
<1>9. CASE Tick
  <2>1. UNCHANGED <<work, reachable, historyVars>> /\ RosterAges
    BY <1>9 DEF Tick
  <2>2. IsRecentlyReachable(x)' => IsRecentlyReachable(x)
    <3>1. Known' = Known
      BY <2>1 DEF RosterAges, Known
    <3>2. CASE x \in Known
      <4>1. roster'[x].confirmed = Older(roster[x].confirmed) /\ roster[x].confirmed \in 0 .. Never
        BY <1>1, <2>1, <3>2 DEF RosterAges, RosterTypeOK, Entry
      <4>2. Older(roster[x].confirmed) < StaleAfter => roster[x].confirmed < StaleAfter
        BY <4>1, RosterAssumption DEF Older, MinOf, Never
      <4> QED BY <3>2, <4>1, <4>2 DEF IsRecentlyReachable
    <3>3. CASE x \notin Known
      BY <3>1, <3>3 DEF IsRecentlyReachable
    <3> QED BY <3>2, <3>3
  <2> QED BY <1>2, <1>3, <2>1, <2>2
<1>10. CASE Restart
  <2>1. Stands(x) /\ ~Confirming(x) /\ ~Denying(x)
    BY <1>10 DEF Restart, Stands, Unsaid
  <2>2. ~IsRecentlyReachable(x)
    BY <1>1, <2>1, DenialSteps DEF DeniedStands
  <2>3. ~IsRecentlyReachable(x)'
    BY <1>4, <1>10, <2>2 DEF Restart
  <2>4. ~Confirming(x)' /\ x \notin reachable'
    BY <1>10 DEF Restart, Confirming, Pending
  <2> QED BY <2>3, <2>4
<1> QED BY <1>6, <1>7, <1>8, <1>9, <1>10

(* Every step keeps what a failed contact said.                              *)
LEMMA PeerInvStep == PeerInv /\ [Next]_vars => PeerInv'
<1> SUFFICES ASSUME PeerInv, [Next]_vars PROVE PeerInv'
  OBVIOUS
<1>1. TypesAndWork'
  BY TypesStep DEF PeerInv
<1>2. ASSUME NEW x \in Peers PROVE DeniedStands(x)'
  <2>1. CASE Round \/ Tick \/ Restart \/ (\E c \in Contacts : StartContact(c)) \/ UNCHANGED vars
    BY <2>1, RoundKeeps DEF Round
  <2>2. CASE \E c \in Contacts : Greet(c)
    BY <2>2, GreetKeeps DEF Workers
  <2>3. CASE \E h \in Handlers : Hello(h)
    BY <2>3, GreetKeeps DEF Workers
  <2>4. CASE \E w \in Workers : CallStep(w) \/ UpdateFails(w)
    BY <2>4, CallKeeps
  <2> QED BY <2>1, <2>2, <2>3, <2>4 DEF Next
<1> QED BY <1>1, <1>2 DEF PeerInv

(* A failed contact ends its peer's credibility, unless a confirmation of    *)
(* the peer was under way when it failed or was heard since.                 *)
THEOREM FailedContactStands == Spec => []UncontestedDenialStands
<1>1. Init => PeerInv
  <2> SUFFICES ASSUME Init PROVE PeerInv
    OBVIOUS
  <2>1. \A x \in Peers : ~Stands(x)
    BY DEF Init, Stands
  <2> QED BY <2>1, TypesInit DEF PeerInv, DeniedStands
<1>2. PeerInv => UncontestedDenialStands
  <2> SUFFICES ASSUME PeerInv, NEW x \in Peers, Stands(x), Quiet(x)
               PROVE  x \notin reachable /\ ~IsRecentlyReachable(x)
    BY DEF UncontestedDenialStands, Stands
  <2> QED BY DenialSteps DEF PeerInv, DeniedStands, Quiet
<1> QED BY <1>1, <1>2, PeerInvStep, PTL DEF Spec

-----------------------------------------------------------------------------
(* The disk's bound, and who goes for it.                                    *)

Bounded == Cardinality(Known) <= MaxOf(KnownCapacity, ReachableCapacity)

StalestGo ==
  \A x \in Known \ DOMAIN roster' :
    /\ x \notin writer.reachable
    /\ \A y \in DOMAIN roster' \ writer.reachable :
         roster'[y].contacted <= roster[x].contacted

(* No other step adds a peer to the roster or takes one out.                 *)
LEMMA OnlyCommitsEvict ==
  ASSUME TypesAndWork, [Next]_vars, \A w \in Workers : ~Commit(w)
  PROVE  Known' = Known
<1>1. CASE Tick
  BY <1>1 DEF Tick, RosterAges, Known
<1>2. CASE \E w \in Workers : DenyOnDisk(w)
  BY <1>2 DEF DenyOnDisk, RecordUnreachable, Known
<1>3. CASE ~Tick /\ \A w \in Workers : ~DenyOnDisk(w)
  <2>1. roster' = roster
    BY <1>3 DEF Next, Round, Bootstrap, BeginRound, ChooseProbes, EndRound, Restart, StartContact,
                Greet, GreetFails, GreetAnswered, GreetMisdirected, Hello, CallStep,
                ForgetReachable, OpenUpdate, AdmitReachable, UpdateFails, rosterVars, vars
  <2> QED BY <2>1 DEF Known
<1> QED BY <1>1, <1>2, <1>3

(* A commit keeps the bound, and of what was on disk the stalest go: what it *)
(* commits of a peer known before was contacted no longer ago than that.     *)
LEMMA CommitEvicts ==
  ASSUME TypesAndWork, NEW w \in Workers, Commit(w)
  PROVE  Bounded' /\ StalestGo
<1>1. RosterTypeOK
  BY DEF TypesAndWork, TypeOK
<1>2. Head(work[w]) \in Step
  BY HeadTailProperties DEF Commit, Doing, Idle, TypesAndWork, WorkInv
<1>3. PICK entries : /\ DOMAIN entries \in SUBSET Peers
                     /\ \A y \in DOMAIN entries : entries[y] \in Entry
                     /\ CommitWithin(entries)
                     /\ \A x \in Known : x \in DOMAIN entries
                                          /\ entries[x].contacted <= roster[x].contacted
  <2>0. \A x \in Known : roster[x].contacted \in Nat
    BY <1>1, RosterAssumption DEF RosterTypeOK, Entry
  <2>1. CASE Doing(w, "confirm")
    <3>1. PICK x \in Peers : CommitReachable(x)
      BY <1>2, <2>1 DEF Commit, Doing, Step
    <3>2. PICK entries : entries = [y \in Known \cup {x} |->
             IF y = x THEN [contacted |-> 0, confirmed |-> 0] ELSE roster[y]]
      OBVIOUS
    <3>3. CommitWithin(entries)
      BY <3>1, <3>2 DEF CommitReachable
    <3>4. DOMAIN entries \in SUBSET Peers /\ \A y \in DOMAIN entries : entries[y] \in Entry
      BY <1>1, <3>2, ReachableEntries
    <3>5. \A y \in Known : y \in DOMAIN entries
                            /\ entries[y].contacted <= roster[y].contacted
      BY <2>0, <3>2
    <3> QED BY <3>3, <3>4, <3>5
  <2>2. CASE ~Doing(w, "confirm")
    <3>1. PICK seeds \in SUBSET Peers : CommitDiscovered(seeds)
      BY <1>2, <2>2 DEF Commit, Doing, Step
    <3>2. PICK entries : entries = [y \in Known \cup seeds |->
             IF y \in Known THEN roster[y] ELSE [contacted |-> 0, confirmed |-> Never]]
      OBVIOUS
    <3>3. CommitWithin(entries)
      BY <3>1, <3>2 DEF CommitDiscovered
    <3>4. DOMAIN entries \in SUBSET Peers /\ \A y \in DOMAIN entries : entries[y] \in Entry
      BY <1>1, <3>2, DiscoveredEntries
    <3>5. \A y \in Known : y \in DOMAIN entries
                            /\ entries[y].contacted <= roster[y].contacted
      BY <2>0, <3>2
    <3> QED BY <3>3, <3>4, <3>5
  <2> QED BY <2>1, <2>2
<1>4. /\ Known' \subseteq DOMAIN entries /\ \A x \in Known' : roster'[x] = entries[x]
      /\ Cardinality(Known') <= MaxOf(KnownCapacity, ReachableCapacity)
      /\ \A x \in DOMAIN entries \ Known' :
           /\ x \notin writer.reachable
           /\ \A y \in Known' \ writer.reachable :
                entries[y].contacted <= entries[x].contacted
  BY <1>1, <1>3, CommitEffect
<1>5. ASSUME NEW x \in Known \ Known'
      PROVE  /\ x \notin writer.reachable
             /\ \A y \in Known' \ writer.reachable :
                  roster'[y].contacted <= roster[x].contacted
  <2>1. x \in DOMAIN entries \ Known' /\ entries[x].contacted <= roster[x].contacted
    BY <1>3, <1>5
  <2>2. ASSUME NEW y \in Known' \ writer.reachable
        PROVE  roster'[y].contacted <= roster[x].contacted
    <3>1. roster'[y].contacted = entries[y].contacted
      BY <1>4
    <3>2. entries[y].contacted <= entries[x].contacted
      BY <1>4, <2>1
    <3>3. /\ entries[y].contacted \in Int /\ entries[x].contacted \in Int
          /\ roster[x].contacted \in Int
      BY <1>1, <1>3, <1>4, <2>1, RosterAssumption DEF Entry, RosterTypeOK
    <3> QED BY <2>1, <3>1, <3>2, <3>3
  <2> QED BY <1>4, <2>1, <2>2
<1>6. StalestGo
  BY <1>5 DEF StalestGo, Known
<1> QED BY <1>4, <1>6 DEF Bounded

(* The disk keeps within the larger of the two capacities, and only a peer   *)
(* outside the reachable set a transaction read is evicted, which no staler  *)
(* such peer outlives.                                                       *)
THEOREM RosterIsBounded == Spec => StalestUnreachableGo
<1>1. Init => Bounded
  <2> SUFFICES ASSUME Init PROVE Bounded
    OBVIOUS
  <2>1. Known = {}
    BY DEF Init, RosterInit, Known
  <2> QED BY <2>1, FS_EmptySet, RosterAssumption DEF Bounded, MaxOf
<1>2. TypesAndWork /\ Bounded /\ [Next]_vars => Bounded' /\ StalestGo
  <2> SUFFICES ASSUME TypesAndWork, Bounded, [Next]_vars PROVE Bounded' /\ StalestGo
    OBVIOUS
  <2>1. CASE \E w \in Workers : Commit(w)
    BY <2>1, CommitEvicts
  <2>2. CASE \A w \in Workers : ~Commit(w)
    <3>1. Known' = Known
      BY <2>2, OnlyCommitsEvict
    <3> QED BY <3>1 DEF Bounded, StalestGo, Known
  <2> QED BY <2>1, <2>2
<1>3. Spec => []Bounded /\ [][StalestGo]_vars
  BY <1>1, <1>2, TypesInit, TypesStep, PTL DEF Spec
<1> QED BY <1>3 DEF StalestUnreachableGo, Bounded, StalestGo

=============================================================================
