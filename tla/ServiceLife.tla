----------------------------- MODULE ServiceLife -----------------------------
(***************************************************************************)
(* The life of a program's process: it reads its settings, opens what it   *)
(* needs step by step, serves until it is told to stop or one of its       *)
(* servers and workers returns, shuts its servers down one after the other *)
(* within a limit, and closes what it opened, the last opened first.  It   *)
(* may crash anywhere and is started again, perhaps under other settings.  *)
(* The node moreover settles the peer hash that is stored with its data.   *)
(***************************************************************************)
EXTENDS ServiceConfiguration, Sequences, FiniteSets

CONSTANTS
    DataDirs,       \* the data directories a node is started over
    PeerHashes,     \* the peer hashes there are
    Exponents,      \* partition exponents the DHT ring has
    Environments,   \* program -> environments it is started in
    MaxStarts       \* bound of the model

ASSUME ProgramsAssumption == DOMAIN Environments \subseteq Programs \ {"localhostrunagent"}
ASSUME HashesAssumption == Blank \notin PeerHashes

VARIABLES
    stage,      \* "down", "starting", "serving", "stopping", "closing"
    done,       \* steps of its start that succeeded
    opened,     \* what it opened and has not closed, in order
    told,       \* it was told to stop by a signal
    running,    \* its servers and workers that have not returned
    requests,   \* those with a request in hand
    shut,       \* servers shut down, in their order
    late,       \* the limit of the shutdown is over
    selfHash,   \* the peer hash the node runs under
    stored,     \* data directory -> the hash stored there, or Blank
    ranAs,      \* data directory -> hashes the node served under, over its data
    starts

lifeVars == <<program, environment, stage, done, opened, told, running, requests, shut, late,
              selfHash, stored, ranAs, starts>>

----------------------------------------------------------------------------
\* What each program opens, step by step, each of which may fail; its servers, in
\* the order they are shut down; and the workers beside them.

OfferSteps(env) == IF TakesOffers(env) THEN <<"offers", "formats">> ELSE <<>>

NodeLoops(env) ==
    {"announcer", "sweep", "expiry"}
    \union (IF Distributing(env) THEN {"distribution"} ELSE {})
    \union (IF TakesOffers(env) THEN {"offerIntake"} ELSE {})

NodeAssembly(env) ==
    [steps |-> <<"engine", "vault", "hash", "partitions", "collections">> \o OfferSteps(env),
     servers |-> <<"peer", "ops">>, workers |-> NodeLoops(env)]

\* The crawler ensures its streams and buckets, that of visited pages only if
\* it spares pages it visited before.
CrawlState(env) ==
    <<"ordersStream", "frontierStream", "crawledPagesStream", "takenVisits", "visitLimits",
      "acceptedOrders">>
    \o (IF Taken("yacycrawler", env)["RecrawlGrace"].n > 0 THEN <<"visitedPages">> ELSE <<>>)

CrawlConsumers == <<"ordersConsumer", "visitsConsumer">>

CrawlerAssembly(env) ==
    [steps |-> <<"connection">> \o CrawlState(env) \o CrawlConsumers,
     servers |-> <<"ops">>, workers |-> {"orders", "visits"}]

PageScrapeAssembly ==
    [steps |-> <<"connection", "requestsStream", "offersStream", "requestsConsumer">>,
     servers |-> <<"ops">>, workers |-> {"scrapes", "receipts"}]

CorpusTextAssembly ==
    [steps |-> <<"connection", "offersConsumer", "formats", "indexSchema">>,
     servers |-> <<"ops">>, workers |-> {"offerIntake"}]

CorpusMarkdownAssembly ==
    [steps |-> <<"offers", "markdown", "offersConsumer", "pages", "formats">>,
     servers |-> <<"ops">>, workers |-> {"offerIntake", "recall"}]

WebResearchAssembly ==
    [steps |-> <<"corpus", "requests", "outcomes">>,
     servers |-> <<"tools", "ops">>, workers |-> {}]

VisitCrawlAssembly ==
    [steps |-> <<"connection">>, servers |-> <<"intake", "ops">>, workers |-> {}]

\* The archive is asked for its captures before anything is opened.
ArchiveScrapeAssembly ==
    [steps |-> <<"captures", "connection">>, servers |-> <<>>, workers |-> {"publishing"}]

RenderProxyAssembly ==
    [steps |-> <<"browser">>, servers |-> <<"proxy", "ops">>, workers |-> {}]

Assembly ==
    CASE program = "yacynode"         -> NodeAssembly(environment)
      [] program = "yacycrawler"      -> CrawlerAssembly(environment)
      [] program = "pagescrape"       -> PageScrapeAssembly
      [] program = "corpustext"       -> CorpusTextAssembly
      [] program = "corpusmarkdown"   -> CorpusMarkdownAssembly
      [] program = "webresearchmcp"   -> WebResearchAssembly
      [] program = "visitcrawl"       -> VisitCrawlAssembly
      [] program = "webarchivescrape" -> ArchiveScrapeAssembly
      [] program = "renderproxy"      -> RenderProxyAssembly

Steps == Assembly.steps
Servers == Assembly.servers
Workers == Assembly.workers

\* What stays open until it is closed.
Held == {"engine", "vault", "connection", "offers", "markdown", "corpus", "requests", "outcomes",
         "browser"}

\* The recall of a page is a worker that answers requests itself.
Answering == {Servers[i] : i \in DOMAIN Servers} \union (Workers \intersect {"recall"})

Uses(job) ==
    CASE program = "yacynode" ->
            {"engine", "vault"} \union (IF job = "offerIntake" THEN {"offers"} ELSE {})
      [] program # "yacynode" /\ job = "ops" -> {}
      [] program # "yacynode" /\ job = "recall" -> {"markdown"}
      [] OTHER -> Held \intersect {Steps[i] : i \in DOMAIN Steps}

Open == {opened[i] : i \in DOMAIN opened}

Taking(name) == Taken(program, environment)[name]

----------------------------------------------------------------------------
LifeInit ==
    /\ program \in DOMAIN Environments /\ environment \in Environments[program]
    /\ stage = "down" /\ done = 0 /\ opened = <<>> /\ told = FALSE
    /\ running = {} /\ requests = {} /\ shut = 0 /\ late = FALSE
    /\ selfHash = Blank
    /\ stored = [dir \in DataDirs |-> Blank] /\ ranAs = [dir \in DataDirs |-> {}]
    /\ starts = 0

Ended == /\ stage' = "down" /\ done' = 0 /\ opened' = <<>> /\ told' = FALSE
         /\ running' = {} /\ requests' = {} /\ shut' = 0 /\ late' = FALSE
         /\ selfHash' = Blank

\* A start under settings the program does not accept ends at once.
Start(env) ==
    /\ stage = "down" /\ starts < MaxStarts
    /\ environment' = env /\ starts' = starts + 1
    /\ stage' = IF Starts(program, env) THEN "starting" ELSE "down"
    /\ UNCHANGED <<program, done, opened, told, running, requests, shut, late, selfHash, stored, ranAs>>

Opening == stage = "starting" /\ done < Len(Steps)

\* The next step of the start succeeds.
Opens ==
    /\ Opening /\ Steps[done + 1] # "hash"
    /\ Steps[done + 1] = "partitions" => Taking("PartitionExponent").n \in Exponents
    /\ done' = done + 1
    /\ opened' = IF Steps[done + 1] \in Held THEN Append(opened, Steps[done + 1]) ELSE opened
    /\ UNCHANGED <<program, environment, stage, told, running, requests, shut, late, selfHash,
                   stored, ranAs, starts>>

\* A mutant: the stated hash is adopted whatever is stored.
SettleAnew(dir, initial, hash) ==
    /\ hash = initial \/ (initial = Blank /\ hash \in PeerHashes)
    /\ stored' = [stored EXCEPT ![dir] = hash]

\* The hash that is stored is the one the node runs under: another one that is
\* stated keeps it from starting.  Where none is stored one is adopted.
Settle(dir, initial, hash) ==
    IF stored[dir] # Blank
    THEN /\ initial \in {Blank, stored[dir]} /\ hash = stored[dir]
         /\ UNCHANGED stored
    ELSE /\ hash = initial \/ (initial = Blank /\ hash \in PeerHashes)
         /\ stored' = [stored EXCEPT ![dir] = hash]

Settles(hash) ==
    /\ Opening /\ Steps[done + 1] = "hash"
    /\ Settle(Taking("DataDir"), Taking("InitialPeerHash"), hash)
    /\ selfHash' = hash /\ done' = done + 1
    /\ UNCHANGED <<program, environment, stage, opened, told, running, requests, shut, late, ranAs, starts>>

\* A step fails: what was opened is closed, and the process ends.
StepFails ==
    /\ Opening /\ stage' = "closing"
    /\ UNCHANGED <<program, environment, done, opened, told, running, requests, shut, late,
                   selfHash, stored, ranAs, starts>>

----------------------------------------------------------------------------
\* Serving

Begins ==
    /\ stage = "starting" /\ done = Len(Steps)
    /\ stage' = IF told THEN "stopping" ELSE "serving"
    /\ running' = {Servers[i] : i \in DOMAIN Servers} \union Workers
    /\ ranAs' = IF program # "yacynode" THEN ranAs
                ELSE [ranAs EXCEPT ![Taking("DataDir")] = @ \union {selfHash}]
    /\ UNCHANGED <<program, environment, done, opened, told, requests, shut, late, selfHash,
                   stored, starts>>

\* A browser hangs on the signal itself; the servers and workers are told.
Signalled ==
    /\ stage \in {"starting", "serving"} /\ ~told
    /\ program = "yacynode" => done >= 2    \* its data are opened before it listens
    /\ told' = TRUE
    /\ stage' = IF stage = "serving" THEN "stopping" ELSE stage
    /\ opened' = IF program = "renderproxy" THEN <<>> ELSE opened
    /\ UNCHANGED <<program, environment, done, running, requests, shut, late, selfHash, stored,
                   ranAs, starts>>

RequestArrives(job) ==
    /\ stage = "serving" \/ (stage = "stopping" /\ job # "recall")
    /\ job \in running \intersect Answering /\ job \notin requests
    /\ requests' = requests \union {job}
    /\ UNCHANGED <<program, environment, stage, done, opened, told, running, shut, late, selfHash,
                   stored, ranAs, starts>>

RequestEnds(job) ==
    /\ job \in requests
    /\ requests' = requests \ {job}
    /\ UNCHANGED <<program, environment, stage, done, opened, told, running, shut, late, selfHash,
                   stored, ranAs, starts>>

\* The first server or worker to return by itself stops all the others.
Returns(job) ==
    /\ stage = "serving" /\ job \in running /\ (job = "recall" => job \notin requests)
    /\ running' = running \ {job} /\ stage' = "stopping"
    /\ UNCHANGED <<program, environment, done, opened, told, requests, shut, late, selfHash,
                   stored, ranAs, starts>>

WorkerStops(job) ==
    /\ stage = "stopping" /\ job \in running \intersect Workers
    /\ job = "recall" => job \notin requests
    /\ running' = running \ {job}
    /\ UNCHANGED <<program, environment, stage, done, opened, told, requests, shut, late,
                   selfHash, stored, ranAs, starts>>

\* A server is shut down once the one before it has answered its requests, or
\* the limit is over.
ServerStops ==
    /\ stage = "stopping" /\ shut < Len(Servers)
    /\ \A i \in DOMAIN Servers : i = shut => (late \/ Servers[i] \notin requests)
    /\ shut' = shut + 1 /\ running' = running \ {Servers[shut + 1]}
    /\ UNCHANGED <<program, environment, stage, done, opened, told, requests, late, selfHash,
                   stored, ranAs, starts>>

LimitPasses ==
    /\ stage = "stopping" /\ ~late /\ Servers # <<>>
    /\ late' = TRUE
    /\ UNCHANGED <<program, environment, stage, done, opened, told, running, requests, shut,
                   selfHash, stored, ranAs, starts>>

\* A mutant: the shutdown waits for its last request however long it takes.
DrainedAtLast == shut = Len(Servers) /\ requests = {}
Drained == shut = Len(Servers) /\ (requests \subseteq Workers \/ late)

\* A mutant: what is used is closed as soon as the servers are shut down.
StoppedButWorkers == stage = "stopping" /\ Drained
Stopped == stage = "stopping" /\ Drained /\ running = {}

GroupReturns ==
    /\ Stopped
    /\ stage' = "closing"
    /\ UNCHANGED <<program, environment, done, opened, told, running, requests, shut, late,
                   selfHash, stored, ranAs, starts>>

\* The deferred calls, the last first.
Closes ==
    /\ stage = "closing" /\ opened # <<>>
    /\ opened' = SubSeq(opened, 1, Len(opened) - 1)
    /\ UNCHANGED <<program, environment, stage, done, told, running, requests, shut, late,
                   selfHash, stored, ranAs, starts>>

Exits ==
    /\ stage = "closing" /\ opened = <<>>
    /\ Ended /\ UNCHANGED <<program, environment, stored, ranAs, starts>>

Crashes ==
    /\ stage # "down"
    /\ Ended /\ UNCHANGED <<program, environment, stored, ranAs, starts>>

Jobs == {"peer", "ops", "intake", "tools", "proxy", "announcer", "sweep", "expiry", "distribution",
         "offerIntake", "orders", "visits", "scrapes", "receipts", "recall", "publishing"}

LifeNext ==
    \/ \E env \in Environments[program] : Start(env)
    \/ Opens \/ (\E hash \in PeerHashes : Settles(hash))
    \/ StepFails \/ Begins \/ Signalled
    \/ \E job \in Jobs : RequestArrives(job) \/ RequestEnds(job) \/ Returns(job) \/ WorkerStops(job)
    \/ ServerStops \/ LimitPasses \/ GroupReturns \/ Closes \/ Exits \/ Crashes

\* A start goes on or fails, a worker that is told returns, a limit passes, and
\* the recall of a page is bound by the store it reads.  An HTTP request need
\* never end.
LifeFairness ==
    /\ WF_lifeVars(Opens \/ StepFails \/ \E hash \in PeerHashes : Settles(hash))
    /\ WF_lifeVars(Begins) /\ WF_lifeVars(LimitPasses)
    /\ WF_lifeVars(ServerStops) /\ WF_lifeVars(GroupReturns)
    /\ WF_lifeVars(RequestEnds("recall"))
    /\ \A job \in Jobs : WF_lifeVars(WorkerStops(job))
    /\ WF_lifeVars(Closes) /\ WF_lifeVars(Exits)

LifeSpec == LifeInit /\ [][LifeNext]_lifeVars /\ LifeFairness

----------------------------------------------------------------------------
(***************************************************************************)
(* Over the data of one directory the node serves under one peer hash      *)
(* only, however often it is started, whatever hash its settings state and *)
(* wherever it crashes: the postings it holds belong to the position of    *)
(* that hash (nodepeerhash).                                               *)
(***************************************************************************)
HashForLife == \A dir \in DataDirs : Cardinality(ranAs[dir]) <= 1

(***************************************************************************)
(* No server, worker or request of a process finds what it uses closed,    *)
(* but a request that was still unanswered when the limit of the shutdown  *)
(* was over, and the pages a renderer has in hand when it is told to stop  *)
(* (servergroup.Run and the deferred calls of every assembly).             *)
(***************************************************************************)
NothingOutlivesWhatItUses ==
    \A job \in running \union requests :
        Uses(job) \subseteq Open \/ (late /\ job \in requests) \/ (told /\ job = "proxy")

(***************************************************************************)
(* A process that is told to stop ends, though a request is never answered *)
(* (servergroup.shutdown).                                                 *)
(***************************************************************************)
StopsOnceTold == told ~> (stage = "down")
=============================================================================
