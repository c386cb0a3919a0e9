------------------------ MODULE ServiceConfiguration ------------------------
(***************************************************************************)
(* The settings of every program, as its operator gives them: texts in the *)
(* environment (flags for webarchivescrape).  Each setting has a reader    *)
(* and a default, some are read only under another one, and a program that *)
(* cannot read one of its settings does not start.                         *)
(*                                                                         *)
(* A text is what its readers tell it apart by, its number in the unit of  *)
(* the setting: seconds, MB, items of a list, the port of an address.      *)
(***************************************************************************)
EXTENDS Integers

CONSTANT SizeRange    \* where the bytes of a size wrap

ASSUME SizeRangeAssumption == SizeRange \in Nat \ {0}

VARIABLES
    program,        \* the program that is configured
    environment     \* setting -> text; what is not in its domain is not set

----------------------------------------------------------------------------
\* Texts

Kinds == {"blank", "number", "span", "size", "list", "address", "networks", "ip",
          "http", "https", "url", "yes", "no", "level", "hash", "name", "word",
          "unbalanced", "tunnel", "absolute-url", "domain", "wide", "subpath",
          "elasticsearch", "manticore"}

Text(kind, n) == [is |-> kind, n |-> n]
Word(kind) == Text(kind, 0)
Blank == Word("blank")
Yes == Text("yes", 1)
No == Word("no")

AnyText == [is: Kinds, n: Int]
SomeText == [is: Kinds \ {"blank"}, n: Int]
NumberTexts(values) == [is: {"number"}, n: values]
Positive == Nat \ {0}

\* The items of a comma-separated list; blank ones do not count.
ItemsOf(text) == IF text.is = "list" THEN text.n ELSE IF text = Blank THEN 0 ELSE 1

\* A size is read as so many bytes, and the product of number and unit wraps.
SizeIn(n) == ((n + SizeRange) % (2 * SizeRange)) - SizeRange

----------------------------------------------------------------------------
\* Acceptable: the texts each accepts.

\* A mutant: a duration of zero is one.
SpansFromZero == [is: {"span"}, n: Nat]
Spans == [is: {"span"}, n: Positive]

Acceptable ==
    [ text     |-> AnyText,
      unread   |-> AnyText,
      required |-> SomeText,
      httpURL  |-> [is: {"http", "https"}, n: Int],
      origin   |-> [is: {"http"}, n: Int],
      flag     |-> [is: {"yes"}, n: {1}] \union [is: {"no"}, n: {0}] \union NumberTexts({0, 1}),
      natural  |-> NumberTexts(Nat),
      positive |-> NumberTexts(Positive),
      pages    |-> NumberTexts(Positive \union {-1}),
      span     |-> Spans,
      spanOrNone |-> [is: {"span"}, n: Nat] \union NumberTexts({0}),
      size     |-> [is: {"size"}, n: Nat],
      level    |-> [is: {"blank", "level"}, n: Int],
      hash     |-> [is: {"blank", "hash"}, n: Int],
      name     |-> [is: {"blank", "name"}, n: Int],
      networks |-> [is: {"blank", "networks", "ip"}, n: Int] \union [is: {"list"}, n: {0}],
      listening |-> [is: {"address"}, n: Positive],
      ip       |-> [is: {"ip"}, n: Int],
      dialMode |-> [is: {"tunnel", "absolute-url"}, n: Int],
      scope    |-> [is: {"domain", "wide", "subpath"}, n: Int],
      pattern  |-> [is: Kinds \ {"unbalanced"}, n: Int],
      engine   |-> {Word("elasticsearch"), Word("manticore")} ]

By(reader, otherwise) == [by |-> reader, otherwise |-> otherwise]
Free(reader) == By(reader, Blank)
Wanted(reader) == By(reader, Blank)       \* no default: its reader refuses a blank
Unread == Free("unread")
ReadIf(condition, setting) == IF condition THEN setting ELSE Unread

\* The settings, or texts, of both; the first counts where both have one.
f ++ g == [n \in DOMAIN f \union DOMAIN g |-> IF n \in DOMAIN f THEN f[n] ELSE g[n]]

Stated(env, name) == IF name \in DOMAIN env THEN env[name] ELSE Blank

----------------------------------------------------------------------------
\* The node

Serving ==
    [ PeerAddr |-> By("listening", Text("address", 8090)),
      OpsAddr |-> By("text", Text("address", 9090)),
      TrustedProxies |-> Free("networks") ]

PeerExchange ==
    [ SeedlistURLs |-> Free("text"),
      AnnounceInterval |-> By("span", Text("span", 600)),
      PeerContactConcurrency |-> By("positive", Text("number", 16)),
      KnownRosterCapacity |-> By("positive", Text("number", 4096)),
      ReachableRosterCapacity |-> By("positive", Text("number", 256)) ]

Announcing(env) == ItemsOf(Stated(env, "SeedlistURLs")) > 0

\* Peers are told the port the node listens on, unless another one is stated.
advertisePort(env) ==
    By("positive", Text("number",
        IF Stated(env, "PeerAddr") = Blank THEN 8090 ELSE Stated(env, "PeerAddr").n))

Identity(env) ==
    [ InitialPeerHash |-> Free("hash"),
      PeerName |-> Free("name"),
      NetworkName |-> By("text", Word("word")),
      AdvertiseHost |-> IF Announcing(env) THEN Wanted("required") ELSE Free("text"),
      AdvertisePort |-> advertisePort(env) ]

Storage ==
    [ DataDir |-> By("text", Word("word")),
      StorageQuota |-> By("size", Text("size", 1024)),
      PebbleBlockCache |-> By("size", Text("size", 64)),
      PebbleMemtableSize |-> By("size", Text("size", 8)),
      PebbleCompactionConcurrency |-> By("positive", Text("number", 1)),
      PebbleOpenFileLimit |-> By("positive", Text("number", 1000)) ]

Escrow == [EscrowPostingCapacity |-> By("positive", Text("number", 8192))]

OfferInterval ==
    [ LongestOfferInterval |-> By("span", Text("span", 86400)),
      ShortestOfferInterval |-> By("span", Text("span", 300)) ]

Distribution ==
    [ DistributionEnabled |-> By("flag", No),
      DistributionRedundancy |-> By("positive", Text("number", 3)),
      PartitionExponent |-> By("positive", Text("number", 4)),
      PostingsPerBatch |-> By("positive", Text("number", 1000)),
      CycleInterval |-> By("span", Text("span", 60)),
      DrainBudget |-> By("span", Text("span", 60)) ]
    ++ OfferInterval
    ++ [ RecipientCooldown |-> By("span", Text("span", 600)),
         MinReachablePeers |-> By("positive", Text("number", 32)),
         URLMetadataBatchSize |-> By("positive", Text("number", 50)) ]

Egress == [EgressProxyURL |-> Wanted("httpURL")]

TakesOffers(env) == Stated(env, "PageOfferNATSURL") # Blank

PageOfferIntake(env) ==
    [ PageOfferNATSURL |-> Free("text"),
      PageOfferDurable |-> ReadIf(TakesOffers(env), By("text", Word("word"))),
      PageOfferIntakeConcurrency |-> ReadIf(TakesOffers(env), By("positive", Text("number", 4))) ]

NodeSettings(env) ==
    Serving ++ (PeerExchange ++ (Identity(env) ++ (Storage ++ (Escrow
        ++ (Distribution ++ (Egress ++ PageOfferIntake(env)))))))

----------------------------------------------------------------------------
\* The crawler, the scraping service and the corpora

FetchLimits ==
    [ FetchConcurrency |-> By("positive", Text("number", 4)),
      MaxBodyBytes |-> By("positive", Text("number", 2097152)),
      FetchDeadline |-> By("span", Text("span", 30)) ]

CrawlerSettings ==
    [ CrawlNATSURL |-> Wanted("required"),
      CrawlOrdersSubject |-> By("text", Word("word")),
      CrawlOrdersDurable |-> By("text", Word("word")),
      PendingPageVisitDurable |-> By("text", Word("word")),
      ProxyURL |-> Wanted("httpURL"),
      ProxyDialMode |-> By("dialMode", Word("tunnel")) ]
    ++ FetchLimits
    ++ [ RecrawlGrace |-> By("spanOrNone", Text("span", 3600)),
         OpsAddr |-> By("text", Text("address", 9090)),
         UserAgent |-> By("text", Word("word")) ]

\* How long a page visit may be in hand before it is delivered again.
PendingPageVisitAckWait(fetchDeadline) == 3 * fetchDeadline

FetchSettings ==
    [ ProxyURL |-> Wanted("httpURL"),
      ProxyDialMode |-> By("dialMode", Word("tunnel")),
      MaxBodyBytes |-> By("positive", Text("number", 2097152)),
      FetchDeadline |-> By("span", Text("span", 30)),
      MaxRedirectHops |-> By("positive", Text("number", 10)) ]

StreamSettings ==
    [ RequestsKept |-> By("positive", Text("number", 100000)),
      PageOfferMaxBytes |-> By("size", Text("size", 1024)),
      PageOfferMaxAge |-> By("span", Text("span", 86400)) ]

PageScrapeSettings ==
    [ScrapeNATSURL |-> Wanted("required")]
    ++ FetchSettings ++ StreamSettings
    ++ [ IntakeConcurrency |-> By("positive", Text("number", 4)),
         RequestsInFlight |-> By("positive", Text("number", 64)),
         DeferralWindow |-> By("span", Text("span", 21600)),
         UserAgent |-> By("text", Word("word")),
         RequestDurable |-> By("text", Word("word")),
         OpsAddr |-> By("text", Text("address", 9090)) ]

Indexes(env, engine) == Stated(env, "SearchIndexEngine") = Word(engine)

CorpusTextSettings(env) ==
    [ PageOfferNATSURL |-> Wanted("required"),
      PageOfferIntakeConcurrency |-> By("positive", Text("number", 4)),
      PageOfferDurable |-> By("text", Word("word")),
      SearchIndexEngine |-> Wanted("engine"),
      ElasticsearchURL |-> ReadIf(Indexes(env, "elasticsearch"), Wanted("required")),
      ElasticsearchIndex |-> ReadIf(Indexes(env, "elasticsearch"), By("text", Word("word"))),
      ManticoreURL |-> ReadIf(Indexes(env, "manticore"), Wanted("required")),
      ManticoreTable |-> ReadIf(Indexes(env, "manticore"), By("text", Word("word"))),
      Languages |-> Free("text"),
      OpsAddr |-> By("text", Text("address", 9090)) ]

CorpusMarkdownSettings ==
    [ PageOfferNATSURL |-> Wanted("required"),
      PageMarkdownNATSURL |-> Wanted("required"),
      PageOfferIntakeConcurrency |-> By("positive", Text("number", 4)),
      PageOfferDurable |-> By("text", Word("word")),
      ListenAddr |-> By("text", Text("address", 8094)),
      OpsAddr |-> By("text", Text("address", 9090)) ]

----------------------------------------------------------------------------
\* Research, visits, archives, rendering, and the node's agent

CallDeadlines ==
    [ SearXNGSearchDeadline |-> By("span", Text("span", 10)),
      PageFetchWait |-> By("span", Text("span", 10)),
      PageScrapeTolerance |-> By("spanOrNone", Text("span", 3600)),
      RecallDeadline |-> By("span", Text("span", 5)) ]

AnswerLimits ==
    [ PageFetchCharacterLimit |-> By("positive", Text("number", 5000)),
      SearchResultLimit |-> By("positive", Text("number", 10)),
      ToolCallConcurrency |-> By("positive", Text("number", 8)) ]

WebResearchSettings ==
    [ SearXNGURL |-> Wanted("httpURL"),
      ScrapeRequestNATSURL |-> Wanted("required"),
      CorpusMarkdownAddr |-> Wanted("required") ]
    ++ CallDeadlines ++ AnswerLimits
    ++ [ ListenAddr |-> By("text", Text("address", 8095)),
         OpsAddr |-> By("text", Text("address", 9090)) ]

CrawlProfile ==
    [ CrawlScope |-> By("scope", Word("domain")),
      CrawlMaxDepth |-> By("natural", Text("number", 1)),
      CrawlMaxPagesPerHost |-> By("pages", Text("number", 100)),
      CrawlAllowQueryURLs |-> By("flag", No),
      CrawlURLMustMatch |-> By("pattern", Word("word")),
      CrawlURLMustNotMatch |-> Free("pattern") ]

VisitCrawlSettings ==
    [ CrawlNATSURL |-> Wanted("required"),
      LinkSecret |-> Wanted("required"),
      OrderTimeout |-> By("span", Text("span", 5)),
      MaxInFlight |-> By("positive", Text("number", 256)),
      MaxBodyBytes |-> By("positive", Text("number", 4096)) ]
    ++ CrawlProfile
    ++ [ CrawlOrdersSubject |-> By("text", Word("word")),
         ListenAddr |-> By("text", Text("address", 8091)),
         OpsAddr |-> By("text", Text("address", 9091)) ]

DryRun(env) == Stated(env, "DryRun").n = 1

ArchiveScrapeSettings(env) ==
    [ PywbURL |-> Wanted("httpURL"),
      PywbCollection |-> Wanted("required"),
      URL |-> Wanted("required"),
      MatchType |-> By("text", Word("domain")),
      From |-> Free("text"),
      To |-> Free("text"),
      PageLimit |-> By("natural", Text("number", 0)),
      DryRun |-> By("flag", No),
      ScrapeRequestNATSURL |-> IF DryRun(env) THEN Free("text") ELSE Wanted("required") ]

RenderProxySettings ==
    [ CDPURL |-> Wanted("required"),
      EgressProxyURL |-> Wanted("httpURL"),
      RenderConcurrency |-> By("positive", Text("number", 4)),
      RequestDeadline |-> By("span", Text("span", 30)),
      MaxResponseBytes |-> By("positive", Text("number", 10485760)),
      ListenAddr |-> By("text", Text("address", 8080)),
      OpsAddr |-> By("text", Text("address", 9090)) ]

AgentSettings ==
    [ NodeOrigin |-> By("origin", Word("http")),
      AgentAddress |-> Wanted("ip"),
      LeaseSocketPath |-> By("text", Word("word")),
      LocalhostRunHost |-> By("text", Word("word")),
      IdentityFilePath |-> Free("text"),
      KnownHostsPath |-> By("text", Word("word")) ]

----------------------------------------------------------------------------
\* What a program takes from its environment

Programs == {"yacynode", "yacycrawler", "pagescrape", "corpustext", "corpusmarkdown",
             "webresearchmcp", "visitcrawl", "webarchivescrape", "renderproxy",
             "localhostrunagent"}

Logging == [LogLevel |-> Free("level")]

Settings(p, env) ==
    Logging ++
    CASE p = "yacynode"          -> NodeSettings(env)
      [] p = "yacycrawler"       -> CrawlerSettings
      [] p = "pagescrape"        -> PageScrapeSettings
      [] p = "corpustext"        -> CorpusTextSettings(env)
      [] p = "corpusmarkdown"    -> CorpusMarkdownSettings
      [] p = "webresearchmcp"    -> WebResearchSettings
      [] p = "visitcrawl"        -> VisitCrawlSettings
      [] p = "webarchivescrape"  -> ArchiveScrapeSettings(env)
      [] p = "renderproxy"       -> RenderProxySettings
      [] p = "localhostrunagent" -> AgentSettings

Takes(setting, text) ==
    IF text # Blank /\ setting.by # "unread" THEN text ELSE setting.otherwise

Starts(p, env) ==
    LET settings == Settings(p, env) IN
    \A name \in DOMAIN settings :
        Takes(settings[name], Stated(env, name)) \in Acceptable[settings[name].by]

Taken(p, env) ==
    LET settings == Settings(p, env)
    IN  [name \in DOMAIN settings |-> Takes(settings[name], Stated(env, name))]

Values(p, env) ==
    LET taken == Taken(p, env)
    IN  [name \in DOMAIN taken |->
            IF taken[name].is = "size" THEN SizeIn(taken[name].n) ELSE taken[name].n]

Distributing(env) ==
    Takes(Distribution["DistributionEnabled"], Stated(env, "DistributionEnabled")).n = 1

----------------------------------------------------------------------------
\* What the parts of a started program count on: intervals its tickers take,
\* workers, room in its queues, deadlines that are not over when they are set.

NodeCountsOn(env) ==
    {"AnnounceInterval", "PeerContactConcurrency", "KnownRosterCapacity",
     "ReachableRosterCapacity", "EscrowPostingCapacity"}
    \union (IF TakesOffers(env) THEN {"PageOfferIntakeConcurrency"} ELSE {})
    \union (IF Distributing(env)
            THEN {"DistributionRedundancy", "PostingsPerBatch", "CycleInterval", "DrainBudget",
                  "LongestOfferInterval", "ShortestOfferInterval", "RecipientCooldown",
                  "MinReachablePeers", "URLMetadataBatchSize"}
            ELSE {})

CountsOn(p, env) ==
    CASE p = "yacynode"         -> NodeCountsOn(env)
      [] p = "yacycrawler"      -> {"FetchConcurrency", "MaxBodyBytes", "FetchDeadline"}
      [] p = "pagescrape"       -> {"IntakeConcurrency", "RequestsInFlight", "DeferralWindow",
                                    "FetchDeadline", "MaxRedirectHops", "MaxBodyBytes"}
      [] p \in {"corpustext", "corpusmarkdown"} -> {"PageOfferIntakeConcurrency"}
      [] p = "webresearchmcp"   -> {"ToolCallConcurrency", "SearXNGSearchDeadline",
                                    "RecallDeadline", "SearchResultLimit"}
      [] p = "visitcrawl"       -> {"OrderTimeout", "MaxInFlight", "MaxBodyBytes"}
      [] p = "renderproxy"      -> {"RenderConcurrency", "RequestDeadline"}
      [] OTHER                  -> {}

\* Whom they speak to, and what they tell others of themselves.
Names(p, env) ==
    CASE p = "yacynode"   -> {"EgressProxyURL"} \union (IF Announcing(env) THEN {"AdvertiseHost"} ELSE {})
      [] p = "corpustext" -> {"PageOfferNATSURL",
                              IF Indexes(env, "manticore") THEN "ManticoreURL"
                              ELSE "ElasticsearchURL"}
      [] p = "webarchivescrape" ->
            {"PywbURL"} \union (IF DryRun(env) THEN {} ELSE {"ScrapeRequestNATSURL"})
      [] OTHER -> {}

Runnable(p, env) ==
    LET taken == Taken(p, env)
        values == Values(p, env)
    IN  /\ \A name \in CountsOn(p, env) : values[name] > 0
        /\ \A name \in Names(p, env) : taken[name] # Blank
        /\ p = "yacycrawler" =>
              PendingPageVisitAckWait(values["FetchDeadline"]) > values["FetchDeadline"]

----------------------------------------------------------------------------
\* An operator tries one setting after the other.

CONSTANTS
    Tries,      \* bound of the model: the texts a setting is tried with
    Starting    \* program -> environments the trials start from

ConfigurationInit == program \in Programs /\ environment \in Starting[program]

ConfigurationRests ==
    /\ program = "localhostrunagent"
    /\ environment = CHOOSE env \in Starting["localhostrunagent"] : TRUE

Try(name, text) ==
    /\ environment \in Starting[program]
    /\ environment' = [n \in {name} |-> text] ++ environment
    /\ UNCHANGED program

Revert ==
    /\ environment \notin Starting[program]
    /\ environment' = CHOOSE env \in Starting[program] : TRUE
    /\ UNCHANGED program

ConfigurationNext ==
    \/ \E name \in DOMAIN Settings(program, environment), text \in Tries : Try(name, text)
    \/ Revert

configurationVars == <<program, environment>>

(***************************************************************************)
(* A program that accepts its environment can run on it: each part that is *)
(* switched on finds the intervals, the room, the workers and the          *)
(* addresses it counts on, whichever setting was stated, left out, or      *)
(* stated for a part that is switched off, and a page visit in hand is not *)
(* delivered again before its fetch is over (the loaders of every program  *)
(* against what its assembly does with the settings).                      *)
(***************************************************************************)
AcceptedRuns == Starts(program, environment) => Runnable(program, environment)
=============================================================================
