---------------------------- MODULE MCProcessCases ----------------------------
(***************************************************************************)
(* An instance of ProcessCases: two hostnames, so that a new tunnel may    *)
(* get another name or the same one, and an address that is no hostname;   *)
(* two starts of every program, the node over two data directories under   *)
(* two hashes, with and without its switches, once under settings that     *)
(* keep it from starting.                                                  *)
(***************************************************************************)
EXTENDS ProcessCases

CONSTANTS h1, h2, address

TwoHostnames == {h1, h2}
ThreeAddresses == {h1, h2, address}

MCHashes == {Text("hash", 1), Text("hash", 2)}
MCDirs == {Word("word"), Word("name")}

MCNode(dir, hash, exponent, shares, offers) ==
  [EgressProxyURL |-> Word("http"), DataDir |-> dir, InitialPeerHash |-> hash,
   PartitionExponent |-> exponent, DistributionEnabled |-> shares, PageOfferNATSURL |-> offers]

MCEnvironments ==
  [yacynode |->
     {MCNode(dir, hash, Blank, Blank, Blank) :
        dir \in {Blank, Word("name")}, hash \in MCHashes \union {Blank}}
     \union {MCNode(Blank, Blank, Text("number", 63), Blank, Blank),
             MCNode(Blank, Blank, Text("number", 0), Blank, Blank),
             MCNode(Blank, Blank, Blank, Yes, Word("url"))},
   yacycrawler |->
     {[CrawlNATSURL |-> Word("url"), ProxyURL |-> Word("http"), RecrawlGrace |-> grace] :
        grace \in {Blank, Text("number", 0)}},
   pagescrape |-> {[ScrapeNATSURL |-> Word("url"), ProxyURL |-> Word("https")]},
   corpustext |->
     {[PageOfferNATSURL |-> Word("url"), SearchIndexEngine |-> Word("manticore"),
       ManticoreURL |-> Word("url")]},
   corpusmarkdown |-> {[PageOfferNATSURL |-> Word("url"), PageMarkdownNATSURL |-> Word("url")]},
   webresearchmcp |->
     {[SearXNGURL |-> Word("http"), ScrapeRequestNATSURL |-> Word("url"),
       CorpusMarkdownAddr |-> Word("word")]},
   visitcrawl |-> {[CrawlNATSURL |-> Word("url"), LinkSecret |-> Word("word")]},
   webarchivescrape |->
     {[PywbURL |-> Word("http"), PywbCollection |-> Word("word"), URL |-> Word("url"),
       DryRun |-> Yes]},
   renderproxy |-> {[CDPURL |-> Word("url"), EgressProxyURL |-> Word("http")]}]
=============================================================================
