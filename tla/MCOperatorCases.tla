-------------------------- MODULE MCOperatorCases ---------------------------
(* An instance of OperatorCases for TLC: a ring of eight positions in two    *)
(* partitions, this node in the middle of the peers; and three terms in two  *)
(* documents, by postings that differ in what a search reads of them; and    *)
(* three writers and a reader of the vault; and numbers at the edges of      *)
(* every column of what peers send; and settings tried one after the other.  *)
EXTENDS OperatorCases

CONSTANTS w1, w2, w3

MCWriters == {w1, w2, w3}

MCWords == {1, 6}
MCURLs  == {0, 4}
MCPeers == {0, 2, 4, 7}

MCPosting(hits, place, phrase, inPhrase, language, type, appearance) ==
  [hits |-> hits, position |-> place, phrase |-> phrase, inPhrase |-> inPhrase,
   language |-> language, type |-> type, appearance |-> appearance]

(* A picture that is one, a text with a picture and without a position, and  *)
(* a text.                                                                   *)
MCPostings ==
  {MCPosting(1, 1, 1, 2, "en", "image", {"image"}),
   MCPosting(2, 0, 1, 1, "de", "text", {"image", "title"}),
   MCPosting(1, 4, 2, 1, "en", "text", {})}

MCQueries == {<<>>, <<1>>, <<2, 1, 2>>, <<1, 2, 3>>}

MCOpen ==
  [excluded |-> {}, required |-> {}, language |-> Unspecified, site |-> Unspecified,
   kind |-> "any", strict |-> FALSE, appearance |-> Unspecified]

MCFilters ==
  {MCOpen,
   [MCOpen EXCEPT !.excluded = {3}],
   [MCOpen EXCEPT !.language = "en", !.site = "b"],
   [MCOpen EXCEPT !.kind = "image"],
   [MCOpen EXCEPT !.kind = "image", !.strict = TRUE],
   [MCOpen EXCEPT !.required = {2}, !.appearance = {"title"}]}

MCLimits == {<<0, 0>>, <<1, 1>>}
MCSites  == <<"a", "b">>

(* Letters of a type, two letters of a language, ports, names, a byte, a     *)
(* word and a day too many, one less than none.                              *)
MCSamples == {-1, 0, 1, 3, 91, 117, 255, 256, 65536, 262145}

(* News outgrow their record when peers write out what the first left out.   *)
MCMostColumns == [k \in DOMAIN Schema |-> IF k = "News" THEN 6 ELSE 60]

MCNode(host, seeds, shares, offers) ==
  [EgressProxyURL |-> Word("http"), AdvertiseHost |-> host, SeedlistURLs |-> seeds,
   DistributionEnabled |-> shares, PageOfferNATSURL |-> offers]

(* What every program needs to start, with the settings others depend on.    *)
MCStarting ==
  [yacynode |->
     {MCNode(Blank, Blank, Blank, Blank),
      MCNode(Word("word"), Text("list", 2), Blank, Blank),
      MCNode(Blank, Text("list", 2), Blank, Blank),
      MCNode(Blank, Text("list", 0), Yes, Blank),
      MCNode(Blank, Blank, Blank, Word("url")),
      MCNode(Word("word"), Word("url"), Yes, Word("url"))},
   yacycrawler |-> {[CrawlNATSURL |-> Word("url"), ProxyURL |-> Word("http")]},
   pagescrape |-> {[ScrapeNATSURL |-> Word("url"), ProxyURL |-> Word("https")]},
   corpustext |->
     {[PageOfferNATSURL |-> Word("url"), SearchIndexEngine |-> chosen,
       ElasticsearchURL |-> Word("url")] :
        chosen \in {Word("elasticsearch"), Word("manticore")}},
   corpusmarkdown |-> {[PageOfferNATSURL |-> Word("url"), PageMarkdownNATSURL |-> Word("url")]},
   webresearchmcp |->
     {[SearXNGURL |-> Word("http"), ScrapeRequestNATSURL |-> Word("url"),
       CorpusMarkdownAddr |-> Word("word")]},
   visitcrawl |-> {[CrawlNATSURL |-> Word("url"), LinkSecret |-> Word("word")]},
   webarchivescrape |->
     {[PywbURL |-> Word("http"), PywbCollection |-> Word("word"), URL |-> Word("url"),
       DryRun |-> dry] : dry \in {Blank, Yes}},
   renderproxy |-> {[CDPURL |-> Word("url"), EgressProxyURL |-> Word("http")]},
   localhostrunagent |-> {[AgentAddress |-> Word("ip")]}]

MCTries ==
  {Blank, Yes, No, Text("list", 0), Text("list", 2), Text("address", 0), Text("address", 1),
   Word("http"), Word("url"), Word("hash"), Word("networks"), Word("manticore"),
   Word("wide"), Word("unbalanced")}
  \union {Text("number", n) : n \in {-1, 0, 1}} \union {Text("span", n) : n \in {-1, 0, 1}}
  \union {Text("size", n) : n \in {-1, 0, 1, 4096}}
=============================================================================
