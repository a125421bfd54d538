----------------------------- MODULE AnpCrawler -----------------------------
(***************************************************************************)
(* The crawler of an agent's documents, in Python                          *)
(* (src/anp/anp/anp_crawler/anp_crawler.py, anp_parser.py and              *)
(* anp_interface.py, coroutines of one loop) or in Java (ANPCrawler.java,  *)
(* called from several threads).  Pages are cached by URL, and the tools   *)
(* they describe go to one table by name, from which calls are made; the   *)
(* address of the first page, a label of every result, is left out.        *)
(* Python reads interfaces embedded in a page, Java follows its links.     *)
(***************************************************************************)
EXTENDS Naturals, Sequences, SequencesExt

CONSTANTS
  CrawlUrl,
  Page,            \* [CrawlUrl -> Seq(page)], what a URL serves, version by version
  Method, Server, NoServer,
  Sanitized,       \* [Method -> Method], _sanitize_function_name
  Crawler,         \* the callers of one crawler object
  Blank,           \* no URL, no result, no interface
  MaxCrawlFaults                              \* bound

VARIABLES
  crawlDialect,    \* "python" or "java"
  version,         \* of each URL's page
  faults,
  visited, cache,
  interfaces,      \* the tools by name
  crawl,           \* what each caller is at
  cleared,         \* history: each URL's version when the cache was cleared last
  emptied,         \* history: tools that were cleared, and not registered since
  outdated         \* history: tools whose interface is of a page that was replaced when it was read

crawlHistory == <<cleared, emptied, outdated>>
crawlVars == <<crawlDialect, version, faults, visited, cache, interfaces, crawl, crawlHistory>>

Version == UNION {DOMAIN Page[u] : u \in CrawlUrl}
ToolInterface == [tool : Method, method : Method, server : Server \union {NoServer},
              from : CrawlUrl, version : Version]
\* A result, the version of its page, whether a link could not be read, and whether
\* the crawl began before the cache was last cleared
Result == [listing : Seq(ToolInterface), version : Version, missing : BOOLEAN, early : BOOLEAN]
\* links are those still to read, the first one being read; a page is read before them
Crawl == [url : CrawlUrl, stage : {"asking", "served", "read"},
          page : BOOLEAN, links : Seq(CrawlUrl), at : Version, result : Result]

\* Every page has a first version, and Blank is none of what it stands for.
ASSUME PageAssumption ==
  /\ Page \in [CrawlUrl -> Seq([form : {"openrpc", "description", "jsonrpc", "other"},
                               methods : Seq(Method), server : Server \union {NoServer},
                               global : Server \union {NoServer}, links : Seq(CrawlUrl)]) \ {<<>>}]
  /\ Sanitized \in [Method -> Method]
  /\ Blank \notin ToolInterface \union Result \union Crawl \union Server \union {NoServer}
  /\ MaxCrawlFaults \in Nat

CrawlTypeOK ==
  /\ crawlDialect \in {"python", "java"}
  /\ version \in [CrawlUrl -> Version] /\ faults \in 0 .. MaxCrawlFaults
  /\ visited \subseteq CrawlUrl
  /\ cache \in [CrawlUrl -> Result \union {Blank}]
  /\ interfaces \in [Method -> ToolInterface \union {Blank}]
  /\ crawl \in [Crawler -> Crawl \union {Blank}]
  /\ cleared \in [CrawlUrl -> Version]
  /\ emptied \subseteq Method /\ outdated \subseteq Method

CrawlInit ==
  /\ crawlDialect \in {"python", "java"}
  /\ version = [u \in CrawlUrl |-> 1] /\ faults = 0
  /\ visited = {}
  /\ cache = [u \in CrawlUrl |-> Blank]
  /\ interfaces = [m \in Method |-> Blank]
  /\ crawl = [c \in Crawler |-> Blank]
  /\ cleared = [u \in CrawlUrl |-> 1] /\ emptied = {} /\ outdated = {}

PublishPage(u) ==
  /\ version[u] < Len(Page[u]) /\ version' = [version EXCEPT ![u] = @ + 1]
  /\ UNCHANGED <<crawlDialect, faults, visited, cache, interfaces, crawl, crawlHistory>>

-----------------------------------------------------------------------------
(* ANPDocumentParser.parse_document and ANPInterfaceConverter; parseOpenRpcMethods *)

Listed(methods, server, u, v) ==
  [i \in DOMAIN methods |->
     [tool |-> IF crawlDialect = "python" THEN Sanitized[methods[i]] ELSE methods[i],
      method |-> methods[i], server |-> server, from |-> u, version |-> v]]

FirstOf(s) == IF s = <<>> THEN <<>> ELSE <<Head(s)>>

\* A description lends its servers to embedded interfaces without any; a JSON-RPC
\* interface is read for its first method, without a server; links become no tools.
PythonParses(u, v) ==
  LET p == Page[u][v]
      server == IF p.form = "description" /\ p.server = NoServer THEN p.global ELSE p.server
  IN CASE p.form \in {"openrpc", "description"} -> Listed(p.methods, server, u, v)
       [] p.form = "jsonrpc" -> Listed(FirstOf(p.methods), NoServer, u, v)
       [] OTHER -> <<>>

\* A method without a URL to call is skipped.
JavaParses(u, v) ==
  LET p == Page[u][v] IN
  IF p.server = NoServer THEN <<>> ELSE Listed(p.methods, p.server, u, v)

\* Mutation: a name that is known keeps its interface.
RegisteredFirst(table, listing) ==
  [m \in Method |->
     IF table[m] # Blank \/ \A i \in DOMAIN listing : listing[i].tool # m THEN table[m]
     ELSE listing[Max({i \in DOMAIN listing : listing[i].tool = m})]]

\* Into the table in order: of two tools of one name the later one stays.
Registered(table, listing) ==
  [m \in Method |->
     IF \A i \in DOMAIN listing : listing[i].tool # m THEN table[m]
     ELSE listing[Max({i \in DOMAIN listing : listing[i].tool = m})]]

Register(c, u, listing) ==
  LET tools == {e.tool : e \in ToSet(listing)} IN
    /\ interfaces' = Registered(interfaces, listing)
    /\ emptied' = emptied \ tools
    /\ outdated' = IF crawl[c].at < version[u] THEN outdated \union tools ELSE outdated \ tools

-----------------------------------------------------------------------------
(* fetch_text, fetchText *)

NewCrawl(u) ==
  [url |-> u, stage |-> "asking", page |-> TRUE, links |-> <<>>, at |-> 1,
   result |-> [listing |-> <<>>, version |-> 1, missing |-> FALSE, early |-> FALSE]]

\* What is cached is returned at once.
Fetch(c, u) ==
  /\ crawl[c] = Blank /\ cache[u] = Blank
  /\ visited' = visited \union {u}
  /\ crawl' = [crawl EXCEPT ![c] = NewCrawl(u)]
  /\ UNCHANGED <<crawlDialect, version, faults, cache, interfaces, crawlHistory>>

Target(c) == IF crawl[c].page THEN crawl[c].url ELSE crawl[c].links[1]

\* After the first of the links
Onward(links) == IF Len(links) > 1 THEN "asking" ELSE "read"

ServePage(c) ==
  /\ crawl[c] # Blank /\ crawl[c].stage = "asking"
  /\ crawl' = [crawl EXCEPT ![c] = [@ EXCEPT !.stage = "served", !.at = version[Target(c)]]]
  /\ UNCHANGED <<crawlDialect, version, faults, visited, cache, interfaces, crawlHistory>>

\* A page that fails is an error that is not cached; a link that fails is passed over.
FetchFails(c) ==
  /\ crawl[c] # Blank /\ crawl[c].stage = "asking"
  /\ faults < MaxCrawlFaults /\ faults' = faults + 1
  /\ IF crawl[c].page
     THEN crawl' = [crawl EXCEPT ![c] = Blank]
     ELSE crawl' = [crawl EXCEPT ![c] =
            [@ EXCEPT !.links = Tail(crawl[c].links), !.stage = Onward(crawl[c].links),
                      !.result = [crawl[c].result EXCEPT !.missing = TRUE]]]
  /\ UNCHANGED <<crawlDialect, version, visited, cache, interfaces, crawlHistory>>

\* Between its response and its result a coroutine does not wait.
ReadPython(c) ==
  /\ crawlDialect = "python" /\ crawl[c] # Blank /\ crawl[c].stage = "served"
  /\ LET u == crawl[c].url
         listing == PythonParses(u, crawl[c].at)
         result == [crawl[c].result EXCEPT !.listing = listing, !.version = crawl[c].at]
     IN /\ Register(c, u, listing)
        /\ cache' = [cache EXCEPT ![u] = result]
  /\ crawl' = [crawl EXCEPT ![c] = Blank]
  /\ UNCHANGED <<crawlDialect, version, faults, visited, cleared>>

\* The page itself describes no tools to Java.
ReadPage(c) ==
  /\ crawlDialect = "java" /\ crawl[c] # Blank /\ crawl[c].stage = "served" /\ crawl[c].page
  /\ LET links == Page[crawl[c].url][crawl[c].at].links IN
       crawl' = [crawl EXCEPT ![c] =
         [@ EXCEPT !.page = FALSE, !.links = links, !.at = 1,
                   !.stage = IF links = <<>> THEN "read" ELSE "asking",
                   !.result = [crawl[c].result EXCEPT !.version = crawl[c].at]]]
  /\ UNCHANGED <<crawlDialect, version, faults, visited, cache, interfaces, crawlHistory>>

ReadLink(c) ==
  /\ crawlDialect = "java" /\ crawl[c] # Blank /\ crawl[c].stage = "served" /\ ~crawl[c].page
  /\ LET listing == JavaParses(Target(c), crawl[c].at) IN
       /\ Register(c, Target(c), listing)
       /\ crawl' = [crawl EXCEPT ![c] =
            [@ EXCEPT !.links = Tail(crawl[c].links), !.at = 1, !.stage = Onward(crawl[c].links),
                      !.result = [crawl[c].result EXCEPT !.listing = @ \o listing]]]
  /\ UNCHANGED <<crawlDialect, version, faults, visited, cache, cleared>>

CacheResult(c) ==
  /\ crawl[c] # Blank /\ crawl[c].stage = "read"
  /\ cache' = [cache EXCEPT ![crawl[c].url] = crawl[c].result]
  /\ crawl' = [crawl EXCEPT ![c] = Blank]
  /\ UNCHANGED <<crawlDialect, version, faults, visited, interfaces, crawlHistory>>

Forgotten == [u \in CrawlUrl |-> Blank]

\* What is under way will be cached all the same.
ClearCache ==
  /\ \E u \in CrawlUrl : cache[u] # Blank
  /\ cache' = Forgotten /\ visited' = {} /\ cleared' = version
  /\ crawl' = [c \in Crawler |->
       IF crawl[c] = Blank THEN Blank
       ELSE [crawl[c] EXCEPT !.result = [crawl[c].result EXCEPT !.early = TRUE]]]
  /\ UNCHANGED <<crawlDialect, version, faults, interfaces, emptied, outdated>>

ClearToolInterfaces ==
  /\ \E m \in Method : interfaces[m] # Blank
  /\ interfaces' = [m \in Method |-> Blank]
  /\ emptied' = {m \in Method : interfaces[m] # Blank} \union emptied
  /\ UNCHANGED <<crawlDialect, version, faults, visited, cache, crawl, cleared, outdated>>

\* execute_tool_call, which changes nothing here: the server that is asked, NoServer or
\* Blank when nothing is sent for want of a server or of an interface
ExecuteToolCall(tool) == IF interfaces[tool] = Blank THEN Blank ELSE interfaces[tool].server

CrawlNext ==
  \/ ClearCache \/ ClearToolInterfaces
  \/ \E u \in CrawlUrl :
       PublishPage(u) \/ \E c \in Crawler : Fetch(c, u)
  \/ \E c \in Crawler :
       \/ ServePage(c) \/ FetchFails(c)
       \/ ReadPython(c) \/ ReadPage(c) \/ ReadLink(c) \/ CacheResult(c)

CrawlSpec == CrawlInit /\ [][CrawlNext]_crawlVars

-----------------------------------------------------------------------------
(* Properties *)

\* A tool that some cached result lists can be called, unless the table was cleared; and the
\* call goes by a version of the page that lists it no older than the result's, unless
\* the page was replaced while its answer was on the way, or another page lists the name as
\* well (anp_crawler.py:133-143, :339; ANPCrawler.java:190, :446).
ListedIsCalled ==
  \A u \in {x \in CrawlUrl : cache[x] # Blank} : \A e \in ToSet(cache[u].listing) :
    /\ ExecuteToolCall(e.tool) = Blank => e.tool \in emptied
    /\ interfaces[e.tool] # Blank /\ interfaces[e.tool].from = e.from =>
         interfaces[e.tool].version >= e.version \/ e.tool \in outdated

\* The tools of a link are listed, by some version of it.
LinkRead(l, listing) ==
  \E v \in DOMAIN Page[l] : ToSet(JavaParses(l, v)) \subseteq ToSet(listing)

\* A result is whole, of pages no older than the last clear_cache and of a URL that counts
\* as visited - unless its crawl was under way then, or Java could not read a link, which
\* is then missing until the cache is cleared
\* (anp_crawler.py:104-157, :290-293; ANPCrawler.java:158-165, :389-397).
CurrentResult(u, r) ==
  /\ ~r.early =>
       /\ u \in visited /\ r.version >= cleared[u]
       /\ \A e \in ToSet(r.listing) : e.version >= cleared[e.from]
  /\ crawlDialect = "python" => r.listing = PythonParses(u, r.version)
  /\ crawlDialect = "java" /\ ~r.missing =>
       \A l \in ToSet(Page[u][r.version].links) : LinkRead(l, r.listing)

CachedIsCurrent == \A u \in CrawlUrl : cache[u] # Blank => CurrentResult(u, cache[u])

\* The two tables agree with each other and with the pages, for callers that overlap.
TablesAgree == ListedIsCalled /\ CachedIsCurrent

-----------------------------------------------------------------------------
(* What is inductive *)

VersionsInv == \A u \in CrawlUrl : version[u] \in DOMAIN Page[u] /\ cleared[u] <= version[u]

\* What the table holds for a tool that was listed
Callable(e) ==
  /\ e.version <= version[e.from]
  /\ interfaces[e.tool] = Blank => e.tool \in emptied
  /\ interfaces[e.tool] # Blank /\ interfaces[e.tool].from = e.from =>
       interfaces[e.tool].version >= e.version \/ e.tool \in outdated

ListingsInv ==
  /\ \A u \in CrawlUrl : cache[u] # Blank => \A e \in ToSet(cache[u].listing) : Callable(e)
  /\ \A c \in Crawler : crawl[c] # Blank => \A e \in ToSet(crawl[c].result.listing) : Callable(e)

\* A link is still to be read, or its tools are listed: how far a crawl is, and how
\* old what it has read can be
UnderWay(x) ==
  /\ x.page => x.stage # "read" /\ x.result.listing = <<>>
  /\ ~x.page => crawlDialect = "java" /\ x.result.version \in DOMAIN Page[x.url]
  /\ ~x.page => (x.stage = "read" <=> x.links = <<>>)
  /\ ~x.page /\ ~x.result.missing =>
       \A l \in ToSet(Page[x.url][x.result.version].links) :
         l \in ToSet(x.links) \/ LinkRead(l, x.result.listing)
  /\ ~x.result.early =>
       /\ x.url \in visited /\ (~x.page => x.result.version >= cleared[x.url])
       /\ \A e \in ToSet(x.result.listing) : e.version >= cleared[e.from]

AnsweredPage(x) ==
  LET u == IF x.page THEN x.url ELSE x.links[1] IN
    /\ x.at \in DOMAIN Page[u] /\ x.at <= version[u]
    /\ ~x.result.early => x.at >= cleared[u]

CrawlsInv ==
  \A c \in Crawler : crawl[c] # Blank =>
    UnderWay(crawl[c]) /\ (crawl[c].stage = "served" => AnsweredPage(crawl[c]))

CrawlIInv ==
  /\ CrawlTypeOK /\ VersionsInv /\ ListingsInv /\ CrawlsInv
  /\ CachedIsCurrent
=============================================================================
