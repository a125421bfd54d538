----------------------------- MODULE MCAnpAgents -----------------------------
(***************************************************************************)
(* Seven parts of what the vendored ANP SDK does between agents, which     *)
(* share no state, checked in one run: the JSON-RPC server, the            *)
(* description of an agent and its reader, the crawler, the AP2 payment,   *)
(* the chat of two agents, and the requests and the negotiation of the     *)
(* TypeScript port.  A behaviour is one of one part, chosen in the initial *)
(* state.                                                                  *)
(***************************************************************************)
EXTENDS RpcServer, AgentDiscovery, Ap2Payment, TsRequests, TsNegotiation, ChatPeers,
        AnpCrawler, TLC

CONSTANTS
  c1, a1, a2, a3, a4, ad, apis, other, m1, m2, m3, srv    \* what the definitions below name

VARIABLE part                                                \* the one that runs

allVars == <<part, rpcVars, discoveryVars, ap2Vars, crawlVars, tsVars, negotiationVars,
             chatVars>>

AgentsInit ==
  /\ part \in {"rpc", "discovery", "payment", "crawl", "requests", "negotiation", "chat"}
  /\ RpcInit /\ DiscoveryInit
  /\ Ap2Init /\ CrawlInit /\ TsInit /\ TsMetaInit /\ ChatInit
  \* what a part chooses at its start does not matter to the others
  /\ part # "rpc" => dialect = "openanp"
  /\ part # "discovery" => port = "openanp" /\ deployed = {}
  /\ part # "crawl" => crawlDialect = "python"

AgentsNext ==
  /\ UNCHANGED part
  /\ \/ /\ part = "rpc" /\ RpcNext
        /\ UNCHANGED <<discoveryVars, ap2Vars, crawlVars, tsVars, negotiationVars, chatVars>>
     \/ /\ part = "discovery" /\ DiscoveryNext
        /\ UNCHANGED <<rpcVars, ap2Vars, crawlVars, tsVars, negotiationVars, chatVars>>
     \/ /\ part = "payment" /\ Ap2Next
        /\ UNCHANGED <<rpcVars, discoveryVars, crawlVars, tsVars, negotiationVars, chatVars>>
     \/ /\ part = "crawl" /\ CrawlNext
        /\ UNCHANGED <<rpcVars, discoveryVars, ap2Vars, tsVars, negotiationVars, chatVars>>
     \/ /\ part = "requests" /\ TsNext
        /\ UNCHANGED <<rpcVars, discoveryVars, ap2Vars, crawlVars, negotiationVars, chatVars>>
     \/ /\ part = "negotiation" /\ TsMetaNext
        /\ UNCHANGED <<rpcVars, discoveryVars, ap2Vars, crawlVars, tsVars, chatVars>>
     \/ /\ part = "chat" /\ ChatNext
        /\ UNCHANGED <<rpcVars, discoveryVars, ap2Vars, crawlVars, tsVars, negotiationVars>>

AgentsSpec == AgentsInit /\ [][AgentsNext]_allVars

\* The two agents that negotiate, and the protocols, are alike.
Alike == Permutations(Agent) \union Permutations(Protocol)

-----------------------------------------------------------------------------
(* Values *)

TwoAndOne == [c \in Conn |-> IF c = c1 THEN 2 ELSE 1]

\* Two attributes of one name, one without a description, content and link methods
FourAttrs == <<a1, a2, a3, a4>>
RpcNames == a1 :> "book" @@ a2 :> "quote" @@ a3 :> "track" @@ a4 :> "book"
Modes == a1 :> "content" @@ a2 :> "link" @@ a3 :> "content" @@ a4 :> "link"

\* A description in two versions that embeds methods and links to two interface documents,
\* which share a tool with it and with each other; two methods have one sanitized name.
Description(methods, own, links) ==
  [form |-> "description", methods |-> methods, server |-> own, global |-> srv, links |-> links]
Document(form, methods) ==
  [form |-> form, methods |-> methods, server |-> srv, global |-> NoServer, links |-> <<>>]
Pages ==
  ad :> <<Description(<<m1, m2>>, NoServer, <<apis, other>>), Description(<<m1>>, srv, <<apis>>)>>
  @@ apis :> <<Document("openrpc", <<m1, m3>>)>>
  @@ other :> <<Document("jsonrpc", <<m3, m1>>)>>
SanitizedNames == m1 :> m1 @@ m2 :> m1 @@ m3 :> m3

-----------------------------------------------------------------------------
\* The type invariant of the part that runs; the others are as they were at the start.
AgentsTypeOK ==
  CASE part = "rpc" -> RpcTypeOK
    [] part = "discovery" -> DiscoveryTypeOK
    [] part = "payment" -> Ap2TypeOK
    [] part = "crawl" -> CrawlTypeOK
    [] part = "requests" -> TsTypeOK
    [] part = "negotiation" -> TsMetaTypeOK
    [] part = "chat" -> ChatTypeOK
=============================================================================
