--------------------------- MODULE AgentDiscovery ---------------------------
(***************************************************************************)
(* An agent described by its documents and called by their reader.  The    *)
(* server of openanp (src/anp/anp/openanp/decorators.py, autogen.py,       *)
(* utils.py) publishes ad.json, one interface document for its content     *)
(* methods and one for every link method; RemoteAgent (client/agent.py,    *)
(* openrpc.py) reads them one after the other and calls what it found.     *)
(* anp4j (AgentHandler, AgentDescription, OpenRpcGenerator and             *)
(* RemoteAgent.java) does the same, but its controller has no route for    *)
(* the documents of link methods.  The server may be deployed again with   *)
(* other methods at any moment.                                            *)
(***************************************************************************)
EXTENDS Naturals, Sequences, SequencesExt, Selection

CONSTANTS
  Attr,            \* the decorated attributes of an agent class
  AttrOrder,       \* dir(cls)
  RpcName,         \* [Attr -> names], the name given to @interface
  InterfaceMode,            \* [Attr -> {"content", "link"}]
  Documented,      \* attributes whose description is not empty
  NoAttr,
  MaxDeploys, MaxDiscoveryFaults              \* bounds

\* The URL of a link method's document is never that of interface.json.
ASSUME AttrAssumption ==
  /\ AttrOrder \in Seq(Attr) /\ ToSet(AttrOrder) = Attr /\ IsInjective(AttrOrder) /\ NoAttr \notin Attr
  /\ Documented \subseteq Attr
  /\ DOMAIN RpcName = Attr /\ (\A a \in Attr : RpcName[a] # "interface")
  /\ InterfaceMode \in [Attr -> {"content", "link"}]

ASSUME DeployAssumption == MaxDeploys \in Nat /\ MaxDiscoveryFaults \in Nat

VARIABLES
  port,            \* "openanp" or "anp4j"
  deployed,        \* the attributes of the class that serves now
  deploys, lapses, \* how often it was replaced; what went wrong on the way
  discovery,       \* where RemoteAgent.discover is
  toFetch,         \* interface_urls still to read
  raw,             \* raw_methods
  untouched,       \* nothing was deployed or went wrong since ad.json was read
  calling,         \* the attribute a call means, by the description it was found under
  sent,            \* where that call is
  ran              \* history: the handlers it ran

discoveryVars == <<port, deployed, deploys, lapses, discovery, toFetch, raw, untouched, calling,
                   sent, ran>>

Name == {RpcName[a] : a \in Attr}
\* interface.json, or the document of one link method
Url == {"interface"} \union Name

DiscoveryTypeOK ==
  /\ port \in {"openanp", "anp4j"}
  /\ deployed \subseteq Attr
  /\ deploys \in 0 .. MaxDeploys /\ lapses \in 0 .. MaxDiscoveryFaults
  /\ discovery \in {"idle", "reading", "ready", "failed"}
  /\ toFetch \in Seq(Url) /\ raw \in Seq(Attr) /\ ran \in Seq(Attr)
  /\ untouched \in BOOLEAN
  /\ calling \in Attr \union {NoAttr}
  /\ sent \in {"no", "sent", "resent", "handled", "result", "-32601", "-32603"}

DiscoveryInit ==
  /\ port \in {"openanp", "anp4j"}
  /\ deployed \in SUBSET Attr
  /\ deploys = 0 /\ lapses = 0
  /\ discovery = "idle" /\ toFetch = <<>> /\ raw = <<>> /\ untouched = TRUE
  /\ calling = NoAttr /\ sent = "no" /\ ran = <<>>

-----------------------------------------------------------------------------
(* What the server publishes and serves *)

Methods(S) == Those(AttrOrder, S)
ContentMethods(S) == Those(AttrOrder, {a \in S : InterfaceMode[a] = "content"})
LinkMethods(S) == Those(AttrOrder, {a \in S : InterfaceMode[a] = "link"})
Named(S, name) == {a \in S : RpcName[a] = name}

\* The interfaces of ad.json
GenerateAd(S) ==
  (IF ContentMethods(S) = <<>> THEN <<>> ELSE <<"interface">>)
    \o [i \in DOMAIN LinkMethods(S) |-> RpcName[LinkMethods(S)[i]]]

HasInterfaces(ad) == ad # <<>>

ContentDocument(S) == ContentMethods(S)
\* Of two routes the first one counts.
LinkDocument(S, url) ==
  LET same == Those(LinkMethods(S), Named(S, url))
  IN IF same = <<>> THEN <<>> ELSE <<same[1]>>

\* The document behind a URL, empty when there is none
Interface(S, url) ==
  IF url = "interface" THEN ContentDocument(S)
  ELSE IF port = "openanp" THEN LinkDocument(S, url) ELSE <<>>

\* handlers is filled in order, so the last of two attributes of one name counts.
Handlers(S, name) ==
  LET same == Those(Methods(S), Named(S, name))
  IN IF same = <<>> THEN NoAttr ELSE Last(same)

Deploy(S) ==
  /\ deploys < MaxDeploys /\ deploys' = deploys + 1
  /\ deployed' = S /\ untouched' = FALSE
  /\ UNCHANGED <<port, lapses, discovery, toFetch, raw, calling, sent, ran>>

-----------------------------------------------------------------------------
(* RemoteAgent.discover *)

Lapse == lapses < MaxDiscoveryFaults /\ lapses' = lapses + 1 /\ untouched' = FALSE
NoLapse == UNCHANGED <<lapses, untouched>>

FetchAd ==
  /\ discovery = "idle"
  /\ \/ Lapse /\ discovery' = "failed" /\ UNCHANGED toFetch
     \/ /\ UNCHANGED lapses /\ untouched' = TRUE
        /\ toFetch' = GenerateAd(deployed)
        \* without any method ad.json has no list of interfaces to read
        /\ discovery' = IF HasInterfaces(GenerateAd(deployed)) THEN "reading" ELSE "failed"
  /\ UNCHANGED <<port, deployed, deploys, raw, calling, sent, ran>>

\* openanp refuses a document as a whole for one method without a description; anp4j makes
\* up a description when it publishes, and reads documents without.
OpenanpParses(doc) == doc # <<>> /\ ToSet(doc) \subseteq Documented
Anp4jParses(doc) == doc # <<>>
Parses(doc) == IF port = "openanp" THEN OpenanpParses(doc) ELSE Anp4jParses(doc)

\* Mutation: the methods of the last document are the agent's.
CollectedLast(found) == found
Collected(found) == raw \o found

\* What cannot be fetched or read is noted as an error, and the next URL has its turn.
FetchInterface ==
  /\ discovery = "reading" /\ toFetch # <<>>
  /\ toFetch' = Tail(toFetch)
  /\ \/ Lapse /\ UNCHANGED raw
     \/ /\ NoLapse
        /\ LET doc == Interface(deployed, Head(toFetch)) IN
             IF Parses(doc) THEN raw' = Collected(doc) ELSE UNCHANGED raw
  /\ UNCHANGED <<port, deployed, deploys, discovery, calling, sent, ran>>

EndDiscovery ==
  /\ discovery = "reading" /\ toFetch = <<>>
  /\ discovery' = IF raw = <<>> THEN "failed" ELSE "ready"
  /\ UNCHANGED <<port, deployed, deploys, lapses, toFetch, raw, untouched, calling, sent, ran>>

Forget ==
  /\ discovery \in {"ready", "failed"} /\ calling = NoAttr
  /\ discovery' = "idle" /\ raw' = <<>>
  /\ UNCHANGED <<port, deployed, deploys, lapses, toFetch, untouched, calling, sent, ran>>

-----------------------------------------------------------------------------
(* RemoteAgent.call, by ANPClient.call_jsonrpc and fetch_url *)

\* get_method: the first of its name
Described(name) == Those(raw, Named(Attr, name))[1]

StartCall(name) ==
  /\ discovery = "ready" /\ calling = NoAttr
  /\ \E i \in DOMAIN raw : RpcName[raw[i]] = name
  /\ calling' = Described(name) /\ sent' = "sent" /\ ran' = <<>>
  /\ UNCHANGED <<port, deployed, deploys, lapses, discovery, toFetch, raw, untouched>>

InFlight == sent \in {"sent", "resent"}

\* 401 is answered before any handler runs; openanp sends again, once, with a new header.
Unauthorized ==
  /\ InFlight /\ Lapse
  /\ sent' = IF sent = "sent" /\ port = "openanp" THEN "resent" ELSE "-32603"
  /\ UNCHANGED <<port, deployed, deploys, discovery, toFetch, raw, calling, ran>>

Handle ==
  /\ InFlight
  /\ LET handler == Handlers(deployed, RpcName[calling]) IN
       IF handler = NoAttr THEN sent' = "-32601" /\ UNCHANGED ran
       ELSE sent' = "handled" /\ ran' = Append(ran, handler)
  /\ UNCHANGED <<port, deployed, deploys, lapses, discovery, toFetch, raw, untouched, calling>>

GetResult ==
  /\ sent = "handled" /\ sent' = "result"
  /\ UNCHANGED <<port, deployed, deploys, lapses, discovery, toFetch, raw, untouched, calling, ran>>

\* A broken or late connection is an error, whether or not the handler ran.
AfterBreak == "-32603"
Break ==
  /\ InFlight \/ sent = "handled"
  /\ Lapse /\ sent' = AfterBreak
  /\ UNCHANGED <<port, deployed, deploys, discovery, toFetch, raw, calling, ran>>

EndCall ==
  /\ sent \in {"result", "-32601", "-32603"}
  /\ calling' = NoAttr /\ sent' = "no" /\ ran' = <<>>
  /\ UNCHANGED <<port, deployed, deploys, lapses, discovery, toFetch, raw, untouched>>

DiscoveryNext ==
  \/ \E S \in SUBSET Attr : Deploy(S)
  \/ FetchAd \/ FetchInterface \/ EndDiscovery \/ Forget
  \/ \E name \in Name : StartCall(name)
  \/ Unauthorized \/ Handle \/ GetResult \/ Break \/ EndCall

DiscoverySpec == DiscoveryInit /\ [][DiscoveryNext]_discoveryVars

-----------------------------------------------------------------------------
(* Properties *)

Distinct(S) == \A a, b \in S : RpcName[a] = RpcName[b] => a = b
Readable(S) ==
  IF port = "anp4j" THEN ToSet(ContentMethods(S))
  ELSE {a \in S : \/ InterfaceMode[a] = "link" /\ a \in Documented
                  \/ InterfaceMode[a] = "content" /\ ToSet(ContentMethods(S)) \subseteq Documented}

\* What discovery yields from several documents, in the face of failed fetches and of a
\* server replaced on the way: all that is readable when nothing came between, and a
\* failure only if there was nothing (client/agent.py:90-182, RemoteAgent.java:69-119).
DiscoversAll ==
  untouched /\ Distinct(deployed) =>
    /\ discovery = "ready" => ToSet(raw) = Readable(deployed)
    /\ discovery = "failed" => Readable(deployed) = {}

\* A call runs a handler at most once, although it is sent again after a 401, and one
\* with a result ran the method the client had read of, unless that was replaced or
\* shares its name; "method not found" is only said of a replaced server.
CallsOnce ==
  /\ Len(ran) <= 1
  /\ untouched /\ Distinct(deployed) =>
       /\ sent \in {"handled", "result"} => ran = <<calling>>
       /\ sent # "-32601"

\* What was read is what is called.
ReadIsCalled == DiscoversAll /\ CallsOnce

-----------------------------------------------------------------------------
(* What is inductive *)

\* What the reader gets from a URL
Yields(S, url) == IF Parses(Interface(S, url)) THEN ToSet(Interface(S, url)) ELSE {}

\* What was read and what is still to be read is all that is readable.
ReadingInv ==
  /\ discovery = "idle" => raw = <<>>
  /\ untouched /\ Distinct(deployed) /\ discovery = "reading" =>
       ToSet(raw) \union UNION {Yields(deployed, u) : u \in ToSet(toFetch)} = Readable(deployed)

\* A call is of a method that was read, and ran nothing before it was handled.
CallingInv ==
  /\ calling # NoAttr <=> sent # "no"
  /\ calling # NoAttr => discovery = "ready" /\ calling \in ToSet(raw)
  /\ sent \in {"no", "sent", "resent", "-32601"} => ran = <<>>

DiscoveryIInv == DiscoveryTypeOK /\ ReadingInv /\ CallingInv /\ ReadIsCalled
=============================================================================
