--------------------------- MODULE MetaNegotiation ---------------------------
(***************************************************************************)
(* Negotiating a protocol between two agents with the vendored SDK         *)
(* (src/anp/anp/meta_protocol): a MetaProtocol (meta_protocol.py) with its *)
(* ProtocolNegotiator (protocol_negotiator.py) at the requester, who calls *)
(* negotiate_protocol, and at the provider, who calls                      *)
(* wait_remote_negotiation, over one ordered connection.  Either may do so *)
(* again.  Then both generate code (code_generator/code_generator.py, of   *)
(* which only the success counts) and confirm it, as examples/python/      *)
(* negotiation_mode does.                                                  *)
(*                                                                         *)
(* A proposal is its number; what the language model decides is a choice,  *)
(* an exception included.  Round numbers are sent and compared, but a      *)
(* wrong one is only logged, so they are left out; so is the event that    *)
(* wakes a waiting coroutine, which at worst lets it wait another minute.  *)
(***************************************************************************)
EXTENDS Naturals, Sequences

CONSTANTS
  MaxRuns,        \* bound on calls of negotiate_protocol
  MaxProposals    \* bound on proposals; max_negotiation_rounds is never read

Requester == "requester"
Provider == "provider"
Side == {Requester, Provider}
Remote(e) == IF e = Requester THEN Provider ELSE Requester

NoProposal == 0
Proposal == 1 .. MaxProposals

VARIABLES
  metaPhase,      \* phase[e]: what e is doing
  last,       \* last[e]: latest entry of negotiation_history
  queue,      \* queue[e]: negotiation_messages
  taken,      \* taken[e]: the proposal that is being evaluated
  codeQueue,  \* codeQueue[e]: number of code_generation_messages
  link,       \* link[e]: messages under way to e, in order
  result,     \* result[e]: what _process_negotiation_messages returned last
  generated,  \* generated[e]: e has generated its code in this run
  confirmed,  \* confirmed[e]: wait_for_code_generation returned True in this run
  runs, proposals,
  untidy      \* history: somebody gave up waiting, or the requester began when
              \* the provider was not waiting or something was still under way

metaVars == <<metaPhase, last, queue, taken, codeQueue, link, result, generated, confirmed,
              runs, proposals, untidy>>

Negotiating == {"drafting", "waiting", "evaluating"}
Msg == [status : {"negotiating", "accepted", "rejected", "generated"},
        protocol : Proposal \union {NoProposal}]

MetaTypeOK ==
  /\ metaPhase \in [Side -> Negotiating \union {"idle", "generating", "confirming"}]
  /\ last \in [Side -> Proposal \union {NoProposal}]
  /\ taken \in [Side -> Proposal \union {NoProposal}]
  /\ queue \in [Side -> Seq(Msg)] /\ link \in [Side -> Seq(Msg)]
  /\ codeQueue \in [Side -> Nat]
  /\ result \in [Side -> Proposal \union {NoProposal}]
  /\ generated \in [Side -> BOOLEAN] /\ confirmed \in [Side -> BOOLEAN]
  /\ runs \in 0 .. MaxRuns /\ proposals \in 0 .. MaxProposals
  /\ untidy \in BOOLEAN

MetaInit ==
  /\ metaPhase = [e \in Side |-> "idle"]
  /\ last = [e \in Side |-> NoProposal] /\ taken = [e \in Side |-> NoProposal]
  /\ queue = [e \in Side |-> <<>>] /\ link = [e \in Side |-> <<>>]
  /\ codeQueue = [e \in Side |-> 0]
  /\ result = [e \in Side |-> NoProposal]
  /\ generated = [e \in Side |-> FALSE] /\ confirmed = [e \in Side |-> FALSE]
  /\ runs = 0 /\ proposals = 0
  /\ untidy = FALSE

SendToPeer(e, status, p) ==
  link' = [link EXCEPT ![Remote(e)] = Append(@, [status |-> status, protocol |-> p])]

Enters(e, ph) == metaPhase' = [metaPhase EXCEPT ![e] = ph]

-----------------------------------------------------------------------------
(* Beginning *)

\* A new negotiator and an empty queue; code generation messages are kept.
Begin(e) ==
  /\ last' = [last EXCEPT ![e] = NoProposal]
  /\ queue' = [queue EXCEPT ![e] = <<>>]
  /\ result' = [result EXCEPT ![e] = NoProposal]
  /\ generated' = [generated EXCEPT ![e] = FALSE]
  /\ confirmed' = [confirmed EXCEPT ![e] = FALSE]
  /\ UNCHANGED <<taken, codeQueue, link, proposals>>

Tidy ==
  /\ metaPhase[Provider] = "waiting" /\ queue[Provider] = <<>>
  /\ \A e \in Side : link[e] = <<>> /\ codeQueue[e] = 0

NegotiateProtocol ==
  /\ metaPhase[Requester] = "idle" /\ runs < MaxRuns
  /\ Begin(Requester)
  /\ Enters(Requester, "drafting")
  /\ runs' = runs + 1
  /\ untidy' = (untidy \/ ~Tidy)

\* A proposal that came before is dropped with the queue.
WaitRemoteNegotiation ==
  /\ metaPhase[Provider] = "idle"
  /\ Begin(Provider)
  /\ Enters(Provider, "waiting")
  /\ UNCHANGED <<runs, untidy>>

\* generate_initial_protocol; without a proposal the requester says so and waits.
Draft ==
  /\ metaPhase[Requester] = "drafting"
  /\ \/ /\ proposals < MaxProposals
        /\ proposals' = proposals + 1
        /\ last' = [last EXCEPT ![Requester] = proposals + 1]
        /\ SendToPeer(Requester, "negotiating", proposals + 1)
     \/ /\ SendToPeer(Requester, "rejected", NoProposal)
        /\ UNCHANGED <<proposals, last>>
  /\ Enters(Requester, "waiting")
  /\ UNCHANGED <<queue, taken, codeQueue, result, generated, confirmed, runs, untidy>>

-----------------------------------------------------------------------------
(* Messages *)

\* handle_meta_data: into one queue or the other, whatever the side is doing.
HandleMetaData(e) ==
  /\ link[e] # <<>>
  /\ LET m == Head(link[e]) IN
     IF m.status = "generated"
     THEN codeQueue' = [codeQueue EXCEPT ![e] = @ + 1] /\ UNCHANGED queue
     ELSE queue' = [queue EXCEPT ![e] = Append(@, m)] /\ UNCHANGED codeQueue
  /\ link' = [link EXCEPT ![e] = Tail(@)]
  /\ UNCHANGED <<metaPhase, last, taken, result, generated, confirmed, runs, proposals, untidy>>

Pop(e, status) ==
  /\ metaPhase[e] = "waiting" /\ queue[e] # <<>> /\ Head(queue[e]).status = status
  /\ queue' = [queue EXCEPT ![e] = Tail(@)]
  /\ UNCHANGED <<codeQueue, generated, confirmed, runs, untidy>>

\* The language model is asked; what arrives meanwhile is queued.
TakeProposal(e) ==
  /\ Pop(e, "negotiating")
  /\ taken' = [taken EXCEPT ![e] = Head(queue[e]).protocol]
  /\ Enters(e, "evaluating")
  /\ UNCHANGED <<last, link, result, proposals>>

\* ACCEPTED: the own latest proposal counts, if there is one; the answer says ACCEPTED too.
TakeAccepted(e) ==
  LET p == IF last[e] # NoProposal THEN last[e] ELSE Head(queue[e]).protocol IN
  /\ Pop(e, "accepted")
  /\ SendToPeer(e, "accepted", p)
  /\ result' = [result EXCEPT ![e] = p]
  /\ Enters(e, "generating")
  /\ UNCHANGED <<last, taken, proposals>>

\* REJECTED is answered with REJECTED.
TakeRejected(e) ==
  /\ Pop(e, "rejected")
  /\ SendToPeer(e, "rejected", NoProposal)
  /\ Enters(e, "idle")
  /\ UNCHANGED <<last, taken, result, proposals>>

Evaluated(e, ph) ==
  /\ metaPhase[e] = "evaluating"
  /\ Enters(e, ph)
  /\ taken' = [taken EXCEPT ![e] = NoProposal]
  /\ UNCHANGED <<queue, codeQueue, generated, confirmed, runs, untidy>>

\* Mutation: whoever accepts goes by its own latest proposal.
AcceptOwn(e) ==
  /\ Evaluated(e, "generating")
  /\ SendToPeer(e, "accepted", taken[e])
  /\ result' = [result EXCEPT ![e] = IF last[e] # NoProposal THEN last[e] ELSE taken[e]]
  /\ UNCHANGED <<last, proposals>>

Accept(e) ==
  /\ Evaluated(e, "generating")
  /\ SendToPeer(e, "accepted", taken[e])
  /\ result' = [result EXCEPT ![e] = taken[e]]
  /\ UNCHANGED <<last, proposals>>

Counter(e) ==
  /\ proposals < MaxProposals
  /\ Evaluated(e, "waiting")
  /\ proposals' = proposals + 1
  /\ last' = [last EXCEPT ![e] = proposals + 1]
  /\ SendToPeer(e, "negotiating", proposals + 1)
  /\ UNCHANGED result

\* The proposal is no good, or evaluating it raised an exception.
Reject(e) ==
  /\ Evaluated(e, "idle")
  /\ SendToPeer(e, "rejected", NoProposal)
  /\ UNCHANGED <<last, result, proposals>>

\* negotiation_timeout_seconds
Abandon(e) ==
  /\ metaPhase[e] = "waiting" /\ queue[e] = <<>>
  /\ Enters(e, "idle")
  /\ untidy' = TRUE
  /\ UNCHANGED <<last, queue, taken, codeQueue, link, result, generated, confirmed, runs, proposals>>

-----------------------------------------------------------------------------
(* Code *)

\* ProtocolCodeGenerator.generate, then notify_code_generation if it succeeds.
GenerateCode(e) ==
  /\ metaPhase[e] = "generating"
  /\ \/ /\ Enters(e, "confirming")
        /\ generated' = [generated EXCEPT ![e] = TRUE]
        /\ SendToPeer(e, "generated", NoProposal)
     \/ Enters(e, "idle") /\ UNCHANGED <<generated, link>>
  /\ UNCHANGED <<last, queue, taken, codeQueue, result, confirmed, runs, proposals, untidy>>

\* wait_for_code_generation: any message in the queue will do.
HearGenerated(e) ==
  /\ metaPhase[e] = "confirming" /\ codeQueue[e] > 0
  /\ codeQueue' = [codeQueue EXCEPT ![e] = @ - 1]
  /\ confirmed' = [confirmed EXCEPT ![e] = TRUE]
  /\ Enters(e, "idle")
  /\ UNCHANGED <<last, queue, taken, link, result, generated, runs, proposals, untidy>>

\* code_generation_timeout_seconds
StopConfirming(e) ==
  /\ metaPhase[e] = "confirming" /\ codeQueue[e] = 0
  /\ Enters(e, "idle")
  /\ untidy' = TRUE
  /\ UNCHANGED <<last, queue, taken, codeQueue, link, result, generated, confirmed, runs, proposals>>

-----------------------------------------------------------------------------
MetaNext ==
  \/ NegotiateProtocol \/ WaitRemoteNegotiation \/ Draft
  \/ \E e \in Side :
       \/ HandleMetaData(e)
       \/ TakeProposal(e) \/ TakeAccepted(e) \/ TakeRejected(e)
       \/ Accept(e) \/ Counter(e) \/ Reject(e)
       \/ Abandon(e)
       \/ GenerateCode(e) \/ HearGenerated(e) \/ StopConfirming(e)

MetaSpec == MetaInit /\ [][MetaNext]_metaVars

-----------------------------------------------------------------------------
(* Properties *)

\* Unless somebody gave up or began too early, both sides end with the same protocol
\* or both without one: the echo of a final answer (meta_protocol.py:394-415) does
\* not leak into a later negotiation.
Agreement ==
  ~untidy /\ (\A e \in Side : metaPhase[e] \notin Negotiating /\ link[e] = <<>>)
    => result[Requester] = result[Provider]
-----------------------------------------------------------------------------
(* The inductive invariant.  Messages that code was generated count for nothing in it. *)

NoTalk(l) == \A i \in DOMAIN l : l[i].status = "generated"
SilentIn(q, l) == q = <<>> /\ NoTalk(l)
Silent(e) == SilentIn(queue[e], link[e])

\* At most one message is under way to e or in its queue, and it is in S.
SingleIn(q, l, S) ==
  \/ SilentIn(q, l)
  \/ Len(q) = 1 /\ q[1] \in S /\ NoTalk(l)
  \/ /\ q = <<>>
     /\ \A i \in DOMAIN l : l[i].status # "generated" =>
          l[i] \in S /\ \A j \in DOMAIN l : l[j].status # "generated" => j = i
Single(e, S) == SingleIn(queue[e], link[e], S)

\* The last word of a negotiation that came to p, or to nothing
LastWord(p) == {m \in Msg : IF p = NoProposal THEN m.status = "rejected"
                            ELSE m.status = "accepted" /\ m.protocol = p}

\* The requester has p.  The provider has it as well, or waits, for the last word about p
\* perhaps, which its own latest proposal does not gainsay.
Over ==
  LET p == result[Requester] IN
  /\ metaPhase[Requester] \notin Negotiating
  /\ Single(Provider, LastWord(p))
  /\ \/ metaPhase[Provider] \notin Negotiating /\ result[Provider] = p
     \/ /\ metaPhase[Provider] = "waiting" /\ result[Provider] = NoProposal
        /\ p = NoProposal \/ Silent(Provider) \/ last[Provider] \in {NoProposal, p}

Drafting ==
  /\ metaPhase[Requester] = "drafting" /\ metaPhase[Provider] = "waiting"
  /\ Silent(Requester) /\ Silent(Provider)
  /\ result[Requester] = NoProposal /\ result[Provider] = NoProposal

\* It is the turn of e, about the latest proposal of the other one, unless the requester
\* had none to begin with.
Turn(e) ==
  LET o == Remote(e) IN
  /\ metaPhase[o] = "waiting" /\ Silent(o)
  /\ result[e] = NoProposal /\ result[o] = NoProposal
  /\ \/ /\ metaPhase[e] = "waiting" /\ ~Silent(e)
        /\ \/ /\ last[o] # NoProposal
              /\ Single(e, {m \in Msg : m.status = "negotiating" /\ m.protocol = last[o]})
           \/ e = Provider /\ Single(e, LastWord(NoProposal))
     \/ /\ metaPhase[e] = "evaluating" /\ Silent(e)
        /\ taken[e] = last[o] /\ last[o] # NoProposal

\* The provider has ended it with p, and the requester does not know it yet.
Ending(p) ==
  /\ metaPhase[Requester] = "waiting" /\ result[Requester] = NoProposal
  /\ ~Silent(Requester) /\ Single(Requester, LastWord(p))
  /\ p # NoProposal => last[Requester] = p
  /\ Silent(Provider)
  /\ \/ metaPhase[Provider] \notin Negotiating /\ result[Provider] = p
     \/ /\ metaPhase[Provider] = "waiting" /\ result[Provider] = NoProposal
        /\ last[Provider] = NoProposal

\* Unless somebody gave up or began too early, this is where the negotiation stands.
Stage ==
  \/ Over \/ Drafting
  \/ \E e \in Side : Turn(e)
  \/ \E p \in Proposal \union {NoProposal} : Ending(p)

QueuesTalk == \A e \in Side : \A i \in DOMAIN queue[e] : queue[e][i].status # "generated"

MetaIInv == MetaTypeOK /\ QueuesTalk /\ (~untidy => Stage)
=============================================================================
