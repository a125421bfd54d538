------------------------------ MODULE RpcServer ------------------------------
(***************************************************************************)
(* The JSON-RPC server of an agent, in the dialect of openanp              *)
(* (src/anp/anp/openanp/autogen.py), of fastanp (interface_manager.py) or  *)
(* of anp4j (AgentHandler.java, on Spring's threads), of which the latter  *)
(* two take one request at a time; and its sessions, one per DID           *)
(* (context.py, the same in the first two; SessionManager.java).  A batch  *)
(* is a gather of coroutines: they start in order, run up to their first   *)
(* await in one go, and end in any order.                                  *)
(***************************************************************************)
EXTENDS Naturals, Sequences, SequencesExt, Selection

CONSTANTS
  Did,             \* who asks
  Conn,            \* requests of HTTP at work at once
  Kinds,           \* what an item of a batch may be, of the kinds below
  MaxBatch,        \* of each connection
  SessionTimeout, CleanupInterval,            \* of the SessionManager, in clock ticks
  NoSession,
  MaxRpcClock                                 \* bound

\* No JSON object; one that does not say it is JSON-RPC 2.0; an unknown method; one without a
\* context; one called with the wrong parameters; one whose work raises a ValueError, a
\* TypeError or anything else; and one that does its work.
Kind == {"foreign", "invalid", "unknown", "plain", "badParams", "valueError", "typeError", "raises",
         "fine"}

ASSUME KindAssumption == Kinds \subseteq Kind
ASSUME SessionAssumption ==
  SessionTimeout \in Nat /\ CleanupInterval \in Nat \ {0} /\ MaxRpcClock \in Nat

VARIABLES
  dialect,         \* which of the three servers this is
  rpcClock,
  sessions,        \* of each DID, when it was created and last accessed
  lastCleanup,
  caller, batch,   \* of a connection at work; its batch is empty when it is not
  progress,        \* of every item
  held,            \* the session its handler holds
  answers,         \* what it came to
  reply,           \* whether the connection was sent the responses
  toSweep, doomed, \* of anp4j's cleanup thread: what it has to look at, what it saw expired
  snatched         \* history: DIDs it has taken a session from that had not expired

sweepVars == <<toSweep, doomed, snatched>>
rpcVars == <<dialect, rpcClock, sessions, lastCleanup, caller, batch, progress, held, answers,
             reply, sweepVars>>

Time == 0 .. MaxRpcClock
Item == [id : BOOLEAN, kind : Kinds]
Session == [created : Time, accessed : Time]
ASSUME BatchAssumption ==
  MaxBatch \in [Conn -> Nat \ {0}] /\ Did # {} /\ NoSession \notin Session
\* The session, since when it is held, and how long it had been idle then
Held == [did : Did, created : Time, since : Time, idle : Time]
Code == {"result", "-32700", "-32600", "-32601", "-32602", "-32603", "exception", "none"}

RpcTypeOK ==
  /\ dialect \in {"openanp", "fastanp", "anp4j"}
  /\ rpcClock \in Time /\ lastCleanup \in Time
  /\ sessions \in [Did -> Session \union {NoSession}]
  /\ caller \in [Conn -> Did]
  /\ batch \in [Conn -> Seq(Item)]
  /\ progress \in [Conn -> Seq({"waiting", "running", "done"})]
  /\ held \in [Conn -> Seq(Held \union {NoSession})]
  /\ answers \in [Conn -> Seq(Code)]
  /\ reply \in [Conn -> {"none", "responses", "failed"}]
  /\ toSweep \subseteq Did /\ snatched \subseteq Did
  /\ doomed \in Did \union {NoSession}

RpcInit ==
  /\ dialect \in {"openanp", "fastanp", "anp4j"}
  /\ rpcClock = 0 /\ lastCleanup = 0
  /\ sessions = [d \in Did |-> NoSession]
  /\ caller = [c \in Conn |-> CHOOSE d \in Did : TRUE]
  /\ batch = [c \in Conn |-> <<>>] /\ progress = [c \in Conn |-> <<>>]
  /\ held = [c \in Conn |-> <<>>] /\ answers = [c \in Conn |-> <<>>]
  /\ reply = [c \in Conn |-> "none"]
  /\ toSweep = {} /\ doomed = NoSession /\ snatched = {}

Tick ==
  /\ rpcClock < MaxRpcClock /\ rpcClock' = rpcClock + 1
  /\ UNCHANGED <<dialect, sessions, lastCleanup, caller, batch, progress, held, answers, reply,
                 sweepVars>>

\* A body arrives: a list that is not empty, or one request.
Submit(c, d, items) ==
  /\ batch[c] = <<>>
  /\ dialect # "openanp" => Len(items) = 1
  /\ caller' = [caller EXCEPT ![c] = d]
  /\ batch' = [batch EXCEPT ![c] = items]
  /\ progress' = [progress EXCEPT ![c] = [i \in DOMAIN items |-> "waiting"]]
  /\ held' = [held EXCEPT ![c] = [i \in DOMAIN items |-> NoSession]]
  /\ answers' = [answers EXCEPT ![c] = [i \in DOMAIN items |-> "none"]]
  /\ UNCHANGED <<dialect, rpcClock, sessions, lastCleanup, reply, sweepVars>>

-----------------------------------------------------------------------------
(* SessionManager: get_or_create, getSession, cleanupExpired *)

Expired(d) == sessions[d] # NoSession /\ rpcClock - sessions[d].accessed > SessionTimeout
CleanupIsDue == rpcClock - lastCleanup >= CleanupInterval

\* Python looks for expired sessions when one is asked for, Java replaces the one asked for.
Kept ==
  [d \in Did |-> IF dialect # "anp4j" /\ CleanupIsDue /\ Expired(d) THEN NoSession ELSE sessions[d]]
Current(d) == IF dialect = "anp4j" /\ Expired(d) THEN NoSession ELSE Kept[d]

Touched(s) == [s EXCEPT !.accessed = rpcClock]

GetOrCreate(d) ==
  IF Current(d) # NoSession THEN Touched(Current(d))
  ELSE [created |-> rpcClock, accessed |-> rpcClock]

IdleOf(d) == IF Current(d) = NoSession THEN 0 ELSE rpcClock - Current(d).accessed

\* The cleanup thread of anp4j: what it has seen expired it removes by the key, in a second step.
StartSweep ==
  /\ dialect = "anp4j" /\ CleanupIsDue /\ toSweep = {} /\ doomed = NoSession
  /\ lastCleanup' = rpcClock
  /\ toSweep' = {d \in Did : sessions[d] # NoSession}
  /\ UNCHANGED <<dialect, rpcClock, sessions, caller, batch, progress, held, answers, reply,
                 doomed, snatched>>

SweepLooks(d) ==
  /\ d \in toSweep /\ doomed = NoSession
  /\ toSweep' = toSweep \ {d}
  /\ doomed' = IF Expired(d) THEN d ELSE NoSession
  /\ UNCHANGED <<dialect, rpcClock, sessions, lastCleanup, caller, batch, progress, held, answers,
                 reply, snatched>>

SweepRemoves ==
  /\ doomed # NoSession /\ doomed' = NoSession
  /\ sessions' = [sessions EXCEPT ![doomed] = NoSession]
  /\ snatched' = IF Expired(doomed) THEN snatched ELSE snatched \union {doomed}
  /\ UNCHANGED <<dialect, rpcClock, lastCleanup, caller, batch, progress, held, answers, reply,
                 toSweep>>

InjectContext(c, i) ==
  LET d == caller[c] IN
    /\ lastCleanup' = IF dialect # "anp4j" /\ CleanupIsDue THEN rpcClock ELSE lastCleanup
    /\ sessions' = [Kept EXCEPT ![d] = GetOrCreate(d)]
    /\ held' = [held EXCEPT ![c][i] =
         [did |-> d, created |-> GetOrCreate(d).created, since |-> rpcClock, idle |-> IdleOf(d)]]

-----------------------------------------------------------------------------
(* process_single_rpc_request, as a coroutine of process_batch_rpc_request *)

Starts(c, i) ==
  /\ progress[c][i] = "waiting"
  /\ \A j \in 1 .. i - 1 : progress[c][j] # "waiting"
Becomes(c, i, stage, code) ==
  /\ progress' = [progress EXCEPT ![c][i] = stage]
  /\ answers' = [answers EXCEPT ![c][i] = code]
  /\ UNCHANGED <<dialect, rpcClock, caller, batch, reply, sweepVars>>

\* What is answered without a call.  In openanp whatever is no object fails in its own
\* error handling, and the exception is the batch's.
OpenanpRefusals == [foreign |-> "exception", invalid |-> "-32600", unknown |-> "-32601"]
\* fastanp does not look for the version.
FastanpRefusals == [foreign |-> "-32600", unknown |-> "-32601"]
\* anp4j's MethodHandler tells what is lacking before it calls the method.
Lacking == "-32602"
Anp4jRefusals ==
  [foreign |-> "-32700", invalid |-> "-32600", unknown |-> "-32601", badParams |-> Lacking]
Refusals ==
  CASE dialect = "openanp" -> OpenanpRefusals [] dialect = "fastanp" -> FastanpRefusals
    [] OTHER -> Anp4jRefusals

\* Spring's controller makes the context before it looks at the body.
HasContext(c, i) == batch[c][i].kind # "plain" \/ dialect = "anp4j"

Refuse(c, i) ==
  /\ Starts(c, i) /\ batch[c][i].kind \in DOMAIN Refusals
  /\ IF dialect = "anp4j" THEN InjectContext(c, i)
     ELSE UNCHANGED <<sessions, lastCleanup, held>>
  /\ Becomes(c, i, "done", Refusals[batch[c][i].kind])

Call(c, i) ==
  /\ Starts(c, i) /\ batch[c][i].kind \notin DOMAIN Refusals \union {"badParams"}
  /\ IF HasContext(c, i) THEN InjectContext(c, i) ELSE UNCHANGED <<sessions, lastCleanup, held>>
  /\ Becomes(c, i, "running", "none")

\* The context is made before the call raises TypeError.
CallWrongly(c, i) ==
  /\ Starts(c, i) /\ batch[c][i].kind = "badParams" /\ dialect # "anp4j"
  /\ InjectContext(c, i)
  /\ Becomes(c, i, "done", "-32602")

\* What the work of a method raises is taken for what is wrong with the call, in openanp a
\* ValueError for the request, in Python a TypeError for its parameters.
Raised ==
  [valueError |-> IF dialect = "openanp" THEN "-32600" ELSE "-32603",
   typeError |-> IF dialect = "anp4j" THEN "-32603" ELSE "-32602",
   raises |-> "-32603"]
AnswerTo(kind) == IF kind \in DOMAIN Raised THEN Raised[kind] ELSE "result"

Return(c, i) ==
  /\ progress[c][i] = "running"
  /\ Becomes(c, i, "done", AnswerTo(batch[c][i].kind))
  /\ UNCHANGED <<sessions, lastCleanup, held>>

-----------------------------------------------------------------------------
(* The gather of process_batch_rpc_request and the endpoint *)

Requests(c) == DOMAIN batch[c]

\* Mutation: the answers to requests that want none shift those of the others.
RespondedUnfiltered(c) ==
  [k \in 1 .. Cardinality({i \in Requests(c) : batch[c][i].id}) |-> [place |-> k, code |-> answers[c][k]]]

\* zip(batch, results), without those that have no id; the others answer those as well.
Wants(c, i) == batch[c][i].id \/ dialect # "openanp"
Responded(c) ==
  LET answered == InOrder({i \in Requests(c) : Wants(c, i)})
  IN [k \in DOMAIN answered |-> [place |-> answered[k], code |-> answers[c][answered[k]]]]

Reply(c) ==
  /\ batch[c] # <<>> /\ reply[c] = "none"
  /\ \A i \in Requests(c) : progress[c][i] = "done" /\ answers[c][i] # "exception"
  /\ reply' = [reply EXCEPT ![c] = "responses"]
  /\ UNCHANGED <<dialect, rpcClock, sessions, lastCleanup, caller, batch, progress, held, answers,
                 sweepVars>>

\* The first exception ends the request with status 500; the other coroutines run on.
Fail(c) ==
  /\ reply[c] = "none" /\ \E i \in Requests(c) : answers[c][i] = "exception"
  /\ reply' = [reply EXCEPT ![c] = "failed"]
  /\ UNCHANGED <<dialect, rpcClock, sessions, lastCleanup, caller, batch, progress, held, answers,
                 sweepVars>>

Close(c) ==
  /\ reply[c] # "none" /\ \A i \in Requests(c) : progress[c][i] = "done"
  /\ batch' = [batch EXCEPT ![c] = <<>>] /\ progress' = [progress EXCEPT ![c] = <<>>]
  /\ held' = [held EXCEPT ![c] = <<>>] /\ answers' = [answers EXCEPT ![c] = <<>>]
  /\ reply' = [reply EXCEPT ![c] = "none"]
  /\ UNCHANGED <<dialect, rpcClock, sessions, lastCleanup, caller, sweepVars>>

RpcNext ==
  \/ Tick \/ StartSweep \/ SweepRemoves
  \/ \E d \in Did : SweepLooks(d)
  \/ \E c \in Conn :
       \/ Reply(c) \/ Fail(c) \/ Close(c)
       \/ \E d \in Did, n \in 1 .. MaxBatch[c] : \E items \in [1 .. n -> Item] : Submit(c, d, items)
       \/ \E i \in Requests(c) : Refuse(c, i) \/ Call(c, i) \/ CallWrongly(c, i) \/ Return(c, i)

RpcSpec == RpcInit /\ [][RpcNext]_rpcVars

-----------------------------------------------------------------------------
(* Properties *)

HeldAt(c) == {held[c][i] : i \in {j \in Requests(c) : held[c][j] # NoSession}}

Outcome(kind) ==
  IF kind \in DOMAIN Refusals THEN Refusals[kind]
  ELSE IF kind = "badParams" THEN "-32602" ELSE AnswerTo(kind)

\* Two handlers that hold different sessions of a DID are a timeout apart, unless anp4j's
\* cleanup took a new session for the expired one it had seen; and none is handed a
\* session idle for longer than the timeout and a cleanup interval.
OneSession ==
  \A c, e \in Conn : \A h \in HeldAt(c), g \in HeldAt(e) :
    /\ h.did = g.did /\ h.created < g.created /\ h.did \notin snatched =>
         h.since + SessionTimeout < g.created
    /\ h.idle < SessionTimeout + CleanupInterval

\* Every request with an id, and no other unless it is fastanp's, is answered in its place
\* and by its own outcome, whatever the order the handlers end in.
BatchAnswered ==
  \A c \in Conn : reply[c] = "responses" =>
    /\ {r.place : r \in ToSet(Responded(c))} = {i \in Requests(c) : Wants(c, i)}
    /\ \A k \in DOMAIN Responded(c) :
         /\ Responded(c)[k].code = Outcome(batch[c][Responded(c)[k].place].kind)
         /\ k > 1 => Responded(c)[k - 1].place < Responded(c)[k].place

\* A DID has one session however its requests overlap, and is never handed an outdated
\* one (openanp/context.py get_or_create, SessionManager.java getSession); and a batch
\* whose requests run side by side is answered in order (autogen.py:283-334).
ServedInOrder == OneSession /\ BatchAnswered

-----------------------------------------------------------------------------
(* What is inductive *)

\* What is known of the items of a batch is as long as the batch.
LengthsInv ==
  \A c \in Conn :
    /\ DOMAIN progress[c] = Requests(c) /\ DOMAIN held[c] = Requests(c)
    /\ DOMAIN answers[c] = Requests(c)

\* A session was accessed since it was created, not later than now, and in Python not long
\* before the last look for expired ones.
SessionsInv ==
  /\ lastCleanup <= rpcClock
  /\ \A d \in Did : sessions[d] # NoSession =>
       /\ sessions[d].created <= sessions[d].accessed /\ sessions[d].accessed <= rpcClock
       /\ dialect # "anp4j" => lastCleanup <= sessions[d].accessed + SessionTimeout

\* A handler holds the session its DID has, or one that had expired when that was made.
HeldInv ==
  \A c \in Conn : \A h \in HeldAt(c) :
    /\ h.created <= h.since /\ h.since <= rpcClock
    /\ h.idle < SessionTimeout + CleanupInterval
    /\ h.did \notin snatched =>
         IF sessions[h.did] = NoSession THEN h.since + SessionTimeout < rpcClock
         ELSE \/ h.created = sessions[h.did].created /\ h.since <= sessions[h.did].accessed
              \/ h.since + SessionTimeout < sessions[h.did].created

\* What is done was answered by its own outcome, and what is running was not refused.
AnsweredInv ==
  \A c \in Conn :
    /\ \A i \in Requests(c) :
         /\ progress[c][i] = "done" => answers[c][i] = Outcome(batch[c][i].kind)
         /\ progress[c][i] = "running" =>
              batch[c][i].kind \notin DOMAIN Refusals \union {"badParams"}
    /\ reply[c] # "none" => Requests(c) # {}
    /\ reply[c] = "responses" => \A i \in Requests(c) : progress[c][i] = "done"

RpcIInv ==
  RpcTypeOK /\ LengthsInv /\ SessionsInv /\ HeldInv /\ AnsweredInv /\ OneSession
=============================================================================
