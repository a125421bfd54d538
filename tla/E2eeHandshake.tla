---------------------------- MODULE E2eeHandshake ----------------------------
(***************************************************************************)
(* The handshake of the vendored SDK's older encryption over HTTP          *)
(* (src/anp/anp/e2e_encryption_v2): the session objects of session.py and, *)
(* at each of two ends, the E2eeKeyManager of key_manager.py that finds    *)
(* them.  Handlers combine the two as examples/python/                     *)
(* e2e_encryption_v2_examples does: a handshake is pending under its       *)
(* session id until Finished promotes it to the sessions found by key.     *)
(*                                                                         *)
(* A session object draws one random number and one ephemeral key: both    *)
(* are the object here, so the keys and the secret_key_id a handshake      *)
(* derives are the pair of its objects, and the session id is the object   *)
(* of the initiator.  Messages are consumed when they arrive; losing,      *)
(* repeating and reordering them are faults.  Cipher suites always agree.  *)
(***************************************************************************)
EXTENDS Naturals, Sequences, FiniteSets, Bags

CONSTANTS
  Ends,         \* the two ends
  MaxObj,       \* session objects ever made
  NoObj,        \* None
  MaxKeys,      \* MAX_CONCURRENT_KEYS
  MaxE2eeMishaps  \* bound on lost and repeated messages, timeouts and expired keys

Obj == 1 .. MaxObj   \* session objects, in the order they are made

VARIABLES
  owner,        \* owner[o]: the end whose object o is; NoObj before it is made
  stage,        \* stage[o]: _state
  role,         \* role[o]: _is_initiator
  sidOf,        \* sidOf[o]: session_id
  peerOf,       \* peerOf[o]: the object whose random and key share o took
  pending,      \* pending[e]: _pending_sessions, objects by session id
  byPair,       \* byPair[e]: _sessions_by_did_pair
  byKey,        \* byKey[e]: _sessions_by_key_id
  expired,      \* active objects whose keys have expired
  wire,         \* messages under way, a bag for repeated ones
  mishaps,      \* lost and repeated messages, timeouts and expired keys
  overtaken     \* history: a Finished came before the hello it follows

objVars == <<owner, stage, role, sidOf, peerOf>>
managerVars == <<pending, byPair, byKey, expired>>
handshakeVars == <<objVars, managerVars, wire, mishaps, overtaken>>

Other(e) == CHOOSE f \in Ends : f # e
Made == {o \in Obj : owner[o] # NoObj}
IsNext(o) == o = Cardinality(Made) + 1

\* secret_key_id and keys: initiator's and responder's object.
KeyPair(o) == IF role[o] = "src" THEN <<o, peerOf[o]>> ELSE <<peerOf[o], o>>

Wire == [kind : {"source_hello", "destination_hello", "finished"},
         to : Ends, sid : Obj, by : Obj, keys : Obj \X (Obj \union {NoObj})]

HandshakeTypes ==
  /\ owner \in [Obj -> Ends \union {NoObj}]
  /\ stage \in [Obj -> {"idle", "initiated", "completing", "active"}]
  /\ role \in [Obj -> {"none", "src", "dst"}]
  /\ sidOf \in [Obj -> Obj]
  /\ peerOf \in [Obj -> Obj \union {NoObj}]
  /\ pending \in [Ends -> [Obj -> Obj \union {NoObj}]]
  /\ byKey \in [Ends -> SUBSET Made]
  /\ expired \subseteq Made
  /\ IsABag(wire) /\ BagToSet(wire) \subseteq Wire
  /\ mishaps \in 0 .. MaxE2eeMishaps
  /\ overtaken \in BOOLEAN

HandshakeTypeOK ==
  /\ HandshakeTypes
  /\ \A e \in Ends : byPair[e] \in Seq(Made) /\ Len(byPair[e]) <= MaxKeys

HandshakeInit ==
  /\ owner = [o \in Obj |-> NoObj]
  /\ stage = [o \in Obj |-> "idle"]
  /\ role = [o \in Obj |-> "none"]
  /\ sidOf = [o \in Obj |-> o]
  /\ peerOf = [o \in Obj |-> NoObj]
  /\ pending = [e \in Ends |-> [s \in Obj |-> NoObj]]
  /\ byPair = [e \in Ends |-> <<>>]
  /\ byKey = [e \in Ends |-> {}]
  /\ expired = {}
  /\ wire = EmptyBag
  /\ mishaps = 0
  /\ overtaken = FALSE

-----------------------------------------------------------------------------
(* The wire *)

Drop(w, m) == w (-) SetToBag({m})
Put(w, ms) == w (+) SetToBag(ms)

HandshakeMsg(kind, o, s, keys) ==
  [kind |-> kind, to |-> Other(owner[o]), sid |-> s, by |-> o, keys |-> keys]

E2eeMishap == mishaps < MaxE2eeMishaps /\ mishaps' = mishaps + 1

Lose(m) ==
  /\ E2eeMishap
  /\ wire' = Drop(wire, m)
  /\ UNCHANGED <<objVars, managerVars, overtaken>>

\* A request is sent again: its content comes twice.
Repeat(m) ==
  /\ E2eeMishap
  /\ wire' = Put(wire, {m})
  /\ UNCHANGED <<objVars, managerVars, overtaken>>

\* The handler raises; the message is gone.
Refuse(m) ==
  /\ wire' = Drop(wire, m)
  /\ UNCHANGED <<objVars, managerVars, mishaps>>

-----------------------------------------------------------------------------
(* Handshakes *)

\* initiate_handshake of a new session, and register_pending_session
InitiateHandshake(e, o) ==
  /\ IsNext(o)
  /\ owner' = [owner EXCEPT ![o] = e]
  /\ stage' = [stage EXCEPT ![o] = "initiated"]
  /\ role' = [role EXCEPT ![o] = "src"]
  /\ pending' = [pending EXCEPT ![e][o] = o]
  /\ wire' = Put(wire, {[kind |-> "source_hello", to |-> Other(e), sid |-> o, by |-> o,
                         keys |-> <<o, NoObj>>]})
  /\ UNCHANGED <<sidOf, peerOf, byPair, byKey, expired, mishaps, overtaken>>

\* process_source_hello of a new session, registered pending in place of any other
\* with this session id.
ProcessSourceHello(m, o) ==
  /\ m.kind = "source_hello" /\ IsNext(o)
  /\ owner' = [owner EXCEPT ![o] = m.to]
  /\ stage' = [stage EXCEPT ![o] = "completing"]
  /\ role' = [role EXCEPT ![o] = "dst"]
  /\ sidOf' = [sidOf EXCEPT ![o] = m.sid]
  /\ peerOf' = [peerOf EXCEPT ![o] = m.by]
  /\ pending' = [pending EXCEPT ![m.to][m.sid] = o]
  /\ wire' = Put(Drop(wire, m),
       {[kind |-> k, to |-> Other(m.to), sid |-> m.sid, by |-> o, keys |-> <<m.by, o>>] :
          k \in {"destination_hello", "finished"}})
  /\ UNCHANGED <<byPair, byKey, expired, mishaps, overtaken>>

\* Mutation: the session is looked up with pop and not put back.
ProcessDestinationHelloPopping(m, o) ==
  /\ m.kind = "destination_hello" /\ pending[m.to][m.sid] = o
  /\ stage[o] = "initiated"
  /\ stage' = [stage EXCEPT ![o] = "completing"]
  /\ peerOf' = [peerOf EXCEPT ![o] = m.by]
  /\ pending' = [pending EXCEPT ![m.to][m.sid] = NoObj]
  /\ wire' = Put(Drop(wire, m), {HandshakeMsg("finished", o, m.sid, <<o, m.by>>)})
  /\ UNCHANGED <<owner, role, sidOf, byPair, byKey, expired, mishaps, overtaken>>

\* process_destination_hello of the pending session
ProcessDestinationHello(m, o) ==
  /\ m.kind = "destination_hello" /\ pending[m.to][m.sid] = o
  /\ stage[o] = "initiated"
  /\ stage' = [stage EXCEPT ![o] = "completing"]
  /\ peerOf' = [peerOf EXCEPT ![o] = m.by]
  /\ wire' = Put(Drop(wire, m), {HandshakeMsg("finished", o, m.sid, <<o, m.by>>)})
  /\ UNCHANGED <<owner, role, sidOf, managerVars, mishaps, overtaken>>

RefuseDestinationHello(m) ==
  /\ m.kind = "destination_hello"
  /\ IF pending[m.to][m.sid] = NoObj THEN TRUE ELSE stage[pending[m.to][m.sid]] # "initiated"
  /\ Refuse(m)
  /\ UNCHANGED overtaken

\* process_finished: it opens with the keys o derived and names them.
Verifies(o, m) == KeyPair(o) = m.keys /\ m.by # o

\* Mutation: nothing makes room.
RegisterActiveUnbounded(e, o) ==
  /\ byPair' = [byPair EXCEPT ![e] = Append(@, o)]
  /\ byKey' = [byKey EXCEPT ![e] = @ \union {o}]

\* _register_active: the oldest sessions make room.
RegisterActive(e, o) ==
  /\ byPair' = [byPair EXCEPT ![e] =
       Append(IF Len(@) >= MaxKeys THEN Tail(@) ELSE @, o)]
  /\ byKey' = [byKey EXCEPT ![e] =
       (IF Len(byPair[e]) >= MaxKeys THEN @ \ {Head(byPair[e])} ELSE @) \union {o}]

\* process_finished of the pending session, and promote_pending_session
ProcessFinished(m, o) ==
  /\ m.kind = "finished" /\ pending[m.to][m.sid] = o
  /\ stage[o] = "completing" /\ Verifies(o, m)
  /\ stage' = [stage EXCEPT ![o] = "active"]
  /\ pending' = [pending EXCEPT ![m.to][m.sid] = NoObj]
  /\ RegisterActive(m.to, o)
  /\ wire' = Drop(wire, m)
  /\ UNCHANGED <<owner, role, sidOf, peerOf, expired, mishaps, overtaken>>

RefuseFinished(m) ==
  LET o == pending[m.to][m.sid] IN
  /\ m.kind = "finished"
  /\ IF o = NoObj THEN TRUE ELSE stage[o] # "completing" \/ ~Verifies(o, m)
  /\ Refuse(m)
  /\ overtaken' = (overtaken \/ (o # NoObj /\ \E d \in BagToSet(wire) :
                     d.kind = "destination_hello" /\ d.to = m.to /\ d.sid = m.sid))

-----------------------------------------------------------------------------
(* Time *)

\* HANDSHAKE_TIMEOUT, noticed by get_pending_session or cleanup_expired
TimeoutPending(e, s) ==
  /\ E2eeMishap
  /\ pending[e][s] # NoObj
  /\ pending' = [pending EXCEPT ![e][s] = NoObj]
  /\ UNCHANGED <<objVars, byPair, byKey, expired, wire, overtaken>>

Expire(o) ==
  /\ E2eeMishap
  /\ stage[o] = "active" /\ o \notin expired
  /\ expired' = expired \union {o}
  /\ UNCHANGED <<objVars, pending, byPair, byKey, wire, overtaken>>

\* cleanup_expired
CleanupExpired(e) ==
  LET alive(o) == o \notin expired IN
  /\ \E i \in DOMAIN byPair[e] : byPair[e][i] \in expired
  /\ byPair' = [byPair EXCEPT ![e] = SelectSeq(@, alive)]
  /\ byKey' = [byKey EXCEPT ![e] = @ \ {o \in expired : owner[o] = e}]
  /\ UNCHANGED <<objVars, pending, expired, wire, mishaps, overtaken>>

\* remove_session, by the application
RemoveSession(e, o) ==
  /\ o \in byKey[e]
  /\ pending' = [pending EXCEPT ![e][sidOf[o]] = NoObj]
  /\ byKey' = [byKey EXCEPT ![e] = @ \ {o}]
  /\ LET others(q) == sidOf[q] # sidOf[o]
     IN byPair' = [byPair EXCEPT ![e] = SelectSeq(@, others)]
  /\ UNCHANGED <<objVars, expired, wire, mishaps, overtaken>>

-----------------------------------------------------------------------------
Deliver(m) ==
  \/ \E o \in Obj : ProcessSourceHello(m, o)
  \/ \E o \in Made : ProcessDestinationHello(m, o) \/ ProcessFinished(m, o)
  \/ RefuseDestinationHello(m) \/ RefuseFinished(m)

HandshakeNext ==
  \/ \E e \in Ends, o \in Obj : InitiateHandshake(e, o)
  \/ \E m \in BagToSet(wire) : Deliver(m) \/ Lose(m) \/ Repeat(m)
  \/ \E e \in Ends, s \in Obj : TimeoutPending(e, s)
  \/ \E o \in Obj : Expire(o)
  \/ \E e \in Ends : CleanupExpired(e) \/ \E o \in Obj : RemoveSession(e, o)

HandshakeSpec == HandshakeInit /\ [][HandshakeNext]_handshakeVars

-----------------------------------------------------------------------------
(* Properties *)

\* An end that is active has shown its keys to match: the other end holds, or held, an
\* object that derived the same keys from it, and no third object did, however
\* hellos were repeated, crossed and reordered.
ActiveIsMutual ==
  \A o \in Made : stage[o] = "active" =>
    \E p \in Made :
      /\ owner[p] # owner[o] /\ KeyPair(p) = KeyPair(o) /\ stage[p] \in {"completing", "active"}
      /\ \A q \in Made \ {o, p} : peerOf[q] # NoObj => KeyPair(q) # KeyPair(o)

\* When nothing was lost, repeated, late or overtaken, every handshake that got its
\* answers is complete at both ends, crossing ones too: nothing is left pending.
CalmCompletes ==
  mishaps = 0 /\ ~overtaken /\ BagToSet(wire) = {} =>
    \A o \in Made : stage[o] = "active" /\ \A e \in Ends : pending[e][o] = NoObj

\* What a handshake promises: an end that is active is not alone, and a calm
\* handshake ends with both ends active (session.py:248-345, key_manager.py:150-205).
HandshakesMatch == ActiveIsMutual /\ CalmCompletes

-----------------------------------------------------------------------------
(* What is inductive *)

\* A responder's object took the hello it answers, an initiator's the answer of an object
\* that did, and an active one is not alone.
ObjectIs(o) ==
  /\ role[o] \in {"src", "dst"}
  /\ role[o] = "src" =>
       /\ sidOf[o] = o /\ stage[o] # "idle"
       /\ stage[o] = "initiated" => peerOf[o] = NoObj
       /\ stage[o] # "initiated" =>
            peerOf[o] \in Made /\ role[peerOf[o]] = "dst" /\ peerOf[peerOf[o]] = o
  /\ role[o] = "dst" =>
       /\ sidOf[o] = peerOf[o] /\ stage[o] \in {"completing", "active"}
       /\ peerOf[o] \in Made /\ role[peerOf[o]] = "src" /\ owner[peerOf[o]] # owner[o]
       /\ stage[o] = "active" => peerOf[peerOf[o]] = o

\* Objects are numbered as they are made.
ObjectsInv ==
  /\ \E n \in 0 .. MaxObj : Made = 1 .. n
  /\ \A o \in Obj \ Made : stage[o] = "idle" /\ sidOf[o] = o /\ peerOf[o] = NoObj
  /\ \A o \in Made : ObjectIs(o)

\* What a manager finds is its own.
ManagersInv ==
  \A e \in Ends :
    /\ \A o \in byKey[e] : owner[o] = e /\ stage[o] = "active"
    /\ \A s \in Obj : LET o == pending[e][s] IN
         o # NoObj => /\ o \in Made /\ owner[o] = e /\ sidOf[o] = s
                      /\ stage[o] \in {"initiated", "completing"}

\* A message says what its sender is.
MessageIs(m) ==
  /\ m.by \in Made /\ m.to = Other(owner[m.by]) /\ m.sid = sidOf[m.by]
  /\ m.kind = "source_hello" => role[m.by] = "src" /\ m.keys = <<m.by, NoObj>>
  /\ m.kind # "source_hello" => stage[m.by] # "initiated" /\ m.keys = KeyPair(m.by)
  /\ m.kind = "destination_hello" => role[m.by] = "dst"

MessagesInv == \A m \in BagToSet(wire) : MessageIs(m)

UnderWay == {<<m.kind, m.by>> : m \in BagToSet(wire)}

\* As long as nothing goes wrong, what an object waits for is under way to it, once, and
\* finds it pending.
CalmObject(o) ==
  /\ stage[o] \in {"initiated", "completing"} => pending[owner[o]][sidOf[o]] = o
  /\ role[o] = "src" =>
       (<<"source_hello", o>> \in UnderWay <=> \A p \in Made : role[p] = "dst" => peerOf[p] # o)
  /\ role[o] = "dst" =>
       /\ \A q \in Made : role[q] = "dst" /\ peerOf[q] = peerOf[o] => q = o
       /\ <<"destination_hello", o>> \in UnderWay <=> stage[peerOf[o]] = "initiated"
       /\ stage[peerOf[o]] = "initiated" => <<"finished", o>> \in UnderWay
  /\ stage[o] = "completing" /\ stage[peerOf[o]] # "initiated" =>
       <<"finished", peerOf[o]>> \in UnderWay
  /\ <<"finished", o>> \in UnderWay => stage[peerOf[o]] # "active"

CalmHandshakes ==
  mishaps = 0 /\ ~overtaken =>
    /\ expired = {}
    /\ \A m \in BagToSet(wire) : wire[m] = 1
    /\ \A o \in Made : CalmObject(o)

HandshakeIInv ==
  HandshakeTypes /\ ObjectsInv /\ ManagersInv /\ MessagesInv /\ CalmHandshakes

HandshakeAssumption ==
  /\ \E a, b \in Ends : a # b /\ Ends = {a, b}
  /\ MaxObj \in Nat /\ MaxE2eeMishaps \in Nat
  /\ NoObj \notin Obj /\ NoObj \notin Ends
=============================================================================
