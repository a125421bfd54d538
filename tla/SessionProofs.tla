---------------------------- MODULE SessionProofs ----------------------------
(***************************************************************************)
(* Proofs about protocols between two ends: HpkeSession for any number of  *)
(* session ids, any window and any bounds, where SessionIInv is inductive  *)
(* and its parts are kept one by one; ShortTermKeys for any number of      *)
(* sessions and any bounds, where SkIInv is; MetaNegotiation for any       *)
(* bounds, where MetaIInv is; E2eeHandshake for any number of objects and  *)
(* of mishaps, where HandshakeIInv is; and HpkeGroup for any group, any    *)
(* number of epochs, draws and messages, where GroupIInv is.               *)
(***************************************************************************)
EXTENDS HpkeSession, ShortTermKeys, MetaNegotiation, E2eeHandshake, HpkeGroup,
        FiniteSetTheorems, TLAPS

\* The ends are each other's peer.
LEMMA Peers == \A p \in End : Peer(p) \in End /\ Peer(p) # p /\ Peer(Peer(p)) = p
BY EndAssumption DEF End, Peer

\* The initial state satisfies the inductive invariant.
LEMMA SessionInitIInv == Init => SessionIInv
<1> SUFFICES ASSUME Init PROVE SessionIInv
  OBVIOUS
<1>1. TypeOK
  BY DEF Init, TypeOK
<1>2. DrawnInv /\ KeysInv /\ SealedInv
  BY DEF Init, DrawnInv, KeysInv, SealedInv
<1>3. SetupsInv
  BY DEF Init, SetupsInv, End
<1>4. GotInv /\ InOrderOnce /\ SettlingInv
  BY DEF Init, GotInv, InOrderOnce, SettlingInv
<1> QED BY <1>1, <1>2, <1>3, <1>4 DEF SessionIInv

-----------------------------------------------------------------------------
(* Ways the actions change an end *)

\* p is set up for session s: the chains are set up and the numbers start at 0.
Enter(p, s) ==
  /\ SetupChains(p, s)
  /\ sendSeq' = [sendSeq EXCEPT ![p] = 0]
  /\ recvSeq' = [recvSeq EXCEPT ![p] = 0]
  /\ used' \in [End -> SUBSET Nat]
  /\ UNCHANGED <<mode, sealed, got>>

\* Chain keys are of the session and advance by natural numbers.
LEMMA ChainTypes ==
  ASSUME NEW s \in Sid, NEW p \in End, NEW n \in Nat
  PROVE  /\ Chain(s, p) \in ChainKey
         /\ Advance(Chain(s, p), n) = [sid |-> s, dir |-> Direction(p), at |-> n]
         /\ Advance(Chain(s, p), n) \in ChainKey
         /\ Advance(Chain(s, p), 0) = Chain(s, p)
BY DEF Chain, Direction, Advance, ChainKey

\* Who is set up for a session is counted for it, and only there.
LEMMA Counted ==
  ASSUME TypeOK, NEW p \in End, NEW s \in Sid, SetupChains(p, s)
  PROVE  /\ entered' \in [End -> [Sid -> Nat]]
         /\ entered'[p][s] = entered[p][s] + 1
         /\ \A q \in End, t \in Sid : q # p \/ t # s => entered'[q][t] = entered[q][t]
         /\ \A q \in End, t \in Sid : entered[q][t] \in Nat /\ entered[q][t] <= entered'[q][t]
BY DEF TypeOK, SetupChains

\* What was opened is of a session, known by numbers.
LEMMA GotTypes ==
  ASSUME TypeOK, NEW p \in End, NEW i \in DOMAIN got[p]
  PROVE  got[p][i] \in Opened /\ got[p][i].sid \in Sid /\ got[p][i].life \in Nat /\ got[p][i].seq \in Nat
<1>1. got[p] \in Seq(Opened)
  BY DEF TypeOK
<1>2. got[p][i] \in Opened
  BY <1>1
<1> QED BY <1>2 DEF Opened

\* Setting up an end for a session keeps everything that is not about requests, if the other
\* end was set up for the session once at most.
LEMMA EnterStep ==
  ASSUME SessionIInv, NEW p \in End, NEW s \in Sid, s \in Requested', Requested \subseteq Requested',
         entered[Peer(p)][s] <= 1, Enter(p, s)
  PROVE  /\ state' \in [End -> {"idle", "active"}]
         /\ session' \in [End -> Sid \union {NoSid}]
         /\ sendKey' \in [End -> ChainKey \union {NoKey}]
         /\ recvKey' \in [End -> ChainKey \union {NoKey}]
         /\ sendSeq' \in [End -> Nat] /\ recvSeq' \in [End -> Nat]
         /\ entered' \in [End -> [Sid -> Nat]]
         /\ \A t \in Sid : \E q \in End : entered'[q][t] <= 1
         /\ DrawnInv' /\ KeysInv' /\ SealedInv' /\ GotInv' /\ InOrderOnce'
<1>0. TypeOK /\ SetupChains(p, s)
  BY DEF SessionIInv, Enter
<1>a. /\ state' = [state EXCEPT ![p] = "active"] /\ session' = [session EXCEPT ![p] = s]
      /\ sendKey' = [sendKey EXCEPT ![p] = Chain(s, p)]
      /\ recvKey' = [recvKey EXCEPT ![p] = Chain(s, Peer(p))]
      /\ sendSeq' = [sendSeq EXCEPT ![p] = 0] /\ recvSeq' = [recvSeq EXCEPT ![p] = 0]
      /\ UNCHANGED <<mode, sealed, got>>
  BY DEF Enter, SetupChains
<1>b. /\ entered' \in [End -> [Sid -> Nat]]
      /\ entered'[p][s] = entered[p][s] + 1
      /\ \A q \in End, t \in Sid : q # p \/ t # s => entered'[q][t] = entered[q][t]
      /\ \A q \in End, t \in Sid : entered[q][t] \in Nat /\ entered[q][t] <= entered'[q][t]
  BY <1>0, Counted
<1>1. Chain(s, p) \in ChainKey /\ Chain(s, Peer(p)) \in ChainKey
  BY Peers, ChainTypes
<1>2. /\ state' \in [End -> {"idle", "active"}] /\ session' \in [End -> Sid \union {NoSid}]
      /\ sendKey' \in [End -> ChainKey \union {NoKey}]
      /\ recvKey' \in [End -> ChainKey \union {NoKey}]
      /\ sendSeq' \in [End -> Nat] /\ recvSeq' \in [End -> Nat]
  BY <1>0, <1>a, <1>1 DEF TypeOK
<1>3. \A t \in Sid : \E q \in End : entered'[q][t] <= 1
  <2>1. entered'[Peer(p)][s] <= 1
    BY <1>b, Peers
  <2>2. ASSUME NEW t \in Sid, t # s PROVE \E q \in End : entered'[q][t] <= 1
    BY <1>b, <2>2 DEF SessionIInv, SetupsInv
  <2> QED BY <2>1, <2>2, Peers
<1>4. DrawnInv'
  <2>1. ASSUME NEW q \in End, session'[q] # NoSid PROVE entered'[q][session'[q]] > 0
    <3>1. CASE q = p
      BY <1>0, <1>a, <1>b, <3>1 DEF TypeOK
    <3>2. CASE q # p
      <4>1. session'[q] = session[q] /\ session[q] \in Sid
        BY <1>0, <1>a, <2>1, <3>2 DEF TypeOK
      <4>2. entered[q][session[q]] > 0
        BY <2>1, <4>1 DEF SessionIInv, DrawnInv
      <4> QED BY <1>b, <3>2, <4>1, <4>2
    <3> QED BY <3>1, <3>2
  <2>2. ASSUME NEW q \in End, NEW t \in Sid, entered'[q][t] > 0 PROVE t \in Requested'
    <3>1. CASE t = s
      BY <3>1
    <3>2. CASE t # s
      BY <1>b, <2>2, <3>2 DEF SessionIInv, DrawnInv
    <3> QED BY <3>1, <3>2
  <2>3. ASSUME NEW q \in End, NEW i \in DOMAIN got'[q]
        PROVE  got'[q][i].life \in 1 .. entered'[q][got'[q][i].sid]
    <3>1. got'[q][i] = got[q][i] /\ i \in DOMAIN got[q] /\ got[q][i].sid \in Sid
          /\ got[q][i].life \in Nat
      BY <1>0, <1>a, GotTypes
    <3>2. got[q][i].life \in 1 .. entered[q][got[q][i].sid]
      BY <3>1 DEF SessionIInv, DrawnInv
    <3>3. /\ entered[q][got[q][i].sid] \in Nat
          /\ entered[q][got[q][i].sid] <= entered'[q][got[q][i].sid]
          /\ entered'[q][got[q][i].sid] \in Nat
      BY <1>b, <3>1
    <3> QED BY <3>1, <3>2, <3>3
  <2> QED BY <2>1, <2>2, <2>3 DEF DrawnInv
<1>5. KeysInv'
  <2>1. Advance(Chain(s, p), 0) = Chain(s, p)
        /\ Advance(Chain(s, Peer(p)), 0) = Chain(s, Peer(p))
    BY Peers, ChainTypes
  <2>2. ASSUME NEW q \in End, state'[q] = "active"
        PROVE  /\ session'[q] \in Sid
               /\ sendKey'[q] = Advance(Chain(session'[q], q), sendSeq'[q])
               /\ recvKey'[q] = Advance(Chain(session'[q], Peer(q)), recvSeq'[q])
    <3>1. CASE q = p
      BY <1>0, <1>a, <2>1, <3>1 DEF TypeOK
    <3>2. CASE q # p
      BY <1>0, <1>a, <2>2, <3>2 DEF TypeOK, SessionIInv, KeysInv
    <3> QED BY <3>1, <3>2
  <2>3. ASSUME NEW q \in End, state'[q] # "active" PROVE sendSeq'[q] = 0 /\ recvSeq'[q] = 0
    BY <1>0, <1>a, <2>3 DEF TypeOK, SessionIInv, KeysInv
  <2> QED BY <2>2, <2>3 DEF KeysInv
<1>6. SealedInv'
  <2> SUFFICES ASSUME NEW m \in sealed
               PROVE  /\ m.key = Advance(Chain(m.sid, Peer(m.to)), m.seq)
                      /\ entered'[Peer(m.to)][m.sid] > 0
                      /\ state'[Peer(m.to)] = "active" /\ session'[Peer(m.to)] = m.sid
                         /\ entered'[Peer(m.to)][m.sid] = 1
                         => m.seq < sendSeq'[Peer(m.to)]
    BY <1>a DEF SealedInv
  <2> DEFINE q == Peer(m.to)
  <2>1. q \in End /\ m.sid \in Sid
    BY <1>0, Peers DEF TypeOK, Message
  <2>2. /\ m.key = Advance(Chain(m.sid, q), m.seq) /\ entered[q][m.sid] > 0
        /\ state[q] = "active" /\ session[q] = m.sid /\ entered[q][m.sid] = 1
           => m.seq < sendSeq[q]
    BY DEF SessionIInv, SealedInv
  <2>3. entered'[q][m.sid] > 0
    BY <1>b, <2>1, <2>2
  <2>4. ASSUME state'[q] = "active", session'[q] = m.sid, entered'[q][m.sid] = 1
        PROVE  m.seq < sendSeq'[q]
    \* an end that is set up again for a session has sealed under it before
    <3>1. CASE q = p
      <4>1. m.sid = s
        BY <1>0, <1>a, <2>4, <3>1 DEF TypeOK
      <4> QED BY <1>b, <2>1, <2>2, <2>4, <3>1, <4>1
    <3>2. CASE q # p
      BY <1>0, <1>a, <1>b, <2>1, <2>2, <2>4, <3>2 DEF TypeOK
    <3> QED BY <3>1, <3>2
  <2> QED BY <2>2, <2>3, <2>4
<1>7. GotInv'
  <2> SUFFICES ASSUME NEW q \in End, state'[q] = "active"
               PROVE  /\ \A i \in DOMAIN got[q] :
                           got[q][i].sid = session'[q] /\ got[q][i].life = entered'[q][session'[q]]
                             => got[q][i].seq < recvSeq'[q]
                      /\ mode[q] = "strict" =>
                           \A n \in 0 .. recvSeq'[q] - 1 : \E i \in DOMAIN got[q] :
                             got[q][i] = [sid |-> session'[q], life |-> entered'[q][session'[q]],
                                          seq |-> n]
                      /\ recvSeq'[q] = 0 \/ \E m \in sealed :
                           m.to = q /\ m.sid = session'[q] /\ m.seq + 1 = recvSeq'[q]
    BY <1>a DEF GotInv
  <2>1. CASE q = p
    <3>1. session'[q] = s /\ recvSeq'[q] = 0
      BY <1>0, <1>a, <2>1 DEF TypeOK
    \* nothing was opened in this life yet
    <3>2. ASSUME NEW i \in DOMAIN got[q], got[q][i].sid = s PROVE got[q][i].life # entered'[q][s]
      <4>1. got[q][i].life \in 1 .. entered[q][s]
        BY <3>2 DEF SessionIInv, DrawnInv
      <4> QED BY <1>b, <2>1, <4>1
    <3> QED BY <3>1, <3>2
  <2>2. CASE q # p
    <3>1. session'[q] = session[q] /\ recvSeq'[q] = recvSeq[q] /\ state[q] = "active"
      BY <1>0, <1>a, <2>2 DEF TypeOK
    <3>2. session[q] \in Sid
      BY <3>1 DEF SessionIInv, KeysInv
    <3>3. entered'[q][session[q]] = entered[q][session[q]]
      BY <1>b, <2>2, <3>2
    <3> QED BY <3>1, <3>3 DEF SessionIInv, GotInv
  <2> QED BY <2>1, <2>2
<1>8. InOrderOnce'
  BY <1>a DEF SessionIInv, InOrderOnce
<1> QED BY <1>b, <1>2, <1>3, <1>4, <1>5, <1>6, <1>7, <1>8

-----------------------------------------------------------------------------
(* Requests *)

\* A new request of p, which enters the session it asks for.
LEMMA RequestStep ==
  ASSUME SessionIInv, NEW p \in End, NEW s \in Sid, NEW t \in {"init", "rekey"},
         Request(t, p, s), Enter(p, s), settling' \in {s, NoSid},
         settling' = s /\ t = "init" => state[Peer(p)] = "idle"
  PROVE  SessionIInv'
<1> DEFINE r == [type |-> t, from |-> p, sid |-> s]
<1>1. s \notin Requested /\ setups' = setups \union {r} /\ r \in setups'
  BY DEF Request
<1>2. TypeOK /\ DrawnInv /\ SetupsInv /\ s # NoSid
  BY SidAssumption DEF SessionIInv
<1>3. r \in Setup /\ r.sid = s /\ r.from = p /\ r.type = t
  BY DEF Setup
<1>4. s \in Requested' /\ Requested \subseteq Requested'
  BY <1>1, <1>3 DEF Requested
\* no end was set up for the new session
<1>5. \A q \in End : entered[q][s] = 0
  <2> SUFFICES ASSUME NEW q \in End PROVE entered[q][s] = 0
    OBVIOUS
  <2>1. entered[q][s] \in Nat /\ ~(entered[q][s] > 0)
    BY <1>1, <1>2 DEF TypeOK, DrawnInv
  <2> QED BY <2>1
<1>6. entered[Peer(p)][s] <= 1
  BY <1>5, Peers
<1>7. /\ entered'[p][s] = 1
      /\ \A q \in End, o \in Sid : q # p \/ o # s => entered'[q][o] = entered[q][o]
  BY <1>2, <1>5, Counted DEF Enter
<1>8. TypeOK'
  <2>1. setups' \subseteq Setup /\ settling' \in Sid \union {NoSid}
    BY <1>1, <1>2, <1>3 DEF TypeOK
  <2>2. UNCHANGED <<mode, sealed, got>> /\ used' \in [End -> SUBSET Nat]
    BY DEF Enter
  <2> QED BY <1>2, <1>4, <1>6, <2>1, <2>2, EnterStep DEF TypeOK
<1>9. DrawnInv' /\ KeysInv' /\ SealedInv' /\ GotInv' /\ InOrderOnce'
  BY <1>4, <1>6, EnterStep
<1>10. SetupsInv'
  <2>1. ASSUME NEW q \in setups' PROVE entered'[q.from][q.sid] = 1
    <3>1. CASE q = r
      BY <1>3, <1>7, <3>1
    <3>2. CASE q # r
      <4>1. q \in setups /\ q.sid \in Requested /\ q.from \in End /\ q.sid \in Sid
        BY <1>1, <1>2, <2>1, <3>2 DEF Requested, TypeOK, Setup
      <4>2. entered[q.from][q.sid] = 1
        BY <1>2, <4>1 DEF SetupsInv
      <4> QED BY <1>1, <1>7, <4>1, <4>2
    <3> QED BY <3>1, <3>2
  <2>2. ASSUME NEW q \in setups', NEW o \in setups', q.sid = o.sid PROVE q = o
    BY <1>1, <1>2, <1>3, <2>2 DEF SetupsInv, Requested
  <2>3. \A o \in Sid : \E q \in End : entered'[q][o] <= 1
    BY <1>4, <1>6, EnterStep
  <2> QED BY <2>1, <2>2, <2>3 DEF SetupsInv
<1>11. SettlingInv'
  <2> SUFFICES ASSUME settling' = s
               PROVE  /\ state'[p] = "active" /\ session'[p] = s
                      /\ entered'[Peer(p)][s] = 0
                      /\ t = "init" => state'[Peer(p)] = "idle"
    BY <1>1, <1>2, <1>3 DEF SettlingInv
  <2>1. state'[p] = "active" /\ session'[p] = s /\ state'[Peer(p)] = state[Peer(p)]
    BY <1>2, Peers DEF Enter, SetupChains, TypeOK
  <2>2. entered'[Peer(p)][s] = 0
    BY <1>5, <1>7, Peers
  <2> QED BY <2>1, <2>2
<1> QED BY <1>8, <1>9, <1>10, <1>11 DEF SessionIInv

\* The receiver of a request enters the session it asks for, perhaps not for the first time.
LEMMA ProcessStep ==
  ASSUME SessionIInv, NEW p \in End, NEW r \in setups, r.from = Peer(p), Settles(r),
         setups' = setups, Enter(p, r.sid)
  PROVE  SessionIInv'
<1>1. TypeOK /\ SetupsInv /\ r.sid \in Sid /\ Peer(p) \in End /\ Peer(p) # p
  BY Peers DEF SessionIInv, TypeOK, Setup
<1>2. entered[Peer(p)][r.sid] = 1
  BY <1>1 DEF SetupsInv
<1>3. r.sid \in Requested' /\ Requested \subseteq Requested' /\ entered[Peer(p)][r.sid] <= 1
  BY <1>2 DEF Requested
<1>4. /\ entered'[p][r.sid] = entered[p][r.sid] + 1 /\ entered[p][r.sid] \in Nat
      /\ \A q \in End, o \in Sid : q # p \/ o # r.sid => entered'[q][o] = entered[q][o]
  BY <1>1, Counted DEF Enter
<1>5. TypeOK'
  <2>1. UNCHANGED <<mode, sealed, got>> /\ used' \in [End -> SUBSET Nat]
    BY DEF Enter
  <2>2. settling' \in Sid \union {NoSid}
    BY <1>1 DEF Settles, TypeOK
  <2> QED BY <1>1, <1>3, <2>1, <2>2, EnterStep DEF TypeOK
<1>6. DrawnInv' /\ KeysInv' /\ SealedInv' /\ GotInv' /\ InOrderOnce'
  BY <1>1, <1>3, EnterStep
<1>7. SetupsInv'
  <2>1. ASSUME NEW q \in setups PROVE entered'[q.from][q.sid] = 1
    <3>1. entered[q.from][q.sid] = 1 /\ q.from \in End /\ q.sid \in Sid
      BY <1>1 DEF SetupsInv, TypeOK, Setup
    \* p did not send what it received
    <3>2. q.from # p \/ q.sid # r.sid
      BY <1>1 DEF SetupsInv
    <3> QED BY <1>4, <3>1, <3>2
  <2>2. \A o \in Sid : \E q \in End : entered'[q][o] <= 1
    BY <1>1, <1>3, EnterStep
  <2> QED BY <1>1, <2>1, <2>2 DEF SetupsInv
<1>8. SettlingInv'
  <2> SUFFICES ASSUME settling' # NoSid
               PROVE  \E q \in setups :
                        /\ q.sid = settling'
                        /\ state'[q.from] = "active" /\ session'[q.from] = settling'
                        /\ IF entered'[Peer(q.from)][settling'] = 0
                           THEN q.type = "init" => state'[Peer(q.from)] = "idle"
                           ELSE state'[Peer(q.from)] = "active"
                                /\ session'[Peer(q.from)] = settling'
    BY DEF SettlingInv
  <2>1. settling' = settling /\ r.sid = settling
    BY DEF Settles
  <2>2. PICK q \in setups : q.sid = settling /\ state[q.from] = "active" /\ session[q.from] = settling
    BY <2>1 DEF SessionIInv, SettlingInv
  <2>3. q = r
    BY <1>1, <2>1, <2>2 DEF SetupsInv
  <2>4. /\ state'[p] = "active" /\ session'[p] = r.sid
        /\ state'[Peer(p)] = state[Peer(p)] /\ session'[Peer(p)] = session[Peer(p)]
    BY <1>1 DEF Enter, SetupChains, TypeOK
  <2>5. Peer(r.from) = p
    BY Peers
  <2>6. entered'[p][r.sid] # 0
    BY <1>4
  <2>7. state'[r.from] = "active" /\ session'[r.from] = r.sid
    BY <2>1, <2>2, <2>3, <2>4
  <2> QED BY <2>1, <2>4, <2>5, <2>6, <2>7
<1> QED BY <1>5, <1>6, <1>7, <1>8 DEF SessionIInv

-----------------------------------------------------------------------------
(* Messages *)

\* A message of its session that passes the check opens.
LEMMA ValidMessageOpens == SessionIInv => ValidOpens
<1> SUFFICES ASSUME SessionIInv, NEW m \in sealed, state[m.to] = "active",
                    m.sid = session[m.to], Valid(m.to, m.seq)
             PROVE  Opens(m.to, m)
  BY DEF ValidOpens
<1> DEFINE p == m.to
<1>1. p \in End /\ m.seq \in Nat /\ recvSeq[p] \in Nat /\ recvSeq[p] <= m.seq
      /\ session[p] \in Sid /\ Peer(p) \in End
  BY Peers DEF SessionIInv, TypeOK, KeysInv, Message, Valid
<1>2. m.key = [sid |-> m.sid, dir |-> Direction(Peer(p)), at |-> m.seq]
  BY <1>1, ChainTypes DEF SessionIInv, SealedInv
<1>3. recvKey[p] = [sid |-> session[p], dir |-> Direction(Peer(p)), at |-> recvSeq[p]]
  BY <1>1, ChainTypes DEF SessionIInv, KeysInv
<1>4. KeyFor(p, m.seq) = [sid |-> session[p], dir |-> Direction(Peer(p)), at |-> m.seq]
  BY <1>1, <1>3 DEF KeyFor, Advance
<1> QED BY <1>2, <1>4 DEF Opens

\* Sending keeps the invariant: the key advances with the number.
LEMMA EncryptStep ==
  ASSUME SessionIInv, NEW p \in End, Encrypt(p)
  PROVE  SessionIInv'
<1> DEFINE m == [to |-> Peer(p), sid |-> session[p], seq |-> sendSeq[p], key |-> sendKey[p]]
<1>0. TypeOK /\ UNCHANGED <<mode, state, session, recvKey, recvSeq, used, setups, got, entered,
                     settling>>
  BY DEF SessionIInv, Encrypt
<1>1. session[p] \in Sid /\ sendSeq[p] \in Nat /\ Peer(p) \in End
      /\ sendKey[p] = Advance(Chain(session[p], p), sendSeq[p])
  BY <1>0, Peers DEF SessionIInv, KeysInv, TypeOK, Encrypt
<1>2. sendKey[p] = [sid |-> session[p], dir |-> Direction(p), at |-> sendSeq[p]]
      /\ sendKey[p] \in ChainKey
  BY <1>1, ChainTypes
<1>3. Advance(sendKey[p], 1) = Advance(Chain(session[p], p), sendSeq[p] + 1)
      /\ Advance(sendKey[p], 1) \in ChainKey
  <2>1. sendSeq[p] + 1 \in Nat
    BY <1>1
  <2>2. Advance(Chain(session[p], p), sendSeq[p] + 1)
          = [sid |-> session[p], dir |-> Direction(p), at |-> sendSeq[p] + 1]
        /\ Advance(Chain(session[p], p), sendSeq[p] + 1) \in ChainKey
    BY <1>1, <2>1, ChainTypes
  <2>3. Advance(sendKey[p], 1) = [sid |-> session[p], dir |-> Direction(p), at |-> sendSeq[p] + 1]
    BY <1>2 DEF Advance
  <2> QED BY <2>2, <2>3
<1>4. m \in Message /\ m.to = Peer(p) /\ m.sid = session[p] /\ m.seq = sendSeq[p] /\ m.key = sendKey[p]
  BY <1>1, <1>2 DEF Message
<1>5. TypeOK'
  BY <1>0, <1>1, <1>3, <1>4 DEF TypeOK, Encrypt
<1>6. KeysInv'
  <2>1. ASSUME NEW q \in End, q # p
        PROVE  sendKey'[q] = sendKey[q] /\ sendSeq'[q] = sendSeq[q]
    BY <1>0, <2>1 DEF Encrypt, TypeOK
  <2>2. sendKey'[p] = Advance(sendKey[p], 1) /\ sendSeq'[p] = sendSeq[p] + 1 /\ state[p] = "active"
    BY <1>0 DEF Encrypt, TypeOK
  <2> QED BY <1>0, <1>1, <1>3, <2>1, <2>2 DEF SessionIInv, KeysInv
<1>7. SealedInv'
  <2>1. sealed' = sealed \union {m}
    BY DEF Encrypt
  <2>2. /\ sendSeq'[p] = sendSeq[p] + 1
        /\ \A q \in End : q # p => sendSeq'[q] = sendSeq[q]
    BY <1>0 DEF Encrypt, TypeOK
  <2>3. Peer(m.to) = p
    BY <1>4, Peers
  <2>4. m.key = Advance(Chain(m.sid, p), m.seq)
    BY <1>1, <1>4
  <2>5. entered[p][m.sid] > 0
    BY <1>1, <1>4, SidAssumption DEF SessionIInv, DrawnInv
  <2>6. m.seq < sendSeq'[p]
    BY <1>1, <1>4, <2>2
  <2>7. ASSUME NEW o \in sealed
        PROVE  /\ o.key = Advance(Chain(o.sid, Peer(o.to)), o.seq)
               /\ entered[Peer(o.to)][o.sid] > 0
               /\ state[Peer(o.to)] = "active" /\ session[Peer(o.to)] = o.sid
                  /\ entered[Peer(o.to)][o.sid] = 1
                  => o.seq < sendSeq'[Peer(o.to)]
    <3>1. Peer(o.to) \in End /\ o.seq \in Nat
      BY <1>0, Peers DEF TypeOK, Message
    <3>2. /\ o.key = Advance(Chain(o.sid, Peer(o.to)), o.seq)
          /\ entered[Peer(o.to)][o.sid] > 0
          /\ state[Peer(o.to)] = "active" /\ session[Peer(o.to)] = o.sid
             /\ entered[Peer(o.to)][o.sid] = 1
             => o.seq < sendSeq[Peer(o.to)]
      BY DEF SessionIInv, SealedInv
    <3>3. o.seq < sendSeq[Peer(o.to)] => o.seq < sendSeq'[Peer(o.to)]
      BY <1>1, <2>2, <3>1
    <3> QED BY <3>2, <3>3
  <2>8. ASSUME NEW o \in sealed'
        PROVE  /\ o.key = Advance(Chain(o.sid, Peer(o.to)), o.seq)
               /\ entered[Peer(o.to)][o.sid] > 0
               /\ state[Peer(o.to)] = "active" /\ session[Peer(o.to)] = o.sid
                  /\ entered[Peer(o.to)][o.sid] = 1
                  => o.seq < sendSeq'[Peer(o.to)]
    <3>1. CASE o = m
      BY <2>3, <2>4, <2>5, <2>6, <3>1
    <3>2. CASE o \in sealed
      BY <2>7, <3>2
    <3> QED BY <2>1, <2>8, <3>1, <3>2
  <2> QED BY <1>0, <2>8 DEF SealedInv
<1>8. DrawnInv' /\ SetupsInv' /\ SettlingInv' /\ InOrderOnce'
  BY <1>0 DEF SessionIInv, DrawnInv, Requested, SetupsInv, SettlingInv, InOrderOnce
<1>9. GotInv'
  <2>1. sealed \subseteq sealed'
    BY DEF Encrypt
  <2> QED BY <1>0, <2>1 DEF SessionIInv, GotInv
<1> QED BY <1>5, <1>6, <1>7, <1>8, <1>9 DEF SessionIInv

\* Opening a message keeps the invariant: it is the next one, or one after a gap.
LEMMA DecryptStep ==
  ASSUME SessionIInv, NEW p \in End, NEW m \in sealed, Decrypt(p, m)
  PROVE  SessionIInv'
<1> DEFINE e == [sid |-> m.sid, life |-> entered[p][m.sid], seq |-> m.seq]
           x == entered[p][session[p]]
<1>0. TypeOK
      /\ UNCHANGED <<mode, state, session, sendKey, sendSeq, setups, sealed, entered, settling>>
  BY DEF SessionIInv, Decrypt
<1>1. m.to = p /\ m \in Message /\ m.sid \in Sid /\ m.seq \in Nat /\ recvSeq[p] \in Nat
      /\ m.sid = session[p] /\ state[p] = "active" /\ Valid(p, m.seq) /\ e \in Opened
      /\ Peer(p) \in End
  BY <1>0, Peers DEF Decrypt, Opens, TypeOK, Message, Opened
<1>2. recvSeq[p] <= m.seq /\ (mode[p] = "strict" => m.seq = recvSeq[p])
  BY <1>1 DEF Valid
<1>3. got'[p] = Append(got[p], e) /\ got[p] \in Seq(Opened)
      /\ recvSeq'[p] = m.seq + 1
      /\ \A q \in End : q # p => got'[q] = got[q] /\ recvSeq'[q] = recvSeq[q]
                                 /\ recvKey'[q] = recvKey[q]
  BY <1>0 DEF Decrypt, TypeOK
<1>4. /\ DOMAIN got[p] = 1 .. Len(got[p]) /\ DOMAIN got'[p] = 1 .. Len(got[p]) + 1
      /\ Len(got[p]) \in Nat
      /\ \A i \in 1 .. Len(got[p]) : got'[p][i] = got[p][i]
      /\ got'[p][Len(got[p]) + 1] = e
  BY <1>3
<1>5. recvKey'[p] = Advance(Chain(session[p], Peer(p)), m.seq + 1) /\ recvKey'[p] \in ChainKey
  <2>1. recvKey[p] = [sid |-> session[p], dir |-> Direction(Peer(p)), at |-> recvSeq[p]]
    BY <1>1, ChainTypes DEF SessionIInv, KeysInv
  <2>2. recvKey'[p] = Advance(KeyFor(p, m.seq), 1)
    BY <1>0 DEF Decrypt, TypeOK
  <2>3. recvKey'[p] = [sid |-> session[p], dir |-> Direction(Peer(p)), at |-> m.seq + 1]
    <3>1. recvSeq[p] + (m.seq - recvSeq[p]) = m.seq
      BY <1>1, <1>2
    <3>2. KeyFor(p, m.seq) = [sid |-> session[p], dir |-> Direction(Peer(p)), at |-> m.seq]
      BY <1>2, <2>1, <3>1 DEF KeyFor, Advance
    <3> QED BY <2>2, <3>2 DEF Advance
  <2>4. m.seq + 1 \in Nat
    BY <1>1
  <2> QED BY <1>1, <2>3, <2>4, ChainTypes
<1>6. TypeOK'
  <2>1. got' \in [End -> Seq(Opened)] /\ used' \in [End -> SUBSET Nat] /\ recvSeq' \in [End -> Nat]
    BY <1>0, <1>1 DEF Decrypt, TypeOK
  <2>2. recvKey' \in [End -> ChainKey \union {NoKey}]
    <3>1. Advance(KeyFor(p, m.seq), 1) \in ChainKey
      BY <1>0, <1>5 DEF Decrypt, TypeOK
    <3> QED BY <1>0, <3>1 DEF Decrypt, TypeOK
  <2> QED BY <1>0, <2>1, <2>2 DEF TypeOK
<1>7. KeysInv'
  BY <1>0, <1>1, <1>3, <1>5 DEF SessionIInv, KeysInv
<1>8. DrawnInv' /\ SetupsInv' /\ SettlingInv' /\ SealedInv'
  <2>1. x \in Nat /\ x > 0
    BY <1>0, <1>1, SidAssumption DEF SessionIInv, DrawnInv, TypeOK
  <2>2. ASSUME NEW q \in End, NEW i \in DOMAIN got'[q]
        PROVE  got'[q][i].life \in 1 .. entered[q][got'[q][i].sid]
    <3>1. CASE q = p
      <4>1. CASE i = Len(got[p]) + 1
        BY <1>1, <1>4, <2>1, <3>1, <4>1
      <4>2. CASE i \in 1 .. Len(got[p])
        BY <1>4, <3>1, <4>2 DEF SessionIInv, DrawnInv
      <4> QED BY <1>4, <2>2, <3>1, <4>1, <4>2
    <3>2. CASE q # p
      BY <1>3, <2>2, <3>2 DEF SessionIInv, DrawnInv
    <3> QED BY <3>1, <3>2
  <2> QED BY <1>0, <2>2 DEF SessionIInv, DrawnInv, Requested, SetupsInv, SettlingInv, SealedInv
\* what the receiver knows before
<1>a. /\ \A i \in DOMAIN got[p] :
           got[p][i].sid = session[p] /\ got[p][i].life = x => got[p][i].seq < recvSeq[p]
      /\ mode[p] = "strict" =>
           \A n \in 0 .. recvSeq[p] - 1 : \E i \in DOMAIN got[p] :
             got[p][i] = [sid |-> session[p], life |-> x, seq |-> n]
  BY <1>1 DEF SessionIInv, GotInv
<1>9. GotInv'
  <2>1. ASSUME NEW i \in DOMAIN got'[p], got'[p][i].sid = session[p], got'[p][i].life = x
        PROVE  got'[p][i].seq < recvSeq'[p]
    <3>1. CASE i = Len(got[p]) + 1
      BY <1>1, <1>3, <1>4, <3>1
    <3>2. CASE i \in 1 .. Len(got[p])
      <4>1. got[p][i].seq < recvSeq[p] /\ got[p][i].seq \in Nat /\ got'[p][i] = got[p][i]
        BY <1>0, <1>4, <1>a, <2>1, <3>2, GotTypes
      <4> QED BY <1>1, <1>2, <1>3, <4>1
    <3> QED BY <1>4, <2>1, <3>1, <3>2
  <2>2. ASSUME mode[p] = "strict", NEW n \in 0 .. m.seq
        PROVE  \E i \in DOMAIN got'[p] : got'[p][i] = [sid |-> session[p], life |-> x, seq |-> n]
    <3>1. CASE n = m.seq
      <4>1. Len(got[p]) + 1 \in DOMAIN got'[p]
        BY <1>4
      <4> QED BY <1>1, <1>4, <3>1, <4>1
    <3>2. CASE n # m.seq
      <4>1. n \in 0 .. recvSeq[p] - 1
        BY <1>1, <1>2, <2>2, <3>2
      <4>2. PICK i \in DOMAIN got[p] : got[p][i] = [sid |-> session[p], life |-> x, seq |-> n]
        BY <1>a, <2>2, <4>1
      <4> QED BY <1>4, <4>2
    <3> QED BY <3>1, <3>2
  <2>3. 0 .. recvSeq'[p] - 1 = 0 .. m.seq
    BY <1>1, <1>3
  <2>4. ASSUME NEW q \in End, q # p, state[q] = "active"
        PROVE  /\ \A i \in DOMAIN got'[q] :
                    got'[q][i].sid = session[q] /\ got'[q][i].life = entered[q][session[q]]
                      => got'[q][i].seq < recvSeq'[q]
               /\ mode[q] = "strict" =>
                    \A n \in 0 .. recvSeq'[q] - 1 : \E i \in DOMAIN got'[q] :
                      got'[q][i] = [sid |-> session[q], life |-> entered[q][session[q]], seq |-> n]
               /\ recvSeq'[q] = 0 \/ \E o \in sealed :
                    o.to = q /\ o.sid = session[q] /\ o.seq + 1 = recvSeq'[q]
    <3>1. got'[q] = got[q] /\ recvSeq'[q] = recvSeq[q]
      BY <1>3, <2>4
    <3> QED BY <2>4, <3>1 DEF SessionIInv, GotInv
  <2>5. ASSUME mode[p] = "strict", NEW n \in 0 .. recvSeq'[p] - 1
        PROVE  \E i \in DOMAIN got'[p] : got'[p][i] = [sid |-> session[p], life |-> x, seq |-> n]
    BY <2>2, <2>3, <2>5
  <2>6. \E o \in sealed : o.to = p /\ o.sid = session[p] /\ o.seq + 1 = recvSeq'[p]
    BY <1>1, <1>3
  <2> QED BY <1>0, <2>1, <2>4, <2>5, <2>6 DEF GotInv
<1>10. InOrderOnce'
  <2> DEFINE Before(c, d) == c.sid = d.sid => c.life < d.life \/ (c.life = d.life /\ c.seq < d.seq)
             Ordered(g, j) == \A i \in 1 .. j - 1 : Before(g[i], g[j])
             NoGap(g, j) == \A n \in 0 .. g[j].seq - 1 :
                              \E i \in 1 .. j - 1 : g[i] = [g[j] EXCEPT !.seq = n]
  <2>1. ASSUME NEW j \in DOMAIN got'[p]
        PROVE  Ordered(got'[p], j) /\ (mode[p] = "strict" => NoGap(got'[p], j))
    <3>1. CASE j = Len(got[p]) + 1
      <4>1. 1 .. j - 1 = DOMAIN got[p] /\ got'[p][j] = e
            /\ \A i \in 1 .. j - 1 : got'[p][i] = got[p][i]
        BY <1>4, <3>1
      <4>2. ASSUME NEW i \in DOMAIN got[p] PROVE Before(got[p][i], e)
        <5>1. CASE got[p][i].sid = m.sid
          <6>1. got[p][i].life \in 1 .. x
            BY <1>1, <5>1 DEF SessionIInv, DrawnInv
          <6>2. got[p][i].life = x => got[p][i].seq < recvSeq[p]
            BY <1>1, <1>a, <5>1
          <6>3. x \in Nat /\ got[p][i].seq \in Nat /\ got[p][i].life \in Nat
            BY <1>0, <1>1, GotTypes DEF TypeOK
          <6>4. recvSeq[p] \in Nat /\ m.seq \in Nat
            BY <1>1
          <6>5. got[p][i].life < x \/ (got[p][i].life = x /\ got[p][i].seq < m.seq)
            BY <1>2, <6>1, <6>2, <6>3, <6>4
          <6> QED BY <1>1, <6>5
        <5>2. CASE got[p][i].sid # m.sid
          BY <5>2
        <5> QED BY <5>1, <5>2
      <4>3. ASSUME mode[p] = "strict" PROVE NoGap(got'[p], j)
        <5>1. ASSUME NEW n \in 0 .. m.seq - 1
              PROVE  \E i \in 1 .. j - 1 : got'[p][i] = [e EXCEPT !.seq = n]
          <6>1. PICK i \in DOMAIN got[p] : got[p][i] = [sid |-> session[p], life |-> x, seq |-> n]
            BY <1>1, <1>2, <1>a, <4>3, <5>1
          <6>2. [e EXCEPT !.seq = n] = [sid |-> session[p], life |-> x, seq |-> n]
            BY <1>1
          <6> QED BY <4>1, <6>1, <6>2
        <5> QED BY <4>1, <5>1
      <4> QED BY <4>1, <4>2, <4>3
    <3>2. CASE j \in 1 .. Len(got[p])
      <4>1. Ordered(got[p], j) /\ (mode[p] = "strict" => NoGap(got[p], j))
        BY <1>4, <3>2 DEF SessionIInv, InOrderOnce
      <4>2. got'[p][j] = got[p][j] /\ \A i \in 1 .. j - 1 : got'[p][i] = got[p][i]
        <5>1. \A i \in 1 .. Len(got[p]) : got'[p][i] = got[p][i]
          BY <1>4
        <5>2. j \in Nat /\ Len(got[p]) \in Nat /\ j <= Len(got[p])
          BY <1>4, <3>2
        <5>3. 1 .. j - 1 \subseteq 1 .. Len(got[p])
          BY <5>2
        <5> QED BY <3>2, <5>1, <5>3
      <4>3. Ordered(got'[p], j)
        BY <4>1, <4>2
      <4>4. ASSUME mode[p] = "strict" PROVE NoGap(got'[p], j)
        <5>1. ASSUME NEW n \in 0 .. got[p][j].seq - 1
              PROVE  \E i \in 1 .. j - 1 : got'[p][i] = [got[p][j] EXCEPT !.seq = n]
          <6>1. PICK i \in 1 .. j - 1 : got[p][i] = [got[p][j] EXCEPT !.seq = n]
            BY <4>1, <4>4, <5>1
          <6> QED BY <4>2, <6>1
        <5> QED BY <4>2, <5>1
      <4> QED BY <4>3, <4>4
    <3> QED BY <1>4, <2>1, <3>1, <3>2
  <2>2. ASSUME NEW q \in End, q # p, NEW j \in DOMAIN got'[q]
        PROVE  Ordered(got'[q], j) /\ (mode[q] = "strict" => NoGap(got'[q], j))
    BY <1>3, <2>2 DEF SessionIInv, InOrderOnce
  <2>3. ASSUME NEW q \in End, NEW j \in DOMAIN got'[q]
        PROVE  Ordered(got'[q], j) /\ (mode[q] = "strict" => NoGap(got'[q], j))
    <3>1. CASE q = p
      BY <2>1, <3>1
    <3>2. CASE q # p
      BY <2>2, <3>2
    <3> QED BY <3>1, <3>2
  <2> QED BY <1>0, <2>3 DEF InOrderOnce
<1> QED BY <1>6, <1>7, <1>8, <1>9, <1>10 DEF SessionIInv

-----------------------------------------------------------------------------
(* Every step *)

\* A step of both ends and their transport keeps the inductive invariant.
LEMMA SessionStep ==
  ASSUME SessionIInv, [Next]_vars
  PROVE  SessionIInv'
<1>0. TypeOK
  BY DEF SessionIInv
<1>1. ASSUME NEW p \in End, NEW s \in Sid, InitiateSession(p, s) PROVE SessionIInv'
  <2>1. sendSeq[p] = 0 /\ recvSeq[p] = 0
    BY <1>1 DEF SessionIInv, KeysInv, InitiateSession
  <2>2. Enter(p, s)
    BY <1>0, <1>1, <2>1 DEF InitiateSession, Enter, TypeOK
  <2>3. settling' \in {s, NoSid} /\ (settling' = s => state[Peer(p)] = "idle")
    BY <1>1, SidAssumption DEF InitiateSession
  <2> QED BY <1>1, <2>2, <2>3, RequestStep DEF InitiateSession
<1>2. ASSUME NEW p \in End, NEW s \in Sid, InitiateRekey(p, s) PROVE SessionIInv'
  <2>1. Enter(p, s)
    BY <1>0, <1>2 DEF InitiateRekey, ResetSeqs, Enter, TypeOK
  <2> QED BY <1>2, <2>1, RequestStep DEF InitiateRekey
<1>3. ASSUME NEW p \in End, NEW r \in setups, ProcessInit(p, r) PROVE SessionIInv'
  <2>1. sendSeq[p] = 0 /\ recvSeq[p] = 0
    BY <1>3 DEF SessionIInv, KeysInv, ProcessInit
  <2>2. Enter(p, r.sid)
    BY <1>0, <1>3, <2>1 DEF ProcessInit, Brought, Enter, TypeOK
  <2> QED BY <1>3, <2>2, ProcessStep DEF ProcessInit, Brought
<1>4. ASSUME NEW p \in End, NEW r \in setups, ProcessRekey(p, r) PROVE SessionIInv'
  <2>1. Enter(p, r.sid)
    BY <1>0, <1>4 DEF ProcessRekey, Brought, ResetSeqs, Enter, TypeOK
  <2> QED BY <1>4, <2>1, ProcessStep DEF ProcessRekey, Brought
<1>5. ASSUME NEW p \in End, NEW r \in setups, RefuseRekey(p, r) PROVE SessionIInv'
  <2>1. settling' = NoSid /\ UNCHANGED <<mode, session, setups, sealed, got, entered>>
    BY <1>5 DEF RefuseRekey, Brought
  <2>2. TypeOK'
    BY <1>0, <1>5, <2>1 DEF RefuseRekey, ResetSeqs, TypeOK
  <2>3. state'[p] = "idle" /\ sendSeq'[p] = 0 /\ recvSeq'[p] = 0
        /\ \A q \in End : q # p => /\ state'[q] = state[q]
                                   /\ sendKey'[q] = sendKey[q] /\ recvKey'[q] = recvKey[q]
                                   /\ sendSeq'[q] = sendSeq[q] /\ recvSeq'[q] = recvSeq[q]
    BY <1>0, <1>5 DEF RefuseRekey, ResetSeqs, TypeOK
  <2>4. KeysInv' /\ GotInv'
    BY <2>1, <2>3 DEF SessionIInv, KeysInv, GotInv
  <2>5. SealedInv'
    <3>1. \A m \in sealed : Peer(m.to) \in End
      BY <1>0, Peers DEF TypeOK, Message
    <3> QED BY <2>1, <2>3, <3>1 DEF SessionIInv, SealedInv
  <2>6. DrawnInv' /\ SetupsInv' /\ SettlingInv' /\ InOrderOnce'
    BY <2>1 DEF SessionIInv, DrawnInv, Requested, SetupsInv, SettlingInv, InOrderOnce
  <2> QED BY <2>2, <2>4, <2>5, <2>6 DEF SessionIInv
<1>6. ASSUME (\E p \in End : ForgetUsed(p)) \/ UNCHANGED vars PROVE SessionIInv'
  <2>1. UNCHANGED <<mode, state, session, sendKey, recvKey, sendSeq, recvSeq, setups, sealed,
                    got, entered, settling>>
        /\ used' \in [End -> SUBSET Nat]
    BY <1>0, <1>6 DEF ForgetUsed, vars, chainVars, TypeOK
  <2>2. TypeOK'
    BY <1>0, <2>1 DEF TypeOK
  <2> QED BY <2>1, <2>2 DEF SessionIInv, DrawnInv, Requested, KeysInv, SealedInv, SetupsInv, GotInv,
                            SettlingInv, InOrderOnce
<1> QED BY <1>1, <1>2, <1>3, <1>4, <1>5, <1>6, EncryptStep, DecryptStep DEF Next

-----------------------------------------------------------------------------
(* Theorems *)

\* SessionIInv is an invariant of the two ends and their transport.
THEOREM SessionInvariance == Spec => []SessionIInv
<1>1. Init => SessionIInv
  BY SessionInitIInv
<1>2. SessionIInv /\ [Next]_vars => SessionIInv'
  BY SessionStep
<1> QED BY <1>1, <1>2, PTL DEF Spec

\* The variables keep their types.
THEOREM SessionTypeCorrect == Spec => []TypeOK
<1>1. SessionIInv => TypeOK
  BY DEF SessionIInv
<1> QED BY <1>1, SessionInvariance, PTL

\* Whatever messages and requests the transport repeats and reorders, the window skips and the
\* cache of numbers forgets: between two set-ups an end opens the messages of its session once
\* each and in order; and one of the two ends opens each once for good, though process_rekey
\* takes any request it has processed before (seq_manager.py:51-95, session.py:135-303).
THEOREM OpenedInOrderOnce == Spec => []NothingTwice
<1>1. SessionIInv => NothingTwice
  <2> SUFFICES ASSUME SessionIInv, NEW s \in Sid
               PROVE  \E p \in End : \A j \in DOMAIN got[p] : got[p][j].sid = s =>
                        \A i \in 1 .. j - 1 :
                          got[p][i].sid = s => got[p][i].seq < got[p][j].seq
    BY DEF NothingTwice, OnceAtOneEnd, SessionIInv
  <2>0. TypeOK
    BY DEF SessionIInv
  <2>1. PICK p \in End : entered[p][s] <= 1
    BY DEF SessionIInv, SetupsInv
  <2>2. ASSUME NEW j \in DOMAIN got[p], NEW i \in 1 .. j - 1,
               got[p][j].sid = s, got[p][i].sid = s
        PROVE  got[p][i].seq < got[p][j].seq
    <3>1. got[p] \in Seq(Opened)
      BY <2>0 DEF TypeOK
    <3>2. i \in DOMAIN got[p]
      BY <2>2, <3>1
    <3>3. entered[p][s] \in Nat
      BY <2>0 DEF TypeOK
    \* there was one life only
    <3>4. got[p][i].life \in 1 .. entered[p][s] /\ got[p][j].life \in 1 .. entered[p][s]
      BY <2>2, <3>2 DEF SessionIInv, DrawnInv
    <3>5. got[p][i].life = 1 /\ got[p][j].life = 1
      BY <2>1, <3>3, <3>4
    <3> QED BY <2>2, <3>5 DEF SessionIInv, InOrderOnce
  <2> QED BY <2>2
<1> QED BY <1>1, SessionInvariance, PTL

\* A request that nothing disturbs has brought both ends into one session.
LEMMA SettledInOneSession == SessionIInv => Resynced
<1> SUFFICES ASSUME SessionIInv, settling # NoSid, \A p \in End : entered[p][settling] > 0
             PROVE  \A p \in End : state[p] = "active" /\ session[p] = settling
  BY DEF Resynced
<1>1. PICK r \in setups :
        /\ state[r.from] = "active" /\ session[r.from] = settling
        /\ IF entered[Peer(r.from)][settling] = 0
           THEN r.type = "init" => state[Peer(r.from)] = "idle"
           ELSE state[Peer(r.from)] = "active" /\ session[Peer(r.from)] = settling
  BY DEF SessionIInv, SettlingInv
<1>2. r.from \in End /\ Peer(r.from) \in End /\ End = {r.from, Peer(r.from)}
  <2>1. r.from \in End
    BY DEF SessionIInv, TypeOK, Setup
  <2> QED BY <2>1, EndAssumption DEF End, Peer
<1>3. entered[Peer(r.from)][settling] # 0
  BY <1>2
<1> QED BY <1>1, <1>2, <1>3

\* No end waits for a number that its peer has passed, if the peer was set up once.
LEMMA NobodyAhead == SessionIInv => NotAhead
<1> SUFFICES ASSUME SessionIInv, NEW p \in End, state[p] = "active", state[Peer(p)] = "active",
                    session[p] = session[Peer(p)], entered[p][session[p]] = 1
             PROVE  recvSeq[Peer(p)] <= sendSeq[p]
  BY DEF NotAhead
<1> DEFINE q == Peer(p)
<1>1. q \in End /\ Peer(q) = p /\ sendSeq[p] \in Nat /\ recvSeq[q] \in Nat
  BY Peers DEF SessionIInv, TypeOK
<1>2. CASE recvSeq[q] = 0
  BY <1>1, <1>2
<1>3. CASE recvSeq[q] # 0
  <2>1. PICK m \in sealed : m.to = q /\ m.sid = session[q] /\ m.seq + 1 = recvSeq[q]
    BY <1>1, <1>3 DEF SessionIInv, GotInv
  <2>2. m.seq < sendSeq[p] /\ m.seq \in Nat
    BY <1>1, <2>1 DEF SessionIInv, SealedInv, TypeOK, Message
  <2> QED BY <1>1, <2>1, <2>2
<1> QED BY <1>2, <1>3

\* A message that passes the check of its number opens, a rekey that nothing disturbs brings
\* both ends into one session, whatever happened before, and no end waits there for a number
\* that a sender that was set up once has passed (session.py:216-303).
THEOREM EndsStayInStep == Spec => []StaysInStep
<1>1. SessionIInv => StaysInStep
  BY ValidMessageOpens, SettledInOneSession, NobodyAhead DEF StaysInStep
<1> QED BY <1>1, SessionInvariance, PTL

-----------------------------------------------------------------------------
(* ShortTermKeys: what is assumed *)

\* What the theorems assume of the constants: there are two ends, the bounds are numbers,
\* and "no session" is neither an end nor a session.
SkAssumption ==
  /\ \E a, b \in Party : a # b /\ Party = {a, b}
  /\ MaxSession \in Nat /\ MaxTexts \in Nat /\ MaxSkMishaps \in Nat
  /\ NoSession \notin Party /\ NoSession \notin Session

-----------------------------------------------------------------------------
(* ShortTermKeys: what a step does to what is on its way *)

SkMessage == [kind : KeyMessage, session : Session]
\* The message of a kind and a session
SkM(kind, s) == [kind |-> kind, session |-> s]

LEMMA OtherEnd ==
  ASSUME SkAssumption, NEW e \in Party
  PROVE  /\ OtherParty(e) \in Party /\ OtherParty(e) # e /\ OtherParty(OtherParty(e)) = e
         /\ \A d \in Party : d = e \/ d = OtherParty(e)
<1>1. PICK a \in Party, b \in Party : a # b /\ Party = {a, b}
  BY DEF SkAssumption
<1>2. OtherParty(a) = b /\ OtherParty(b) = a
  BY <1>1 DEF OtherParty
<1> QED BY <1>1, <1>2

LEMMA AppendIs ==
  ASSUME NEW S, NEW q \in Seq(S), NEW x \in S
  PROVE  /\ Append(q, x) \in Seq(S) /\ Len(q) \in Nat /\ Len(Append(q, x)) = Len(q) + 1
         /\ DOMAIN q = 1 .. Len(q) /\ DOMAIN Append(q, x) = 1 .. Len(q) + 1
         /\ \A i \in 1 .. Len(q) : Append(q, x)[i] = q[i]
         /\ Append(q, x)[Len(q) + 1] = x
OBVIOUS

LEMMA TailIs ==
  ASSUME NEW S, NEW q \in Seq(S), q # <<>>
  PROVE  /\ Tail(q) \in Seq(S) /\ q[1] \in S /\ Len(q) \in Nat \ {0}
         /\ DOMAIN q = 1 .. Len(q) /\ DOMAIN Tail(q) = 1 .. Len(q) - 1
         /\ \A i \in 1 .. Len(q) - 1 : Tail(q)[i] = q[i + 1]
OBVIOUS

\* The step appends m to what arrives at d,
Appended(d, m) ==
  /\ inbound'[d] = Append(inbound[d], m)
  /\ \A c \in Party \ {d} : inbound'[c] = inbound[c]

\* or takes the first message there.
TakenAt(d) ==
  /\ inbound[d] # <<>> /\ inbound'[d] = Tail(inbound[d])
  /\ \A c \in Party \ {d} : inbound'[c] = inbound[c]

LEMMA TransmitIs ==
  ASSUME SkAssumption, SkTypeOK, NEW e \in Party, NEW k \in KeyMessage, NEW s \in Session,
         Transmit(e, k, s)
  PROVE  /\ inbound' \in [Party -> Seq(SkMessage)] /\ skMishaps' \in 0 .. MaxSkMishaps
         /\ Appended(OtherParty(e), SkM(k, s)) \/ inbound' = inbound
         /\ skMishaps' = 0 => skMishaps = 0 /\ Appended(OtherParty(e), SkM(k, s))
<1>1. inbound \in [Party -> Seq(SkMessage)] /\ skMishaps \in 0 .. MaxSkMishaps
  BY DEF SkTypeOK, SkMessage
<1>2. SkM(k, s) \in SkMessage /\ OtherParty(e) \in Party
  BY OtherEnd DEF SkMessage, SkM
<1>3. Append(inbound[OtherParty(e)], SkM(k, s)) \in Seq(SkMessage)
  BY <1>1, <1>2, AppendIs
<1>4. CASE /\ inbound' = [inbound EXCEPT ![OtherParty(e)] = Append(@, SkM(k, s))]
           /\ UNCHANGED skMishaps
  BY <1>1, <1>2, <1>3, <1>4 DEF Appended
<1>5. CASE SkMishap /\ UNCHANGED inbound
  BY <1>1, <1>5 DEF SkMishap, SkAssumption
<1> QED BY <1>4, <1>5 DEF Transmit, SkM

LEMMA TakenIs ==
  ASSUME SkTypeOK, NEW e \in Party, inbound[e] # <<>>, Taken(e)
  PROVE  /\ inbound' \in [Party -> Seq(SkMessage)] /\ TakenAt(e)
         /\ Head1(e) \in SkMessage
<1>1. inbound \in [Party -> Seq(SkMessage)]
  BY DEF SkTypeOK, SkMessage
<1>2. Tail(inbound[e]) \in Seq(SkMessage) /\ inbound[e][1] \in SkMessage
  BY <1>1, TailIs
<1> QED BY <1>1, <1>2 DEF Taken, TakenAt, Head1

LEMMA ComingMore ==
  ASSUME SkTypeOK, NEW d \in Party, NEW m \in SkMessage, Appended(d, m)
  PROVE  \A c \in Party, k \in KeyMessage, t \in Session :
           Coming(c, k, t)' <=> Coming(c, k, t) \/ (c = d /\ m = SkM(k, t))
<1>1. inbound \in [Party -> Seq(SkMessage)]
  BY DEF SkTypeOK, SkMessage
<1> SUFFICES ASSUME NEW c \in Party, NEW k \in KeyMessage, NEW t \in Session
             PROVE  Coming(c, k, t)' <=> Coming(c, k, t) \/ (c = d /\ m = SkM(k, t))
  OBVIOUS
<1>2. CASE c # d
  BY <1>2 DEF Coming, Appended
<1>3. CASE c = d
  <2> DEFINE q == inbound[d]
             r == inbound'[d]
  <2>1. /\ Len(q) \in Nat /\ DOMAIN q = 1 .. Len(q) /\ DOMAIN r = 1 .. Len(q) + 1
        /\ \A i \in 1 .. Len(q) : r[i] = q[i]
        /\ r[Len(q) + 1] = m
    BY <1>1, AppendIs DEF Appended
  <2> HIDE DEF q, r
  <2>2. (\E i \in DOMAIN r : r[i] = SkM(k, t))
          <=> (\E i \in DOMAIN q : q[i] = SkM(k, t)) \/ m = SkM(k, t)
    BY <2>1
  <2> QED BY <1>3, <2>2 DEF Coming, SkM, q, r
<1> QED BY <1>2, <1>3

LEMMA ComingLess ==
  ASSUME SkTypeOK, NEW d \in Party, TakenAt(d)
  PROVE  \A c \in Party, k \in KeyMessage, t \in Session :
           Coming(c, k, t) <=> Coming(c, k, t)' \/ (c = d /\ Head1(d) = SkM(k, t))
<1>1. inbound \in [Party -> Seq(SkMessage)]
  BY DEF SkTypeOK, SkMessage
<1> SUFFICES ASSUME NEW c \in Party, NEW k \in KeyMessage, NEW t \in Session
             PROVE  Coming(c, k, t) <=> Coming(c, k, t)' \/ (c = d /\ Head1(d) = SkM(k, t))
  OBVIOUS
<1>2. CASE c # d
  BY <1>2 DEF Coming, TakenAt
<1>3. CASE c = d
  <2> DEFINE q == inbound[d]
             r == inbound'[d]
  <2>1. /\ Len(q) \in Nat \ {0} /\ DOMAIN q = 1 .. Len(q) /\ DOMAIN r = 1 .. Len(q) - 1
        /\ \A i \in 1 .. Len(q) - 1 : r[i] = q[i + 1]
    BY <1>1, TailIs DEF TakenAt
  <2> HIDE DEF q, r
  <2>2. ASSUME NEW i \in DOMAIN r, r[i] = SkM(k, t) PROVE \E j \in DOMAIN q : q[j] = SkM(k, t)
    <3>1. i + 1 \in DOMAIN q /\ q[i + 1] = SkM(k, t)
      BY <2>1, <2>2
    <3> QED BY <3>1
  <2>3. ASSUME NEW j \in DOMAIN q, q[j] = SkM(k, t), j # 1
        PROVE  \E i \in DOMAIN r : r[i] = SkM(k, t)
    <3>1. j - 1 \in 1 .. Len(q) - 1 /\ (j - 1) + 1 = j
      BY <2>1, <2>3
    <3>2. j - 1 \in DOMAIN r /\ r[j - 1] = SkM(k, t)
      BY <2>1, <2>3, <3>1
    <3> QED BY <3>2
  <2>4. 1 \in DOMAIN q
    BY <2>1
  <2>5. (\E i \in DOMAIN q : q[i] = SkM(k, t))
          <=> (\E i \in DOMAIN r : r[i] = SkM(k, t)) \/ q[1] = SkM(k, t)
    BY <2>2, <2>3, <2>4
  <2> QED BY <1>3, <2>5 DEF Coming, SkM, Head1, q, r
<1> QED BY <1>2, <1>3

-----------------------------------------------------------------------------
(* ShortTermKeys: types *)

LEMMA SkTypesStep ==
  ASSUME SkAssumption, SkTypeOK, [SkNext]_skVars
  PROVE  SkTypeOK'
<1> DEFINE At == {"none", "wait_destination_hello", "arrived", "answered",
                  "wait_finished", "finished", "failed"}
<1>0. /\ starter \in [Session -> Party \union {NoSession}]
      /\ skStage \in [Party -> [Session -> At]]
      /\ handed \in [Party -> [Session -> SUBSET KeyMessage]]
      /\ inbound \in [Party -> Seq(SkMessage)]
      /\ known \in [Party -> SUBSET Session]
      /\ current \in [Party -> Session \union {NoSession}]
      /\ texts \in [Party -> 0 .. MaxTexts] /\ skMishaps \in 0 .. MaxSkMishaps
  BY DEF SkTypeOK, SkMessage
<1> DEFINE T == /\ starter' \in [Session -> Party \union {NoSession}]
                /\ skStage' \in [Party -> [Session -> At]]
                /\ handed' \in [Party -> [Session -> SUBSET KeyMessage]]
                /\ inbound' \in [Party -> Seq(SkMessage)]
                /\ known' \in [Party -> SUBSET Session]
                /\ current' \in [Party -> Session \union {NoSession}]
                /\ texts' \in [Party -> 0 .. MaxTexts] /\ skMishaps' \in 0 .. MaxSkMishaps
<1> SUFFICES T
  BY DEF SkTypeOK, SkMessage
<1>1. ASSUME NEW e \in Party, NEW s \in Session, NEW to \in At, Goes(e, s, to)
      PROVE  skStage' \in [Party -> [Session -> At]]
  BY <1>0, <1>1 DEF Goes
<1>2. SkMishap => skMishaps' \in 0 .. MaxSkMishaps
  BY <1>0 DEF SkMishap, SkAssumption
<1>3. CASE UNCHANGED skVars
  BY <1>0, <1>3 DEF skVars
<1>4. ASSUME NEW e \in Party, NEW s \in Session, Negotiate(e, s) PROVE T
  <2>1. inbound' \in [Party -> Seq(SkMessage)] /\ skMishaps' \in 0 .. MaxSkMishaps
    BY <1>4, TransmitIs DEF Negotiate, KeyMessage
  <2>2. skStage' \in [Party -> [Session -> At]]
    BY <1>1, <1>4 DEF Negotiate
  <2> HIDE DEF At
  <2> QED BY <1>0, <1>4, <2>1, <2>2 DEF Negotiate
<1>5. ASSUME NEW e \in Party, NEW s \in Session,
             SendDestinationHello(e, s) \/ SendFinishedPassive(e, s) \/ SendFinishedActive(e, s)
      PROVE  T
  <2>1. inbound' \in [Party -> Seq(SkMessage)] /\ skMishaps' \in 0 .. MaxSkMishaps
    BY <1>5, TransmitIs
    DEF SendDestinationHello, SendFinishedPassive, SendFinishedActive, SendFinished, KeyMessage
  <2>2. skStage' \in [Party -> [Session -> At]]
    BY <1>1, <1>5
    DEF SendDestinationHello, SendFinishedPassive, SendFinishedActive, SendFinished
  <2> HIDE DEF At
  <2> QED BY <1>0, <1>5, <2>1, <2>2
          DEF SendDestinationHello, SendFinishedPassive, SendFinishedActive, SendFinished
<1>6. ASSUME NEW e \in Party, NEW s \in Session,
             WakeEarly(e, s) \/ StaleProof(e, s) \/ Timeout(e, s)
      PROVE  T
  <2>1. skStage' \in [Party -> [Session -> At]]
    BY <1>1, <1>6 DEF WakeEarly, StaleProof, Timeout
  <2> HIDE DEF At
  <2> QED BY <1>0, <1>2, <1>6, <2>1 DEF WakeEarly, StaleProof, Timeout
<1>7. ASSUME NEW e \in Party, NEW s \in Session, ReceiveFinished(e, s) PROVE T
  <2>1. skStage' \in [Party -> [Session -> At]]
    BY <1>1, <1>7 DEF ReceiveFinished
  <2> HIDE DEF At
  <2> QED BY <1>0, <1>7, <2>1 DEF ReceiveFinished
<1>8. ASSUME NEW e \in Party, HearHello(e) PROVE T
  <2>1. inbound' \in [Party -> Seq(SkMessage)] /\ Head1(e).session \in Session
    BY <1>8, TakenIs DEF HearHello, SkMessage
  <2>2. skStage' \in [Party -> [Session -> At]]
    BY <1>1, <1>8, <2>1 DEF HearHello
  <2> HIDE DEF At
  <2> QED BY <1>0, <1>8, <2>1, <2>2 DEF HearHello
<1>9. ASSUME NEW e \in Party, HandOver(e) PROVE T
  <2>1. inbound' \in [Party -> Seq(SkMessage)] /\ Head1(e).session \in Session
        /\ Head1(e).kind \in KeyMessage
    BY <1>9, TakenIs DEF HandOver, SkMessage
  <2>2. handed' \in [Party -> [Session -> SUBSET KeyMessage]]
    BY <1>0, <1>9, <2>1 DEF HandOver
  <2> HIDE DEF At
  <2> QED BY <1>0, <1>9, <2>1, <2>2 DEF HandOver
<1>10. ASSUME NEW e \in Party, Read(e) PROVE T
  <2>1. inbound' \in [Party -> Seq(SkMessage)]
    BY <1>10, TakenIs DEF Read
  <2> HIDE DEF At
  <2> QED BY <1>0, <1>10, <2>1 DEF Read
<1>11. ASSUME NEW e \in Party, SendData(e) PROVE T
  <2>1. inbound' \in [Party -> Seq(SkMessage)] /\ skMishaps' \in 0 .. MaxSkMishaps
    <3>1. current[e] \in Session /\ "message" \in KeyMessage
      BY <1>0, <1>11 DEF SendData, KeyMessage
    <3> QED BY <1>11, <3>1, TransmitIs DEF SendData
  <2>2. texts' \in [Party -> 0 .. MaxTexts]
    BY <1>0, <1>11 DEF SendData, SkAssumption
  <2> HIDE DEF At
  <2> QED BY <1>0, <1>11, <2>1, <2>2 DEF SendData
<1>12. ASSUME NEW e \in Party, RestartParty(e) PROVE T
  <2>1. skStage' \in [Party -> [Session -> At]]
    BY <1>0, <1>12 DEF RestartParty
  <2>2. inbound' \in [Party -> Seq(SkMessage)]
    <3>1. <<>> \in Seq(SkMessage)
      OBVIOUS
    <3> QED BY <1>0, <1>12, <3>1 DEF RestartParty
  <2>3. current' \in [Party -> Session \union {NoSession}]
    BY <1>0, <1>12 DEF RestartParty
  <2> HIDE DEF At
  <2> QED BY <1>0, <1>2, <1>12, <2>1, <2>2, <2>3 DEF RestartParty
<1> HIDE DEF T
<1> QED BY <1>3, <1>4, <1>5, <1>6, <1>7, <1>8, <1>9, <1>10, <1>11, <1>12 DEF SkNext

-----------------------------------------------------------------------------
(* ShortTermKeys: whatever goes wrong *)

Derived == {"wait_finished", "finished", "failed"}

\* No two of what arrives at d are the hello of one session.
HelloOnce(d) ==
  \A i, j \in DOMAIN inbound[d] :
    inbound[d][i] = inbound[d][j] /\ inbound[d][i].kind = "sourceHello" => i = j

LEMMA HelloOnceMore ==
  ASSUME SkTypeOK, NEW d \in Party, NEW m \in SkMessage, Appended(d, m),
         \A e \in Party : HelloOnce(e),
         m.kind = "sourceHello" => ~ Coming(d, m.kind, m.session)
  PROVE  \A e \in Party : HelloOnce(e)'
<1>1. inbound \in [Party -> Seq(SkMessage)]
  BY DEF SkTypeOK, SkMessage
<1> SUFFICES ASSUME NEW e \in Party PROVE HelloOnce(e)'
  OBVIOUS
<1>2. CASE e # d
  BY <1>2 DEF Appended, HelloOnce
<1>3. CASE e = d
  <2> DEFINE q == inbound[d]
             r == inbound'[d]
  <2>1. /\ Len(q) \in Nat /\ DOMAIN q = 1 .. Len(q) /\ DOMAIN r = 1 .. Len(q) + 1
        /\ \A i \in 1 .. Len(q) : r[i] = q[i]
        /\ r[Len(q) + 1] = m
    BY <1>1, AppendIs DEF Appended
  <2>2. \A i, j \in DOMAIN q : q[i] = q[j] /\ q[i].kind = "sourceHello" => i = j
    BY DEF HelloOnce
  <2>3. m.kind = "sourceHello" => \A i \in DOMAIN q : q[i] # m
    <3>1. m = [kind |-> m.kind, session |-> m.session]
      BY DEF SkMessage
    <3> QED BY <3>1 DEF Coming
  <2> HIDE DEF q, r
  <2>4. \A i, j \in DOMAIN r : r[i] = r[j] /\ r[i].kind = "sourceHello" => i = j
    BY <2>1, <2>2, <2>3
  <2> QED BY <1>3, <2>4 DEF HelloOnce, r
<1> QED BY <1>2, <1>3

LEMMA HelloOnceLess ==
  ASSUME SkTypeOK, NEW d \in Party, TakenAt(d), \A e \in Party : HelloOnce(e)
  PROVE  /\ \A e \in Party : HelloOnce(e)'
         /\ \A t \in Session : Head1(d) = SkM("sourceHello", t) => ~ Coming(d, "sourceHello", t)'
<1>1. inbound \in [Party -> Seq(SkMessage)]
  BY DEF SkTypeOK, SkMessage
<1> DEFINE q == inbound[d]
           r == inbound'[d]
<1>2. /\ Len(q) \in Nat \ {0} /\ DOMAIN q = 1 .. Len(q) /\ DOMAIN r = 1 .. Len(q) - 1
      /\ \A i \in 1 .. Len(q) - 1 : r[i] = q[i + 1]
      /\ q[1] \in SkMessage
  BY <1>1, TailIs DEF TakenAt
<1>3. \A i, j \in DOMAIN q : q[i] = q[j] /\ q[i].kind = "sourceHello" => i = j
  BY DEF HelloOnce
<1> HIDE DEF q, r
<1>4. \A i \in DOMAIN r : i + 1 \in DOMAIN q /\ r[i] = q[i + 1] /\ i \in Nat /\ i + 1 # 1
  BY <1>2
<1>5. \A i, j \in DOMAIN r : r[i] = r[j] /\ r[i].kind = "sourceHello" => i = j
  BY <1>3, <1>4
<1>6. \A e \in Party : e # d => HelloOnce(e)'
  BY DEF TakenAt, HelloOnce
<1>7. HelloOnce(d)'
  BY <1>5 DEF HelloOnce, r
<1>8. ASSUME NEW t \in Session, q[1] = SkM("sourceHello", t),
             NEW i \in DOMAIN r, r[i] = SkM("sourceHello", t)
      PROVE  FALSE
  <2>1. 1 \in DOMAIN q /\ q[1].kind = "sourceHello"
    BY <1>2, <1>8 DEF SkM
  <2> QED BY <1>3, <1>4, <1>8, <2>1
<1>9. ASSUME NEW t \in Session, Head1(d) = SkM("sourceHello", t), Coming(d, "sourceHello", t)'
      PROVE  FALSE
  BY <1>8, <1>9 DEF Coming, Head1, SkM, q, r
<1> QED BY <1>6, <1>7, <1>9

SkSessionInv == \A e \in Party, s \in Session : SessionInv(e, s)

LEMMA SessionFacts ==
  ASSUME SkAssumption, SkTypeOK, SkSessionInv
  PROVE  /\ \A e \in Party : HelloOnce(e)
         /\ \A e \in Party, s \in Session :
              /\ starter[s] = NoSession => skStage[e][s] = "none"
              /\ Coming(e, "sourceHello", s) => starter[s] = OtherParty(e) /\ skStage[e][s] = "none"
              /\ Reached(e, "finished", s) => skStage[OtherParty(e)][s] \in Derived
              /\ s \in known[e] => "finished" \in handed[e][s] /\ skStage[e][s] = "finished"
              /\ current[e] = s => s \in known[e]
<1>1. ASSUME NEW e \in Party PROVE HelloOnce(e)
  <2> SUFFICES ASSUME NEW i \in DOMAIN inbound[e], NEW j \in DOMAIN inbound[e],
                      inbound[e][i] = inbound[e][j], inbound[e][i].kind = "sourceHello"
               PROVE  i = j
    BY DEF HelloOnce
  <2>1. inbound[e] \in Seq(SkMessage)
    BY DEF SkTypeOK, SkMessage
  <2>2. inbound[e][i] \in SkMessage
    BY <2>1
  <2>3. inbound[e][i].session \in Session
    BY <2>2 DEF SkMessage
  <2> QED BY <2>3 DEF SkSessionInv, SessionInv
<1> QED BY <1>1 DEF SkSessionInv, SessionInv, Derived

\* A step keeps what holds whatever goes wrong when it starts no session, moves no coroutine
\* back, and sends no hello again.
LEMMA SessionKept ==
  ASSUME SkAssumption, SkTypeOK, SkSessionInv,
         starter' = starter,
         \A e \in Party : HelloOnce(e)',
         \A e \in Party, s \in Session :
           /\ \/ skStage'[e][s] = skStage[e][s]
              \/ /\ skStage[e][s] \notin {"none", "finished"}
                 /\ skStage[e][s] \in Derived => skStage'[e][s] \in Derived
              \/ /\ skStage[e][s] = "none" /\ ~ Coming(e, "sourceHello", s)'
                 /\ starter[s] # NoSession
           /\ Coming(e, "sourceHello", s)' => Coming(e, "sourceHello", s)
           /\ Reached(e, "finished", s)'
                => Reached(e, "finished", s) \/ skStage'[OtherParty(e)][s] \in Derived
           /\ "finished" \in handed[e][s] => "finished" \in handed'[e][s]
           /\ s \in known[e] => s \in known'[e]
           /\ s \in known'[e] =>
                s \in known[e] \/ ("finished" \in handed[e][s] /\ skStage'[e][s] = "finished")
           /\ current'[e] = s => current[e] = s \/ s \in known'[e]
  PROVE  SkSessionInv'
<1> SUFFICES ASSUME NEW e \in Party, NEW s \in Session PROVE SessionInv(e, s)'
  BY DEF SkSessionInv
<1>1. OtherParty(e) \in Party
  BY OtherEnd
<1>2. (starter[s] = NoSession => skStage[e][s] = "none")'
  BY SessionFacts
<1>3. Coming(e, "sourceHello", s)' => starter'[s] = OtherParty(e) /\ skStage'[e][s] = "none"
  BY SessionFacts
<1>4. Reached(e, "finished", s)' => skStage'[OtherParty(e)][s] \in Derived
  <2>1. Reached(e, "finished", s) => skStage[OtherParty(e)][s] \in Derived
    BY SessionFacts
  <2> QED BY <1>1, <2>1 DEF Derived
<1>5. s \in known'[e] => "finished" \in handed'[e][s] /\ skStage'[e][s] = "finished"
  <2>1. s \in known[e] => "finished" \in handed[e][s] /\ skStage[e][s] = "finished"
    BY SessionFacts
  <2> QED BY <2>1
<1>6. current'[e] = s => s \in known'[e]
  BY SessionFacts
<1>7. HelloOnce(e)'
  OBVIOUS
<1> QED BY <1>2, <1>3, <1>4, <1>5, <1>6, <1>7 DEF SessionInv, HelloOnce, Derived

LEMMA StageIs ==
  ASSUME SkTypeOK, NEW e \in Party, NEW s \in Session, NEW to, Goes(e, s, to)
  PROVE  \A d \in Party, t \in Session :
           skStage'[d][t] = IF d = e /\ t = s THEN to ELSE skStage[d][t]
BY DEF SkTypeOK, Goes

LEMMA SkSessionStep ==
  ASSUME SkAssumption, SkTypeOK, SkSessionInv, [SkNext]_skVars
  PROVE  SkSessionInv'
<1> DEFINE S == SkSessionInv'
<1>0. \A e \in Party : HelloOnce(e)
  BY SessionFacts
<1>1. inbound' = inbound => /\ \A e \in Party : HelloOnce(e)'
                            /\ \A e \in Party, k \in KeyMessage, s \in Session :
                                 Coming(e, k, s)' <=> Coming(e, k, s)
  BY <1>0 DEF HelloOnce, Coming
<1>2. CASE UNCHANGED skVars
  <2>1. ASSUME NEW e \in Party, NEW s \in Session PROVE SessionInv(e, s)'
    <3>1. SessionInv(e, s)
      BY DEF SkSessionInv
    <3> QED BY <1>2, <3>1 DEF SessionInv, skVars, Coming, Reached
  <2> QED BY <2>1 DEF SkSessionInv
<1>3. ASSUME NEW e \in Party, NEW s \in Session, Negotiate(e, s) PROVE S
  <2>1. /\ starter[s] = NoSession /\ starter' = [starter EXCEPT ![s] = e]
        /\ Goes(e, s, "wait_destination_hello") /\ Transmit(e, "sourceHello", s)
        /\ UNCHANGED <<handed, known, current>>
    BY <1>3 DEF Negotiate
  <2>2. \A t \in Session : starter'[t] = IF t = s THEN e ELSE starter[t]
    BY <2>1 DEF SkTypeOK
  <2>3. \A d \in Party, t \in Session :
          skStage'[d][t] = IF d = e /\ t = s THEN "wait_destination_hello" ELSE skStage[d][t]
    BY <2>1, StageIs
  <2>4. /\ OtherParty(e) \in Party /\ OtherParty(e) # e /\ OtherParty(OtherParty(e)) = e /\ e # NoSession
        /\ OtherParty(e) # NoSession
    BY OtherEnd DEF SkAssumption
  <2>5. \A d \in Party : skStage[d][s] = "none" /\ ~ Coming(d, "sourceHello", s)
    BY <2>1, <2>4, OtherEnd, SessionFacts DEF SkAssumption
  <2>6. SkM("sourceHello", s) \in SkMessage
    BY DEF SkM, SkMessage, KeyMessage
  <2>7. /\ \A d \in Party : HelloOnce(d)'
        /\ \A d \in Party, k \in KeyMessage, t \in Session :
             Coming(d, k, t)' =>
               Coming(d, k, t) \/ (d = OtherParty(e) /\ k = "sourceHello" /\ t = s)
    <3>1. CASE Appended(OtherParty(e), SkM("sourceHello", s))
      <4>1. SkM("sourceHello", s).kind = "sourceHello" /\ SkM("sourceHello", s).session = s
        BY DEF SkM
      <4>2. \A d \in Party : HelloOnce(d)'
        BY <1>0, <2>4, <2>5, <2>6, <3>1, <4>1, HelloOnceMore
      <4>3. \A k, t : SkM("sourceHello", s) = SkM(k, t) => k = "sourceHello" /\ t = s
        BY DEF SkM
      <4> QED BY <2>4, <2>6, <3>1, <4>2, <4>3, ComingMore
    <3>2. CASE inbound' = inbound
      BY <1>1, <3>2
    <3> QED BY <2>1, <3>1, <3>2, TransmitIs DEF KeyMessage
  <2>8. ASSUME NEW d \in Party, NEW t \in Session PROVE SessionInv(d, t)'
    <3>1. (starter[t] = NoSession => skStage[d][t] = "none")'
      BY <2>2, <2>3, <2>4, SessionFacts
    <3>2. Coming(d, "sourceHello", t)' => starter'[t] = OtherParty(d) /\ skStage'[d][t] = "none"
      <4>1. CASE t = s
        BY <2>2, <2>3, <2>4, <2>5, <2>7, <4>1 DEF KeyMessage
      <4>2. CASE t # s
        BY <2>2, <2>3, <2>7, <4>2, SessionFacts DEF KeyMessage
      <4> QED BY <4>1, <4>2
    <3>3. Reached(d, "finished", t)' => skStage'[OtherParty(d)][t] \in Derived
      <4>1. Reached(d, "finished", t)' => Reached(d, "finished", t)
        BY <2>1, <2>7 DEF Reached, KeyMessage
      <4>2. Reached(d, "finished", t) => skStage[OtherParty(d)][t] \in Derived
        BY SessionFacts
      <4>3. OtherParty(d) \in Party
        BY OtherEnd
      <4> QED BY <2>3, <2>5, <4>1, <4>2, <4>3 DEF Derived
    <3>4. t \in known'[d] => "finished" \in handed'[d][t] /\ skStage'[d][t] = "finished"
      BY <2>1, <2>3, <2>5, SessionFacts
    <3>5. current'[d] = t => t \in known'[d]
      BY <2>1, SessionFacts
    <3> QED BY <2>7, <3>1, <3>2, <3>3, <3>4, <3>5 DEF SessionInv, HelloOnce, Derived
  <2> QED BY <2>8 DEF SkSessionInv
<1>4. ASSUME NEW e \in Party, NEW s \in Session, NEW k \in KeyMessage, k # "sourceHello",
             NEW to, to # "none",
             skStage[e][s] \notin Derived \union {"none"}, k = "finished" => to \in Derived,
             Goes(e, s, to), Transmit(e, k, s), UNCHANGED <<starter, handed, known, current>>
      PROVE  S
  <2>1. \A d \in Party, t \in Session :
          skStage'[d][t] = IF d = e /\ t = s THEN to ELSE skStage[d][t]
    BY <1>4, StageIs
  <2>2. OtherParty(e) \in Party /\ OtherParty(OtherParty(e)) = e
    BY OtherEnd
  <2>3. SkM(k, s) \in SkMessage /\ SkM(k, s).kind = k /\ SkM(k, s).session = s
    BY DEF SkM, SkMessage
  <2>4. /\ \A d \in Party : HelloOnce(d)'
        /\ \A d \in Party, l \in KeyMessage, t \in Session :
             Coming(d, l, t)' => Coming(d, l, t) \/ (d = OtherParty(e) /\ l = k /\ t = s)
    <3>1. CASE Appended(OtherParty(e), SkM(k, s))
      <4>1. \A d \in Party : HelloOnce(d)'
        BY <1>0, <1>4, <2>2, <2>3, <3>1, HelloOnceMore
      <4>2. \A l, t : SkM(k, s) = SkM(l, t) => l = k /\ t = s
        BY DEF SkM
      <4> QED BY <2>2, <2>3, <3>1, <4>1, <4>2, ComingMore
    <3>2. CASE inbound' = inbound
      BY <1>1, <3>2
    <3> QED BY <1>4, <3>1, <3>2, TransmitIs
  <2>5. \A d \in Party, t \in Session :
          /\ Coming(d, "sourceHello", t)' => Coming(d, "sourceHello", t)
          /\ Reached(d, "finished", t)'
               => Reached(d, "finished", t) \/ skStage'[OtherParty(d)][t] \in Derived
    BY <1>4, <2>1, <2>2, <2>4 DEF Reached, KeyMessage
  <2> QED BY <1>4, <2>1, <2>4, <2>5, SessionKept DEF Derived
<1>5. ASSUME NEW e \in Party, NEW s \in Session,
             SendDestinationHello(e, s) \/ SendFinishedPassive(e, s) \/ SendFinishedActive(e, s)
      PROVE  S
  <2>1. CASE SendDestinationHello(e, s)
    BY <1>4, <2>1 DEF SendDestinationHello, KeyMessage, Derived
  <2>2. CASE SendFinishedPassive(e, s) \/ SendFinishedActive(e, s)
    BY <1>4, <2>2 DEF SendFinishedPassive, SendFinishedActive, SendFinished, KeyMessage, Derived
  <2> QED BY <1>5, <2>1, <2>2
<1>6. ASSUME NEW e \in Party, NEW s \in Session,
             WakeEarly(e, s) \/ StaleProof(e, s) \/ Timeout(e, s)
      PROVE  S
  <2>1. /\ Goes(e, s, "failed") /\ skStage[e][s] \notin {"none", "finished"}
        /\ UNCHANGED <<starter, handed, inbound, known, current>>
    BY <1>6 DEF WakeEarly, StaleProof, Timeout
  <2>2. \A d \in Party, t \in Session :
          skStage'[d][t] = IF d = e /\ t = s THEN "failed" ELSE skStage[d][t]
    BY <2>1, StageIs
  <2>3. \A d \in Party, t \in Session :
          /\ Coming(d, "sourceHello", t)' => Coming(d, "sourceHello", t)
          /\ Reached(d, "finished", t)' => Reached(d, "finished", t)
    BY <1>1, <2>1 DEF Reached, KeyMessage
  <2> QED BY <1>1, <2>1, <2>2, <2>3, SessionKept DEF Derived
<1>7. ASSUME NEW e \in Party, NEW s \in Session, ReceiveFinished(e, s) PROVE S
  <2>1. /\ Goes(e, s, "finished") /\ skStage[e][s] = "wait_finished"
        /\ "finished" \in handed[e][s]
        /\ known' = [known EXCEPT ![e] = @ \union {s}]
        /\ current' = [current EXCEPT ![e] = s]
        /\ UNCHANGED <<starter, handed, inbound>>
    BY <1>7 DEF ReceiveFinished, Verified
  <2>2. \A d \in Party, t \in Session :
          skStage'[d][t] = IF d = e /\ t = s THEN "finished" ELSE skStage[d][t]
    BY <2>1, StageIs
  <2>3. \A d \in Party, t \in Session :
          /\ Coming(d, "sourceHello", t)' => Coming(d, "sourceHello", t)
          /\ Reached(d, "finished", t)' => Reached(d, "finished", t)
    BY <1>1, <2>1 DEF Reached, KeyMessage
  <2>4. \A d \in Party, t \in Session :
          /\ t \in known'[d] <=> t \in known[d] \/ (d = e /\ t = s)
          /\ current'[d] = IF d = e THEN s ELSE current[d]
    BY <2>1 DEF SkTypeOK
  <2> QED BY <1>1, <2>1, <2>2, <2>3, <2>4, SessionKept DEF Derived
<1>8. ASSUME NEW e \in Party, HearHello(e) PROVE S
  <2>1. /\ inbound[e] # <<>> /\ Taken(e) /\ Head1(e).kind = "sourceHello"
        /\ Goes(e, Head1(e).session, "arrived")
        /\ UNCHANGED <<starter, handed, known, current>>
    BY <1>8 DEF HearHello
  <2>2. TakenAt(e) /\ Head1(e) \in SkMessage
    BY <2>1, TakenIs
  <2>3. PICK s \in Session : s = Head1(e).session
    BY <2>2 DEF SkMessage
  <2>4. Head1(e) = SkM("sourceHello", s)
    BY <2>1, <2>2, <2>3 DEF SkM, SkMessage
  <2>5. \A d \in Party, t \in Session :
          skStage'[d][t] = IF d = e /\ t = s THEN "arrived" ELSE skStage[d][t]
    BY <2>1, <2>3, StageIs
  <2>6. Coming(e, "sourceHello", s) /\ ~ Coming(e, "sourceHello", s)'
    BY <1>0, <2>2, <2>4, ComingLess, HelloOnceLess DEF KeyMessage
  <2>7. skStage[e][s] = "none" /\ starter[s] # NoSession
    BY <2>6, OtherEnd, SessionFacts DEF SkAssumption
  <2>8. \A d \in Party, t \in Session :
          /\ Coming(d, "sourceHello", t)' => Coming(d, "sourceHello", t)
          /\ Reached(d, "finished", t)' => Reached(d, "finished", t)
    BY <2>1, <2>2, ComingLess DEF Reached, KeyMessage
  <2>9. \A d \in Party : HelloOnce(d)'
    BY <1>0, <2>2, HelloOnceLess
  <2> QED BY <2>1, <2>5, <2>6, <2>7, <2>8, <2>9, SessionKept DEF Derived
<1>9. ASSUME NEW e \in Party, HandOver(e) PROVE S
  <2>1. /\ inbound[e] # <<>> /\ Taken(e)
        /\ UNCHANGED <<starter, skStage, known, current>>
        /\ handed' = IF InDict(e, Head1(e).session)
                  THEN [handed EXCEPT ![e][Head1(e).session] = @ \union {Head1(e).kind}] ELSE handed
    BY <1>9 DEF HandOver
  <2>2. TakenAt(e) /\ Head1(e) \in SkMessage
    BY <2>1, TakenIs
  <2>3. PICK s \in Session, k \in KeyMessage : Head1(e) = SkM(k, s)
    BY <2>2 DEF SkMessage, SkM
  <2>4. Head1(e).session = s /\ Head1(e).kind = k
    BY <2>3 DEF SkM
  <2>5. \A d \in Party, t \in Session :
          handed[d][t] \subseteq handed'[d][t]
          /\ handed'[d][t] \subseteq handed[d][t] \union (IF d = e /\ t = s THEN {k} ELSE {})
    BY <2>1, <2>4 DEF SkTypeOK
  <2>6. \A d \in Party, t \in Session :
          /\ Coming(d, "sourceHello", t)' => Coming(d, "sourceHello", t)
          /\ Reached(d, "finished", t)' => Reached(d, "finished", t)
    BY <2>2, <2>3, <2>5, ComingLess DEF Reached, KeyMessage
  <2>7. \A d \in Party : HelloOnce(d)'
    BY <1>0, <2>2, HelloOnceLess
  <2> QED BY <2>1, <2>5, <2>6, <2>7, SessionKept
<1>10. ASSUME NEW e \in Party, Read(e) PROVE S
  <2>1. /\ inbound[e] # <<>> /\ Taken(e)
        /\ UNCHANGED <<starter, skStage, handed, known, current>>
    BY <1>10 DEF Read
  <2>2. TakenAt(e)
    BY <2>1, TakenIs
  <2>3. \A d \in Party, t \in Session :
          /\ Coming(d, "sourceHello", t)' => Coming(d, "sourceHello", t)
          /\ Reached(d, "finished", t)' => Reached(d, "finished", t)
    BY <2>1, <2>2, ComingLess DEF Reached, KeyMessage
  <2>4. \A d \in Party : HelloOnce(d)'
    BY <1>0, <2>2, HelloOnceLess
  <2> QED BY <2>1, <2>3, <2>4, SessionKept
<1>11. ASSUME NEW e \in Party, SendData(e) PROVE S
  <2>1. /\ current[e] # NoSession /\ Transmit(e, "message", current[e])
        /\ UNCHANGED <<starter, skStage, handed, known, current>>
    BY <1>11 DEF SendData
  <2>2. PICK s \in Session : s = current[e]
    BY <2>1 DEF SkTypeOK
  <2>3. OtherParty(e) \in Party
    BY OtherEnd
  <2>4. SkM("message", s) \in SkMessage /\ SkM("message", s).kind = "message"
    BY DEF SkM, SkMessage, KeyMessage
  <2>5. /\ \A d \in Party : HelloOnce(d)'
        /\ \A d \in Party, l \in KeyMessage, t \in Session :
             Coming(d, l, t)' => Coming(d, l, t) \/ l = "message"
    <3>1. CASE Appended(OtherParty(e), SkM("message", s))
      <4>1. \A d \in Party : HelloOnce(d)'
        BY <1>0, <2>3, <2>4, <3>1, HelloOnceMore
      <4>2. \A l, t : SkM("message", s) = SkM(l, t) => l = "message"
        BY DEF SkM
      <4> QED BY <2>3, <2>4, <3>1, <4>1, <4>2, ComingMore
    <3>2. CASE inbound' = inbound
      BY <1>1, <3>2
    <3> QED BY <2>1, <2>2, <3>1, <3>2, TransmitIs DEF KeyMessage
  <2>6. \A d \in Party, t \in Session :
          /\ Coming(d, "sourceHello", t)' => Coming(d, "sourceHello", t)
          /\ Reached(d, "finished", t)' => Reached(d, "finished", t)
    BY <2>1, <2>5 DEF Reached, KeyMessage
  <2> QED BY <2>1, <2>5, <2>6, SessionKept
<1>12. ASSUME NEW e \in Party, RestartParty(e) PROVE S
  <2>1. /\ skStage' = [skStage EXCEPT ![e] =
                        [s \in Session |-> IF InDict(e, s) THEN "failed" ELSE @[s]]]
        /\ inbound' = [inbound EXCEPT ![e] = <<>>]
        /\ \E s \in IF known[e] = {} THEN {NoSession} ELSE known[e] :
              current' = [current EXCEPT ![e] = s]
        /\ UNCHANGED <<starter, handed, known>>
    BY <1>12 DEF RestartParty
  <2>2. \A d \in Party, t \in Session :
          skStage'[d][t] = IF d = e /\ InDict(e, t) THEN "failed" ELSE skStage[d][t]
    BY <2>1 DEF SkTypeOK
  <2>3. \A d \in Party : inbound'[d] = IF d = e THEN <<>> ELSE inbound[d]
    BY <2>1 DEF SkTypeOK
  <2>4. \A d \in Party : HelloOnce(d)'
    <3>1. DOMAIN <<>> = {}
      OBVIOUS
    <3> QED BY <1>0, <2>3, <3>1 DEF HelloOnce
  <2>5. \A d \in Party, k \in KeyMessage, t \in Session : Coming(d, k, t)' => Coming(d, k, t)
    <3>1. DOMAIN <<>> = {}
      OBVIOUS
    <3> QED BY <2>3, <3>1 DEF Coming
  <2>6. \A d \in Party, t \in Session :
          /\ Coming(d, "sourceHello", t)' => Coming(d, "sourceHello", t)
          /\ Reached(d, "finished", t)' => Reached(d, "finished", t)
    BY <2>1, <2>5 DEF Reached, KeyMessage
  <2>7. \A d \in Party, t \in Session :
          current'[d] = t => current[d] = t \/ t \in known'[d]
    <3>1. PICK s \in IF known[e] = {} THEN {NoSession} ELSE known[e] :
            current' = [current EXCEPT ![e] = s]
      BY <2>1
    <3>2. s # NoSession => s \in known[e]
      BY <3>1
    <3>3. \A d \in Party : current'[d] = IF d = e THEN s ELSE current[d]
      BY <3>1 DEF SkTypeOK
    <3> QED BY <2>1, <3>2, <3>3 DEF SkAssumption
  <2>8. \A d \in Party, t \in Session :
          \/ skStage'[d][t] = skStage[d][t]
          \/ /\ skStage[d][t] \notin {"none", "finished"}
             /\ skStage'[d][t] \in Derived
    BY <2>2 DEF InDict, Derived
  <2> QED BY <2>1, <2>4, <2>6, <2>7, <2>8, SessionKept
<1> QED BY <1>2, <1>3, <1>5, <1>6, <1>7, <1>8, <1>9, <1>10, <1>11, <1>12 DEF SkNext

-----------------------------------------------------------------------------
(* ShortTermKeys: as long as nothing goes wrong *)

\* OrderInv, of what arrives at e, what has been handed over there, and who started
Ordered(q, g, st, e) ==
  \A i \in DOMAIN q :
    /\ q[i].kind \in {"destinationHello", "finished"} =>
         /\ q[i].kind \notin g[q[i].session]
         /\ \A j \in DOMAIN q : q[j] = q[i] => i = j
    /\ q[i].kind = "finished" /\ st[q[i].session] = e =>
         \/ "destinationHello" \in g[q[i].session]
         \/ \E j \in 1 .. i - 1 : q[j] = SkM("destinationHello", q[i].session)
    /\ q[i].kind = "message" =>
         \/ "finished" \in g[q[i].session]
         \/ \E j \in 1 .. i - 1 : q[j] = SkM("finished", q[i].session)

LEMMA OrderedMore ==
  ASSUME NEW q \in Seq(SkMessage), NEW k \in KeyMessage, NEW s \in Session, NEW g, NEW st, NEW e,
         Ordered(q, g, st, e),
         k \in {"destinationHello", "finished"} =>
           k \notin g[s] /\ \A j \in DOMAIN q : q[j] # SkM(k, s),
         k = "finished" /\ st[s] = e =>
           "destinationHello" \in g[s] \/ \E j \in DOMAIN q : q[j] = SkM("destinationHello", s),
         k = "message" => "finished" \in g[s] \/ \E j \in DOMAIN q : q[j] = SkM("finished", s)
  PROVE  Ordered(Append(q, SkM(k, s)), g, st, e)
<1> DEFINE m == SkM(k, s)
           r == Append(q, m)
<1>1. m \in SkMessage /\ m.kind = k /\ m.session = s
  BY DEF SkM, SkMessage
<1>2. /\ Len(q) \in Nat /\ DOMAIN q = 1 .. Len(q) /\ DOMAIN r = 1 .. Len(q) + 1
      /\ \A i \in 1 .. Len(q) : r[i] = q[i]
      /\ r[Len(q) + 1] = m
  BY <1>1, AppendIs
<1> HIDE DEF m, r
<1>3. ASSUME NEW i \in 1 .. Len(q)
      PROVE  /\ r[i].kind \in {"destinationHello", "finished"} =>
                  /\ r[i].kind \notin g[r[i].session]
                  /\ \A j \in DOMAIN r : r[j] = r[i] => i = j
             /\ r[i].kind = "finished" /\ st[r[i].session] = e =>
                  \/ "destinationHello" \in g[r[i].session]
                  \/ \E j \in 1 .. i - 1 : r[j] = SkM("destinationHello", r[i].session)
             /\ r[i].kind = "message" =>
                  \/ "finished" \in g[r[i].session]
                  \/ \E j \in 1 .. i - 1 : r[j] = SkM("finished", r[i].session)
  <2>1. r[i] = q[i] /\ i \in DOMAIN q /\ \A j \in 1 .. i - 1 : r[j] = q[j]
    BY <1>2
  <2>2. ASSUME q[i].kind \in {"destinationHello", "finished"}, NEW j \in DOMAIN r, r[j] = r[i]
        PROVE  i = j
    <3>1. CASE j \in 1 .. Len(q)
      BY <1>2, <2>1, <2>2, <3>1 DEF Ordered
    <3>2. CASE j = Len(q) + 1
      <4>1. q[i] = m /\ k \in {"destinationHello", "finished"}
        BY <1>1, <1>2, <2>1, <2>2, <3>2
      <4> QED BY <2>1, <4>1 DEF m
    <3> QED BY <1>2, <3>1, <3>2
  <2> QED BY <2>1, <2>2 DEF Ordered
<1>4. LET i == Len(q) + 1 IN
      /\ r[i].kind \in {"destinationHello", "finished"} =>
           /\ r[i].kind \notin g[r[i].session]
           /\ \A j \in DOMAIN r : r[j] = r[i] => i = j
      /\ r[i].kind = "finished" /\ st[r[i].session] = e =>
           \/ "destinationHello" \in g[r[i].session]
           \/ \E j \in 1 .. i - 1 : r[j] = SkM("destinationHello", r[i].session)
      /\ r[i].kind = "message" =>
           \/ "finished" \in g[r[i].session]
           \/ \E j \in 1 .. i - 1 : r[j] = SkM("finished", r[i].session)
  <2>1. r[Len(q) + 1] = m /\ 1 .. (Len(q) + 1) - 1 = 1 .. Len(q)
    BY <1>2
  <2>2. k \in {"destinationHello", "finished"} =>
          k \notin g[s] /\ \A j \in DOMAIN r : r[j] = m => Len(q) + 1 = j
    BY <1>2 DEF m
  <2>3. k = "finished" /\ st[s] = e =>
          "destinationHello" \in g[s] \/ \E j \in 1 .. Len(q) : r[j] = SkM("destinationHello", s)
    BY <1>2
  <2>4. k = "message" =>
          "finished" \in g[s] \/ \E j \in 1 .. Len(q) : r[j] = SkM("finished", s)
    BY <1>2
  <2> QED BY <1>1, <2>1, <2>2, <2>3, <2>4
<1>5. \A i \in DOMAIN r : i \in 1 .. Len(q) \/ i = Len(q) + 1
  BY <1>2
<1>6. Ordered(r, g, st, e)
  BY <1>3, <1>4, <1>5 DEF Ordered
<1> QED BY <1>6 DEF r, m

LEMMA OrderedLess ==
  ASSUME NEW q \in Seq(SkMessage), q # <<>>, NEW g, NEW h, NEW st, NEW e,
         Ordered(q, g, st, e),
         \A t \in Session : g[t] \subseteq h[t],
         \A t \in Session, k \in KeyMessage : k \in h[t] => k \in g[t] \/ q[1] = SkM(k, t),
         q[1].kind \in {"destinationHello", "finished"} => q[1].kind \in h[q[1].session]
  PROVE  Ordered(Tail(q), h, st, e)
<1> DEFINE r == Tail(q)
<1>1. /\ Len(q) \in Nat \ {0} /\ DOMAIN q = 1 .. Len(q) /\ DOMAIN r = 1 .. Len(q) - 1
      /\ \A i \in 1 .. Len(q) - 1 : r[i] = q[i + 1]
  BY TailIs
<1>2. \A i \in DOMAIN q : q[i] \in SkMessage /\ q[i].kind \in KeyMessage /\ q[i].session \in Session
                         /\ q[i] = SkM(q[i].kind, q[i].session)
  <2>1. \A i \in DOMAIN q : q[i] \in SkMessage
    OBVIOUS
  <2> QED BY <2>1 DEF SkMessage, SkM
<1>3. \A k, t : SkM(k, t).kind = k /\ SkM(k, t).session = t
  BY DEF SkM
<1> HIDE DEF r
<1> SUFFICES ASSUME NEW i \in DOMAIN r
             PROVE  /\ r[i].kind \in {"destinationHello", "finished"} =>
                         /\ r[i].kind \notin h[r[i].session]
                         /\ \A j \in DOMAIN r : r[j] = r[i] => i = j
                    /\ r[i].kind = "finished" /\ st[r[i].session] = e =>
                         \/ "destinationHello" \in h[r[i].session]
                         \/ \E j \in 1 .. i - 1 :
                              r[j] = SkM("destinationHello", r[i].session)
                    /\ r[i].kind = "message" =>
                         \/ "finished" \in h[r[i].session]
                         \/ \E j \in 1 .. i - 1 : r[j] = SkM("finished", r[i].session)
  BY DEF Ordered, r
<1>4. /\ i \in Nat /\ i + 1 \in DOMAIN q /\ i + 1 # 1 /\ 1 \in DOMAIN q /\ r[i] = q[i + 1]
      /\ \A j \in DOMAIN r : j + 1 \in DOMAIN q /\ r[j] = q[j + 1] /\ (j + 1 = i + 1 => i = j)
  BY <1>1
<1>5. PICK t \in Session : t = r[i].session
  BY <1>2, <1>4
<1>6. ASSUME r[i].kind \in {"destinationHello", "finished"}
      PROVE  r[i].kind \notin h[t] /\ \A j \in DOMAIN r : r[j] = r[i] => i = j
  <2>1. /\ q[i + 1].kind \notin g[t]
        /\ \A j \in DOMAIN q : q[j] = q[i + 1] => i + 1 = j
    BY <1>4, <1>5, <1>6 DEF Ordered
  <2>2. q[1] # q[i + 1]
    BY <1>4, <2>1
  <2>3. r[i].kind \in KeyMessage /\ q[i + 1] = SkM(r[i].kind, t)
    BY <1>2, <1>4, <1>5
  <2> QED BY <1>4, <2>1, <2>2, <2>3
\* What came before position i + 1 is handed over, or comes before position i.
<1>7. ASSUME NEW k \in {"destinationHello", "finished"},
             k \in g[t] \/ \E j \in 1 .. (i + 1) - 1 : q[j] = SkM(k, t)
      PROVE  k \in h[t] \/ \E j \in 1 .. i - 1 : r[j] = SkM(k, t)
  <2>1. CASE k \in g[t]
    BY <2>1
  <2>2. ASSUME NEW j \in 1 .. i, q[j] = SkM(k, t)
        PROVE  k \in h[t] \/ \E l \in 1 .. i - 1 : r[l] = SkM(k, t)
    <3>1. CASE j = 1
      BY <1>3, <2>2, <3>1
    <3>2. CASE j # 1
      <4>1. j - 1 \in 1 .. i - 1 /\ j - 1 \in DOMAIN r /\ (j - 1) + 1 = j
        BY <1>1, <1>4, <3>2
      <4>2. r[j - 1] = q[j]
        BY <1>4, <4>1
      <4> QED BY <2>2, <4>1, <4>2
    <3> QED BY <3>1, <3>2
  <2>3. 1 .. (i + 1) - 1 = 1 .. i
    BY <1>4
  <2> QED BY <1>7, <2>1, <2>2, <2>3
<1>8. ASSUME r[i].kind = "finished", st[t] = e
      PROVE  \/ "destinationHello" \in h[t]
             \/ \E j \in 1 .. i - 1 : r[j] = SkM("destinationHello", t)
  <2>1. \/ "destinationHello" \in g[t]
        \/ \E j \in 1 .. (i + 1) - 1 : q[j] = SkM("destinationHello", t)
    BY <1>4, <1>5, <1>8 DEF Ordered
  <2> QED BY <1>7, <2>1
<1>9. ASSUME r[i].kind = "message"
      PROVE  "finished" \in h[t] \/ \E j \in 1 .. i - 1 : r[j] = SkM("finished", t)
  <2>1. "finished" \in g[t] \/ \E j \in 1 .. (i + 1) - 1 : q[j] = SkM("finished", t)
    BY <1>4, <1>5, <1>9 DEF Ordered
  <2> QED BY <1>7, <2>1
<1> QED BY <1>5, <1>6, <1>8, <1>9

SkCalmInv == \A e \in Party : OrderInv(e) /\ \A s \in Session : CalmSession(e, s)

LEMMA OrderIs ==
  \A e \in Party : /\ OrderInv(e) <=> Ordered(inbound[e], handed[e], starter, e)
                   /\ OrderInv(e)' <=> Ordered(inbound'[e], handed'[e], starter', e)
BY DEF OrderInv, Ordered, SkM

\* CalmSession, with what it says of the other end written out
Calm(e, s) ==
  /\ skStage[e][s] # "failed"
  /\ starter[s] = e =>
       skStage[e][s] \in {"wait_destination_hello", "wait_finished", "finished"}
  /\ starter[s] = OtherParty(e) => skStage[e][s] # "wait_destination_hello"
  /\ Reached(e, "destinationHello", s) <=>
       /\ starter[s] = e
       /\ skStage[OtherParty(e)][s] \in {"answered", "wait_finished", "finished"}
  /\ Reached(e, "finished", s) <=>
       skStage[OtherParty(e)][s] \in {"wait_finished", "finished"}
  /\ skStage[e][s] = "finished" => "finished" \in handed[e][s]
  /\ starter[s] = e /\ (skStage[e][s] # "wait_destination_hello" \/ "finished" \in handed[e][s])
       => "destinationHello" \in handed[e][s]

LEMMA CalmWritten ==
  ASSUME NEW e \in Party, NEW s \in Session
  PROVE  (CalmSession(e, s) <=> Calm(e, s)) /\ (CalmSession(e, s)' <=> Calm(e, s)')
BY DEF CalmSession, Calm

LEMMA CalmFacts ==
  ASSUME SkAssumption, SkTypeOK, SkSessionInv, SkCalmInv
  PROVE  /\ \A e \in Party : Ordered(inbound[e], handed[e], starter, e)
         /\ \A e \in Party, s \in Session :
              /\ starter[s] \in {e, OtherParty(e), NoSession}
              /\ starter[s] = NoSession => skStage[e][s] = "none"
              /\ Calm(e, s)
<1>1. \A e \in Party : Ordered(inbound[e], handed[e], starter, e)
  BY OrderIs DEF SkCalmInv
<1>2. \A e \in Party, s \in Session :
        /\ starter[s] \in {e, OtherParty(e), NoSession}
        /\ starter[s] = NoSession => skStage[e][s] = "none"
  <2>1. starter \in [Session -> Party \union {NoSession}]
    BY DEF SkTypeOK
  <2>2. \A e \in Party, s \in Session : starter[s] \in {e, OtherParty(e), NoSession}
    BY <2>1, OtherEnd
  <2> QED BY <2>2, SessionFacts
<1>3. \A e \in Party, s \in Session : CalmSession(e, s)
  BY DEF SkCalmInv
<1>4. \A e \in Party, s \in Session : Calm(e, s)
  BY <1>3, CalmWritten
<1> QED BY <1>1, <1>2, <1>4

LEMMA CalmIs ==
  ASSUME \A e \in Party : Ordered(inbound'[e], handed'[e], starter', e),
         \A e \in Party, s \in Session : Calm(e, s)'
  PROVE  SkCalmInv'
<1>1. \A e \in Party : OrderInv(e)'
  BY OrderIs
<1>2. \A e \in Party, s \in Session : CalmSession(e, s)'
  BY CalmWritten
<1> QED BY <1>1, <1>2 DEF SkCalmInv

\* What is sent comes in order.
LEMMA CalmSend ==
  ASSUME SkAssumption, SkTypeOK, SkSessionInv, SkCalmInv,
         NEW e \in Party, NEW s \in Session, NEW k \in KeyMessage, Appended(OtherParty(e), SkM(k, s)),
         handed' = handed, \A t \in Session : starter'[t] = starter[t] \/ starter[t] = NoSession,
         k \in {"destinationHello", "finished"} => ~ Reached(OtherParty(e), k, s),
         k = "finished" /\ starter[s] = OtherParty(e) => Reached(OtherParty(e), "destinationHello", s),
         k = "finished" => starter'[s] = starter[s],
         k = "message" => Reached(OtherParty(e), "finished", s)
  PROVE  /\ \A d \in Party : Ordered(inbound'[d], handed'[d], starter', d)
         /\ \A d \in Party, t \in Session, l \in {"destinationHello", "finished"} :
              Reached(d, l, t)' <=> Reached(d, l, t) \/ (d = OtherParty(e) /\ l = k /\ t = s)
<1>1. OtherParty(e) \in Party /\ SkM(k, s) \in SkMessage
  BY OtherEnd DEF SkM, SkMessage
<1>2. inbound \in [Party -> Seq(SkMessage)]
  BY DEF SkTypeOK, SkMessage
<1>3. \A d \in Party : Ordered(inbound[d], handed[d], starter, d)
  BY CalmFacts
\* Nothing that is ordered depends on a session that has not started.
<1>4. ASSUME NEW d \in Party PROVE Ordered(inbound[d], handed[d], starter', d)
  <2>1. ASSUME NEW i \in DOMAIN inbound[d], inbound[d][i].kind = "finished"
        PROVE  starter'[inbound[d][i].session] = starter[inbound[d][i].session]
    <3>1. inbound[d][i] \in SkMessage
      BY <1>2
    <3>2. PICK t \in Session : inbound[d][i] = [kind |-> "finished", session |-> t]
      BY <2>1, <3>1 DEF SkMessage
    <3>3. Reached(d, "finished", t)
      BY <3>2 DEF Reached, Coming
    <3>4. starter[t] # NoSession
      BY <3>3, CalmFacts, OtherEnd DEF Calm
    <3> QED BY <3>2, <3>4
  <2> QED BY <1>3, <2>1 DEF Ordered
<1>5. Ordered(Append(inbound[OtherParty(e)], SkM(k, s)), handed[OtherParty(e)], starter', OtherParty(e))
  <2> DEFINE q == inbound[OtherParty(e)]
  <2>1. \A l : Reached(OtherParty(e), l, s)
                <=> l \in handed[OtherParty(e)][s] \/ \E j \in DOMAIN q : q[j] = SkM(l, s)
    BY DEF Reached, Coming, SkM
  <2>2. q \in Seq(SkMessage) /\ Ordered(q, handed[OtherParty(e)], starter', OtherParty(e))
    BY <1>1, <1>2, <1>4
  <2> HIDE DEF q
  <2>3. Ordered(Append(q, SkM(k, s)), handed[OtherParty(e)], starter', OtherParty(e))
    BY <2>1, <2>2, OrderedMore
  <2> QED BY <2>3 DEF q
<1>6. \A d \in Party : Ordered(inbound'[d], handed'[d], starter', d)
  BY <1>4, <1>5 DEF Appended
<1>7. \A d \in Party, t \in Session, l \in KeyMessage :
        Coming(d, l, t)' <=> Coming(d, l, t) \/ (d = OtherParty(e) /\ l = k /\ t = s)
  <2>1. \A l, t : SkM(k, s) = SkM(l, t) <=> l = k /\ t = s
    BY DEF SkM
  <2> QED BY <1>1, <2>1, ComingMore
<1> QED BY <1>6, <1>7 DEF Reached, KeyMessage

\* What is taken leaves the rest in order, as long as it is handed over.
LEMMA CalmTake ==
  ASSUME SkAssumption, SkTypeOK, SkSessionInv, SkCalmInv,
         NEW e \in Party, TakenAt(e), starter' = starter,
         \A d \in Party, t \in Session : handed[d][t] \subseteq handed'[d][t],
         \A d \in Party, t \in Session, l \in KeyMessage :
           l \in handed'[d][t] => l \in handed[d][t] \/ (d = e /\ Head1(e) = SkM(l, t)),
         \A t \in Session, l \in {"destinationHello", "finished"} :
           Head1(e) = SkM(l, t) => l \in handed'[e][t]
  PROVE  /\ \A d \in Party : Ordered(inbound'[d], handed'[d], starter', d)
         /\ \A d \in Party, t \in Session, l \in {"destinationHello", "finished"} :
              Reached(d, l, t)' <=> Reached(d, l, t)
<1>1. inbound[e] \in Seq(SkMessage) /\ Head1(e) \in SkMessage
  BY TailIs DEF SkTypeOK, SkMessage, TakenAt, Head1
<1>2. \A d \in Party : Ordered(inbound[d], handed[d], starter, d)
  BY CalmFacts
<1>3. Ordered(Tail(inbound[e]), handed'[e], starter, e)
  <2> DEFINE q == inbound[e]
             g == handed[e]
             h == handed'[e]
  <2>1. q \in Seq(SkMessage) /\ q # <<>> /\ Ordered(q, g, starter, e) /\ Head1(e) = q[1]
    BY <1>1, <1>2 DEF TakenAt, Head1
  <2>2. q[1].kind \in KeyMessage /\ q[1].session \in Session /\ q[1] = SkM(q[1].kind, q[1].session)
    BY <1>1, <2>1 DEF SkMessage, SkM
  <2>3. \A t \in Session : g[t] \subseteq h[t]
    OBVIOUS
  <2>4. \A t \in Session, l \in KeyMessage : l \in h[t] => l \in g[t] \/ q[1] = SkM(l, t)
    BY <2>1
  <2>5. q[1].kind \in {"destinationHello", "finished"} => q[1].kind \in h[q[1].session]
    BY <2>1, <2>2
  <2> HIDE DEF q, g, h
  <2>6. Ordered(Tail(q), h, starter, e)
    BY <2>1, <2>3, <2>4, <2>5, OrderedLess
  <2> QED BY <2>6 DEF q, h
<1>4. ASSUME NEW d \in Party \ {e} PROVE Ordered(inbound'[d], handed'[d], starter', d)
  <2>1. inbound'[d] = inbound[d] /\ inbound[d] \in Seq(SkMessage)
    BY DEF TakenAt, SkTypeOK, SkMessage
  <2>2. \A t \in Session, l \in KeyMessage : l \in handed'[d][t] <=> l \in handed[d][t]
    OBVIOUS
  <2>3. \A i \in DOMAIN inbound[d] :
          inbound[d][i].kind \in KeyMessage /\ inbound[d][i].session \in Session
    <3>1. \A i \in DOMAIN inbound[d] : inbound[d][i] \in SkMessage
      BY <2>1
    <3> QED BY <3>1 DEF SkMessage
  <2> QED BY <1>2, <2>1, <2>2, <2>3 DEF Ordered, KeyMessage
<1>5. \A d \in Party : Ordered(inbound'[d], handed'[d], starter', d)
  BY <1>3, <1>4 DEF TakenAt
<1>6. ASSUME NEW d \in Party, NEW t \in Session, NEW l \in {"destinationHello", "finished"}
      PROVE  Reached(d, l, t)' <=> Reached(d, l, t)
  <2>1. l \in KeyMessage
    BY DEF KeyMessage
  <2>2. Coming(d, l, t) <=> Coming(d, l, t)' \/ (d = e /\ Head1(e) = SkM(l, t))
    BY <2>1, ComingLess
  <2>3. d = e /\ Head1(e) = SkM(l, t) => l \in handed'[d][t]
    OBVIOUS
  <2>4. l \in handed'[d][t] => l \in handed[d][t] \/ (d = e /\ Head1(e) = SkM(l, t))
    BY <2>1
  <2>5. l \in handed[d][t] => l \in handed'[d][t]
    OBVIOUS
  <2> QED BY <2>2, <2>3, <2>4, <2>5 DEF Reached
<1> QED BY <1>5, <1>6

LEMMA CalmStep ==
  ASSUME SkAssumption, SkTypeOK, SkSessionInv, skMishaps = 0 => SkCalmInv,
         [SkNext]_skVars, skMishaps' = 0
  PROVE  SkCalmInv'
<1> DEFINE C == SkCalmInv'
           Late == {"destinationHello", "finished"}
<1>0. ~ SkMishap
  BY DEF SkMishap, SkTypeOK
<1>1. CASE UNCHANGED skVars
  <2>1. SkCalmInv
    BY <1>1 DEF skVars
  <2>2. \A d \in Party : Ordered(inbound'[d], handed'[d], starter', d)
    BY <1>1, <2>1, CalmFacts DEF skVars
  <2>3. ASSUME NEW d \in Party, NEW t \in Session PROVE Calm(d, t)'
    <3>1. Calm(d, t)
      BY <2>1, CalmFacts
    <3> QED BY <1>1, <3>1 DEF Calm, skVars, Reached, Coming
  <2> QED BY <2>2, <2>3, CalmIs
<1>2. ASSUME NEW e \in Party, NEW s \in Session, Negotiate(e, s) PROVE C
  <2>1. /\ starter[s] = NoSession /\ starter' = [starter EXCEPT ![s] = e]
        /\ Goes(e, s, "wait_destination_hello") /\ Transmit(e, "sourceHello", s)
        /\ handed' = handed
    BY <1>2 DEF Negotiate
  <2>2. SkCalmInv /\ Appended(OtherParty(e), SkM("sourceHello", s)) /\ "sourceHello" \in KeyMessage
    BY <2>1, TransmitIs DEF KeyMessage
  <2>3. \A t \in Session : starter'[t] = IF t = s THEN e ELSE starter[t]
    BY <2>1 DEF SkTypeOK
  <2>4. \A d \in Party, t \in Session :
          skStage'[d][t] = IF d = e /\ t = s THEN "wait_destination_hello" ELSE skStage[d][t]
    BY <2>1, StageIs
  <2>5. /\ \A d \in Party : Ordered(inbound'[d], handed'[d], starter', d)
        /\ \A d \in Party, t \in Session, l \in Late : Reached(d, l, t)' <=> Reached(d, l, t)
    <3>1. \A t \in Session : starter'[t] = starter[t] \/ starter[t] = NoSession
      BY <2>1, <2>3
    <3>2. /\ \A d \in Party : Ordered(inbound'[d], handed'[d], starter', d)
          /\ \A d \in Party, t \in Session, l \in Late :
               Reached(d, l, t)' <=>
                 Reached(d, l, t) \/ (d = OtherParty(e) /\ l = "sourceHello" /\ t = s)
      BY <2>1, <2>2, <3>1, CalmSend
    <3> QED BY <3>2
  <2>6. ASSUME NEW d \in Party, NEW t \in Session PROVE Calm(d, t)'
    <3>1. Calm(d, t) /\ (starter[t] = NoSession => skStage[d][t] = "none")
          /\ (starter[t] = NoSession => skStage[OtherParty(d)][t] = "none")
      BY <2>2, CalmFacts, OtherEnd
    <3>2. /\ Reached(d, "destinationHello", t)' <=> Reached(d, "destinationHello", t)
          /\ Reached(d, "finished", t)' <=> Reached(d, "finished", t)
      BY <2>5
    <3>3. CASE t # s
      <4>1. starter'[t] = starter[t] /\ skStage'[d][t] = skStage[d][t]
            /\ skStage'[OtherParty(d)][t] = skStage[OtherParty(d)][t]
        BY <2>3, <2>4, <3>3, OtherEnd
      <4> QED BY <2>1, <3>1, <3>2, <4>1 DEF Calm
    <3>4. CASE t = s
      <4>1. ~ Reached(d, "destinationHello", t) /\ ~ Reached(d, "finished", t)
            /\ "finished" \notin handed[d][t]
        BY <2>1, <3>1, <3>4, OtherEnd DEF Calm, SkAssumption, Reached
      <4>2. /\ skStage'[d][t] = IF d = e THEN "wait_destination_hello" ELSE "none"
            /\ skStage'[OtherParty(d)][t] \in {"wait_destination_hello", "none"}
            /\ starter'[t] = e
        <5>1. skStage[d][s] = "none" /\ skStage[OtherParty(d)][s] = "none" /\ OtherParty(d) \in Party
          BY <2>1, <3>1, <3>4, OtherEnd
        <5> QED BY <2>3, <2>4, <3>4, <5>1
      <4>3. e = d \/ e = OtherParty(d)
        BY OtherEnd
      <4>4. OtherParty(d) # d
        BY OtherEnd
      <4> QED BY <2>1, <3>2, <4>1, <4>2, <4>3, <4>4 DEF Calm
    <3> QED BY <3>3, <3>4
  <2> QED BY <2>5, <2>6, CalmIs
\* A hello or a Finished is sent: the other end has it coming.
<1>3. ASSUME NEW e \in Party, NEW s \in Session, NEW k \in Late, NEW to,
             Goes(e, s, to), Transmit(e, k, s), UNCHANGED <<starter, handed>>,
             SkCalmInv,
             \/ /\ k = "destinationHello" /\ skStage[e][s] = "arrived" /\ to = "answered"
             \/ /\ k = "finished" /\ skStage[e][s] = "answered" /\ to = "wait_finished"
             \/ /\ k = "finished" /\ skStage[e][s] = "wait_destination_hello"
                /\ "destinationHello" \in handed[e][s] /\ to = "wait_finished"
      PROVE  C
  <2>1. k \in KeyMessage /\ Appended(OtherParty(e), SkM(k, s))
    BY <1>3, TransmitIs DEF KeyMessage
  <2>2. /\ OtherParty(e) \in Party /\ OtherParty(OtherParty(e)) = e /\ OtherParty(e) # e
        /\ NoSession # e /\ NoSession # OtherParty(e)
    BY OtherEnd DEF SkAssumption
  <2>3. Calm(e, s) /\ Calm(OtherParty(e), s) /\ starter[s] \in {e, OtherParty(e), NoSession}
        /\ (starter[s] = NoSession => skStage[e][s] = "none")
    BY <1>3, <2>2, CalmFacts
  <2>4. starter[s] = IF skStage[e][s] = "wait_destination_hello" THEN e ELSE OtherParty(e)
    BY <1>3, <2>2, <2>3 DEF Calm
  <2>5. /\ ~ Reached(OtherParty(e), k, s)
        /\ k = "finished" /\ starter[s] = OtherParty(e) => Reached(OtherParty(e), "destinationHello", s)
    BY <1>3, <2>2, <2>3, <2>4 DEF Calm
  <2>6. /\ \A d \in Party : Ordered(inbound'[d], handed'[d], starter', d)
        /\ \A d \in Party, t \in Session, l \in Late :
             Reached(d, l, t)' <=> Reached(d, l, t) \/ (d = OtherParty(e) /\ l = k /\ t = s)
    BY <1>3, <2>1, <2>5, CalmSend
  <2>7. \A d \in Party, t \in Session :
          skStage'[d][t] = IF d = e /\ t = s THEN to ELSE skStage[d][t]
    BY <1>3, StageIs
  <2>8. ASSUME NEW d \in Party, NEW t \in Session PROVE Calm(d, t)'
    <3>1. /\ Reached(d, "destinationHello", t)' <=>
               \/ Reached(d, "destinationHello", t)
               \/ d = OtherParty(e) /\ k = "destinationHello" /\ t = s
          /\ Reached(d, "finished", t)' <=>
               Reached(d, "finished", t) \/ (d = OtherParty(e) /\ k = "finished" /\ t = s)
      BY <2>6
    <3>2. Calm(d, t) /\ OtherParty(d) \in Party
      BY <1>3, CalmFacts, OtherEnd
    <3>3. CASE t # s
      BY <1>3, <2>7, <3>1, <3>2, <3>3 DEF Calm
    <3>4. CASE t = s /\ d = e
      <4>1. /\ skStage'[d][t] = to /\ skStage'[OtherParty(d)][t] = skStage[OtherParty(d)][t]
            /\ Reached(d, "destinationHello", t)' <=> Reached(d, "destinationHello", t)
            /\ Reached(d, "finished", t)' <=> Reached(d, "finished", t)
        BY <2>2, <2>7, <3>1, <3>4
      <4> QED BY <1>3, <2>2, <2>4, <3>2, <3>4, <4>1 DEF Calm
    <3>5. CASE t = s /\ d = OtherParty(e)
      <4>1. skStage'[d][t] = skStage[d][t] /\ skStage'[OtherParty(d)][t] = to
        BY <2>2, <2>7, <3>5
      <4>2. k = "destinationHello" \/ k = "finished"
        OBVIOUS
      <4> QED BY <1>3, <2>2, <2>3, <2>4, <3>1, <3>2, <3>5, <4>1, <4>2 DEF Calm
    <3> QED BY <3>3, <3>4, <3>5, OtherEnd
  <2> QED BY <2>6, <2>8, CalmIs
<1>4. ASSUME NEW e \in Party, NEW s \in Session,
             SendDestinationHello(e, s) \/ SendFinishedPassive(e, s) \/ SendFinishedActive(e, s)
      PROVE  C
  <2>1. CASE SendDestinationHello(e, s)
    <3>1. SkCalmInv
      BY <2>1, TransmitIs DEF SendDestinationHello, KeyMessage
    <3> QED BY <1>3, <2>1, <3>1 DEF SendDestinationHello
  <2>2. CASE SendFinishedPassive(e, s)
    <3>1. SkCalmInv
      BY <2>2, TransmitIs DEF SendFinishedPassive, SendFinished, KeyMessage
    <3> QED BY <1>3, <2>2, <3>1 DEF SendFinishedPassive, SendFinished
  <2>3. CASE SendFinishedActive(e, s)
    <3>1. SkCalmInv
      BY <2>3, TransmitIs DEF SendFinishedActive, SendFinished, KeyMessage
    <3> QED BY <1>3, <2>3, <3>1 DEF SendFinishedActive, SendFinished
  <2> QED BY <1>4, <2>1, <2>2, <2>3
\* Finished never comes before the hello.
<1>5. ASSUME NEW e \in Party, NEW s \in Session, WakeEarly(e, s) PROVE FALSE
  <2>1. SkCalmInv /\ skStage[e][s] = "wait_destination_hello" /\ handed[e][s] = {"finished"}
    BY <1>5 DEF WakeEarly
  <2>2. Calm(e, s) /\ starter[s] \in {e, OtherParty(e), NoSession}
        /\ (starter[s] = NoSession => skStage[e][s] = "none")
    BY <2>1, CalmFacts
  <2> QED BY <2>1, <2>2 DEF Calm
<1>6. ASSUME NEW e \in Party, NEW s \in Session, StaleProof(e, s) \/ Timeout(e, s) PROVE FALSE
  BY <1>0, <1>6 DEF StaleProof, Timeout
<1>7. ASSUME NEW e \in Party, RestartParty(e) PROVE FALSE
  BY <1>0, <1>7 DEF RestartParty
<1>8. ASSUME NEW e \in Party, NEW s \in Session, ReceiveFinished(e, s) PROVE C
  <2>1. /\ SkCalmInv /\ skStage[e][s] = "wait_finished" /\ "finished" \in handed[e][s]
        /\ Goes(e, s, "finished") /\ UNCHANGED <<starter, handed, inbound>>
    BY <1>8 DEF ReceiveFinished, Verified
  <2>2. \A d \in Party, t \in Session :
          skStage'[d][t] = IF d = e /\ t = s THEN "finished" ELSE skStage[d][t]
    BY <2>1, StageIs
  <2>3. \A d \in Party : Ordered(inbound'[d], handed'[d], starter', d)
    BY <2>1, CalmFacts
  <2>4. ASSUME NEW d \in Party, NEW t \in Session PROVE Calm(d, t)'
    <3>1. Calm(d, t) /\ OtherParty(d) \in Party
      BY <2>1, CalmFacts, OtherEnd
    <3>2. /\ Reached(d, "destinationHello", t)' <=> Reached(d, "destinationHello", t)
          /\ Reached(d, "finished", t)' <=> Reached(d, "finished", t)
      BY <2>1 DEF Reached, Coming
    <3> QED BY <2>1, <2>2, <3>1, <3>2 DEF Calm
  <2> QED BY <2>3, <2>4, CalmIs
<1>9. ASSUME NEW e \in Party, HearHello(e) PROVE C
  <2>1. /\ inbound[e] # <<>> /\ Taken(e) /\ Head1(e).kind = "sourceHello"
        /\ Goes(e, Head1(e).session, "arrived") /\ UNCHANGED <<starter, handed>> /\ SkCalmInv
    BY <1>9 DEF HearHello
  <2>2. TakenAt(e) /\ Head1(e) \in SkMessage
    BY <2>1, TakenIs
  <2>3. PICK s \in Session : Head1(e) = SkM("sourceHello", s) /\ s = Head1(e).session
    BY <2>1, <2>2 DEF SkMessage, SkM
  <2>4. \A d \in Party, t \in Session :
          skStage'[d][t] = IF d = e /\ t = s THEN "arrived" ELSE skStage[d][t]
    BY <2>1, <2>3, StageIs
  <2>5. skStage[e][s] = "none" /\ starter[s] = OtherParty(e)
    BY <2>2, <2>3, ComingLess, SessionFacts DEF KeyMessage
  <2>6. \A t \in Session, l \in Late : Head1(e) # SkM(l, t)
    BY <2>3 DEF SkM
  <2>7. /\ \A d \in Party : Ordered(inbound'[d], handed'[d], starter', d)
        /\ \A d \in Party, t \in Session, l \in Late : Reached(d, l, t)' <=> Reached(d, l, t)
    BY <2>1, <2>2, <2>6, CalmTake
  <2>8. ASSUME NEW d \in Party, NEW t \in Session PROVE Calm(d, t)'
    <3>1. Calm(d, t) /\ OtherParty(d) \in Party /\ OtherParty(e) # e
      BY <2>1, CalmFacts, OtherEnd
    <3>2. /\ Reached(d, "destinationHello", t)' <=> Reached(d, "destinationHello", t)
          /\ Reached(d, "finished", t)' <=> Reached(d, "finished", t)
      BY <2>7
    <3> QED BY <2>1, <2>4, <2>5, <3>1, <3>2 DEF Calm
  <2> QED BY <2>7, <2>8, CalmIs
<1>10. ASSUME NEW e \in Party, HandOver(e) PROVE C
  <2>1. /\ inbound[e] # <<>> /\ Taken(e) /\ Head1(e).kind \in Late
        /\ UNCHANGED <<starter, skStage>> /\ SkCalmInv
        /\ handed' = IF InDict(e, Head1(e).session)
                  THEN [handed EXCEPT ![e][Head1(e).session] = @ \union {Head1(e).kind}] ELSE handed
    BY <1>10 DEF HandOver
  <2>2. TakenAt(e) /\ Head1(e) \in SkMessage /\ inbound[e] \in Seq(SkMessage)
    BY <2>1, TakenIs DEF SkTypeOK, SkMessage
  <2>3. PICK s \in Session, k \in Late :
          Head1(e) = SkM(k, s) /\ Head1(e).session = s /\ Head1(e).kind = k
    BY <2>1, <2>2 DEF SkMessage, SkM
  <2>4. /\ k \notin handed[e][s]
        /\ k = "finished" /\ starter[s] = e => "destinationHello" \in handed[e][s]
    <3>1. Ordered(inbound[e], handed[e], starter, e)
      BY <2>1, CalmFacts
    <3>2. 1 \in DOMAIN inbound[e] /\ inbound[e][1].kind = k /\ inbound[e][1].session = s
      BY <2>1, <2>2, <2>3, TailIs DEF Head1
    <3>3. 1 .. 1 - 1 = {}
      OBVIOUS
    <3> QED BY <3>1, <3>2, <3>3 DEF Ordered
  <2>5. k \in KeyMessage /\ Reached(e, k, s)
    BY <2>2, <2>3, ComingLess DEF KeyMessage, Reached
  \* The coroutine is there: it has not failed, and had it come to its end it would have
  \* had the message before.
  <2>6. InDict(e, s)
    <3>1. /\ Calm(e, s) /\ Calm(OtherParty(e), s) /\ starter[s] \in {e, OtherParty(e), NoSession}
          /\ (starter[s] = NoSession => skStage[OtherParty(e)][s] = "none")
          /\ OtherParty(OtherParty(e)) = e
      BY <2>1, CalmFacts, OtherEnd
    <3>2. CASE k = "destinationHello"
      BY <2>4, <2>5, <3>1, <3>2 DEF Calm, InDict
    <3>3. CASE k = "finished"
      <4>1. skStage[OtherParty(e)][s] \in {"wait_finished", "finished"} /\ skStage[e][s] # "finished"
        BY <2>4, <2>5, <3>1, <3>3 DEF Calm
      <4>2. CASE starter[s] = e
        BY <3>1, <4>1, <4>2 DEF Calm, InDict
      <4>3. CASE starter[s] = OtherParty(e)
        <5>1. "destinationHello" \in handed[OtherParty(e)][s]
          BY <3>1, <4>1, <4>3 DEF Calm
        <5>2. Reached(OtherParty(e), "destinationHello", s)
          BY <5>1 DEF Reached
        <5>3. skStage[e][s] \in {"answered", "wait_finished", "finished"}
          BY <3>1, <5>2 DEF Calm
        <5> QED BY <4>1, <5>3 DEF InDict
      <4> QED BY <3>1, <4>1, <4>2, <4>3
    <3> QED BY <3>2, <3>3
  <2>7. \A d \in Party, t \in Session :
          handed'[d][t] = IF d = e /\ t = s THEN handed[d][t] \union {k} ELSE handed[d][t]
    BY <2>1, <2>3, <2>6 DEF SkTypeOK
  <2>8. \A t \in Session, l \in KeyMessage : Head1(e) = SkM(l, t) <=> l = k /\ t = s
    BY <2>3 DEF SkM
  <2>9. /\ \A d \in Party : Ordered(inbound'[d], handed'[d], starter', d)
        /\ \A d \in Party, t \in Session, l \in Late : Reached(d, l, t)' <=> Reached(d, l, t)
    <3>1. \A t \in Session, l \in Late : Head1(e) = SkM(l, t) => l \in handed'[e][t]
      BY <2>7, <2>8 DEF KeyMessage
    <3>2. \A d \in Party, t \in Session : handed[d][t] \subseteq handed'[d][t]
      BY <2>7
    <3>3. \A d \in Party, t \in Session, l \in KeyMessage :
            l \in handed'[d][t] => l \in handed[d][t] \/ (d = e /\ Head1(e) = SkM(l, t))
      BY <2>7, <2>8
    <3>4. starter' = starter
      BY <2>1
    <3> QED BY <2>1, <2>2, <3>1, <3>2, <3>3, <3>4, CalmTake
  <2>10. ASSUME NEW d \in Party, NEW t \in Session PROVE Calm(d, t)'
    <3>1. Calm(d, t)
      BY <2>1, CalmFacts
    <3>2. /\ Reached(d, "destinationHello", t)' <=> Reached(d, "destinationHello", t)
          /\ Reached(d, "finished", t)' <=> Reached(d, "finished", t)
      BY <2>9
    <3>3. CASE d = e /\ t = s
      <4>1. /\ "finished" \in handed[d][t] => "finished" \in handed'[d][t]
            /\ "destinationHello" \in handed[d][t] => "destinationHello" \in handed'[d][t]
            /\ "finished" \in handed'[d][t] /\ starter[t] = d =>
                 "finished" \in handed[d][t] \/ "destinationHello" \in handed'[d][t]
        BY <2>4, <2>7, <3>3
      <4> QED BY <2>1, <3>1, <3>2, <4>1 DEF Calm
    <3>4. CASE ~ (d = e /\ t = s)
      BY <2>1, <2>7, <3>1, <3>2, <3>4 DEF Calm
    <3> QED BY <3>3, <3>4
  <2> QED BY <2>9, <2>10, CalmIs
<1>11. ASSUME NEW e \in Party, Read(e) PROVE C
  <2>1. /\ inbound[e] # <<>> /\ Taken(e) /\ Head1(e).kind = "message"
        /\ UNCHANGED <<starter, skStage, handed>> /\ SkCalmInv
    BY <1>11 DEF Read
  <2>2. TakenAt(e)
    BY <2>1, TakenIs
  <2>3. \A t \in Session, l \in Late : Head1(e) # SkM(l, t)
    BY <2>1 DEF SkM
  <2>4. /\ \A d \in Party : Ordered(inbound'[d], handed'[d], starter', d)
        /\ \A d \in Party, t \in Session, l \in Late : Reached(d, l, t)' <=> Reached(d, l, t)
    BY <2>1, <2>2, <2>3, CalmTake
  <2>5. ASSUME NEW d \in Party, NEW t \in Session PROVE Calm(d, t)'
    <3>1. Calm(d, t)
      BY <2>1, CalmFacts
    <3>2. /\ Reached(d, "destinationHello", t)' <=> Reached(d, "destinationHello", t)
          /\ Reached(d, "finished", t)' <=> Reached(d, "finished", t)
      BY <2>4
    <3> QED BY <2>1, <3>1, <3>2 DEF Calm
  <2> QED BY <2>4, <2>5, CalmIs
\* Whoever sends has keys, and the other end its Finished before.
<1>12. ASSUME NEW e \in Party, SendData(e) PROVE C
  <2>1. /\ current[e] # NoSession /\ Transmit(e, "message", current[e])
        /\ UNCHANGED <<starter, skStage, handed>>
    BY <1>12 DEF SendData
  <2>2. PICK s \in Session : s = current[e]
    BY <2>1 DEF SkTypeOK
  <2>3. SkCalmInv /\ Appended(OtherParty(e), SkM("message", s)) /\ "message" \in KeyMessage
    BY <2>1, <2>2, TransmitIs DEF KeyMessage
  <2>4. OtherParty(e) \in Party /\ OtherParty(OtherParty(e)) = e
    BY OtherEnd
  <2>5. Reached(OtherParty(e), "finished", s)
    <3>1. skStage[e][s] = "finished"
      BY <2>2, SessionFacts
    <3>2. Calm(OtherParty(e), s)
      BY <2>3, <2>4, CalmFacts
    <3> QED BY <2>4, <3>1, <3>2 DEF Calm
  <2>6. /\ \A d \in Party : Ordered(inbound'[d], handed'[d], starter', d)
        /\ \A d \in Party, t \in Session, l \in Late : Reached(d, l, t)' <=> Reached(d, l, t)
    <3>1. /\ \A d \in Party : Ordered(inbound'[d], handed'[d], starter', d)
          /\ \A d \in Party, t \in Session, l \in Late :
               Reached(d, l, t)' <=> Reached(d, l, t) \/ (d = OtherParty(e) /\ l = "message" /\ t = s)
      BY <2>1, <2>3, <2>5, CalmSend
    <3> QED BY <3>1
  <2>7. ASSUME NEW d \in Party, NEW t \in Session PROVE Calm(d, t)'
    <3>1. Calm(d, t)
      BY <2>3, CalmFacts
    <3>2. /\ Reached(d, "destinationHello", t)' <=> Reached(d, "destinationHello", t)
          /\ Reached(d, "finished", t)' <=> Reached(d, "finished", t)
      BY <2>6
    <3> QED BY <2>1, <3>1, <3>2 DEF Calm
  <2> QED BY <2>6, <2>7, CalmIs
<1> QED
  BY <1>1, <1>2, <1>4, <1>5, <1>6, <1>7, <1>8, <1>9, <1>10, <1>11, <1>12 DEF SkNext

-----------------------------------------------------------------------------
(* ShortTermKeys: the theorems *)

\* The inductive invariant: types, what holds of a session whatever goes wrong, and what
\* holds as long as nothing does (short_term_key_generater.py, recv_data).
THEOREM SkInvariance == SkAssumption /\ SkSpec => []SkIInv
<1> SUFFICES ASSUME SkAssumption PROVE SkSpec => []SkIInv
  OBVIOUS
<1>0. SkIInv <=> SkTypeOK /\ SkSessionInv /\ (skMishaps = 0 => SkCalmInv)
  BY DEF SkIInv, SkSessionInv, SkCalmInv
<1>1. SkInit => SkIInv
  <2> SUFFICES ASSUME SkInit PROVE SkIInv
    OBVIOUS
  <2>1. SkTypeOK
    <3>1. <<>> \in Seq([kind : KeyMessage, session : Session])
      OBVIOUS
    <3> QED BY <3>1 DEF SkInit, SkTypeOK, SkAssumption
  <2>2. /\ \A e \in Party : inbound[e] = <<>> /\ known[e] = {} /\ current[e] = NoSession
        /\ \A e \in Party, s \in Session :
             starter[s] = NoSession /\ skStage[e][s] = "none" /\ handed[e][s] = {}
    BY DEF SkInit
  <2>3. DOMAIN <<>> = {}
    OBVIOUS
  <2>4. \A e \in Party, k \in KeyMessage, s \in Session : ~ Reached(e, k, s) /\ ~ Coming(e, k, s)
    BY <2>2, <2>3 DEF Reached, Coming
  <2>5. SkSessionInv
    BY <2>2, <2>3, <2>4 DEF SkSessionInv, SessionInv, SkAssumption, KeyMessage
  <2>6. SkCalmInv
    <3>1. \A e \in Party : OrderInv(e)
      BY <2>2, <2>3 DEF OrderInv
    <3>2. \A e \in Party, s \in Session : Calm(e, s)
      BY <2>2, <2>4, OtherEnd DEF Calm, SkAssumption, KeyMessage
    <3> QED BY <3>1, <3>2, CalmWritten DEF SkCalmInv
  <2> QED BY <1>0, <2>1, <2>5, <2>6
<1>2. SkIInv /\ [SkNext]_skVars => SkIInv'
  <2> SUFFICES ASSUME SkIInv, [SkNext]_skVars PROVE SkIInv'
    OBVIOUS
  <2>1. SkTypeOK /\ SkSessionInv /\ (skMishaps = 0 => SkCalmInv)
    BY <1>0
  <2>2. SkTypeOK'
    BY <2>1, SkTypesStep
  <2>3. SkSessionInv'
    BY <2>1, SkSessionStep
  <2>4. skMishaps' = 0 => SkCalmInv'
    BY <2>1, CalmStep
  <2> QED BY <2>2, <2>3, <2>4 DEF SkIInv, SkSessionInv, SkCalmInv
<1> QED BY <1>1, <1>2, PTL DEF SkSpec

\* Keys one end knows are known at the other, or derived there; and as long as nothing goes
\* wrong, the Finished that makes them known has come or is on its way, before every message
\* they encrypt - for any number of sessions under way at once, from either end
\* (process_finished, send_data, recv_data).
THEOREM KeysAreShared == SkAssumption /\ SkSpec => []KeysMeet
<1> SUFFICES ASSUME SkAssumption PROVE SkSpec => []KeysMeet
  OBVIOUS
<1>1. SkIInv => KeysMeet
  <2> SUFFICES ASSUME SkIInv, NEW e \in Party
               PROVE  /\ \A s \in known[OtherParty(e)] : skStage[e][s] \in Derived
                      /\ skMishaps = 0 =>
                           /\ \A s \in known[OtherParty(e)] : FinishedBefore(e, s, Len(inbound[e]) + 1)
                           /\ \A i \in DOMAIN inbound[e] : inbound[e][i].kind = "message" =>
                                FinishedBefore(e, inbound[e][i].session, i)
    BY DEF KeysMeet, Derived
  <2>1. SkTypeOK /\ SkSessionInv /\ (skMishaps = 0 => SkCalmInv)
    BY DEF SkIInv, SkSessionInv, SkCalmInv
  <2>2. OtherParty(e) \in Party /\ OtherParty(OtherParty(e)) = e
    BY OtherEnd
  <2>3. \A s \in known[OtherParty(e)] : s \in Session
    BY <2>1, <2>2 DEF SkTypeOK
  <2>4. \A s \in known[OtherParty(e)] :
          "finished" \in handed[OtherParty(e)][s] /\ skStage[OtherParty(e)][s] = "finished"
    BY <2>1, <2>2, <2>3, SessionFacts
  <2>5. ASSUME NEW s \in known[OtherParty(e)] PROVE skStage[e][s] \in Derived
    <3>1. Reached(OtherParty(e), "finished", s)
      BY <2>4 DEF Reached
    <3> QED BY <2>1, <2>2, <2>3, <3>1, SessionFacts
  <2>6. ASSUME skMishaps = 0, NEW s \in known[OtherParty(e)]
        PROVE  FinishedBefore(e, s, Len(inbound[e]) + 1)
    <3>1. Calm(e, s)
      BY <2>1, <2>3, <2>6, CalmFacts
    <3>2. Reached(e, "finished", s)
      BY <2>4, <3>1 DEF Calm
    <3>3. DOMAIN inbound[e] = 1 .. (Len(inbound[e]) + 1) - 1
      BY <2>1 DEF SkTypeOK
    <3> QED BY <3>2, <3>3 DEF Reached, Coming, FinishedBefore
  <2>7. ASSUME skMishaps = 0, NEW i \in DOMAIN inbound[e], inbound[e][i].kind = "message"
        PROVE  FinishedBefore(e, inbound[e][i].session, i)
    BY <2>1, <2>7 DEF SkCalmInv, OrderInv, FinishedBefore
  <2> QED BY <2>5, <2>6, <2>7
<1> QED BY <1>1, SkInvariance, PTL

-----------------------------------------------------------------------------
(* MetaNegotiation *)

\* A sequence of no length is the empty one.
LEMMA NoneLeft == ASSUME NEW S, NEW q \in Seq(S), Len(q) = 0 PROVE q = <<>>
OBVIOUS

\* What the theorems about negotiation assume: bounds that are numbers.
MetaAssumption == MaxRuns \in Nat /\ MaxProposals \in Nat

\* A message is sent to somebody who has none coming,
LEMMA TalkBegins ==
  ASSUME NEW q \in Seq(Msg), NEW l \in Seq(Msg), NEW S, NEW m \in Msg,
         SilentIn(q, l), m \in S, m.status # "generated"
  PROVE  SingleIn(q, Append(l, m), S) /\ ~SilentIn(q, Append(l, m))
<1>1. q = <<>> /\ NoTalk(l)
  BY DEF SilentIn
<1>2. /\ Len(l) \in Nat /\ DOMAIN l = 1 .. Len(l) /\ DOMAIN Append(l, m) = 1 .. Len(l) + 1
      /\ \A i \in 1 .. Len(l) : Append(l, m)[i] = l[i] /\ Append(l, m)[i].status = "generated"
      /\ Append(l, m)[Len(l) + 1] = m
  BY <1>1, AppendIs DEF NoTalk
<1>3. \A i \in DOMAIN Append(l, m) :
        Append(l, m)[i].status # "generated" => i = Len(l) + 1 /\ Append(l, m)[i] \in S
  BY <1>2
<1>4. ~NoTalk(Append(l, m))
  BY <1>2 DEF NoTalk
<1> QED BY <1>1, <1>3, <1>4 DEF SingleIn, SilentIn

\* or says that code was generated;
LEMMA CodeIsNoTalk ==
  ASSUME NEW q \in Seq(Msg), NEW l \in Seq(Msg), NEW S, NEW m \in Msg, m.status = "generated"
  PROVE  /\ SilentIn(q, Append(l, m)) <=> SilentIn(q, l)
         /\ SingleIn(q, l, S) => SingleIn(q, Append(l, m), S)
<1>1. /\ Len(l) \in Nat /\ DOMAIN l = 1 .. Len(l) /\ DOMAIN Append(l, m) = 1 .. Len(l) + 1
      /\ \A i \in 1 .. Len(l) : Append(l, m)[i] = l[i]
      /\ Append(l, m)[Len(l) + 1].status = "generated"
  BY AppendIs
<1>2. NoTalk(Append(l, m)) <=> NoTalk(l)
  <2>1. NoTalk(l) => NoTalk(Append(l, m))
    BY <1>1 DEF NoTalk
  <2>2. NoTalk(Append(l, m)) => NoTalk(l)
    BY <1>1 DEF NoTalk
  <2> QED BY <2>1, <2>2
<1>3. \A i \in DOMAIN Append(l, m) :
        Append(l, m)[i].status # "generated" => i \in DOMAIN l /\ Append(l, m)[i] = l[i]
  BY <1>1
<1> QED BY <1>2, <1>3 DEF SingleIn, SilentIn

\* the next message comes to its queue, or was about code;
LEMMA TalkArrives ==
  ASSUME NEW q \in Seq(Msg), NEW l \in Seq(Msg), NEW S, l # <<>>
  PROVE  /\ l[1].status # "generated" =>
              /\ ~SilentIn(q, l) /\ ~SilentIn(Append(q, l[1]), Tail(l))
              /\ SingleIn(q, l, S) => SingleIn(Append(q, l[1]), Tail(l), S)
         /\ l[1].status = "generated" =>
              /\ SilentIn(q, l) <=> SilentIn(q, Tail(l))
              /\ SingleIn(q, l, S) => SingleIn(q, Tail(l), S)
<1>1. /\ Len(l) \in Nat \ {0} /\ DOMAIN l = 1 .. Len(l) /\ DOMAIN Tail(l) = 1 .. Len(l) - 1
      /\ \A i \in 1 .. Len(l) - 1 : Tail(l)[i] = l[i + 1]
      /\ l[1] \in Msg
  BY TailIs
<1>2. ASSUME l[1].status # "generated"
      PROVE  /\ ~SilentIn(q, l) /\ ~SilentIn(Append(q, l[1]), Tail(l))
             /\ SingleIn(q, l, S) => SingleIn(Append(q, l[1]), Tail(l), S)
  <2>1. ~NoTalk(l)
    BY <1>1, <1>2 DEF NoTalk
  <2>2. Append(q, l[1]) # <<>> /\ (q = <<>> => Append(q, l[1])[1] = l[1] /\ Len(Append(q, l[1])) = 1)
    BY <1>1, AppendIs
  <2>3. ASSUME SingleIn(q, l, S) PROVE SingleIn(Append(q, l[1]), Tail(l), S)
    <3>1. /\ q = <<>>
          /\ \A i \in DOMAIN l : l[i].status # "generated" =>
               l[i] \in S /\ \A j \in DOMAIN l : l[j].status # "generated" => j = i
      BY <2>1, <2>3 DEF SingleIn, SilentIn
    <3>2. 1 \in DOMAIN l
      BY <1>1
    <3>3. \A j \in DOMAIN l : l[j].status # "generated" => j = 1
      BY <1>2, <3>1, <3>2
    <3>4. NoTalk(Tail(l))
      BY <1>1, <3>3 DEF NoTalk
    <3>5. l[1] \in S
      BY <1>2, <3>1, <3>2
    <3> QED BY <2>2, <3>1, <3>4, <3>5 DEF SingleIn
  <2> QED BY <2>1, <2>2, <2>3 DEF SilentIn
<1>3. ASSUME l[1].status = "generated"
      PROVE  /\ SilentIn(q, l) <=> SilentIn(q, Tail(l))
             /\ SingleIn(q, l, S) => SingleIn(q, Tail(l), S)
  <2>1. \A i \in DOMAIN Tail(l) : i + 1 \in DOMAIN l /\ Tail(l)[i] = l[i + 1] /\ i \in Nat
    BY <1>1
  <2>2. NoTalk(l) => NoTalk(Tail(l))
    BY <2>1 DEF NoTalk
  <2>3. NoTalk(Tail(l)) => NoTalk(l)
    <3>1. ASSUME NoTalk(Tail(l)), NEW i \in DOMAIN l PROVE l[i].status = "generated"
      <4>1. CASE i = 1
        BY <1>3, <4>1
      <4>2. CASE i # 1
        <5>1. i - 1 \in DOMAIN Tail(l) /\ Tail(l)[i - 1] = l[i]
          BY <1>1, <3>1, <4>2
        <5> QED BY <3>1, <5>1 DEF NoTalk
      <4> QED BY <4>1, <4>2
    <3> QED BY <3>1 DEF NoTalk
  <2>4. ASSUME q = <<>>, NEW i \in DOMAIN Tail(l), Tail(l)[i].status # "generated",
               \A k \in DOMAIN l : l[k].status # "generated" =>
                 l[k] \in S /\ \A j \in DOMAIN l : l[j].status # "generated" => j = k
        PROVE  /\ Tail(l)[i] \in S
               /\ \A j \in DOMAIN Tail(l) : Tail(l)[j].status # "generated" => j = i
    <3>1. l[i + 1] \in S /\ \A j \in DOMAIN l : l[j].status # "generated" => j = i + 1
      BY <2>1, <2>4
    <3>2. ASSUME NEW j \in DOMAIN Tail(l), Tail(l)[j].status # "generated" PROVE j = i
      <4>1. j + 1 = i + 1 /\ i \in Nat /\ j \in Nat
        BY <2>1, <3>1, <3>2
      <4> QED BY <4>1
    <3> QED BY <2>1, <3>1, <3>2
  <2> QED BY <2>2, <2>3, <2>4 DEF SingleIn, SilentIn
<1> QED BY <1>2, <1>3

\* and who takes the one there is has none coming.
LEMMA TalkIsTaken ==
  ASSUME NEW q \in Seq(Msg), NEW l \in Seq(Msg), NEW S, q # <<>>, SingleIn(q, l, S)
  PROVE  Head(q) \in S /\ Head(q) \in Msg /\ SilentIn(Tail(q), l)
<1>1. Len(q) = 1 /\ q[1] \in S /\ NoTalk(l)
  BY DEF SingleIn, SilentIn
<1>2. Tail(q) = <<>> /\ q[1] \in Msg
  <2>1. Tail(q) \in Seq(Msg) /\ Len(Tail(q)) = 0 /\ q[1] \in Msg
    BY <1>1, TailIs
  <2>2. Tail(q) = <<>>
    BY <2>1, NoneLeft
  <2> QED BY <2>1, <2>2
<1>3. Head(q) = q[1]
  OBVIOUS
<1> QED BY <1>1, <1>2, <1>3 DEF SilentIn

\* A cleared queue leaves one message at most, too.
LEMMA TalkIsCleared ==
  ASSUME NEW q \in Seq(Msg), NEW l \in Seq(Msg), NEW S, SingleIn(q, l, S)
  PROVE  SingleIn(<<>>, l, S) /\ (SilentIn(q, l) => SilentIn(<<>>, l))
BY DEF SingleIn, SilentIn

-----------------------------------------------------------------------------
(* The state *)

LEMMA Sides ==
  /\ Remote(Requester) = Provider /\ Remote(Provider) = Requester /\ Requester # Provider
  /\ Requester \in Side /\ Provider \in Side
  /\ \A e \in Side : /\ e = Requester \/ e = Provider
                     /\ Remote(e) \in Side /\ Remote(e) # e /\ Remote(Remote(e)) = e
BY DEF Remote, Requester, Provider, Side

\* What Send does, for each of the sides
LEMMA Sent ==
  ASSUME MetaTypeOK, NEW e \in Side, NEW p \in Proposal \union {NoProposal},
         NEW status \in {"negotiating", "accepted", "rejected", "generated"},
         SendToPeer(e, status, p)
  PROVE  LET m == [status |-> status, protocol |-> p]
             o == Remote(e)
         IN  /\ m \in Msg
             /\ link' \in [Side -> Seq(Msg)]
             /\ link'[o] = Append(link[o], m) /\ link'[e] = link[e]
<1> DEFINE m == [status |-> status, protocol |-> p]
           o == Remote(e)
<1>1. m \in Msg
  BY DEF Msg
<1>2. link \in [Side -> Seq(Msg)] /\ o \in Side /\ o # e
  BY Sides DEF MetaTypeOK
<1>3. Append(link[o], m) \in Seq(Msg)
  BY <1>1, <1>2, AppendIs
<1>4. link' = [link EXCEPT ![o] = Append(@, m)]
  BY DEF SendToPeer
<1> QED BY <1>1, <1>2, <1>3, <1>4

\* Proposals are numbered.
LEMMA NextProposal ==
  ASSUME MetaAssumption, MetaTypeOK, proposals < MaxProposals
  PROVE  /\ proposals + 1 \in Proposal /\ proposals + 1 # NoProposal
         /\ proposals + 1 \in 0 .. MaxProposals
BY DEF MetaAssumption, MetaTypeOK, Proposal, NoProposal

\* The message that is taken from a queue
LEMMA Popped ==
  ASSUME MetaTypeOK, NEW e \in Side, NEW status, Pop(e, status)
  PROVE  /\ metaPhase[e] = "waiting" /\ ~Silent(e)
         /\ Head(queue[e]) \in Msg /\ Head(queue[e]).status = status
         /\ Head(queue[e]).protocol \in Proposal \union {NoProposal}
         /\ \A S \in SUBSET Msg : Single(e, S) => Head(queue[e]) \in S
         /\ queue' \in [Side -> Seq(Msg)]
         /\ queue'[e] = Tail(queue[e]) /\ queue'[Remote(e)] = queue[Remote(e)]
         /\ \A S \in SUBSET Msg : Single(e, S) => SilentIn(queue'[e], link[e])
         /\ untidy' = untidy
<1>1. queue \in [Side -> Seq(Msg)] /\ link \in [Side -> Seq(Msg)]
  BY DEF MetaTypeOK
<1>2. queue[e] \in Seq(Msg) /\ link[e] \in Seq(Msg) /\ queue[e] # <<>>
  BY <1>1 DEF Pop
<1>3. Head(queue[e]) = queue[e][1] /\ queue[e][1] \in Msg /\ Tail(queue[e]) \in Seq(Msg)
  BY <1>2, TailIs
<1>4. queue' = [queue EXCEPT ![e] = Tail(queue[e])]
  BY DEF Pop
<1>5. /\ queue' \in [Side -> Seq(Msg)]
      /\ queue'[e] = Tail(queue[e]) /\ queue'[Remote(e)] = queue[Remote(e)]
  BY <1>1, <1>3, <1>4, Sides
<1>6. ASSUME NEW S \in SUBSET Msg, Single(e, S)
      PROVE  Head(queue[e]) \in S /\ SilentIn(Tail(queue[e]), link[e])
  BY <1>2, <1>6, TalkIsTaken DEF Single
<1>7. Head(queue[e]).protocol \in Proposal \union {NoProposal}
  BY <1>3 DEF Msg
<1> QED BY <1>2, <1>3, <1>5, <1>6, <1>7 DEF Pop, Silent, SilentIn

\* What is not about where the negotiation stands
LEMMA MetaTypes ==
  ASSUME MetaAssumption, MetaTypeOK, QueuesTalk, MetaNext
  PROVE  MetaTypeOK' /\ QueuesTalk'
<1> USE DEF MetaTypeOK, Negotiating, Enters
<1>0. Requester \in Side /\ Provider \in Side
  BY Sides
<1>a. ASSUME UNCHANGED queue PROVE QueuesTalk'
  BY <1>a DEF QueuesTalk
<1>b. ASSUME NEW e \in Side, queue' = [queue EXCEPT ![e] = <<>>]
      PROVE  QueuesTalk' /\ queue' \in [Side -> Seq(Msg)]
  BY <1>b DEF QueuesTalk
<1>c. ASSUME NEW e \in Side, NEW status, Pop(e, status)
      PROVE  QueuesTalk'
  <2>1. queue[e] \in Seq(Msg) /\ queue[e] # <<>>
    BY <1>c DEF Pop
  <2>2. \A i \in DOMAIN Tail(queue[e]) :
          i + 1 \in DOMAIN queue[e] /\ Tail(queue[e])[i] = queue[e][i + 1]
    BY <2>1, TailIs
  <2>3. \A d \in Side : queue'[d] = IF d = e THEN Tail(queue[e]) ELSE queue[d]
    BY <1>c DEF Pop
  <2> QED BY <2>2, <2>3 DEF QueuesTalk
<1>1. ASSUME NegotiateProtocol PROVE MetaTypeOK' /\ QueuesTalk'
  <2>1. runs' \in 0 .. MaxRuns
    BY <1>1 DEF NegotiateProtocol, MetaAssumption
  <2>2. QueuesTalk' /\ queue' \in [Side -> Seq(Msg)]
    BY <1>0, <1>1, <1>b DEF NegotiateProtocol, Begin
  <2>3. /\ untidy' \in BOOLEAN
    BY <1>1 DEF NegotiateProtocol, Tidy
  <2> QED BY <1>0, <1>1, <2>1, <2>2, <2>3 DEF NegotiateProtocol, Begin
<1>2. ASSUME WaitRemoteNegotiation PROVE MetaTypeOK' /\ QueuesTalk'
  <2>2. QueuesTalk' /\ queue' \in [Side -> Seq(Msg)]
    BY <1>0, <1>2, <1>b DEF WaitRemoteNegotiation, Begin
  <2> QED BY <1>0, <1>2, <2>2 DEF WaitRemoteNegotiation, Begin
<1>3. ASSUME Draft PROVE MetaTypeOK' /\ QueuesTalk'
  <2>1. CASE /\ proposals < MaxProposals
             /\ proposals' = proposals + 1
             /\ last' = [last EXCEPT ![Requester] = proposals + 1]
             /\ SendToPeer(Requester, "negotiating", proposals + 1)
    <3>1. proposals + 1 \in Proposal /\ proposals' \in 0 .. MaxProposals
      BY <2>1, NextProposal
    <3>2. link' \in [Side -> Seq(Msg)]
      BY <1>0, <2>1, <3>1, Sent
    <3> QED BY <1>0, <1>3, <1>a, <2>1, <3>1, <3>2 DEF Draft
  <2>2. CASE SendToPeer(Requester, "rejected", NoProposal) /\ UNCHANGED <<proposals, last>>
    <3>2. link' \in [Side -> Seq(Msg)]
      BY <1>0, <2>2, Sent
    <3> QED BY <1>0, <1>3, <1>a, <2>2, <3>2 DEF Draft
  <2> QED BY <1>3, <2>1, <2>2 DEF Draft
<1>4. ASSUME NEW e \in Side, HandleMetaData(e) PROVE MetaTypeOK' /\ QueuesTalk'
  <2>1. /\ link[e] \in Seq(Msg) /\ link[e] # <<>> /\ queue[e] \in Seq(Msg)
        /\ Head(link[e]) = link[e][1] /\ link[e][1] \in Msg /\ Tail(link[e]) \in Seq(Msg)
    BY <1>4, TailIs DEF HandleMetaData
  <2>2. link' \in [Side -> Seq(Msg)]
    BY <1>4, <2>1 DEF HandleMetaData
  <2>3. CASE link[e][1].status = "generated"
    <3>1. codeQueue' = [codeQueue EXCEPT ![e] = @ + 1] /\ queue' = queue
      BY <1>4, <2>1, <2>3 DEF HandleMetaData
    <3>2. codeQueue' \in [Side -> Nat]
      BY <3>1
    <3> QED BY <1>4, <1>a, <2>2, <3>1, <3>2 DEF HandleMetaData
  <2>4. CASE link[e][1].status # "generated"
    <3>1. queue' = [queue EXCEPT ![e] = Append(queue[e], link[e][1])] /\ codeQueue' = codeQueue
      BY <1>4, <2>1, <2>4 DEF HandleMetaData
    <3>2. Append(queue[e], link[e][1]) \in Seq(Msg)
      BY <2>1, AppendIs
    <3>3. queue' \in [Side -> Seq(Msg)]
      BY <3>1, <3>2
    <3>4. \A d \in Side : queue'[d] = IF d = e THEN Append(queue[e], link[e][1]) ELSE queue[d]
      BY <3>1
    <3>5. \A i \in DOMAIN Append(queue[e], link[e][1]) :
            \/ i \in DOMAIN queue[e] /\ Append(queue[e], link[e][1])[i] = queue[e][i]
            \/ Append(queue[e], link[e][1])[i] = link[e][1]
      BY <2>1, AppendIs
    <3>6. QueuesTalk'
      BY <2>4, <3>4, <3>5 DEF QueuesTalk
    <3> QED BY <1>4, <2>2, <3>1, <3>3, <3>6 DEF HandleMetaData
  <2> QED BY <2>3, <2>4
<1>5. ASSUME NEW e \in Side, TakeProposal(e) PROVE MetaTypeOK' /\ QueuesTalk'
  <2>1. Pop(e, "negotiating")
    BY <1>5 DEF TakeProposal
  <2>2. Head(queue[e]).protocol \in Proposal \union {NoProposal} /\ queue' \in [Side -> Seq(Msg)]
    BY <2>1, Popped
  <2> QED BY <1>5, <1>c, <2>1, <2>2 DEF TakeProposal, Pop
<1>6. ASSUME NEW e \in Side, TakeAccepted(e) PROVE MetaTypeOK' /\ QueuesTalk'
  <2> DEFINE p == IF last[e] # NoProposal THEN last[e] ELSE Head(queue[e]).protocol
  <2>1. Pop(e, "accepted") /\ SendToPeer(e, "accepted", p) /\ result' = [result EXCEPT ![e] = p]
    BY <1>6 DEF TakeAccepted
  <2>2. Head(queue[e]).protocol \in Proposal \union {NoProposal} /\ queue' \in [Side -> Seq(Msg)]
    BY <2>1, Popped
  <2>3. p \in Proposal \union {NoProposal}
    BY <2>2
  <2> HIDE DEF p
  <2>4. link' \in [Side -> Seq(Msg)]
    BY <2>1, <2>3, Sent
  <2>5. result' \in [Side -> Proposal \union {NoProposal}]
    BY <2>1, <2>3
  <2> QED BY <1>6, <1>c, <2>1, <2>2, <2>4, <2>5 DEF TakeAccepted, Pop
<1>7. ASSUME NEW e \in Side, TakeRejected(e) PROVE MetaTypeOK' /\ QueuesTalk'
  <2>1. Pop(e, "rejected") /\ SendToPeer(e, "rejected", NoProposal)
    BY <1>7 DEF TakeRejected
  <2>2. queue' \in [Side -> Seq(Msg)] /\ link' \in [Side -> Seq(Msg)]
    BY <2>1, Popped, Sent
  <2> QED BY <1>7, <1>c, <2>1, <2>2 DEF TakeRejected, Pop
<1>8. ASSUME NEW e \in Side, Accept(e) PROVE MetaTypeOK' /\ QueuesTalk'
  <2>1. SendToPeer(e, "accepted", taken[e]) /\ taken[e] \in Proposal \union {NoProposal}
    BY <1>8 DEF Accept
  <2>2. link' \in [Side -> Seq(Msg)]
    BY <2>1, Sent
  <2> QED BY <1>8, <1>a, <2>1, <2>2 DEF Accept, Evaluated
<1>9. ASSUME NEW e \in Side, Counter(e) PROVE MetaTypeOK' /\ QueuesTalk'
  <2>1. proposals + 1 \in Proposal /\ proposals' \in 0 .. MaxProposals
    BY <1>9, NextProposal DEF Counter
  <2>2. link' \in [Side -> Seq(Msg)]
    BY <1>9, <2>1, Sent DEF Counter
  <2> QED BY <1>9, <1>a, <2>1, <2>2 DEF Counter, Evaluated
<1>10. ASSUME NEW e \in Side, Reject(e) PROVE MetaTypeOK' /\ QueuesTalk'
  <2>2. link' \in [Side -> Seq(Msg)]
    BY <1>10, Sent DEF Reject
  <2> QED BY <1>10, <1>a, <2>2 DEF Reject, Evaluated
<1>11. ASSUME NEW e \in Side, Abandon(e) PROVE MetaTypeOK' /\ QueuesTalk'
  BY <1>11, <1>a DEF Abandon
<1>12. ASSUME NEW e \in Side, GenerateCode(e) PROVE MetaTypeOK' /\ QueuesTalk'
  <2>2. link' \in [Side -> Seq(Msg)]
    BY <1>12, Sent DEF GenerateCode
  <2> QED BY <1>12, <1>a, <2>2 DEF GenerateCode
<1>13. ASSUME NEW e \in Side, HearGenerated(e) PROVE MetaTypeOK' /\ QueuesTalk'
  <2>1. codeQueue[e] \in Nat /\ codeQueue[e] > 0 /\ codeQueue' = [codeQueue EXCEPT ![e] = @ - 1]
    BY <1>13 DEF HearGenerated
  <2>2. codeQueue' \in [Side -> Nat]
    BY <2>1
  <2> QED BY <1>13, <1>a, <2>2 DEF HearGenerated
<1>14. ASSUME NEW e \in Side, StopConfirming(e) PROVE MetaTypeOK' /\ QueuesTalk'
  BY <1>14, <1>a DEF StopConfirming
<1> HIDE DEF MetaTypeOK, Negotiating, Enters
<1> QED BY <1>1, <1>2, <1>3, <1>4, <1>5, <1>6, <1>7, <1>8, <1>9, <1>10, <1>11, <1>12, <1>13,
           <1>14 DEF MetaNext

-----------------------------------------------------------------------------
(* Where the negotiation stands *)

\* Steps that are about code, and messages that arrive, do not change it.
LEMMA StageKept ==
  ASSUME Stage, UNCHANGED <<last, taken, result>>,
         \A e \in Side : \/ metaPhase'[e] = metaPhase[e]
                         \/ metaPhase[e] \notin Negotiating /\ metaPhase'[e] \notin Negotiating,
         \A e \in Side : SilentIn(queue'[e], link'[e]) <=> SilentIn(queue[e], link[e]),
         \A e \in Side, S \in SUBSET Msg :
           SingleIn(queue[e], link[e], S) => SingleIn(queue'[e], link'[e], S)
  PROVE  Stage'
<1> USE DEF Silent, Single
<1>0. \A p : LastWord(p) \in SUBSET Msg
  BY DEF LastWord
<1>1. ASSUME Over PROVE Over'
  <2>1. PICK p : p = result[Requester]
    OBVIOUS
  <2>2. result'[Requester] = p
    BY <2>1
  <2>3. SingleIn(queue'[Provider], link'[Provider], LastWord(p))
    BY <1>0, <1>1, <2>1, Sides DEF Over
  <2> QED BY <1>1, <2>1, <2>2, <2>3, Sides DEF Over, Negotiating
<1>2. ASSUME Drafting PROVE Drafting'
  BY <1>2, Sides DEF Drafting, Negotiating
<1>3. ASSUME NEW e \in Side, Turn(e) PROVE Turn(e)'
  <2>1. PICK n : n = last[Remote(e)]
    OBVIOUS
  <2>2. {m \in Msg : m.status = "negotiating" /\ m.protocol = n} \in SUBSET Msg
    OBVIOUS
  <2> QED BY <1>0, <1>3, <2>1, <2>2, Sides DEF Turn, Negotiating
<1>4. ASSUME NEW p \in Proposal \union {NoProposal}, Ending(p) PROVE Ending(p)'
  BY <1>0, <1>4, Sides DEF Ending, Negotiating
<1> QED BY <1>1, <1>2, <1>3, <1>4 DEF Stage

\* Where it stands when somebody is evaluating a proposal
LEMMA EvaluatingIs ==
  ASSUME Stage, NEW e \in Side, metaPhase[e] = "evaluating"
  PROVE  LET o == Remote(e)
         IN  /\ metaPhase[o] = "waiting" /\ Silent(o) /\ Silent(e)
             /\ result[e] = NoProposal /\ result[o] = NoProposal
             /\ taken[e] = last[o] /\ last[o] # NoProposal
<1>1. ~Over /\ ~Drafting
  BY Sides DEF Over, Drafting, Negotiating
<1>2. \A p : ~Ending(p)
  BY Sides DEF Ending, Negotiating
<1>3. ~Turn(Remote(e))
  BY Sides DEF Turn
<1>4. Turn(e)
  BY <1>1, <1>2, <1>3, Sides DEF Stage
<1> QED BY <1>4 DEF Turn

LEMMA BeginStage ==
  ASSUME MetaTypeOK, NegotiateProtocol, ~untidy => Stage, ~untidy'
  PROVE  Stage'
<1>1. Tidy /\ Stage
  BY DEF NegotiateProtocol
<1>2. Over
  BY <1>1, Sides DEF NegotiateProtocol, Tidy, Stage, Drafting, Turn, Ending
<1>3. result[Provider] = NoProposal
  BY <1>1, <1>2 DEF Over, Tidy, Negotiating
<1>4. link'[Requester] = <<>> /\ link'[Provider] = <<>>
  BY <1>1, Sides DEF NegotiateProtocol, Begin, Tidy
<1>5. queue'[Requester] = <<>> /\ queue'[Provider] = <<>>
  BY <1>1, Sides DEF NegotiateProtocol, Begin, Tidy, MetaTypeOK
<1>6. metaPhase'[Requester] = "drafting" /\ metaPhase'[Provider] = "waiting"
  BY <1>1, Sides DEF NegotiateProtocol, Enters, Tidy, MetaTypeOK
<1>7. result'[Requester] = NoProposal /\ result'[Provider] = NoProposal
  BY <1>3, Sides DEF NegotiateProtocol, Begin, MetaTypeOK
<1>8. Drafting'
  BY <1>4, <1>5, <1>6, <1>7 DEF Drafting, Silent, SilentIn, NoTalk
<1> QED BY <1>8 DEF Stage

LEMMA WaitStage ==
  ASSUME MetaTypeOK, WaitRemoteNegotiation, Stage
  PROVE  Stage'
<1>1. /\ metaPhase'[Provider] = "waiting" /\ metaPhase'[Requester] = metaPhase[Requester]
      /\ result'[Provider] = NoProposal /\ result'[Requester] = result[Requester]
      /\ last'[Provider] = NoProposal /\ last'[Requester] = last[Requester]
      /\ queue'[Provider] = <<>> /\ queue'[Requester] = queue[Requester]
      /\ link'[Provider] = link[Provider] /\ link'[Requester] = link[Requester]
  BY Sides DEF WaitRemoteNegotiation, Begin, Enters, MetaTypeOK
<1>2. queue[Provider] \in Seq(Msg) /\ link[Provider] \in Seq(Msg)
  BY Sides DEF MetaTypeOK
<1>3. metaPhase[Provider] = "idle"
  BY DEF WaitRemoteNegotiation
<1>4. CASE Over
  <2>1. PICK p : p = result[Requester]
    OBVIOUS
  <2>2. SingleIn(queue'[Provider], link'[Provider], LastWord(p))
    BY <1>1, <1>2, <1>4, <2>1, TalkIsCleared DEF Over, Single
  <2>3. Over'
    BY <1>1, <1>4, <2>1, <2>2 DEF Over, Single, Negotiating
  <2> QED BY <2>3 DEF Stage
<1>5. ASSUME NEW p \in Proposal \union {NoProposal}, Ending(p) PROVE Stage'
  <2>1. SilentIn(queue'[Provider], link'[Provider])
    BY <1>1, <1>5 DEF Ending, Silent, SilentIn
  <2>2. Ending(p)'
    BY <1>1, <1>3, <1>5, <2>1 DEF Ending, Silent, Single
  <2> QED BY <2>2 DEF Stage
<1> QED BY <1>3, <1>4, <1>5, Sides DEF Stage, Drafting, Turn

LEMMA DraftStage ==
  ASSUME MetaAssumption, MetaTypeOK, Draft, Stage
  PROVE  Stage'
<1>1. Drafting
  <2>1. metaPhase[Requester] = "drafting"
    BY DEF Draft
  <2> QED BY <2>1, Sides DEF Stage, Over, Turn, Ending, Negotiating
<1>2. /\ metaPhase'[Requester] = "waiting" /\ metaPhase'[Provider] = "waiting"
      /\ queue' = queue /\ result' = result
  BY <1>1, Sides DEF Draft, Drafting, Enters, MetaTypeOK
<1>3. /\ SilentIn(queue[Requester], link[Requester])
      /\ queue[Provider] \in Seq(Msg) /\ link[Provider] \in Seq(Msg)
      /\ SilentIn(queue[Provider], link[Provider])
      /\ result[Requester] = NoProposal /\ result[Provider] = NoProposal
  BY <1>1, Sides DEF Drafting, Silent, MetaTypeOK
<1>4. CASE /\ proposals < MaxProposals
           /\ proposals' = proposals + 1
           /\ last' = [last EXCEPT ![Requester] = proposals + 1]
           /\ SendToPeer(Requester, "negotiating", proposals + 1)
  <2>1. PICK n : n = proposals + 1
    OBVIOUS
  <2>2. n \in Proposal /\ n # NoProposal
    BY <1>4, <2>1, NextProposal
  <2> DEFINE m == [status |-> "negotiating", protocol |-> n]
             S == {x \in Msg : x.status = "negotiating" /\ x.protocol = n}
  <2>3. m \in Msg /\ link'[Provider] = Append(link[Provider], m)
        /\ link'[Requester] = link[Requester]
    BY <1>4, <2>1, <2>2, Sent, Sides
  <2>4. SingleIn(queue'[Provider], link'[Provider], S)
        /\ ~SilentIn(queue'[Provider], link'[Provider])
    BY <1>2, <1>3, <2>3, TalkBegins
  <2>5. last'[Requester] = n
    BY <1>4, <2>1, Sides DEF MetaTypeOK
  <2>6. SilentIn(queue'[Requester], link'[Requester])
    BY <1>2, <1>3, <2>3
  <2>7. Turn(Provider)'
    BY <1>2, <1>3, <2>2, <2>4, <2>5, <2>6, Sides DEF Turn, Silent, Single
  <2> QED BY <2>7, Sides DEF Stage
<1>5. CASE SendToPeer(Requester, "rejected", NoProposal)
  <2> DEFINE m == [status |-> "rejected", protocol |-> NoProposal]
  <2>1. m \in Msg /\ link'[Provider] = Append(link[Provider], m)
        /\ link'[Requester] = link[Requester]
    BY <1>5, Sent, Sides
  <2>2. m \in LastWord(NoProposal)
    BY <2>1 DEF LastWord
  <2>3. SingleIn(queue'[Provider], link'[Provider], LastWord(NoProposal))
        /\ ~SilentIn(queue'[Provider], link'[Provider])
    BY <1>2, <1>3, <2>1, <2>2, TalkBegins
  <2>4. SilentIn(queue'[Requester], link'[Requester])
    BY <1>2, <1>3, <2>1
  <2>5. Turn(Provider)'
    BY <1>2, <1>3, <2>3, <2>4, Sides DEF Turn, Silent, Single
  <2> QED BY <2>5, Sides DEF Stage
<1> QED BY <1>4, <1>5 DEF Draft

\* A message arrives in its queue.
LEMMA ArriveStage ==
  ASSUME MetaTypeOK, NEW e \in Side, HandleMetaData(e), Stage
  PROVE  Stage'
<1>1. /\ link[e] \in Seq(Msg) /\ link[e] # <<>> /\ queue[e] \in Seq(Msg)
      /\ Head(link[e]) = link[e][1]
  BY DEF HandleMetaData, MetaTypeOK
<1>2. /\ queue'[e] = IF link[e][1].status = "generated" THEN queue[e]
                     ELSE Append(queue[e], link[e][1])
      /\ link'[e] = Tail(link[e])
      /\ \A d \in Side : d # e => queue'[d] = queue[d] /\ link'[d] = link[d]
  BY <1>1 DEF HandleMetaData, MetaTypeOK
<1>3. /\ SilentIn(queue'[e], link'[e]) <=> SilentIn(queue[e], link[e])
      /\ \A S \in SUBSET Msg :
           SingleIn(queue[e], link[e], S) => SingleIn(queue'[e], link'[e], S)
  BY <1>1, <1>2, TalkArrives
<1>4. /\ \A d \in Side : SilentIn(queue'[d], link'[d]) <=> SilentIn(queue[d], link[d])
      /\ \A d \in Side, S \in SUBSET Msg :
           SingleIn(queue[d], link[d], S) => SingleIn(queue'[d], link'[d], S)
  BY <1>2, <1>3
<1>5. metaPhase' = metaPhase /\ UNCHANGED <<last, taken, result>>
  BY DEF HandleMetaData
<1> QED BY <1>4, <1>5, StageKept

LEMMA TakeProposalStage ==
  ASSUME MetaTypeOK, NEW e \in Side, TakeProposal(e), Stage
  PROVE  Stage'
<1> DEFINE o == Remote(e)
<1>1. /\ metaPhase[e] = "waiting" /\ ~Silent(e)
      /\ Head(queue[e]) \in Msg /\ Head(queue[e]).status = "negotiating"
      /\ \A S \in SUBSET Msg : Single(e, S) => Head(queue[e]) \in S
      /\ queue'[o] = queue[o]
      /\ \A S \in SUBSET Msg : Single(e, S) => SilentIn(queue'[e], link[e])
  BY Popped DEF TakeProposal
<1>2. \A p : LastWord(p) \in SUBSET Msg /\ ~Single(e, LastWord(p))
  BY <1>1 DEF LastWord
<1>3. Turn(e)
  <2>1. ~Over /\ ~Drafting
    BY <1>1, <1>2, Sides DEF Over, Drafting, Negotiating
  <2>2. \A p : ~Ending(p)
    BY <1>1, <1>2, Sides DEF Ending
  <2>3. ~Turn(o)
    BY <1>1, Sides DEF Turn
  <2> QED BY <2>1, <2>2, <2>3, Sides DEF Stage
<1>4. PICK n : n = last[o]
  OBVIOUS
<1>5. n # NoProposal /\ Single(e, {m \in Msg : m.status = "negotiating" /\ m.protocol = n})
  BY <1>1, <1>2, <1>3, <1>4 DEF Turn
<1>6. Head(queue[e]).protocol = n /\ SilentIn(queue'[e], link[e])
  BY <1>1, <1>5
<1>7. /\ metaPhase'[e] = "evaluating" /\ metaPhase'[o] = "waiting"
      /\ taken'[e] = n /\ last' = last /\ link' = link /\ result' = result
  BY <1>1, <1>3, <1>6, Sides DEF TakeProposal, Enters, MetaTypeOK, Turn
<1>8. Turn(e)'
  BY <1>1, <1>3, <1>4, <1>5, <1>6, <1>7 DEF Turn, Silent
<1> QED BY <1>8 DEF Stage

\* A last word that is sent to somebody who has nothing coming
LEMMA WordSent ==
  ASSUME MetaTypeOK, NEW e \in Side, NEW p \in Proposal \union {NoProposal},
         SendToPeer(e, IF p = NoProposal THEN "rejected" ELSE "accepted", p),
         Silent(Remote(e)), queue'[Remote(e)] = queue[Remote(e)]
  PROVE  LET o == Remote(e)
         IN  /\ SingleIn(queue'[o], link'[o], LastWord(p)) /\ ~SilentIn(queue'[o], link'[o])
             /\ link'[e] = link[e]
<1> DEFINE o == Remote(e)
           s == IF p = NoProposal THEN "rejected" ELSE "accepted"
           m == [status |-> s, protocol |-> p]
<1>1. s \in {"negotiating", "accepted", "rejected", "generated"} /\ s # "generated"
  OBVIOUS
<1>2. m \in Msg /\ link'[o] = Append(link[o], m) /\ link'[e] = link[e]
  BY <1>1, Sent
<1>3. m \in LastWord(p)
  BY <1>2 DEF LastWord
<1>4. queue[o] \in Seq(Msg) /\ link[o] \in Seq(Msg) /\ SilentIn(queue[o], link[o])
  BY Sides DEF MetaTypeOK, Silent
<1>5. m.status # "generated"
  OBVIOUS
<1> QED BY <1>2, <1>3, <1>4, <1>5, TalkBegins

LEMMA TakeAcceptedStage ==
  ASSUME MetaTypeOK, NEW e \in Side, TakeAccepted(e), Stage
  PROVE  Stage'
<1> DEFINE o == Remote(e)
<1>1. /\ metaPhase[e] = "waiting" /\ ~Silent(e)
      /\ Head(queue[e]) \in Msg /\ Head(queue[e]).status = "accepted"
      /\ \A S \in SUBSET Msg : Single(e, S) => Head(queue[e]) \in S
      /\ queue'[o] = queue[o]
      /\ \A S \in SUBSET Msg : Single(e, S) => SilentIn(queue'[e], link[e])
  BY Popped DEF TakeAccepted
<1>2. \A p : LastWord(p) \in SUBSET Msg
  BY DEF LastWord
<1>3. \A p : Single(e, LastWord(p)) => p # NoProposal /\ Head(queue[e]).protocol = p
  BY <1>1, <1>2 DEF LastWord
<1>4. PICK p : p = IF last[e] # NoProposal THEN last[e] ELSE Head(queue[e]).protocol
  OBVIOUS
<1>5. p \in Proposal \union {NoProposal}
  BY <1>1, <1>4 DEF MetaTypeOK, Msg
<1>6. SendToPeer(e, "accepted", p)
  BY <1>4 DEF TakeAccepted
<1>7. /\ metaPhase'[e] = "generating" /\ metaPhase'[o] = metaPhase[o]
      /\ result'[e] = p /\ result'[o] = result[o] /\ last' = last
  BY <1>4, <1>5, Sides DEF TakeAccepted, Enters, MetaTypeOK
<1>8. link'[e] = link[e]
  BY <1>5, <1>6, Sent
<1>9. ~Turn(Requester) /\ ~Turn(Provider) /\ ~Drafting
  <2>1. ~Turn(o) /\ ~Drafting
    BY <1>1, Sides DEF Turn, Drafting
  <2>2. ASSUME Turn(e) PROVE FALSE
    <3>1. PICK n : n = last[o]
      OBVIOUS
    <3>2. ~Single(e, {m \in Msg : m.status = "negotiating" /\ m.protocol = n})
      BY <1>1
    <3> QED BY <1>1, <1>3, <2>2, <3>1, <3>2 DEF Turn
  <2> QED BY <2>1, <2>2, Sides
<1>10. CASE Over
  <2>1. e = Provider /\ o = Requester
    BY <1>1, <1>10, Sides DEF Over, Negotiating
  <2>2. PICK r : r = result[Requester]
    OBVIOUS
  <2>3. Single(Provider, LastWord(r)) /\ r # NoProposal /\ Head(queue[e]).protocol = r
    BY <1>3, <1>10, <2>1, <2>2 DEF Over
  <2>4. p = r
    BY <1>1, <1>4, <1>10, <2>1, <2>2, <2>3 DEF Over, Negotiating
  <2>5. SilentIn(queue'[Provider], link'[Provider])
    BY <1>1, <1>2, <1>8, <2>1, <2>3
  <2>6. Over'
    BY <1>7, <1>10, <2>1, <2>2, <2>4, <2>5 DEF Over, Single, SingleIn, Negotiating
  <2> QED BY <2>6 DEF Stage
<1>11. ASSUME NEW r \in Proposal \union {NoProposal}, Ending(r) PROVE Stage'
  <2>1. e = Requester /\ o = Provider
    BY <1>1, <1>11, Sides DEF Ending
  <2>2. r # NoProposal /\ last[Requester] = r
    BY <1>3, <1>11, <2>1 DEF Ending
  <2>3. p = r
    BY <1>4, <2>1, <2>2
  <2>4. SingleIn(queue'[Provider], link'[Provider], LastWord(p))
    BY <1>1, <1>5, <1>6, <1>11, <2>1, <2>2, <2>3, WordSent DEF Ending
  <2>5. Over'
    BY <1>7, <1>11, <2>1, <2>3, <2>4 DEF Over, Ending, Single, Negotiating
  <2> QED BY <2>5 DEF Stage
<1> QED BY <1>9, <1>10, <1>11, Sides DEF Stage

LEMMA TakeRejectedStage ==
  ASSUME MetaTypeOK, NEW e \in Side, TakeRejected(e), Stage
  PROVE  Stage'
<1> DEFINE o == Remote(e)
<1>1. /\ metaPhase[e] = "waiting" /\ ~Silent(e)
      /\ Head(queue[e]) \in Msg /\ Head(queue[e]).status = "rejected"
      /\ \A S \in SUBSET Msg : Single(e, S) => Head(queue[e]) \in S
      /\ queue'[o] = queue[o]
      /\ \A S \in SUBSET Msg : Single(e, S) => SilentIn(queue'[e], link[e])
  BY Popped DEF TakeRejected
<1>2. \A p : LastWord(p) \in SUBSET Msg
  BY DEF LastWord
<1>3. \A p : Single(e, LastWord(p)) => p = NoProposal
  BY <1>1, <1>2 DEF LastWord
<1>4. SendToPeer(e, "rejected", NoProposal)
  BY DEF TakeRejected
<1>5. metaPhase'[e] = "idle" /\ metaPhase'[o] = metaPhase[o] /\ result' = result /\ last' = last
  BY Sides DEF TakeRejected, Enters, MetaTypeOK
<1>6. link'[e] = link[e]
  BY <1>4, Sent
<1>7. Silent(o) => SingleIn(queue'[o], link'[o], LastWord(NoProposal))
                   /\ ~SilentIn(queue'[o], link'[o])
  BY <1>1, <1>4, WordSent
<1>8. CASE Over
  <2>1. e = Provider /\ o = Requester
    BY <1>1, <1>8, Sides DEF Over, Negotiating
  <2>2. PICK r : r = result[Requester]
    OBVIOUS
  <2>3. Single(Provider, LastWord(r)) /\ r = NoProposal
    BY <1>3, <1>8, <2>1, <2>2 DEF Over
  <2>4. SilentIn(queue'[Provider], link'[Provider])
    BY <1>1, <1>2, <1>6, <2>1, <2>3
  <2>5. Over'
    BY <1>1, <1>5, <1>8, <2>1, <2>2, <2>3, <2>4 DEF Over, Single, SingleIn, Negotiating
  <2> QED BY <2>5 DEF Stage
<1>9. CASE Turn(e)
  <2>1. PICK n : n = last[o]
    OBVIOUS
  <2>2. ~Single(e, {m \in Msg : m.status = "negotiating" /\ m.protocol = n})
    BY <1>1
  <2>3. e = Provider /\ o = Requester /\ Single(e, LastWord(NoProposal))
    BY <1>1, <1>9, <2>1, <2>2, Sides DEF Turn
  <2>4. SilentIn(queue'[Provider], link'[Provider])
    BY <1>1, <1>2, <1>6, <2>3
  <2>5. Ending(NoProposal)'
    BY <1>5, <1>7, <1>9, <2>3, <2>4 DEF Ending, Turn, Single, Silent, Negotiating
  <2> QED BY <2>5 DEF Stage
<1>10. ASSUME NEW r \in Proposal \union {NoProposal}, Ending(r) PROVE Stage'
  <2>1. e = Requester /\ o = Provider
    BY <1>1, <1>10, Sides DEF Ending
  <2>2. r = NoProposal
    BY <1>3, <1>10, <2>1 DEF Ending
  <2>3. SingleIn(queue'[Provider], link'[Provider], LastWord(NoProposal))
    BY <1>7, <1>10, <2>1 DEF Ending
  <2>4. Over'
    BY <1>5, <1>10, <2>1, <2>2, <2>3 DEF Over, Ending, Single, Negotiating
  <2> QED BY <2>4 DEF Stage
<1>11. ~Turn(o) /\ ~Drafting
  BY <1>1, Sides DEF Turn, Drafting
<1> QED BY <1>8, <1>9, <1>10, <1>11, Sides DEF Stage

\* The requester is done when it accepts a proposal, the provider when the answer is read.
LEMMA AcceptStage ==
  ASSUME MetaTypeOK, NEW e \in Side, Accept(e), Stage
  PROVE  Stage'
<1> DEFINE o == Remote(e)
<1>1. /\ metaPhase[o] = "waiting" /\ Silent(o) /\ Silent(e)
      /\ result[e] = NoProposal /\ result[o] = NoProposal
      /\ taken[e] = last[o] /\ last[o] # NoProposal
  BY EvaluatingIs DEF Accept, Evaluated
<1>2. PICK p : p = taken[e]
  OBVIOUS
<1>3. p \in Proposal \union {NoProposal} /\ p # NoProposal /\ last[o] = p
  BY <1>1, <1>2 DEF MetaTypeOK
<1>4. /\ metaPhase'[e] = "generating" /\ metaPhase'[o] = "waiting"
      /\ result'[e] = p /\ result'[o] = NoProposal /\ last' = last /\ queue' = queue
  BY <1>1, <1>2, Sides DEF Accept, Evaluated, Enters, MetaTypeOK
<1>5. SendToPeer(e, "accepted", p)
  BY <1>2 DEF Accept
<1>6. /\ SingleIn(queue'[o], link'[o], LastWord(p)) /\ ~SilentIn(queue'[o], link'[o])
      /\ link'[e] = link[e]
  BY <1>1, <1>3, <1>4, <1>5, WordSent
<1>7. SilentIn(queue'[e], link'[e])
  BY <1>1, <1>4, <1>6 DEF Silent
<1>8. CASE e = Requester
  <2>1. Over'
    BY <1>3, <1>4, <1>6, <1>8, Sides DEF Over, Single, Negotiating
  <2> QED BY <2>1 DEF Stage
<1>9. CASE e = Provider
  <2>1. Ending(p)'
    BY <1>3, <1>4, <1>6, <1>7, <1>9, Sides DEF Ending, Single, Silent, Negotiating
  <2> QED BY <1>3, <2>1 DEF Stage
<1> QED BY <1>8, <1>9, Sides

LEMMA RejectStage ==
  ASSUME MetaTypeOK, NEW e \in Side, Reject(e), Stage
  PROVE  Stage'
<1> DEFINE o == Remote(e)
<1>1. /\ metaPhase[o] = "waiting" /\ Silent(o) /\ Silent(e)
      /\ result[e] = NoProposal /\ result[o] = NoProposal
  BY EvaluatingIs DEF Reject, Evaluated
<1>2. /\ metaPhase'[e] = "idle" /\ metaPhase'[o] = "waiting"
      /\ result'[e] = NoProposal /\ result'[o] = NoProposal /\ queue' = queue
  BY <1>1, Sides DEF Reject, Evaluated, Enters, MetaTypeOK
<1>3. /\ SingleIn(queue'[o], link'[o], LastWord(NoProposal))
      /\ ~SilentIn(queue'[o], link'[o]) /\ link'[e] = link[e]
  BY <1>1, <1>2, WordSent DEF Reject
<1>4. SilentIn(queue'[e], link'[e])
  BY <1>1, <1>2, <1>3 DEF Silent
<1>5. CASE e = Requester
  <2>1. Over'
    BY <1>2, <1>3, <1>5, Sides DEF Over, Single, Negotiating
  <2> QED BY <2>1 DEF Stage
<1>6. CASE e = Provider
  <2>1. Ending(NoProposal)'
    BY <1>2, <1>3, <1>4, <1>6, Sides DEF Ending, Single, Silent, Negotiating
  <2> QED BY <2>1 DEF Stage
<1> QED BY <1>5, <1>6, Sides

\* A counter-proposal gives the turn to the other one.
LEMMA CounterStage ==
  ASSUME MetaAssumption, MetaTypeOK, NEW e \in Side, Counter(e), Stage
  PROVE  Stage'
<1> DEFINE o == Remote(e)
<1>1. /\ metaPhase[o] = "waiting" /\ Silent(o) /\ Silent(e)
      /\ result[e] = NoProposal /\ result[o] = NoProposal
  BY EvaluatingIs DEF Counter, Evaluated
<1>2. PICK n : n = proposals + 1
  OBVIOUS
<1>3. n \in Proposal /\ n # NoProposal
  BY <1>2, NextProposal DEF Counter
<1>4. /\ metaPhase'[e] = "waiting" /\ metaPhase'[o] = "waiting"
      /\ result' = result /\ queue' = queue /\ last'[e] = n
  BY <1>1, <1>2, Sides DEF Counter, Evaluated, Enters, MetaTypeOK
<1> DEFINE m == [status |-> "negotiating", protocol |-> n]
           S == {x \in Msg : x.status = "negotiating" /\ x.protocol = n}
<1>5. m \in Msg /\ link'[o] = Append(link[o], m) /\ link'[e] = link[e]
  BY <1>2, <1>3, Sent DEF Counter
<1>6. SingleIn(queue'[o], link'[o], S) /\ ~SilentIn(queue'[o], link'[o])
  <2>1. queue[o] \in Seq(Msg) /\ link[o] \in Seq(Msg) /\ SilentIn(queue[o], link[o])
    BY <1>1, Sides DEF MetaTypeOK, Silent
  <2> QED BY <1>4, <1>5, <2>1, TalkBegins
<1>7. SilentIn(queue'[e], link'[e])
  BY <1>1, <1>4, <1>5 DEF Silent
<1>8. Turn(o)'
  BY <1>1, <1>3, <1>4, <1>6, <1>7, Sides DEF Turn, Single, Silent
<1> QED BY <1>8, Sides DEF Stage

LEMMA GenerateStage ==
  ASSUME MetaTypeOK, NEW e \in Side, GenerateCode(e), Stage
  PROVE  Stage'
<1>1. /\ \A d \in Side : d # e => metaPhase'[d] = metaPhase[d]
      /\ metaPhase[e] \notin Negotiating /\ metaPhase'[e] \notin Negotiating
  BY DEF GenerateCode, Enters, MetaTypeOK, Negotiating
<1>2. UNCHANGED <<last, taken, result, queue>>
  BY DEF GenerateCode
<1>3. /\ \A d \in Side : SilentIn(queue'[d], link'[d]) <=> SilentIn(queue[d], link[d])
      /\ \A d \in Side, S \in SUBSET Msg :
           SingleIn(queue[d], link[d], S) => SingleIn(queue'[d], link'[d], S)
  <2>1. CASE UNCHANGED link
    BY <1>2, <2>1
  <2>2. CASE SendToPeer(e, "generated", NoProposal)
    <3> DEFINE o == Remote(e)
               m == [status |-> "generated", protocol |-> NoProposal]
    <3>1. m \in Msg /\ link'[o] = Append(link[o], m) /\ link'[e] = link[e]
      BY <2>2, Sent
    <3>2. queue[o] \in Seq(Msg) /\ link[o] \in Seq(Msg) /\ m.status = "generated"
      BY Sides DEF MetaTypeOK
    <3> HIDE DEF m
    <3>3. \A S \in SUBSET Msg :
            /\ SilentIn(queue[o], link'[o]) <=> SilentIn(queue[o], link[o])
            /\ SingleIn(queue[o], link[o], S) => SingleIn(queue[o], link'[o], S)
      <4>1. ASSUME NEW S \in SUBSET Msg
            PROVE  /\ SilentIn(queue[o], Append(link[o], m)) <=> SilentIn(queue[o], link[o])
                   /\ SingleIn(queue[o], link[o], S) => SingleIn(queue[o], Append(link[o], m), S)
        BY <3>1, <3>2, CodeIsNoTalk
      <4> QED BY <3>1, <4>1
    <3>4. SilentIn(queue[o], link'[o]) <=> SilentIn(queue[o], link[o])
      <4>1. Msg \in SUBSET Msg
        OBVIOUS
      <4> QED BY <3>3, <4>1
    <3> QED BY <1>2, <3>1, <3>3, <3>4, Sides
  <2> QED BY <2>1, <2>2 DEF GenerateCode
<1> QED BY <1>1, <1>2, <1>3, StageKept

LEMMA HearGeneratedStage ==
  ASSUME MetaTypeOK, NEW e \in Side, HearGenerated(e), Stage
  PROVE  Stage'
<1>1. /\ \A d \in Side : d # e => metaPhase'[d] = metaPhase[d]
      /\ metaPhase[e] \notin Negotiating /\ metaPhase'[e] \notin Negotiating
  BY DEF HearGenerated, Enters, MetaTypeOK, Negotiating
<1>2. UNCHANGED <<last, taken, result, queue, link>>
  BY DEF HearGenerated
<1> QED BY <1>1, <1>2, StageKept

\* Every step keeps the inductive invariant.
LEMMA MetaStep == MetaAssumption /\ MetaIInv /\ [MetaNext]_metaVars => MetaIInv'
<1> SUFFICES ASSUME MetaAssumption, MetaIInv, [MetaNext]_metaVars PROVE MetaIInv'
  OBVIOUS
<1>1. MetaTypeOK /\ QueuesTalk /\ (~untidy => Stage)
  BY DEF MetaIInv
<1>2. CASE UNCHANGED metaVars
  <2>1. MetaTypeOK' /\ QueuesTalk' /\ untidy' = untidy
    BY <1>1, <1>2 DEF metaVars, MetaTypeOK, QueuesTalk
  <2>2. Stage => Stage'
    BY <1>2, StageKept DEF metaVars
  <2> QED BY <1>1, <2>1, <2>2 DEF MetaIInv
<1>3. CASE MetaNext
  <2>1. MetaTypeOK' /\ QueuesTalk'
    BY <1>1, <1>3, MetaTypes
  <2>2. CASE NegotiateProtocol
    BY <1>1, <2>1, <2>2, BeginStage DEF MetaIInv
  <2>3. ASSUME ~untidy', ~NegotiateProtocol PROVE Stage'
    <3>1. \A e \in Side : ~Abandon(e) /\ ~StopConfirming(e)
      BY <2>3 DEF Abandon, StopConfirming
    <3>2. untidy' = untidy
      BY <1>3, <2>3, <3>1 DEF MetaNext, WaitRemoteNegotiation, Draft, HandleMetaData,
           TakeProposal, TakeAccepted, TakeRejected, Accept, Counter, Reject, Pop, Evaluated,
           GenerateCode, HearGenerated
    <3>3. Stage
      BY <1>1, <2>3, <3>2
    <3> QED BY <1>1, <1>3, <2>3, <3>1, <3>3, WaitStage, DraftStage, ArriveStage,
               TakeProposalStage, TakeAcceptedStage, TakeRejectedStage, AcceptStage,
               CounterStage, RejectStage, GenerateStage, HearGeneratedStage DEF MetaNext
  <2> QED BY <2>1, <2>2, <2>3 DEF MetaIInv
<1> QED BY <1>2, <1>3

\* At any time, unless somebody gave up or began too early, the negotiation stands at one of
\* the stages: it is over with a result that both share or are to share, it is the turn of
\* one of them, or the provider has ended it.
THEOREM MetaInvariance == MetaAssumption /\ MetaSpec => []MetaIInv
<1> SUFFICES ASSUME MetaAssumption PROVE MetaSpec => []MetaIInv
  OBVIOUS
<1>1. MetaInit => MetaIInv
  <2> SUFFICES ASSUME MetaInit PROVE MetaIInv
    OBVIOUS
  <2>1. MetaTypeOK
    <3>1. <<>> \in Seq(Msg)
      OBVIOUS
    <3>2. 0 \in 0 .. MaxRuns /\ 0 \in 0 .. MaxProposals
      BY DEF MetaAssumption
    <3> QED BY <3>1, <3>2 DEF MetaInit, MetaTypeOK
  <2>2. QueuesTalk
    BY DEF MetaInit, QueuesTalk
  <2>3. Over
    BY Sides DEF MetaInit, Over, Single, SingleIn, SilentIn, NoTalk, Negotiating
  <2> QED BY <2>1, <2>2, <2>3 DEF MetaIInv, Stage
<1>2. MetaIInv /\ [MetaNext]_metaVars => MetaIInv'
  BY MetaStep
<1> QED BY <1>1, <1>2, PTL DEF MetaSpec

\* Unless somebody gave up or began too early, both sides end with the same protocol or both
\* without one, however many proposals were made (meta_protocol.py:394-415).
THEOREM NegotiatorsAgree == MetaAssumption /\ MetaSpec => []Agreement
<1>1. MetaIInv => Agreement
  <2> SUFFICES ASSUME MetaIInv, ~untidy,
                      \A e \in Side : metaPhase[e] \notin Negotiating
               PROVE  result[Requester] = result[Provider]
    BY DEF Agreement
  <2>1. metaPhase[Requester] \notin Negotiating /\ metaPhase[Provider] \notin Negotiating
    BY Sides
  <2>2. Over
    BY <2>1, Sides DEF MetaIInv, Stage, Drafting, Turn, Ending, Negotiating
  <2> QED BY <2>1, <2>2 DEF Over, Negotiating
<1> QED BY <1>1, MetaInvariance, PTL

-----------------------------------------------------------------------------
(* E2eeHandshake: ends, objects and the wire *)

\* There are two ends.
LEMMA TwoEnds ==
  ASSUME HandshakeAssumption
  PROVE  /\ \A e \in Ends : Other(e) \in Ends /\ Other(e) # e
         /\ \A e, f \in Ends : f # e => f = Other(e) /\ e = Other(f)
<1>1. PICK a \in Ends : \E b \in Ends : a # b /\ Ends = {a, b}
  BY DEF HandshakeAssumption
<1>2. PICK b \in Ends : a # b /\ Ends = {a, b}
  BY <1>1
<1>3. Other(a) \in Ends /\ Other(a) # a
  BY <1>2 DEF Other
<1>4. Other(b) \in Ends /\ Other(b) # b
  BY <1>2 DEF Other
<1> QED BY <1>2, <1>3, <1>4

\* What is put on the wire is there with what was there before.
LEMMA PutLaw ==
  ASSUME NEW w, IsABag(w), NEW ms
  PROVE  /\ IsABag(Put(w, ms))
         /\ BagToSet(Put(w, ms)) = BagToSet(w) \union ms
         /\ \A m \in BagToSet(w) \ ms : Put(w, ms)[m] = w[m]
         /\ \A m \in ms \ BagToSet(w) : Put(w, ms)[m] = 1
<1> DEFINE v == Put(w, ms)
<1>1. v = [m \in DOMAIN w \union ms |->
             (IF m \in DOMAIN w THEN w[m] ELSE 0) + (IF m \in ms THEN 1 ELSE 0)]
  BY DEF Put, SetToBag, (+)
<1>2. \A m \in DOMAIN w : w[m] \in Nat /\ w[m] > 0
  BY DEF IsABag
<1>3. \A m \in DOMAIN w \union ms :
        v[m] = (IF m \in DOMAIN w THEN w[m] ELSE 0) + (IF m \in ms THEN 1 ELSE 0)
  BY <1>1
<1>4. DOMAIN v = DOMAIN w \union ms
  BY <1>1
<1>5. \A m \in DOMAIN v : v[m] \in {n \in Nat : n > 0}
  BY <1>2, <1>3, <1>4
<1>6. v \in [DOMAIN v -> {n \in Nat : n > 0}]
  <2>1. v = [m \in DOMAIN v |-> v[m]]
    BY <1>1, <1>4
  <2> HIDE DEF v
  <2> QED BY <2>1, <1>5
<1>7. \A m \in DOMAIN w \ ms : v[m] = w[m]
  BY <1>2, <1>3
<1>8. \A m \in ms \ DOMAIN w : v[m] = 1
  BY <1>3
<1> QED BY <1>4, <1>6, <1>7, <1>8 DEF IsABag, BagToSet

\* What is taken from the wire is there once less.
LEMMA DropLaw ==
  ASSUME NEW w, IsABag(w), NEW m
  PROVE  /\ IsABag(Drop(w, m))
         /\ BagToSet(Drop(w, m)) \subseteq BagToSet(w)
         /\ BagToSet(w) \ {m} \subseteq BagToSet(Drop(w, m))
         /\ \A x \in BagToSet(w) \ {m} : Drop(w, m)[x] = w[x]
         /\ m \in BagToSet(w) /\ w[m] = 1 => m \notin BagToSet(Drop(w, m))
<1> DEFINE u == [x \in DOMAIN w |-> IF x \in {m} THEN w[x] - 1 ELSE w[x]]
           v == Drop(w, m)
<1>1. v = [x \in {x \in DOMAIN w : u[x] > 0} |-> u[x]]
  <2>1. u = [x \in DOMAIN w |-> IF x \in DOMAIN SetToBag({m}) THEN w[x] - SetToBag({m})[x]
                               ELSE w[x]]
    BY DEF SetToBag
  <2>2. DOMAIN u = DOMAIN w
    OBVIOUS
  <2> QED BY <2>1, <2>2 DEF Drop, (-)
<1>2. \A x \in DOMAIN w : w[x] \in Nat /\ w[x] > 0
  BY DEF IsABag
<1>3. \A x \in DOMAIN w : u[x] = IF x = m THEN w[x] - 1 ELSE w[x]
  OBVIOUS
<1>4. \A x \in DOMAIN w : u[x] \in Nat
  BY <1>2, <1>3
<1> HIDE DEF u
<1>5. DOMAIN v = {x \in DOMAIN w : u[x] > 0} /\ \A x \in DOMAIN v : v[x] = u[x]
  BY <1>1
<1>6. \A x \in DOMAIN v : v[x] \in {n \in Nat : n > 0}
  BY <1>4, <1>5
<1>7. v \in [DOMAIN v -> {n \in Nat : n > 0}]
  <2>1. v = [x \in DOMAIN v |-> v[x]]
    BY <1>1, <1>5
  <2> HIDE DEF v
  <2> QED BY <2>1, <1>6
<1>8. \A x \in DOMAIN w \ {m} : x \in DOMAIN v /\ v[x] = w[x]
  BY <1>2, <1>3, <1>5
<1>9. m \in DOMAIN w /\ w[m] = 1 => m \notin DOMAIN v
  BY <1>3, <1>5
<1> QED BY <1>5, <1>7, <1>8, <1>9 DEF IsABag, BagToSet

\* The next object is new, and the one after those that were made.
LEMMA NextIsNew ==
  ASSUME HandshakeAssumption, HandshakeTypes, ObjectsInv, NEW o \in Obj, IsNext(o)
  PROVE  \E n \in 0 .. MaxObj : Made = 1 .. n /\ o = n + 1 /\ o \notin Made
<1>1. PICK n \in 0 .. MaxObj : Made = 1 .. n
  BY DEF ObjectsInv
<1>2. Cardinality(1 .. n) = n
  BY <1>1, FS_Interval DEF HandshakeAssumption
<1> QED BY <1>1, <1>2 DEF IsNext, HandshakeAssumption, Obj

\* An object that is made counts from now on, and the others do as before.
LEMMA MadeGrows ==
  ASSUME HandshakeAssumption, HandshakeTypes, ObjectsInv, NEW o \in Obj, IsNext(o),
         NEW e \in Ends, owner' = [owner EXCEPT ![o] = e]
  PROVE  /\ o \notin Made /\ Made' = Made \union {o}
         /\ \E n \in 0 .. MaxObj : Made' = 1 .. n
<1>1. PICK n \in 0 .. MaxObj : Made = 1 .. n /\ o = n + 1 /\ o \notin Made
  BY NextIsNew
<1>2. \A q \in Obj : owner'[q] = IF q = o THEN e ELSE owner[q]
  BY DEF HandshakeTypes
<1>3. Made' = Made \union {o}
  <2>1. e # NoObj
    BY DEF HandshakeAssumption
  <2> QED BY <1>2, <2>1 DEF Made
<1>4. n + 1 \in 0 .. MaxObj /\ Made' = 1 .. (n + 1)
  BY <1>1, <1>3 DEF HandshakeAssumption, Obj
<1> QED BY <1>1, <1>3, <1>4

\* As many objects are made as before.
LEMMA MadeStays == ASSUME UNCHANGED owner PROVE Made' = Made
BY DEF Made

\* Messages that leave or come keep the bag of messages one.
LEMMA WireTypes ==
  ASSUME IsABag(wire), BagToSet(wire) \subseteq Wire, NEW m, NEW ms \in SUBSET Wire
  PROVE  /\ IsABag(Put(wire, ms)) /\ BagToSet(Put(wire, ms)) \subseteq Wire
         /\ IsABag(Drop(wire, m)) /\ BagToSet(Drop(wire, m)) \subseteq Wire
         /\ IsABag(Put(Drop(wire, m), ms)) /\ BagToSet(Put(Drop(wire, m), ms)) \subseteq Wire
<1>1. IsABag(Drop(wire, m)) /\ BagToSet(Drop(wire, m)) \subseteq Wire
  BY DropLaw
<1>2. \A w : IsABag(w) /\ BagToSet(w) \subseteq Wire =>
               IsABag(Put(w, ms)) /\ BagToSet(Put(w, ms)) \subseteq Wire
  BY PutLaw
<1> QED BY <1>1, <1>2

LEMMA RegisterTypes ==
  ASSUME HandshakeTypes, NEW e \in Ends, NEW o \in Made, RegisterActive(e, o)
  PROVE  /\ byKey' \in [Ends -> SUBSET Made]
         /\ \A f \in Ends : byKey'[f] \subseteq byKey[f] \union (IF f = e THEN {o} ELSE {})
<1>1. PICK gone : byKey' = [byKey EXCEPT ![e] = (byKey[e] \ gone) \union {o}]
  <2>1. CASE Len(byPair[e]) >= MaxKeys
    BY <2>1 DEF RegisterActive
  <2>2. CASE ~(Len(byPair[e]) >= MaxKeys)
    <3>1. byKey[e] = byKey[e] \ {}
      OBVIOUS
    <3> QED BY <2>2, <3>1 DEF RegisterActive
  <2> QED BY <2>1, <2>2
<1>2. byKey \in [Ends -> SUBSET Made]
  BY DEF HandshakeTypes
<1> QED BY <1>1, <1>2

LEMMA HandshakeTypesStep ==
  ASSUME HandshakeAssumption, HandshakeTypes, ObjectsInv, [HandshakeNext]_handshakeVars
  PROVE  HandshakeTypes'
<1> USE DEF HandshakeTypes
<1>0. \A e \in Ends : Other(e) \in Ends
  BY TwoEnds
<1>1. Made \subseteq Obj
  BY DEF Made
<1>2. ASSUME NEW e \in Ends, NEW o \in Obj, InitiateHandshake(e, o)
      PROVE  HandshakeTypes'
  <2> USE <1>2 DEF InitiateHandshake
  <2>1. Made \subseteq Made'
    BY MadeGrows
  <2>2. {[kind |-> "source_hello", to |-> Other(e), sid |-> o, by |-> o, keys |-> <<o, NoObj>>]}
          \in SUBSET Wire
    BY <1>0 DEF Wire
  <2>3. IsABag(wire') /\ BagToSet(wire') \subseteq Wire
    BY <2>2, WireTypes
  <2>4. byKey' \in [Ends -> SUBSET Made'] /\ expired' \subseteq Made'
    BY <2>1
  <2>5. owner' \in [Obj -> Ends \union {NoObj}]
    OBVIOUS
  <2>6. /\ stage' \in [Obj -> {"idle", "initiated", "completing", "active"}]
        /\ role' \in [Obj -> {"none", "src", "dst"}]
    OBVIOUS
  <2>7. pending' \in [Ends -> [Obj -> Obj \union {NoObj}]]
    OBVIOUS
  <2> QED BY <2>3, <2>4, <2>5, <2>6, <2>7 DEF Wire
<1>3. ASSUME NEW m \in BagToSet(wire), NEW o \in Obj, ProcessSourceHello(m, o)
      PROVE  HandshakeTypes'
  <2> USE <1>3 DEF ProcessSourceHello
  <2>0. m \in Wire
    OBVIOUS
  <2>1. m.to \in Ends /\ m.sid \in Obj /\ m.by \in Obj
    BY <2>0 DEF Wire
  <2>2. Made \subseteq Made'
    BY <2>1, MadeGrows
  <2> DEFINE ms == {[kind |-> k, to |-> Other(m.to), sid |-> m.sid, by |-> o, keys |-> <<m.by, o>>] :
                      k \in {"destination_hello", "finished"}}
  <2>3. ms \in SUBSET Wire
    BY <1>0, <2>1 DEF Wire
  <2>4. wire' = Put(Drop(wire, m), ms)
    OBVIOUS
  <2> HIDE DEF ms
  <2>5. IsABag(wire') /\ BagToSet(wire') \subseteq Wire
    BY <2>3, <2>4, WireTypes
  <2>6. byKey' \in [Ends -> SUBSET Made'] /\ expired' \subseteq Made'
    BY <2>2
  <2>7. owner' \in [Obj -> Ends \union {NoObj}]
    BY <2>1
  <2>8. /\ stage' \in [Obj -> {"idle", "initiated", "completing", "active"}]
        /\ role' \in [Obj -> {"none", "src", "dst"}]
    OBVIOUS
  <2>9. pending' \in [Ends -> [Obj -> Obj \union {NoObj}]]
    BY <2>1
  <2>10. sidOf' \in [Obj -> Obj] /\ peerOf' \in [Obj -> Obj \union {NoObj}]
    BY <2>1
  <2> QED BY <2>5, <2>6, <2>7, <2>8, <2>9, <2>10 DEF Wire
<1>4. ASSUME NEW m \in BagToSet(wire), NEW o \in Made, ProcessDestinationHello(m, o)
      PROVE  HandshakeTypes'
  <2> USE <1>4 DEF ProcessDestinationHello, managerVars
  <2>1. m.to \in Ends /\ m.sid \in Obj /\ m.by \in Obj
    BY DEF Wire
  <2>2. Made' = Made
    BY MadeStays
  <2>3. {HandshakeMsg("finished", o, m.sid, <<o, m.by>>)} \in SUBSET Wire
    <3>1. owner[o] \in Ends
      BY DEF Made
    <3> QED BY <1>0, <1>1, <2>1, <3>1 DEF Wire, HandshakeMsg
  <2>4. IsABag(wire') /\ BagToSet(wire') \subseteq Wire
    BY <2>3, WireTypes
  <2>5. stage' \in [Obj -> {"idle", "initiated", "completing", "active"}]
    BY <1>1
  <2>6. peerOf' \in [Obj -> Obj \union {NoObj}]
    BY <1>1, <2>1
  <2> QED BY <2>2, <2>4, <2>5, <2>6 DEF Wire
<1>5. ASSUME NEW m \in BagToSet(wire), NEW o \in Made, ProcessFinished(m, o)
      PROVE  HandshakeTypes'
  <2> USE <1>5 DEF ProcessFinished
  <2>1. m.to \in Ends /\ m.sid \in Obj /\ m.by \in Obj
    BY DEF Wire
  <2>2. Made' = Made
    BY MadeStays
  <2>3. IsABag(wire') /\ BagToSet(wire') \subseteq Wire
    BY WireTypes
  <2>4. byKey' \in [Ends -> SUBSET Made]
    BY <2>1, RegisterTypes
  <2>5. stage' \in [Obj -> {"idle", "initiated", "completing", "active"}]
    BY <1>1
  <2>6. pending' \in [Ends -> [Obj -> Obj \union {NoObj}]]
    BY <2>1
  <2> QED BY <2>2, <2>3, <2>4, <2>5, <2>6 DEF Wire
<1>6. ASSUME NEW m \in BagToSet(wire), RefuseDestinationHello(m) \/ RefuseFinished(m)
      PROVE  HandshakeTypes'
  <2>1. /\ wire' = Drop(wire, m) /\ overtaken' \in BOOLEAN
        /\ UNCHANGED <<objVars, managerVars, mishaps>>
    BY <1>6 DEF RefuseDestinationHello, RefuseFinished, Refuse
  <2>2. Made' = Made
    BY <2>1, MadeStays DEF objVars
  <2>3. IsABag(wire') /\ BagToSet(wire') \subseteq Wire
    BY <2>1, WireTypes
  <2> QED BY <2>1, <2>2, <2>3 DEF objVars, managerVars, Wire
<1>7. ASSUME NEW m \in BagToSet(wire), Lose(m) \/ Repeat(m)
      PROVE  HandshakeTypes'
  <2>1. /\ wire' = Drop(wire, m) \/ wire' = Put(wire, {m})
        /\ mishaps < MaxE2eeMishaps /\ mishaps' = mishaps + 1
        /\ UNCHANGED <<objVars, managerVars, overtaken>>
    BY <1>7 DEF Lose, Repeat, E2eeMishap
  <2>2. Made' = Made
    BY <2>1, MadeStays DEF objVars
  <2>3. IsABag(wire') /\ BagToSet(wire') \subseteq Wire
    <3>1. {m} \in SUBSET Wire
      OBVIOUS
    <3> QED BY <2>1, <3>1, WireTypes
  <2>4. mishaps' \in 0 .. MaxE2eeMishaps
    BY <2>1 DEF HandshakeAssumption
  <2> QED BY <2>1, <2>2, <2>3, <2>4 DEF objVars, managerVars, Wire
<1>8. ASSUME NEW e \in Ends, NEW s \in Obj, TimeoutPending(e, s)
      PROVE  HandshakeTypes'
  <2> USE <1>8 DEF TimeoutPending, E2eeMishap, objVars
  <2>1. Made' = Made
    BY MadeStays
  <2>2. mishaps' \in 0 .. MaxE2eeMishaps
    BY DEF HandshakeAssumption
  <2>3. pending' \in [Ends -> [Obj -> Obj \union {NoObj}]]
    OBVIOUS
  <2> QED BY <2>1, <2>2, <2>3 DEF Wire
<1>9. ASSUME NEW o \in Obj, Expire(o)
      PROVE  HandshakeTypes'
  <2> USE <1>9 DEF Expire, E2eeMishap, objVars
  <2>1. Made' = Made
    BY MadeStays
  <2>2. mishaps' \in 0 .. MaxE2eeMishaps
    BY DEF HandshakeAssumption
  <2>3. o \in Made
    BY DEF ObjectsInv
  <2> QED BY <2>1, <2>2, <2>3 DEF Wire
<1>10. ASSUME NEW e \in Ends, CleanupExpired(e) \/ \E o \in Obj : RemoveSession(e, o)
       PROVE  HandshakeTypes'
  <2>1. /\ UNCHANGED <<objVars, expired, wire, mishaps, overtaken>>
        /\ \E gone : byKey' = [byKey EXCEPT ![e] = byKey[e] \ gone]
        /\ pending' \in [Ends -> [Obj -> Obj \union {NoObj}]]
    <3>1. CASE CleanupExpired(e)
      BY <3>1 DEF CleanupExpired
    <3>2. ASSUME NEW o \in Obj, RemoveSession(e, o)
          PROVE  /\ UNCHANGED <<objVars, expired, wire, mishaps, overtaken>>
                 /\ \E gone : byKey' = [byKey EXCEPT ![e] = byKey[e] \ gone]
                 /\ pending' \in [Ends -> [Obj -> Obj \union {NoObj}]]
      <4>1. pending' = [pending EXCEPT ![e][sidOf[o]] = NoObj]
        BY <3>2 DEF RemoveSession
      <4>2. sidOf[o] \in Obj
        OBVIOUS
      <4>3. pending' \in [Ends -> [Obj -> Obj \union {NoObj}]]
        BY <4>1, <4>2
      <4> QED BY <3>2, <4>3 DEF RemoveSession
    <3> QED BY <1>10, <3>1, <3>2
  <2>2. Made' = Made
    BY <2>1, MadeStays DEF objVars
  <2>3. byKey' \in [Ends -> SUBSET Made]
    BY <2>1
  <2> QED BY <2>1, <2>2, <2>3 DEF objVars, Wire
<1>11. CASE UNCHANGED handshakeVars
  <2>1. Made' = Made
    BY <1>11, MadeStays DEF handshakeVars, objVars
  <2> QED BY <1>11, <2>1 DEF handshakeVars, objVars, managerVars, Wire
<1> QED BY <1>2, <1>3, <1>4, <1>5, <1>6, <1>7, <1>8, <1>9, <1>10, <1>11
        DEF HandshakeNext, Deliver

-----------------------------------------------------------------------------
(* E2eeHandshake: what objects, managers and messages say *)

\* Who the objects are that an object and a message name.
LEMMA MessageTypes ==
  ASSUME HandshakeTypes, MessagesInv, NEW m \in BagToSet(wire)
  PROVE  /\ m.kind \in {"source_hello", "destination_hello", "finished"}
         /\ m.to \in Ends /\ m.sid \in Obj /\ m.by \in Made /\ MessageIs(m)
BY DEF HandshakeTypes, Wire, MessagesInv, MessageIs

\* What is pending is an object of this end with this session id.
LEMMA PendingIs ==
  ASSUME HandshakeAssumption, ManagersInv, NEW e \in Ends, NEW s \in Obj, NEW o \in Made,
         pending[e][s] = o
  PROVE  owner[o] = e /\ sidOf[o] = s /\ stage[o] \in {"initiated", "completing"}
<1>1. o # NoObj
  BY DEF HandshakeAssumption, Made
<1> QED BY <1>1 DEF ManagersInv

\* A message stays true of its sender while that keeps what it is.
LEMMA MessagesKept ==
  ASSUME HandshakeTypes, MessagesInv, Made \subseteq Made',
         \A o \in Made :
           /\ owner'[o] = owner[o] /\ sidOf'[o] = sidOf[o] /\ role'[o] = role[o]
           /\ stage[o] # "initiated" => stage'[o] # "initiated" /\ peerOf'[o] = peerOf[o]
  PROVE  \A m \in BagToSet(wire) : MessageIs(m)'
BY MessageTypes DEF MessageIs, KeyPair

\* What an object is stays true while the object and those it names keep what they are.
LEMMA ObjectKept ==
  ASSUME NEW q, ObjectIs(q), Made \subseteq Made',
         \A o \in Made \union {q} :
           /\ owner'[o] = owner[o] /\ sidOf'[o] = sidOf[o] /\ role'[o] = role[o]
           /\ stage'[o] = stage[o] /\ peerOf'[o] = peerOf[o]
  PROVE  ObjectIs(q)'
BY DEF ObjectIs

\* Nothing mentions an object before it is made.
LEMMA NewIsUnknown ==
  ASSUME HandshakeAssumption, HandshakeTypes, ObjectsInv, ManagersInv, MessagesInv,
         NEW o \in Obj, o \notin Made
  PROVE  /\ \A q \in Made : peerOf[q] # o /\ sidOf[q] # o
         /\ \A e \in Ends, s \in Obj : pending[e][s] # o /\ pending[e][o] = NoObj
         /\ \A m \in BagToSet(wire) : m.by # o /\ m.sid # o
         /\ stage[o] = "idle" /\ sidOf[o] = o /\ peerOf[o] = NoObj /\ owner[o] = NoObj
<1>1. \A q \in Made : peerOf[q] # o /\ sidOf[q] # o
  <2> TAKE q \in Made
  <2>1. ObjectIs(q)
    BY DEF ObjectsInv
  <2>2. o # NoObj
    BY DEF HandshakeAssumption
  <2> QED BY <2>1, <2>2 DEF ObjectIs
<1>2. \A e \in Ends, s \in Obj : pending[e][s] # o /\ pending[e][o] = NoObj
  <2> TAKE e \in Ends, s \in Obj
  <2>1. o # NoObj
    BY DEF HandshakeAssumption
  <2>2. pending[e][s] # o
    BY <2>1 DEF ManagersInv
  <2>3. pending[e][o] = NoObj
    BY <1>1 DEF ManagersInv
  <2> QED BY <2>2, <2>3
<1>3. \A m \in BagToSet(wire) : m.by # o /\ m.sid # o
  BY <1>1, MessageTypes DEF MessageIs
<1> QED BY <1>1, <1>2, <1>3 DEF ObjectsInv, Made, HandshakeTypes

\* A new session of an initiator keeps what is known of objects, managers and messages.
LEMMA InitiateKeeps ==
  ASSUME HandshakeAssumption, HandshakeTypes, ObjectsInv, ManagersInv, MessagesInv,
         NEW e \in Ends, NEW o \in Obj, InitiateHandshake(e, o)
  PROVE  ObjectsInv' /\ ManagersInv' /\ MessagesInv'
<1> USE DEF HandshakeTypes
<1>1. /\ o \notin Made /\ Made' = Made \union {o}
      /\ \E n \in 0 .. MaxObj : Made' = 1 .. n
  BY MadeGrows DEF InitiateHandshake
<1>2. /\ \A q \in Made : peerOf[q] # o /\ sidOf[q] # o
      /\ \A d \in Ends, s \in Obj : pending[d][s] # o /\ pending[d][o] = NoObj
      /\ \A m \in BagToSet(wire) : m.by # o /\ m.sid # o
      /\ stage[o] = "idle" /\ sidOf[o] = o /\ peerOf[o] = NoObj /\ owner[o] = NoObj
  BY <1>1, NewIsUnknown
<1>3. Made \subseteq Obj
  BY DEF Made
<1>4. \A q \in Obj :
        /\ owner'[q] = IF q = o THEN e ELSE owner[q]
        /\ stage'[q] = IF q = o THEN "initiated" ELSE stage[q]
        /\ role'[q] = IF q = o THEN "src" ELSE role[q]
        /\ sidOf'[q] = sidOf[q] /\ peerOf'[q] = peerOf[q]
  BY DEF InitiateHandshake
<1>5. ObjectsInv'
  <2>1. ASSUME NEW q \in Made PROVE ObjectIs(q)'
    BY <1>1, <1>3, <1>4, ObjectKept DEF ObjectsInv
  <2>2. ObjectIs(o)'
    BY <1>2, <1>4 DEF ObjectIs
  <2>3. \A q \in Obj \ Made' : stage'[q] = "idle" /\ sidOf'[q] = q /\ peerOf'[q] = NoObj
    BY <1>1, <1>4 DEF ObjectsInv
  <2> QED BY <1>1, <2>1, <2>2, <2>3 DEF ObjectsInv
<1>6. ManagersInv'
  <2>1. \A d \in Ends, s \in Obj :
          pending'[d][s] = IF d = e /\ s = o THEN o ELSE pending[d][s]
    BY DEF InitiateHandshake
  <2>2. byKey' = byKey
    BY DEF InitiateHandshake
  <2>3. ASSUME NEW d \in Ends, NEW q \in byKey'[d] PROVE owner'[q] = d /\ stage'[q] = "active"
    BY <1>2, <1>3, <1>4, <2>2, <2>3 DEF ManagersInv
  <2>4. ASSUME NEW d \in Ends, NEW s \in Obj, pending'[d][s] # NoObj
        PROVE  /\ pending'[d][s] \in Made' /\ owner'[pending'[d][s]] = d
               /\ sidOf'[pending'[d][s]] = s
               /\ stage'[pending'[d][s]] \in {"initiated", "completing"}
    <3>1. CASE d = e /\ s = o
      BY <1>1, <1>2, <1>4, <2>1, <3>1
    <3>2. CASE ~(d = e /\ s = o)
      BY <1>1, <1>2, <1>3, <1>4, <2>1, <2>4, <3>2 DEF ManagersInv
    <3> QED BY <3>1, <3>2
  <2> QED BY <2>3, <2>4 DEF ManagersInv
<1>7. MessagesInv'
  <2> DEFINE new == [kind |-> "source_hello", to |-> Other(e), sid |-> o, by |-> o,
                     keys |-> <<o, NoObj>>]
  <2>1. \A m \in BagToSet(wire) : MessageIs(m)'
    BY <1>1, <1>2, <1>3, <1>4, MessagesKept
  <2>2. MessageIs(new)'
    BY <1>1, <1>2, <1>4 DEF MessageIs
  <2>3. BagToSet(wire') = BagToSet(wire) \union {new}
    BY PutLaw DEF InitiateHandshake
  <2> QED BY <2>1, <2>2, <2>3 DEF MessagesInv
<1> QED BY <1>5, <1>6, <1>7

\* The same of the session that takes an initiator's hello.
LEMMA SourceHelloKeeps ==
  ASSUME HandshakeAssumption, HandshakeTypes, ObjectsInv, ManagersInv, MessagesInv,
         NEW m \in BagToSet(wire), NEW o \in Obj, ProcessSourceHello(m, o)
  PROVE  ObjectsInv' /\ ManagersInv' /\ MessagesInv'
<1> USE DEF HandshakeTypes
<1>0. /\ m.to \in Ends /\ m.sid \in Obj /\ m.by \in Made /\ m.kind = "source_hello"
      /\ m.to = Other(owner[m.by]) /\ m.sid = m.by /\ role[m.by] = "src"
      /\ owner[m.by] # m.to
  <2>1. MessageIs(m) /\ m.to \in Ends /\ m.sid \in Obj /\ m.by \in Made /\ m.kind = "source_hello"
    BY MessageTypes DEF ProcessSourceHello
  <2>2. ObjectIs(m.by) /\ owner[m.by] \in Ends
    BY <2>1 DEF ObjectsInv, Made
  <2> QED BY <2>1, <2>2, TwoEnds DEF MessageIs, ObjectIs
<1>1. /\ o \notin Made /\ Made' = Made \union {o}
      /\ \E n \in 0 .. MaxObj : Made' = 1 .. n
  BY <1>0, MadeGrows DEF ProcessSourceHello
<1>2. /\ \A q \in Made : peerOf[q] # o /\ sidOf[q] # o
      /\ \A d \in Ends, s \in Obj : pending[d][s] # o /\ pending[d][o] = NoObj
      /\ \A x \in BagToSet(wire) : x.by # o /\ x.sid # o
      /\ stage[o] = "idle" /\ sidOf[o] = o /\ peerOf[o] = NoObj /\ owner[o] = NoObj
  BY <1>1, NewIsUnknown
<1>3. Made \subseteq Obj
  BY DEF Made
<1>4. \A q \in Obj :
        /\ owner'[q] = IF q = o THEN m.to ELSE owner[q]
        /\ stage'[q] = IF q = o THEN "completing" ELSE stage[q]
        /\ role'[q] = IF q = o THEN "dst" ELSE role[q]
        /\ sidOf'[q] = IF q = o THEN m.sid ELSE sidOf[q]
        /\ peerOf'[q] = IF q = o THEN m.by ELSE peerOf[q]
  BY DEF ProcessSourceHello
<1>5. ObjectsInv'
  <2>1. ASSUME NEW q \in Made PROVE ObjectIs(q)'
    <3>1. \A x \in Made \union {q} :
            /\ owner'[x] = owner[x] /\ sidOf'[x] = sidOf[x] /\ role'[x] = role[x]
            /\ stage'[x] = stage[x] /\ peerOf'[x] = peerOf[x]
      BY <1>1, <1>3, <1>4
    <3> QED BY <1>1, <3>1, ObjectKept DEF ObjectsInv
  <2>2. ObjectIs(o)'
    <3>1. m.by # o /\ m.by \in Obj
      BY <1>0, <1>1, <1>3
    <3> QED BY <1>0, <1>1, <1>4, <3>1 DEF ObjectIs
  <2>3. \A q \in Obj \ Made' : stage'[q] = "idle" /\ sidOf'[q] = q /\ peerOf'[q] = NoObj
    BY <1>1, <1>4 DEF ObjectsInv
  <2> QED BY <1>1, <2>1, <2>2, <2>3 DEF ObjectsInv
<1>6. ManagersInv'
  <2>1. \A d \in Ends, s \in Obj :
          pending'[d][s] = IF d = m.to /\ s = m.sid THEN o ELSE pending[d][s]
    BY <1>0 DEF ProcessSourceHello
  <2>2. byKey' = byKey
    BY DEF ProcessSourceHello
  <2>3. ASSUME NEW d \in Ends, NEW q \in byKey'[d] PROVE owner'[q] = d /\ stage'[q] = "active"
    BY <1>2, <1>3, <1>4, <2>2, <2>3 DEF ManagersInv
  <2>4. ASSUME NEW d \in Ends, NEW s \in Obj, pending'[d][s] # NoObj
        PROVE  /\ pending'[d][s] \in Made' /\ owner'[pending'[d][s]] = d
               /\ sidOf'[pending'[d][s]] = s
               /\ stage'[pending'[d][s]] \in {"initiated", "completing"}
    <3>1. CASE d = m.to /\ s = m.sid
      BY <1>1, <1>2, <1>4, <2>1, <3>1
    <3>2. CASE ~(d = m.to /\ s = m.sid)
      BY <1>1, <1>2, <1>3, <1>4, <2>1, <2>4, <3>2 DEF ManagersInv
    <3> QED BY <3>1, <3>2
  <2> QED BY <2>3, <2>4 DEF ManagersInv
<1>7. MessagesInv'
  <2> DEFINE new(k) == [kind |-> k, to |-> Other(m.to), sid |-> m.sid, by |-> o,
                        keys |-> <<m.by, o>>]
             ms == {new(k) : k \in {"destination_hello", "finished"}}
  <2>1. \A x \in BagToSet(wire) : MessageIs(x)'
    <3>1. \A q \in Made :
           /\ owner'[q] = owner[q] /\ sidOf'[q] = sidOf[q] /\ role'[q] = role[q]
           /\ stage[q] # "initiated" => stage'[q] # "initiated" /\ peerOf'[q] = peerOf[q]
      BY <1>1, <1>3, <1>4
    <3> QED BY <1>1, <3>1, MessagesKept
  <2>2. ASSUME NEW k \in {"destination_hello", "finished"} PROVE MessageIs(new(k))'
    <3>1. /\ new(k).kind = k /\ new(k).to = Other(m.to) /\ new(k).sid = m.sid
          /\ new(k).by = o /\ new(k).keys = <<m.by, o>>
      OBVIOUS
    <3>2. KeyPair(o)' = <<m.by, o>>
      BY <1>4 DEF KeyPair
    <3> HIDE DEF new
    <3> QED BY <1>1, <1>4, <3>1, <3>2 DEF MessageIs
  <2>3. BagToSet(wire') \subseteq BagToSet(wire) \union ms
    <3>1. wire' = Put(Drop(wire, m), ms)
      BY DEF ProcessSourceHello
    <3> HIDE DEF ms
    <3>2. IsABag(Drop(wire, m)) /\ BagToSet(Drop(wire, m)) \subseteq BagToSet(wire)
      BY DropLaw
    <3>3. BagToSet(wire') = BagToSet(Drop(wire, m)) \union ms
      BY <3>1, <3>2, PutLaw
    <3> QED BY <3>2, <3>3
  <2>4. \A x \in ms : MessageIs(x)'
    BY <2>2
  <2> HIDE DEF ms
  <2> QED BY <2>1, <2>3, <2>4 DEF MessagesInv
<1> QED BY <1>5, <1>6, <1>7

\* Who answers an initiator is a session that took its hello.
LEMMA AnswerIs ==
  ASSUME HandshakeAssumption, HandshakeTypes, ObjectsInv, ManagersInv, MessagesInv,
         NEW m \in BagToSet(wire), NEW o \in Made, ProcessDestinationHello(m, o)
  PROVE  /\ m.to \in Ends /\ m.sid \in Obj /\ m.by \in Made /\ m.by # o
         /\ owner[o] = m.to /\ sidOf[o] = m.sid /\ m.sid = o /\ role[o] = "src"
         /\ peerOf[o] = NoObj /\ role[m.by] = "dst" /\ peerOf[m.by] = o
         /\ m.kind = "destination_hello" /\ stage[m.by] = "completing"
<1>1. MessageIs(m) /\ m.to \in Ends /\ m.sid \in Obj /\ m.by \in Made
  BY MessageTypes
<1>2. ObjectIs(o) /\ ObjectIs(m.by) /\ stage[o] = "initiated" /\ m.kind = "destination_hello"
  BY <1>1 DEF ObjectsInv, ProcessDestinationHello
<1>3. owner[o] = m.to /\ sidOf[o] = m.sid
  BY <1>1, PendingIs DEF ProcessDestinationHello
<1>4. role[o] = "src" /\ m.sid = o /\ peerOf[o] = NoObj
  BY <1>2, <1>3 DEF ObjectIs
<1>5. role[m.by] = "dst" /\ peerOf[m.by] = o
  BY <1>1, <1>2, <1>4 DEF MessageIs, ObjectIs
<1>6. stage[m.by] = "completing"
  <2>1. m.by # NoObj
    BY <1>1 DEF HandshakeAssumption, Made
  <2> QED BY <1>2, <1>4, <1>5, <2>1 DEF ObjectIs
<1> QED BY <1>1, <1>2, <1>3, <1>4, <1>5, <1>6

\* The same of the session that takes a responder's hello.
LEMMA DestinationHelloKeeps ==
  ASSUME HandshakeAssumption, HandshakeTypes, ObjectsInv, ManagersInv, MessagesInv,
         NEW m \in BagToSet(wire), NEW o \in Made, ProcessDestinationHello(m, o)
  PROVE  ObjectsInv' /\ ManagersInv' /\ MessagesInv'
<1> USE DEF HandshakeTypes
<1>0. /\ m.to \in Ends /\ m.sid \in Obj /\ m.by \in Made /\ m.by # o
      /\ owner[o] = m.to /\ sidOf[o] = m.sid /\ m.sid = o /\ role[o] = "src"
      /\ peerOf[o] = NoObj /\ role[m.by] = "dst" /\ peerOf[m.by] = o
      /\ m.kind = "destination_hello" /\ stage[m.by] = "completing"
  BY AnswerIs
<1>1. Made' = Made /\ Made \subseteq Obj /\ NoObj \notin Made
  <2>1. Made \subseteq Obj /\ NoObj \notin Made
    BY DEF Made, HandshakeAssumption
  <2> QED BY <2>1, MadeStays DEF ProcessDestinationHello
<1>2. \A q \in Obj :
        /\ owner'[q] = owner[q] /\ role'[q] = role[q] /\ sidOf'[q] = sidOf[q]
        /\ stage'[q] = IF q = o THEN "completing" ELSE stage[q]
        /\ peerOf'[q] = IF q = o THEN m.by ELSE peerOf[q]
  BY <1>1 DEF ProcessDestinationHello
<1>3. stage[o] = "initiated"
  BY DEF ProcessDestinationHello
<1>4. ObjectsInv'
  <2>1. ASSUME NEW q \in Made, q # o PROVE ObjectIs(q)'
    <3>1. ObjectIs(q)
      BY DEF ObjectsInv
    <3>2. peerOf[q] = o => stage[q] # "active" /\ role[q] = "dst"
      BY <1>0, <1>1, <3>1 DEF ObjectIs
    <3> QED BY <1>0, <1>1, <1>2, <2>1, <3>1, <3>2 DEF ObjectIs
  <2>2. ObjectIs(o)'
    BY <1>0, <1>1, <1>2 DEF ObjectIs
  <2>3. \A q \in Obj \ Made' : stage'[q] = "idle" /\ sidOf'[q] = q /\ peerOf'[q] = NoObj
    BY <1>1, <1>2 DEF ObjectsInv
  <2> QED BY <1>1, <2>1, <2>2, <2>3 DEF ObjectsInv
<1>5. ManagersInv'
  <2>1. pending' = pending /\ byKey' = byKey
    BY DEF ProcessDestinationHello, managerVars
  <2>2. ASSUME NEW d \in Ends, NEW q \in byKey'[d] PROVE owner'[q] = d /\ stage'[q] = "active"
    BY <1>1, <1>2, <1>3, <2>1, <2>2 DEF ManagersInv
  <2>3. ASSUME NEW d \in Ends, NEW s \in Obj, pending'[d][s] # NoObj
        PROVE  /\ pending'[d][s] \in Made' /\ owner'[pending'[d][s]] = d
               /\ sidOf'[pending'[d][s]] = s
               /\ stage'[pending'[d][s]] \in {"initiated", "completing"}
    BY <1>1, <1>2, <2>1, <2>3 DEF ManagersInv
  <2> QED BY <2>2, <2>3 DEF ManagersInv
<1>6. MessagesInv'
  <2> DEFINE new == [kind |-> "finished", to |-> Other(m.to), sid |-> m.sid, by |-> o,
                     keys |-> <<o, m.by>>]
  <2>1. \A x \in BagToSet(wire) : MessageIs(x)'
    <3>1. \A q \in Made :
           /\ owner'[q] = owner[q] /\ sidOf'[q] = sidOf[q] /\ role'[q] = role[q]
           /\ stage[q] # "initiated" => stage'[q] # "initiated" /\ peerOf'[q] = peerOf[q]
      BY <1>1, <1>2, <1>3
    <3> QED BY <1>1, <3>1, MessagesKept
  <2>2. MessageIs(new)'
    <3>1. /\ new.kind = "finished" /\ new.to = Other(m.to) /\ new.sid = m.sid
          /\ new.by = o /\ new.keys = <<o, m.by>>
      OBVIOUS
    <3>2. KeyPair(o)' = <<o, m.by>>
      BY <1>0, <1>1, <1>2 DEF KeyPair
    <3> HIDE DEF new
    <3> QED BY <1>0, <1>1, <1>2, <3>1, <3>2 DEF MessageIs
  <2>3. BagToSet(wire') \subseteq BagToSet(wire) \union {new}
    <3>1. wire' = Put(Drop(wire, m), {new})
      BY <1>0 DEF ProcessDestinationHello, HandshakeMsg
    <3> HIDE DEF new
    <3>2. IsABag(Drop(wire, m)) /\ BagToSet(Drop(wire, m)) \subseteq BagToSet(wire)
      BY DropLaw
    <3>3. BagToSet(wire') = BagToSet(Drop(wire, m)) \union {new}
      BY <3>1, <3>2, PutLaw
    <3> QED BY <3>2, <3>3
  <2> HIDE DEF new
  <2> QED BY <2>1, <2>2, <2>3 DEF MessagesInv
<1> QED BY <1>4, <1>5, <1>6

\* A Finished that verifies is that of the object whose answer this one took, and which took
\* this one's.
LEMMA FinishedIs ==
  ASSUME HandshakeAssumption, HandshakeTypes, ObjectsInv, ManagersInv, MessagesInv,
         NEW m \in BagToSet(wire), NEW o \in Made, ProcessFinished(m, o)
  PROVE  /\ m.to \in Ends /\ m.sid \in Obj /\ m.by \in Made /\ m.by # o
         /\ owner[o] = m.to /\ sidOf[o] = m.sid /\ stage[o] = "completing"
         /\ m.kind = "finished" /\ peerOf[o] = m.by /\ peerOf[m.by] = o
         /\ role[m.by] # role[o]
<1>1. MessageIs(m) /\ m.to \in Ends /\ m.sid \in Obj /\ m.by \in Made
  BY MessageTypes
<1>2. /\ ObjectIs(o) /\ ObjectIs(m.by) /\ stage[o] = "completing" /\ m.kind = "finished"
      /\ KeyPair(o) = m.keys /\ m.by # o
  BY <1>1 DEF ObjectsInv, ProcessFinished, Verifies
<1>3. owner[o] = m.to /\ sidOf[o] = m.sid
  BY <1>1, PendingIs DEF ProcessFinished
<1>4. KeyPair(o) = KeyPair(m.by)
  BY <1>1, <1>2 DEF MessageIs
<1>5. \A a, b, c, d : <<a, b>> = <<c, d>> => a = c /\ b = d
  OBVIOUS
<1>6. /\ role[o] = "src" => KeyPair(o) = <<o, peerOf[o]>>
      /\ role[o] = "dst" => KeyPair(o) = <<peerOf[o], o>>
      /\ role[m.by] = "src" => KeyPair(m.by) = <<m.by, peerOf[m.by]>>
      /\ role[m.by] = "dst" => KeyPair(m.by) = <<peerOf[m.by], m.by>>
  BY DEF KeyPair
<1>7. role[o] \in {"src", "dst"} /\ role[m.by] \in {"src", "dst"}
  BY <1>2 DEF ObjectIs
<1>8. peerOf[o] = m.by /\ peerOf[m.by] = o /\ role[m.by] # role[o]
  BY <1>2, <1>4, <1>5, <1>6, <1>7
<1> QED BY <1>1, <1>2, <1>3, <1>8

\* The same of the session that becomes active.
LEMMA FinishedKeeps ==
  ASSUME HandshakeAssumption, HandshakeTypes, ObjectsInv, ManagersInv, MessagesInv,
         NEW m \in BagToSet(wire), NEW o \in Made, ProcessFinished(m, o)
  PROVE  ObjectsInv' /\ ManagersInv' /\ MessagesInv'
<1> USE DEF HandshakeTypes
<1>0. /\ m.to \in Ends /\ m.sid \in Obj /\ m.by \in Made /\ m.by # o
      /\ owner[o] = m.to /\ sidOf[o] = m.sid /\ stage[o] = "completing"
      /\ m.kind = "finished" /\ peerOf[o] = m.by /\ peerOf[m.by] = o
      /\ role[m.by] # role[o]
  BY FinishedIs
<1>1. Made' = Made /\ Made \subseteq Obj /\ NoObj \notin Made
  <2>1. Made \subseteq Obj /\ NoObj \notin Made
    BY DEF Made, HandshakeAssumption
  <2> QED BY <2>1, MadeStays DEF ProcessFinished
<1>2. \A q \in Obj :
        /\ owner'[q] = owner[q] /\ role'[q] = role[q] /\ sidOf'[q] = sidOf[q]
        /\ stage'[q] = IF q = o THEN "active" ELSE stage[q]
        /\ peerOf'[q] = peerOf[q]
  BY <1>1 DEF ProcessFinished
<1>3. ObjectsInv'
  <2>1. ASSUME NEW q \in Made, q # o PROVE ObjectIs(q)'
    <3>1. ObjectIs(q)
      BY DEF ObjectsInv
    <3> QED BY <1>1, <1>2, <2>1, <3>1 DEF ObjectIs
  <2>2. ObjectIs(o)'
    <3>1. ObjectIs(o)
      BY DEF ObjectsInv
    <3> QED BY <1>0, <1>1, <1>2, <3>1 DEF ObjectIs
  <2>3. \A q \in Obj \ Made' : stage'[q] = "idle" /\ sidOf'[q] = q /\ peerOf'[q] = NoObj
    BY <1>1, <1>2 DEF ObjectsInv
  <2> QED BY <1>1, <2>1, <2>2, <2>3 DEF ObjectsInv
<1>4. ManagersInv'
  <2>1. \A d \in Ends, s \in Obj :
          pending'[d][s] = IF d = m.to /\ s = m.sid THEN NoObj ELSE pending[d][s]
    BY <1>0 DEF ProcessFinished
  <2>2. \A d \in Ends : byKey'[d] \subseteq byKey[d] \union (IF d = m.to THEN {o} ELSE {})
    BY <1>0, RegisterTypes DEF ProcessFinished
  <2>3. ASSUME NEW d \in Ends, NEW q \in byKey'[d] PROVE owner'[q] = d /\ stage'[q] = "active"
    BY <1>0, <1>1, <1>2, <2>2, <2>3 DEF ManagersInv
  <2>4. ASSUME NEW d \in Ends, NEW s \in Obj, pending'[d][s] # NoObj
        PROVE  /\ pending'[d][s] \in Made' /\ owner'[pending'[d][s]] = d
               /\ sidOf'[pending'[d][s]] = s
               /\ stage'[pending'[d][s]] \in {"initiated", "completing"}
    <3>1. /\ pending'[d][s] = pending[d][s] /\ ~(d = m.to /\ s = m.sid)
          /\ pending[d][s] \in Made /\ owner[pending[d][s]] = d
          /\ sidOf[pending[d][s]] = s /\ stage[pending[d][s]] \in {"initiated", "completing"}
      BY <2>1, <2>4 DEF ManagersInv
    <3>2. pending[d][s] # o
      BY <1>0, <3>1
    <3> QED BY <1>1, <1>2, <3>1, <3>2
  <2> QED BY <2>3, <2>4 DEF ManagersInv
<1>5. MessagesInv'
  <2>1. \A x \in BagToSet(wire) : MessageIs(x)'
    BY <1>1, <1>2, MessagesKept
  <2>2. BagToSet(wire') \subseteq BagToSet(wire)
    BY DropLaw DEF ProcessFinished
  <2> QED BY <2>1, <2>2 DEF MessagesInv
<1> QED BY <1>3, <1>4, <1>5

\* So do all the other steps: objects stay as they are, managers forget and messages leave
\* or come twice.
LEMMA OthersKeep ==
  ASSUME HandshakeTypes, ObjectsInv, ManagersInv, MessagesInv,
         UNCHANGED objVars, BagToSet(wire') \subseteq BagToSet(wire),
         \A d \in Ends : byKey'[d] \subseteq byKey[d],
         \A d \in Ends, s \in Obj : pending'[d][s] \in {NoObj, pending[d][s]}
  PROVE  ObjectsInv' /\ ManagersInv' /\ MessagesInv'
<1>1. Made' = Made
  BY MadeStays DEF objVars
<1>2. ObjectsInv'
  <2>1. ASSUME NEW q \in Made PROVE ObjectIs(q)'
    BY <1>1, ObjectKept DEF ObjectsInv, objVars
  <2> QED BY <1>1, <2>1 DEF ObjectsInv, objVars
<1>3. ManagersInv'
  BY <1>1 DEF ManagersInv, objVars
<1>4. MessagesInv'
  <2>1. \A x \in BagToSet(wire) : MessageIs(x)'
    BY <1>1, MessagesKept DEF objVars
  <2> QED BY <2>1 DEF MessagesInv
<1> QED BY <1>2, <1>3, <1>4

\* What is known of objects, managers and messages stays true.
LEMMA StateKeeps ==
  ASSUME HandshakeAssumption, HandshakeTypes, ObjectsInv, ManagersInv, MessagesInv,
         [HandshakeNext]_handshakeVars
  PROVE  ObjectsInv' /\ ManagersInv' /\ MessagesInv'
<1> USE DEF HandshakeTypes
<1>1. ASSUME NEW e \in Ends, NEW o \in Obj, InitiateHandshake(e, o)
      PROVE  ObjectsInv' /\ ManagersInv' /\ MessagesInv'
  BY <1>1, InitiateKeeps
<1>2. ASSUME NEW m \in BagToSet(wire), Deliver(m)
      PROVE  ObjectsInv' /\ ManagersInv' /\ MessagesInv'
  <2>1. ASSUME NEW o \in Obj, ProcessSourceHello(m, o)
        PROVE  ObjectsInv' /\ ManagersInv' /\ MessagesInv'
    BY <2>1, SourceHelloKeeps
  <2>2. ASSUME NEW o \in Made, ProcessDestinationHello(m, o)
        PROVE  ObjectsInv' /\ ManagersInv' /\ MessagesInv'
    BY <2>2, DestinationHelloKeeps
  <2>3. ASSUME NEW o \in Made, ProcessFinished(m, o)
        PROVE  ObjectsInv' /\ ManagersInv' /\ MessagesInv'
    BY <2>3, FinishedKeeps
  <2>4. CASE RefuseDestinationHello(m) \/ RefuseFinished(m)
    <3>1. wire' = Drop(wire, m) /\ UNCHANGED <<objVars, managerVars>>
      BY <2>4 DEF RefuseDestinationHello, RefuseFinished, Refuse
    <3>2. BagToSet(wire') \subseteq BagToSet(wire)
      BY <3>1, DropLaw
    <3> QED BY <3>1, <3>2, OthersKeep DEF managerVars
  <2> QED BY <1>2, <2>1, <2>2, <2>3, <2>4 DEF Deliver
<1>3. ASSUME NEW m \in BagToSet(wire), Lose(m) \/ Repeat(m)
      PROVE  ObjectsInv' /\ ManagersInv' /\ MessagesInv'
  <2>1. /\ wire' = Drop(wire, m) \/ wire' = Put(wire, {m})
        /\ UNCHANGED <<objVars, managerVars>>
    BY <1>3 DEF Lose, Repeat
  <2>2. BagToSet(wire') \subseteq BagToSet(wire)
    <3>1. BagToSet(wire) \union {m} = BagToSet(wire)
      OBVIOUS
    <3> QED BY <2>1, <3>1, DropLaw, PutLaw
  <2> QED BY <2>1, <2>2, OthersKeep DEF managerVars
<1>4. ASSUME NEW e \in Ends, NEW s \in Obj, TimeoutPending(e, s)
      PROVE  ObjectsInv' /\ ManagersInv' /\ MessagesInv'
  <2>1. \A d \in Ends, t \in Obj : pending'[d][t] \in {NoObj, pending[d][t]}
    BY <1>4 DEF TimeoutPending
  <2>2. UNCHANGED <<objVars, byKey, wire>>
    BY <1>4 DEF TimeoutPending
  <2> QED BY <2>1, <2>2, OthersKeep
<1>5. ASSUME NEW o \in Obj, Expire(o)
      PROVE  ObjectsInv' /\ ManagersInv' /\ MessagesInv'
  BY <1>5, OthersKeep DEF Expire
<1>6. ASSUME NEW e \in Ends, CleanupExpired(e)
      PROVE  ObjectsInv' /\ ManagersInv' /\ MessagesInv'
  BY <1>6, OthersKeep DEF CleanupExpired
<1>7. ASSUME NEW e \in Ends, NEW o \in Obj, RemoveSession(e, o)
      PROVE  ObjectsInv' /\ ManagersInv' /\ MessagesInv'
  <2>1. \A d \in Ends, t \in Obj : pending'[d][t] \in {NoObj, pending[d][t]}
    BY <1>7 DEF RemoveSession
  <2>2. \A d \in Ends : byKey'[d] \subseteq byKey[d]
    BY <1>7 DEF RemoveSession
  <2>3. UNCHANGED <<objVars, wire>>
    BY <1>7 DEF RemoveSession
  <2> QED BY <2>1, <2>2, <2>3, OthersKeep
<1>8. CASE UNCHANGED handshakeVars
  BY <1>8, OthersKeep DEF handshakeVars, managerVars
<1> QED BY <1>1, <1>2, <1>3, <1>4, <1>5, <1>6, <1>7, <1>8 DEF HandshakeNext

-----------------------------------------------------------------------------
(* E2eeHandshake: as long as nothing goes wrong *)

\* Messages of one kind by one sender are the same message.
LEMMA OneOfAKind ==
  ASSUME HandshakeTypes, MessagesInv, NEW m \in BagToSet(wire), NEW x \in BagToSet(wire),
         x.kind = m.kind, x.by = m.by
  PROVE  x = m
<1>1. m \in Wire /\ x \in Wire
  BY DEF HandshakeTypes
<1>2. MessageIs(m) /\ MessageIs(x)
  BY DEF MessagesInv
<1>3. x.to = m.to /\ x.sid = m.sid /\ x.keys = m.keys
  BY <1>2 DEF MessageIs
<1> QED BY <1>1, <1>3 DEF Wire

\* A message that comes once is gone when it is taken; what is put there is under way.
LEMMA TakenAndPut ==
  ASSUME HandshakeTypes, MessagesInv, \A x \in BagToSet(wire) : wire[x] = 1,
         NEW m \in BagToSet(wire), NEW ms, ms \intersect BagToSet(wire) = {},
         wire' = Put(Drop(wire, m), ms)
  PROVE  /\ BagToSet(wire') = (BagToSet(wire) \ {m}) \union ms
         /\ \A x \in BagToSet(wire') : wire'[x] = 1
         /\ UnderWay' = (UnderWay \ {<<m.kind, m.by>>}) \union {<<x.kind, x.by>> : x \in ms}
<1> DEFINE v == Drop(wire, m)
<1>1. IsABag(wire)
  BY DEF HandshakeTypes
<1>2. /\ IsABag(v) /\ BagToSet(v) = BagToSet(wire) \ {m}
      /\ \A x \in BagToSet(v) : v[x] = 1
  BY <1>1, DropLaw
<1> HIDE DEF v
<1>3. BagToSet(wire') = BagToSet(v) \union ms
  BY <1>2, PutLaw DEF v
<1>4. \A x \in BagToSet(wire') : wire'[x] = 1
  <2>1. /\ \A x \in BagToSet(v) \ ms : wire'[x] = v[x]
        /\ \A x \in ms \ BagToSet(v) : wire'[x] = 1
    BY <1>2, PutLaw DEF v
  <2> QED BY <1>2, <1>3, <2>1
<1>5. UnderWay' = (UnderWay \ {<<m.kind, m.by>>}) \union {<<x.kind, x.by>> : x \in ms}
  <2>1. UnderWay' = {<<x.kind, x.by>> : x \in (BagToSet(wire) \ {m}) \union ms}
    BY <1>2, <1>3 DEF UnderWay
  <2>2. ASSUME NEW x \in BagToSet(wire) PROVE <<x.kind, x.by>> = <<m.kind, m.by>> <=> x = m
    BY OneOfAKind
  <2> QED BY <2>1, <2>2 DEF UnderWay
<1> QED BY <1>2, <1>3, <1>4, <1>5

LEMMA MessageTaken ==
  ASSUME HandshakeTypes, MessagesInv, \A x \in BagToSet(wire) : wire[x] = 1,
         NEW m \in BagToSet(wire), wire' = Drop(wire, m)
  PROVE  /\ \A x \in BagToSet(wire') : wire'[x] = 1
         /\ UnderWay' = UnderWay \ {<<m.kind, m.by>>}
<1>1. IsABag(wire)
  BY DEF HandshakeTypes
<1>2. /\ BagToSet(wire') = BagToSet(wire) \ {m}
      /\ \A x \in BagToSet(wire') : wire'[x] = 1
  BY <1>1, DropLaw
<1>3. UnderWay' = {<<x.kind, x.by>> : x \in BagToSet(wire) \ {m}}
  BY <1>2 DEF UnderWay
<1>4. ASSUME NEW x \in BagToSet(wire) PROVE <<x.kind, x.by>> = <<m.kind, m.by>> <=> x = m
  BY OneOfAKind
<1> QED BY <1>2, <1>3, <1>4 DEF UnderWay

\* A message says what its sender is: what that means for what is under way.
LEMMA UnderWayIs ==
  ASSUME HandshakeTypes, MessagesInv, NEW o, NEW kind, <<kind, o>> \in UnderWay
  PROVE  /\ o \in Made
         /\ kind = "source_hello" => role[o] = "src"
         /\ kind # "source_hello" => stage[o] # "initiated"
         /\ kind = "destination_hello" => role[o] = "dst"
<1>1. PICK m \in BagToSet(wire) : kind = m.kind /\ o = m.by
  BY DEF UnderWay
<1> QED BY <1>1, MessageTypes DEF MessageIs

\* A new session: its hello is under way, and nobody took it.
LEMMA InitiateCalm ==
  ASSUME HandshakeAssumption, HandshakeTypes, ObjectsInv, ManagersInv, MessagesInv,
         \A x \in BagToSet(wire) : wire[x] = 1, \A q \in Made : CalmObject(q),
         NEW e \in Ends, NEW o \in Obj, InitiateHandshake(e, o)
  PROVE  (\A x \in BagToSet(wire') : wire'[x] = 1) /\ (\A q \in Made' : CalmObject(q)')
<1> USE DEF HandshakeTypes
<1>1. /\ o \notin Made /\ Made' = Made \union {o}
      /\ \E n \in 0 .. MaxObj : Made' = 1 .. n
  BY MadeGrows DEF InitiateHandshake
<1>2. /\ \A q \in Made : peerOf[q] # o /\ sidOf[q] # o
      /\ \A d \in Ends, s \in Obj : pending[d][s] # o /\ pending[d][o] = NoObj
      /\ \A m \in BagToSet(wire) : m.by # o /\ m.sid # o
      /\ stage[o] = "idle" /\ sidOf[o] = o /\ peerOf[o] = NoObj /\ owner[o] = NoObj
  BY <1>1, NewIsUnknown
<1>3. Made \subseteq Obj /\ \A q \in Made : owner[q] \in Ends
  BY DEF Made
<1>4. \A q \in Obj :
        /\ owner'[q] = IF q = o THEN e ELSE owner[q]
        /\ stage'[q] = IF q = o THEN "initiated" ELSE stage[q]
        /\ role'[q] = IF q = o THEN "src" ELSE role[q]
        /\ sidOf'[q] = sidOf[q] /\ peerOf'[q] = peerOf[q]
  BY DEF InitiateHandshake
<1>5. \A d \in Ends, s \in Obj :
        pending'[d][s] = IF d = e /\ s = o THEN o ELSE pending[d][s]
  BY DEF InitiateHandshake
<1> DEFINE new == [kind |-> "source_hello", to |-> Other(e), sid |-> o, by |-> o,
                   keys |-> <<o, NoObj>>]
<1>6. /\ \A x \in BagToSet(wire') : wire'[x] = 1
      /\ UnderWay' = UnderWay \union {<<"source_hello", o>>}
  <2>1. new \notin BagToSet(wire)
    BY <1>2
  <2>2. wire' = Put(wire, {new})
    BY DEF InitiateHandshake
  <2>3. new.kind = "source_hello" /\ new.by = o
    OBVIOUS
  <2> HIDE DEF new
  <2>4. BagToSet(wire') = BagToSet(wire) \union {new}
    BY <2>2, PutLaw
  <2>5. \A x \in BagToSet(wire') : wire'[x] = 1
    BY <2>1, <2>2, <2>4, PutLaw
  <2>6. UnderWay' = {<<x.kind, x.by>> : x \in BagToSet(wire) \union {new}}
    BY <2>4 DEF UnderWay
  <2> QED BY <2>3, <2>5, <2>6 DEF UnderWay
<1>7. \A kind : <<kind, o>> \notin UnderWay
  BY <1>1, UnderWayIs
<1>8. CalmObject(o)'
  <2>1. /\ \A p \in Made' : role'[p] = "dst" => peerOf'[p] # o
        /\ <<"finished", o>> \notin UnderWay'
    BY <1>1, <1>2, <1>3, <1>4, <1>6, <1>7
  <2>2. pending'[owner'[o]][sidOf'[o]] = o
    BY <1>2, <1>4, <1>5
  <2> QED BY <1>4, <1>6, <2>1, <2>2 DEF CalmObject
<1>9. ASSUME NEW q \in Made PROVE CalmObject(q)'
  <2>1. CalmObject(q) /\ ObjectIs(q) /\ q # o
    BY <1>1 DEF ObjectsInv
  <2>2. stage[q] \in {"initiated", "completing"} => pending'[owner'[q]][sidOf'[q]] = q
    BY <1>2, <1>3, <1>4, <1>5, <2>1 DEF CalmObject
  <2>3. /\ <<"source_hello", q>> \in UnderWay' <=> <<"source_hello", q>> \in UnderWay
        /\ <<"destination_hello", q>> \in UnderWay' <=> <<"destination_hello", q>> \in UnderWay
        /\ <<"finished", q>> \in UnderWay' <=> <<"finished", q>> \in UnderWay
    BY <1>6, <2>1
  <2>4. <<"finished", peerOf'[q]>> \in UnderWay => <<"finished", peerOf'[q]>> \in UnderWay'
    BY <1>6
  <2>5. peerOf[q] = NoObj => stage[q] = "initiated" /\ <<"finished", q>> \notin UnderWay
    <3>1. NoObj \notin Made
      BY DEF Made, HandshakeAssumption
    <3> QED BY <2>1, <3>1, UnderWayIs DEF ObjectIs
  <2>6. peerOf[q] # NoObj => peerOf[q] \in Made
    BY <2>1 DEF ObjectIs
  <2>7. peerOf[q] # NoObj => stage'[peerOf'[q]] = stage[peerOf[q]]
    BY <1>2, <1>3, <1>4, <2>6
  <2>8. \A p \in Made' : (role'[p] = "dst" => p \in Made /\ role[p] = "dst") /\ peerOf'[p] = peerOf[p]
    BY <1>1, <1>3, <1>4
  <2>9. role'[q] = role[q] /\ stage'[q] = stage[q] /\ peerOf'[q] = peerOf[q]
    BY <1>3, <1>4, <2>1
  <2>10. role[q] = "dst" => peerOf[q] # NoObj
    BY <2>5, <2>1 DEF ObjectIs
  <2>11. \A p \in Made : p \in Made' /\ role'[p] = role[p] /\ peerOf'[p] = peerOf[p]
    BY <1>1, <1>3, <1>4
  <2>12. role'[q] = "src" =>
           (<<"source_hello", q>> \in UnderWay' <=>
              \A p \in Made' : role'[p] = "dst" => peerOf'[p] # q)
    <3>1. (\A p \in Made' : role'[p] = "dst" => peerOf'[p] # q)
             <=> (\A p \in Made : role[p] = "dst" => peerOf[p] # q)
      BY <2>8, <2>11
    <3> QED BY <2>1, <2>3, <2>9, <3>1 DEF CalmObject
  <2>13. role'[q] = "dst" =>
           /\ \A p \in Made' : role'[p] = "dst" /\ peerOf'[p] = peerOf'[q] => p = q
           /\ <<"destination_hello", q>> \in UnderWay' <=> stage'[peerOf'[q]] = "initiated"
           /\ stage'[peerOf'[q]] = "initiated" => <<"finished", q>> \in UnderWay'
    BY <2>1, <2>3, <2>7, <2>8, <2>9, <2>10 DEF CalmObject
  <2>14. stage'[q] = "completing" /\ stage'[peerOf'[q]] # "initiated" =>
           <<"finished", peerOf'[q]>> \in UnderWay'
    BY <2>1, <2>4, <2>5, <2>7, <2>9 DEF CalmObject
  <2>15. <<"finished", q>> \in UnderWay' => stage'[peerOf'[q]] # "active"
    <3>1. CASE peerOf[q] = NoObj
      BY <2>3, <2>5, <3>1
    <3>2. CASE peerOf[q] # NoObj
      <4>1. <<"finished", q>> \in UnderWay => stage[peerOf[q]] # "active"
        BY <2>1 DEF CalmObject
      <4> QED BY <2>3, <2>7, <3>2, <4>1
    <3> QED BY <3>1, <3>2
  <2> QED BY <2>2, <2>9, <2>12, <2>13, <2>14, <2>15 DEF CalmObject
<1> QED BY <1>1, <1>6, <1>8, <1>9

\* A session that takes a hello is the only one that does, and its answers are under way.
LEMMA SourceHelloCalm ==
  ASSUME HandshakeAssumption, HandshakeTypes, ObjectsInv, ManagersInv, MessagesInv,
         \A x \in BagToSet(wire) : wire[x] = 1, \A q \in Made : CalmObject(q),
         NEW m \in BagToSet(wire), NEW o \in Obj, ProcessSourceHello(m, o)
  PROVE  (\A x \in BagToSet(wire') : wire'[x] = 1) /\ (\A q \in Made' : CalmObject(q)')
<1> USE DEF HandshakeTypes
<1>0. /\ m.to \in Ends /\ m.sid \in Obj /\ m.by \in Made /\ m.kind = "source_hello"
      /\ m.to = Other(owner[m.by]) /\ m.sid = m.by /\ role[m.by] = "src"
      /\ owner[m.by] # m.to
  <2>1. MessageIs(m) /\ m.to \in Ends /\ m.sid \in Obj /\ m.by \in Made /\ m.kind = "source_hello"
    BY MessageTypes DEF ProcessSourceHello
  <2>2. ObjectIs(m.by) /\ owner[m.by] \in Ends
    BY <2>1 DEF ObjectsInv, Made
  <2> QED BY <2>1, <2>2, TwoEnds DEF MessageIs, ObjectIs
<1>1. /\ o \notin Made /\ Made' = Made \union {o}
      /\ \E n \in 0 .. MaxObj : Made' = 1 .. n
  BY <1>0, MadeGrows DEF ProcessSourceHello
<1>2. /\ \A q \in Made : peerOf[q] # o /\ sidOf[q] # o
      /\ \A d \in Ends, s \in Obj : pending[d][s] # o /\ pending[d][o] = NoObj
      /\ \A x \in BagToSet(wire) : x.by # o /\ x.sid # o
      /\ stage[o] = "idle" /\ sidOf[o] = o /\ peerOf[o] = NoObj /\ owner[o] = NoObj
  BY <1>1, NewIsUnknown
<1>3. Made \subseteq Obj /\ \A q \in Made : owner[q] \in Ends
  BY DEF Made
<1>4. \A q \in Obj :
        /\ owner'[q] = IF q = o THEN m.to ELSE owner[q]
        /\ stage'[q] = IF q = o THEN "completing" ELSE stage[q]
        /\ role'[q] = IF q = o THEN "dst" ELSE role[q]
        /\ sidOf'[q] = IF q = o THEN m.sid ELSE sidOf[q]
        /\ peerOf'[q] = IF q = o THEN m.by ELSE peerOf[q]
  BY DEF ProcessSourceHello
<1>5. \A d \in Ends, s \in Obj :
        pending'[d][s] = IF d = m.to /\ s = m.sid THEN o ELSE pending[d][s]
  BY <1>0 DEF ProcessSourceHello
<1>6. /\ \A x \in BagToSet(wire') : wire'[x] = 1
      /\ UnderWay' = (UnderWay \ {<<"source_hello", m.by>>})
                       \union {<<"destination_hello", o>>, <<"finished", o>>}
  <2> DEFINE new(k) == [kind |-> k, to |-> Other(m.to), sid |-> m.sid, by |-> o,
                        keys |-> <<m.by, o>>]
             ms == {new(k) : k \in {"destination_hello", "finished"}}
  <2>1. wire' = Put(Drop(wire, m), ms)
    BY DEF ProcessSourceHello
  <2>a. \A k : new(k).kind = k /\ new(k).by = o
    OBVIOUS
  <2> HIDE DEF new
  <2>2. \A x \in ms : x.by = o
    BY <2>a
  <2>b. ms = {new("destination_hello"), new("finished")}
    OBVIOUS
  <2>3. {<<x.kind, x.by>> : x \in ms} = {<<"destination_hello", o>>, <<"finished", o>>}
    <3>1. \A x, y : {<<z.kind, z.by>> : z \in {x, y}} = {<<x.kind, x.by>>, <<y.kind, y.by>>}
      OBVIOUS
    <3> HIDE DEF ms
    <3>2. {<<z.kind, z.by>> : z \in {new("destination_hello"), new("finished")}}
            = {<<"destination_hello", o>>, <<"finished", o>>}
      BY <2>a, <3>1
    <3> QED BY <2>b, <3>2
  <2> HIDE DEF ms
  <2>4. ms \intersect BagToSet(wire) = {}
    BY <1>2, <2>2
  <2> QED BY <1>0, <2>1, <2>3, <2>4, TakenAndPut
<1>7. \A kind : <<kind, o>> \notin UnderWay
  BY <1>1, UnderWayIs
<1>8. /\ <<"source_hello", m.by>> \in UnderWay
      /\ \A p \in Made : role[p] = "dst" => peerOf[p] # m.by
  <2>1. <<"source_hello", m.by>> \in UnderWay
    BY <1>0 DEF UnderWay
  <2> QED BY <1>0, <2>1 DEF CalmObject
<1>9. stage[m.by] = "initiated"
  <2>1. ObjectIs(m.by)
    BY <1>0 DEF ObjectsInv
  <2> QED BY <1>0, <1>8, <2>1 DEF ObjectIs
<1>10. m.by # o /\ m.by \in Obj /\ o \in Made'
  BY <1>0, <1>1, <1>3
<1>11. /\ owner'[o] = m.to /\ stage'[o] = "completing" /\ role'[o] = "dst"
       /\ sidOf'[o] = m.sid /\ peerOf'[o] = m.by /\ stage'[m.by] = "initiated"
  BY <1>4, <1>9, <1>10
<1>12. \A p \in Made : /\ p \in Made' /\ p # o /\ role'[p] = role[p] /\ peerOf'[p] = peerOf[p]
                       /\ owner'[p] = owner[p] /\ sidOf'[p] = sidOf[p] /\ stage'[p] = stage[p]
  BY <1>1, <1>3, <1>4
<1>13. \A p \in Made' : p = o \/ p \in Made
  BY <1>1
<1>14. CalmObject(o)'
  <2>1. pending'[owner'[o]][sidOf'[o]] = o
    BY <1>0, <1>5, <1>11
  <2>2. \A p \in Made' : role'[p] = "dst" /\ peerOf'[p] = peerOf'[o] => p = o
    BY <1>8, <1>11, <1>12, <1>13
  <2>3. <<"destination_hello", o>> \in UnderWay' /\ <<"finished", o>> \in UnderWay'
    BY <1>6
  <2> QED BY <1>11, <2>1, <2>2, <2>3 DEF CalmObject
<1>15. ASSUME NEW q \in Made PROVE CalmObject(q)'
  <2>1. CalmObject(q) /\ ObjectIs(q) /\ q # o
    BY <1>12 DEF ObjectsInv
  <2>2. stage'[q] \in {"initiated", "completing"} => pending'[owner'[q]][sidOf'[q]] = q
    <3>1. ~(owner[q] = m.to /\ sidOf[q] = m.sid)
      BY <1>0, <1>8, <2>1 DEF ObjectIs
    <3>2. owner[q] \in Ends /\ sidOf[q] \in Obj
      BY <1>3
    <3>3. pending'[owner[q]][sidOf[q]] = pending[owner[q]][sidOf[q]]
      BY <1>5, <3>1, <3>2
    <3> QED BY <1>12, <2>1, <3>3 DEF CalmObject
  <2>3. /\ <<"source_hello", q>> \in UnderWay' <=> <<"source_hello", q>> \in UnderWay /\ q # m.by
        /\ <<"destination_hello", q>> \in UnderWay' <=> <<"destination_hello", q>> \in UnderWay
        /\ <<"finished", q>> \in UnderWay' <=> <<"finished", q>> \in UnderWay
    BY <1>6, <2>1
  <2>4. <<"finished", peerOf[q]>> \in UnderWay => <<"finished", peerOf[q]>> \in UnderWay'
    BY <1>6
  <2>5. peerOf[q] = NoObj => stage[q] = "initiated" /\ <<"finished", q>> \notin UnderWay
    <3>1. NoObj \notin Made
      BY DEF Made, HandshakeAssumption
    <3> QED BY <2>1, <3>1, UnderWayIs DEF ObjectIs
  <2>6. peerOf[q] # NoObj => stage'[peerOf[q]] = stage[peerOf[q]]
    BY <1>12, <2>1 DEF ObjectIs
  <2>7. /\ role'[q] = role[q] /\ stage'[q] = stage[q] /\ peerOf'[q] = peerOf[q]
        /\ role[q] = "dst" => peerOf[q] # NoObj
    BY <1>12, <2>1, <2>5 DEF ObjectIs
  <2>8. role'[q] = "src" =>
           (<<"source_hello", q>> \in UnderWay' <=>
              \A p \in Made' : role'[p] = "dst" => peerOf'[p] # q)
    <3>1. (\A p \in Made' : role'[p] = "dst" => peerOf'[p] # q)
             <=> (\A p \in Made : role[p] = "dst" => peerOf[p] # q) /\ q # m.by
      BY <1>10, <1>11, <1>12, <1>13
    <3> QED BY <2>1, <2>3, <2>7, <3>1 DEF CalmObject
  <2>9. role'[q] = "dst" =>
           /\ \A p \in Made' : role'[p] = "dst" /\ peerOf'[p] = peerOf'[q] => p = q
           /\ <<"destination_hello", q>> \in UnderWay' <=> stage'[peerOf'[q]] = "initiated"
           /\ stage'[peerOf'[q]] = "initiated" => <<"finished", q>> \in UnderWay'
    <3> SUFFICES ASSUME role[q] = "dst"
                 PROVE  /\ \A p \in Made' : role'[p] = "dst" /\ peerOf'[p] = peerOf[q] => p = q
                        /\ <<"destination_hello", q>> \in UnderWay' <=> stage'[peerOf[q]] = "initiated"
                        /\ stage'[peerOf[q]] = "initiated" => <<"finished", q>> \in UnderWay'
      BY <2>7
    <3>1. peerOf[q] # m.by
      BY <1>8
    <3>2. \A p \in Made' : role'[p] = "dst" /\ peerOf'[p] = peerOf[q] => p = q
      BY <1>11, <1>12, <1>13, <2>1, <3>1 DEF CalmObject
    <3> QED BY <2>1, <2>3, <2>6, <2>7, <3>2 DEF CalmObject
  <2>10. stage'[q] = "completing" /\ stage'[peerOf'[q]] # "initiated" =>
           <<"finished", peerOf'[q]>> \in UnderWay'
    BY <2>1, <2>4, <2>5, <2>6, <2>7 DEF CalmObject
  <2>11. <<"finished", q>> \in UnderWay' => stage'[peerOf'[q]] # "active"
    BY <2>1, <2>3, <2>5, <2>6, <2>7 DEF CalmObject
  <2> QED BY <2>2, <2>8, <2>9, <2>10, <2>11 DEF CalmObject
<1> QED BY <1>6, <1>13, <1>14, <1>15

\* An initiator that takes the answer of the session that took its hello.
LEMMA DestinationHelloCalm ==
  ASSUME HandshakeAssumption, HandshakeTypes, ObjectsInv, ManagersInv, MessagesInv,
         \A x \in BagToSet(wire) : wire[x] = 1, \A q \in Made : CalmObject(q),
         NEW m \in BagToSet(wire), NEW o \in Made, ProcessDestinationHello(m, o)
  PROVE  (\A x \in BagToSet(wire') : wire'[x] = 1) /\ (\A q \in Made' : CalmObject(q)')
<1> USE DEF HandshakeTypes
<1>0. /\ m.to \in Ends /\ m.sid \in Obj /\ m.by \in Made /\ m.by # o
      /\ owner[o] = m.to /\ sidOf[o] = m.sid /\ m.sid = o /\ role[o] = "src"
      /\ peerOf[o] = NoObj /\ role[m.by] = "dst" /\ peerOf[m.by] = o
      /\ m.kind = "destination_hello" /\ stage[m.by] = "completing"
  BY AnswerIs
<1>1. Made' = Made /\ Made \subseteq Obj /\ NoObj \notin Made
  <2>1. Made \subseteq Obj /\ NoObj \notin Made
    BY DEF Made, HandshakeAssumption
  <2> QED BY <2>1, MadeStays DEF ProcessDestinationHello
<1>2. /\ \A q \in Made :
           /\ owner'[q] = owner[q] /\ role'[q] = role[q] /\ sidOf'[q] = sidOf[q]
           /\ stage'[q] = IF q = o THEN "completing" ELSE stage[q]
           /\ peerOf'[q] = IF q = o THEN m.by ELSE peerOf[q]
      /\ pending' = pending
  BY <1>1 DEF ProcessDestinationHello, managerVars
<1>3. stage[o] = "initiated"
  BY DEF ProcessDestinationHello
<1>4. /\ \A x \in BagToSet(wire') : wire'[x] = 1
      /\ UnderWay' = (UnderWay \ {<<"destination_hello", m.by>>}) \union {<<"finished", o>>}
  <2> DEFINE new == [kind |-> "finished", to |-> Other(m.to), sid |-> m.sid, by |-> o,
                     keys |-> <<o, m.by>>]
  <2>1. wire' = Put(Drop(wire, m), {new})
    BY <1>0 DEF ProcessDestinationHello, HandshakeMsg
  <2>2. new.kind = "finished" /\ new.by = o
    OBVIOUS
  <2> HIDE DEF new
  <2>3. {new} \intersect BagToSet(wire) = {}
    BY <1>3, <2>2, MessageTypes DEF MessageIs
  <2>4. {<<x.kind, x.by>> : x \in {new}} = {<<"finished", o>>}
    BY <2>2
  <2>5. PICK ms : ms = {new}
    OBVIOUS
  <2>6. /\ \A x \in BagToSet(wire') : wire'[x] = 1
        /\ UnderWay' = (UnderWay \ {<<m.kind, m.by>>}) \union {<<x.kind, x.by>> : x \in ms}
    BY <2>1, <2>3, <2>5, TakenAndPut
  <2> QED BY <1>0, <2>4, <2>5, <2>6
<1>5. <<"finished", m.by>> \in UnderWay /\ \A q \in Made : role[q] = "dst" /\ peerOf[q] = o => q = m.by
  <2>1. CalmObject(m.by)
    BY <1>0
  <2> QED BY <1>0, <1>3, <2>1 DEF CalmObject
<1>6. ASSUME NEW q \in Made PROVE CalmObject(q)'
  <2>1. CalmObject(q) /\ ObjectIs(q)
    BY DEF ObjectsInv
  <2>2. stage'[q] \in {"initiated", "completing"} => pending'[owner'[q]][sidOf'[q]] = q
    BY <1>2, <1>3, <2>1 DEF CalmObject
  <2>3. /\ <<"source_hello", q>> \in UnderWay' <=> <<"source_hello", q>> \in UnderWay
        /\ <<"destination_hello", q>> \in UnderWay' <=>
             <<"destination_hello", q>> \in UnderWay /\ q # m.by
        /\ <<"finished", q>> \in UnderWay' <=> <<"finished", q>> \in UnderWay \/ q = o
    BY <1>4
  <2>4. \A p \in Made : role[p] = "dst" => peerOf'[p] = peerOf[p] /\ p # o
    BY <1>0, <1>2
  <2>5. role'[q] = "src" =>
           (<<"source_hello", q>> \in UnderWay' <=>
              \A p \in Made' : role'[p] = "dst" => peerOf'[p] # q)
    <3>1. (\A p \in Made' : role'[p] = "dst" => peerOf'[p] # q)
             <=> (\A p \in Made : role[p] = "dst" => peerOf[p] # q)
      BY <1>1, <1>2, <2>4
    <3> QED BY <1>2, <2>1, <2>3, <3>1 DEF CalmObject
  <2>6. role'[q] = "dst" =>
           /\ \A p \in Made' : role'[p] = "dst" /\ peerOf'[p] = peerOf'[q] => p = q
           /\ <<"destination_hello", q>> \in UnderWay' <=> stage'[peerOf'[q]] = "initiated"
           /\ stage'[peerOf'[q]] = "initiated" => <<"finished", q>> \in UnderWay'
    <3> SUFFICES ASSUME role[q] = "dst"
                 PROVE  /\ \A p \in Made' : role'[p] = "dst" /\ peerOf'[p] = peerOf[q] => p = q
                        /\ <<"destination_hello", q>> \in UnderWay' <=> stage'[peerOf[q]] = "initiated"
                        /\ stage'[peerOf[q]] = "initiated" => <<"finished", q>> \in UnderWay'
      BY <1>2, <2>4
    <3>1. \A p \in Made' : role'[p] = "dst" /\ peerOf'[p] = peerOf[q] => p = q
      BY <1>1, <1>2, <2>1, <2>4 DEF CalmObject
    <3>2. CASE q = m.by
      BY <1>0, <1>2, <2>3, <3>1, <3>2
    <3>3. CASE q # m.by
      <4>1. peerOf[q] # o /\ peerOf[q] \in Made
        BY <1>5, <2>1, <3>3 DEF ObjectIs
      <4>2. stage'[peerOf[q]] = stage[peerOf[q]]
        BY <1>2, <4>1
      <4> QED BY <2>1, <2>3, <3>1, <3>3, <4>2 DEF CalmObject
    <3> QED BY <3>2, <3>3
  <2>7. stage'[q] = "completing" /\ stage'[peerOf'[q]] # "initiated" =>
           <<"finished", peerOf'[q]>> \in UnderWay'
    <3>1. CASE q = o
      BY <1>2, <1>4, <1>5, <3>1
    <3>2. CASE q = m.by
      BY <1>0, <1>2, <1>4, <3>2
    <3>3. CASE q # o /\ q # m.by /\ stage[q] = "completing"
      <4>1. peerOf[q] # o /\ peerOf[q] \in Made
        BY <1>0, <1>5, <2>1, <3>3 DEF ObjectIs
      <4>2. stage'[peerOf[q]] = stage[peerOf[q]] /\ peerOf'[q] = peerOf[q]
        BY <1>2, <3>3, <4>1
      <4> QED BY <1>4, <2>1, <3>3, <4>2 DEF CalmObject
    <3> QED BY <1>2, <3>1, <3>2, <3>3
  <2>8. <<"finished", q>> \in UnderWay' => stage'[peerOf'[q]] # "active"
    <3>1. CASE q = o
      BY <1>0, <1>2, <3>1
    <3>2. CASE q # o /\ <<"finished", q>> \in UnderWay
      <4>1. stage[q] # "initiated" /\ peerOf'[q] = peerOf[q]
        BY <1>2, <3>2, UnderWayIs
      <4>2. peerOf[q] \in Made
        BY <2>1, <4>1 DEF ObjectIs
      <4>3. stage[peerOf[q]] # "active"
        BY <2>1, <3>2 DEF CalmObject
      <4> QED BY <1>2, <4>1, <4>2, <4>3
    <3> QED BY <2>3, <3>1, <3>2
  <2> QED BY <2>2, <2>5, <2>6, <2>7, <2>8 DEF CalmObject
<1> QED BY <1>1, <1>4, <1>6

\* A session that becomes active.
LEMMA FinishedCalm ==
  ASSUME HandshakeAssumption, HandshakeTypes, ObjectsInv, ManagersInv, MessagesInv,
         \A x \in BagToSet(wire) : wire[x] = 1, \A q \in Made : CalmObject(q),
         NEW m \in BagToSet(wire), NEW o \in Made, ProcessFinished(m, o)
  PROVE  (\A x \in BagToSet(wire') : wire'[x] = 1) /\ (\A q \in Made' : CalmObject(q)')
<1> USE DEF HandshakeTypes
<1>0. /\ m.to \in Ends /\ m.sid \in Obj /\ m.by \in Made /\ m.by # o
      /\ owner[o] = m.to /\ sidOf[o] = m.sid /\ stage[o] = "completing"
      /\ m.kind = "finished" /\ peerOf[o] = m.by /\ peerOf[m.by] = o
      /\ role[m.by] # role[o]
  BY FinishedIs
<1>1. Made' = Made /\ Made \subseteq Obj /\ NoObj \notin Made /\ \A q \in Made : owner[q] \in Ends
  <2>1. Made \subseteq Obj /\ NoObj \notin Made /\ \A q \in Made : owner[q] \in Ends
    BY DEF Made, HandshakeAssumption
  <2> QED BY <2>1, MadeStays DEF ProcessFinished
<1>2. \A q \in Made :
        /\ owner'[q] = owner[q] /\ role'[q] = role[q] /\ sidOf'[q] = sidOf[q]
        /\ stage'[q] = IF q = o THEN "active" ELSE stage[q]
        /\ peerOf'[q] = peerOf[q]
  BY <1>1 DEF ProcessFinished
<1>3. \A d \in Ends, s \in Obj :
        pending'[d][s] = IF d = m.to /\ s = m.sid THEN NoObj ELSE pending[d][s]
  BY <1>0 DEF ProcessFinished
<1>4. /\ \A x \in BagToSet(wire') : wire'[x] = 1
      /\ UnderWay' = UnderWay \ {<<"finished", m.by>>}
  BY <1>0, MessageTaken DEF ProcessFinished
<1>5. pending[m.to][m.sid] = o
  BY DEF ProcessFinished
<1>6. ASSUME NEW q \in Made PROVE CalmObject(q)'
  <2>1. CalmObject(q) /\ ObjectIs(q) /\ CalmObject(o) /\ ObjectIs(o)
    BY DEF ObjectsInv
  <2>2. stage'[q] \in {"initiated", "completing"} => pending'[owner'[q]][sidOf'[q]] = q
    <3> SUFFICES ASSUME q # o, stage[q] \in {"initiated", "completing"}
                 PROVE  pending'[owner[q]][sidOf[q]] = q
      BY <1>2
    <3>1. pending[owner[q]][sidOf[q]] = q
      BY <2>1 DEF CalmObject
    <3>2. owner[q] \in Ends /\ sidOf[q] \in Obj
      BY <1>1
    <3> QED BY <1>3, <1>5, <3>1, <3>2
  <2>3. /\ <<"source_hello", q>> \in UnderWay' <=> <<"source_hello", q>> \in UnderWay
        /\ <<"destination_hello", q>> \in UnderWay' <=> <<"destination_hello", q>> \in UnderWay
        /\ <<"finished", q>> \in UnderWay' <=> <<"finished", q>> \in UnderWay /\ q # m.by
    BY <1>4
  <2>4. role'[q] = "src" =>
           (<<"source_hello", q>> \in UnderWay' <=>
              \A p \in Made' : role'[p] = "dst" => peerOf'[p] # q)
    <3>1. (\A p \in Made' : role'[p] = "dst" => peerOf'[p] # q)
             <=> (\A p \in Made : role[p] = "dst" => peerOf[p] # q)
      BY <1>1, <1>2
    <3> QED BY <1>2, <2>1, <2>3, <3>1 DEF CalmObject
  <2>5. peerOf[q] \in Made =>
          /\ stage'[peerOf[q]] = "initiated" <=> stage[peerOf[q]] = "initiated"
          /\ peerOf[q] # o => stage'[peerOf[q]] = stage[peerOf[q]]
    BY <1>0, <1>2
  <2>6. role'[q] = "dst" =>
           /\ \A p \in Made' : role'[p] = "dst" /\ peerOf'[p] = peerOf'[q] => p = q
           /\ <<"destination_hello", q>> \in UnderWay' <=> stage'[peerOf'[q]] = "initiated"
           /\ stage'[peerOf'[q]] = "initiated" => <<"finished", q>> \in UnderWay'
    <3> SUFFICES ASSUME role[q] = "dst"
                 PROVE  /\ \A p \in Made : role[p] = "dst" /\ peerOf[p] = peerOf[q] => p = q
                        /\ <<"destination_hello", q>> \in UnderWay' <=> stage'[peerOf[q]] = "initiated"
                        /\ stage'[peerOf[q]] = "initiated" => <<"finished", q>> \in UnderWay'
      BY <1>1, <1>2
    <3>1. peerOf[q] \in Made
      BY <2>1 DEF ObjectIs
    <3>2. q = m.by => stage[peerOf[q]] # "initiated"
      BY <1>0
    <3> QED BY <2>1, <2>3, <2>5, <3>1, <3>2 DEF CalmObject
  <2>7. stage'[q] = "completing" /\ stage'[peerOf'[q]] # "initiated" =>
           <<"finished", peerOf'[q]>> \in UnderWay'
    <3> SUFFICES ASSUME q # o, stage[q] = "completing", stage'[peerOf[q]] # "initiated"
                 PROVE  <<"finished", peerOf[q]>> \in UnderWay'
      BY <1>2
    <3>1. peerOf[q] \in Made
      BY <2>1 DEF ObjectIs
    <3>2. <<"finished", peerOf[q]>> \in UnderWay
      BY <2>1, <2>5, <3>1 DEF CalmObject
    <3>3. peerOf[q] # m.by
      <4>1. CASE role[q] = "src"
        BY <1>0, <2>1, <4>1 DEF ObjectIs
      <4>2. CASE role[q] = "dst"
        <5> SUFFICES ASSUME peerOf[q] = m.by PROVE FALSE
          OBVIOUS
        <5>1. role[o] = "dst"
          BY <1>0, <2>1, <4>2 DEF ObjectIs
        <5> QED BY <1>0, <2>1, <4>2, <5>1 DEF CalmObject
      <4> QED BY <2>1, <4>1, <4>2 DEF ObjectIs
    <3> QED BY <1>4, <3>2, <3>3
  <2>8. <<"finished", q>> \in UnderWay' => stage'[peerOf'[q]] # "active"
    <3> SUFFICES ASSUME <<"finished", q>> \in UnderWay, q # m.by
                 PROVE  stage'[peerOf[q]] # "active"
      BY <1>2, <2>3
    <3>1. stage[q] # "initiated"
      BY UnderWayIs
    <3>2. peerOf[q] \in Made /\ stage[peerOf[q]] # "active"
      BY <2>1, <3>1 DEF ObjectIs, CalmObject
    <3>3. peerOf[q] # o
      <4>1. CASE role[q] = "src"
        BY <1>0, <2>1, <3>1, <4>1 DEF ObjectIs
      <4>2. CASE role[q] = "dst"
        <5> SUFFICES ASSUME peerOf[q] = o PROVE FALSE
          OBVIOUS
        <5>1. role[m.by] = "dst"
          <6>1. role[o] = "src"
            BY <2>1, <4>2 DEF ObjectIs
          <6>2. ObjectIs(m.by)
            BY <1>0 DEF ObjectsInv
          <6> QED BY <1>0, <6>1, <6>2 DEF ObjectIs
        <5> QED BY <1>0, <2>1, <4>2, <5>1 DEF CalmObject
      <4> QED BY <2>1, <4>1, <4>2 DEF ObjectIs
    <3> QED BY <2>5, <3>2, <3>3
  <2> QED BY <2>2, <2>4, <2>6, <2>7, <2>8 DEF CalmObject
<1> QED BY <1>1, <1>4, <1>6

\* The answer of a session finds the initiator waiting for it.
LEMMA NoAnswerRefused ==
  ASSUME HandshakeAssumption, HandshakeTypes, ObjectsInv, MessagesInv,
         \A q \in Made : CalmObject(q),
         NEW m \in BagToSet(wire), RefuseDestinationHello(m)
  PROVE  FALSE
<1>1. MessageIs(m) /\ m.by \in Made /\ m.kind = "destination_hello"
  BY MessageTypes DEF RefuseDestinationHello
<1>2. ObjectIs(m.by) /\ CalmObject(m.by) /\ role[m.by] = "dst"
  BY <1>1 DEF ObjectsInv, MessageIs
<1>3. <<"destination_hello", m.by>> \in UnderWay
  BY <1>1 DEF UnderWay
<1>4. PICK s \in Made : peerOf[m.by] = s /\ role[s] = "src" /\ owner[s] # owner[m.by]
  BY <1>2 DEF ObjectIs
<1>5. stage[s] = "initiated"
  BY <1>2, <1>3, <1>4 DEF CalmObject
<1>6. sidOf[s] = s /\ pending[owner[s]][sidOf[s]] = s
  BY <1>4, <1>5 DEF ObjectsInv, ObjectIs, CalmObject
<1>7. m.sid = s /\ m.to = owner[s]
  <2>1. owner[s] \in Ends /\ owner[m.by] \in Ends
    BY <1>1 DEF Made, HandshakeTypes
  <2> QED BY <1>1, <1>2, <1>4, <2>1, TwoEnds DEF MessageIs, ObjectIs
<1>8. s # NoObj
  BY DEF Made, HandshakeAssumption
<1> QED BY <1>5, <1>6, <1>7, <1>8 DEF RefuseDestinationHello

\* So does a Finished, unless it came before the hello it follows.
LEMMA NoFinishedRefused ==
  ASSUME HandshakeAssumption, HandshakeTypes, ObjectsInv, MessagesInv,
         \A q \in Made : CalmObject(q),
         NEW m \in BagToSet(wire), RefuseFinished(m), ~overtaken'
  PROVE  FALSE
<1> DEFINE b == m.by
           r == peerOf[b]
<1>1. MessageIs(m) /\ b \in Made /\ m.kind = "finished"
  BY MessageTypes DEF RefuseFinished
<1>2. ObjectIs(b) /\ CalmObject(b) /\ stage[b] # "initiated" /\ m.keys = KeyPair(b)
  BY <1>1 DEF ObjectsInv, MessageIs
<1>3. <<"finished", b>> \in UnderWay
  BY <1>1 DEF UnderWay
<1>4. r \in Made
  BY <1>2 DEF ObjectIs
<1>5. ObjectIs(r) /\ CalmObject(r) /\ stage[r] # "active"
  BY <1>2, <1>3, <1>4 DEF ObjectsInv, CalmObject
<1>6. /\ role[b] = "src" => role[r] = "dst" /\ peerOf[r] = b
      /\ role[b] = "dst" => role[r] = "src"
      /\ role[b] \in {"src", "dst"} /\ role[r] \in {"src", "dst"}
  BY <1>2, <1>5 DEF ObjectIs
<1>7. owner[r] # owner[b] /\ sidOf[r] = sidOf[b]
  BY <1>2, <1>5, <1>6 DEF ObjectIs
<1>8. m.sid = sidOf[r] /\ m.to = owner[r]
  <2>1. owner[r] \in Ends /\ owner[b] \in Ends
    BY <1>1, <1>4 DEF Made, HandshakeTypes
  <2> QED BY <1>1, <1>7, <2>1, TwoEnds DEF MessageIs
<1>9. r # NoObj
  BY <1>4 DEF Made, HandshakeAssumption
<1>10. stage[r] \in {"initiated", "completing"}
  <2>1. r \in Obj
    BY <1>4 DEF Made
  <2>2. stage[r] \in {"idle", "initiated", "completing", "active"}
    BY <1>1, <2>1 DEF HandshakeTypes
  <2>3. stage[r] # "idle"
    BY <1>5, <1>6 DEF ObjectIs
  <2> QED BY <1>5, <2>2, <2>3
<1>11. pending[m.to][m.sid] = r
  BY <1>5, <1>8, <1>10 DEF CalmObject
<1>12. CASE stage[r] = "initiated"
  <2>1. role[b] = "dst"
    BY <1>5, <1>6, <1>12 DEF ObjectIs
  <2>2. <<"destination_hello", b>> \in UnderWay
    BY <1>2, <1>12, <2>1 DEF CalmObject
  <2>3. PICK d \in BagToSet(wire) : d.kind = "destination_hello" /\ d.by = b
    BY <2>2 DEF UnderWay
  <2>4. d.to = m.to /\ d.sid = m.sid
    BY <1>1, <2>3, MessageTypes DEF MessageIs
  <2> QED BY <1>9, <1>11, <2>3, <2>4 DEF RefuseFinished
<1>13. CASE stage[r] = "completing"
  <2>1. peerOf[r] = b
    <3>1. CASE role[b] = "dst"
      <4>1. role[r] = "src" /\ peerOf[r] \in Made /\ role[peerOf[r]] = "dst" /\ peerOf[peerOf[r]] = r
        BY <1>5, <1>6, <1>13, <3>1 DEF ObjectIs
      <4> QED BY <1>2, <3>1, <4>1 DEF CalmObject
    <3> QED BY <1>6, <3>1
  <2>2. KeyPair(r) = KeyPair(b) /\ b # r
    BY <1>6, <2>1 DEF KeyPair
  <2> QED BY <1>2, <1>9, <1>11, <1>13, <2>2 DEF RefuseFinished, Verifies
<1> QED BY <1>10, <1>12, <1>13

\* Objects that are removed are active: none that waits shares its end and session id.
LEMMA RemoveCalm ==
  ASSUME HandshakeAssumption, HandshakeTypes, ObjectsInv, ManagersInv,
         \A x \in BagToSet(wire) : wire[x] = 1, \A q \in Made : CalmObject(q),
         NEW e \in Ends, NEW o \in Obj, RemoveSession(e, o)
  PROVE  (\A x \in BagToSet(wire') : wire'[x] = 1) /\ (\A q \in Made' : CalmObject(q)')
<1>1. o \in Made /\ owner[o] = e /\ stage[o] = "active"
  BY DEF RemoveSession, ManagersInv, HandshakeTypes
<1>2. UNCHANGED <<owner, stage, role, sidOf, peerOf, wire>>
  BY DEF RemoveSession, objVars
<1>3. Made' = Made /\ UnderWay' = UnderWay
  BY <1>2, MadeStays DEF UnderWay
<1>4. ASSUME NEW q \in Made, stage[q] \in {"initiated", "completing"}
      PROVE  pending'[owner[q]][sidOf[q]] = q
  <2>1. ~(owner[q] = e /\ sidOf[q] = sidOf[o])
    <3> SUFFICES ASSUME owner[q] = e, sidOf[q] = sidOf[o] PROVE FALSE
      OBVIOUS
    <3>1. ObjectIs(q) /\ ObjectIs(o) /\ CalmObject(q) /\ q # o
      BY <1>1, <1>4 DEF ObjectsInv
    <3>2. role[q] \in {"src", "dst"} /\ role[o] \in {"src", "dst"}
      BY <3>1 DEF ObjectIs
    <3>3. CASE role[q] = "src"
      BY <1>1, <3>1, <3>2, <3>3 DEF ObjectIs
    <3>4. CASE role[q] = "dst" /\ role[o] = "src"
      BY <1>1, <3>1, <3>4 DEF ObjectIs
    <3>5. CASE role[q] = "dst" /\ role[o] = "dst"
      BY <1>1, <3>1, <3>5 DEF ObjectIs, CalmObject
    <3> QED BY <3>2, <3>3, <3>4, <3>5
  <2>2. pending' = [pending EXCEPT ![e][sidOf[o]] = NoObj]
    BY DEF RemoveSession
  <2>3. owner[q] \in Ends /\ sidOf[q] \in Obj /\ sidOf[o] \in Obj
    BY DEF Made, HandshakeTypes
  <2>4. pending'[owner[q]][sidOf[q]] = pending[owner[q]][sidOf[q]]
    BY <2>1, <2>2, <2>3 DEF HandshakeTypes
  <2> QED BY <1>4, <2>4 DEF CalmObject
<1>5. ASSUME NEW q \in Made PROVE CalmObject(q)'
  <2>1. CalmObject(q)
    OBVIOUS
  <2> QED BY <1>2, <1>3, <1>4, <2>1 DEF CalmObject
<1> QED BY <1>2, <1>3, <1>5

LEMMA CalmHandshakesStep ==
  ASSUME HandshakeAssumption, HandshakeTypes, ObjectsInv, ManagersInv, MessagesInv,
         CalmHandshakes, [HandshakeNext]_handshakeVars
  PROVE  CalmHandshakes'
<1> SUFFICES ASSUME mishaps' = 0, ~overtaken'
             PROVE  /\ expired' = {} /\ \A x \in BagToSet(wire') : wire'[x] = 1
                    /\ \A q \in Made' : CalmObject(q)'
  BY DEF CalmHandshakes
<1>0. ASSUME mishaps = 0, ~overtaken
      PROVE  /\ expired = {} /\ \A x \in BagToSet(wire) : wire[x] = 1
             /\ \A q \in Made : CalmObject(q)
  BY <1>0 DEF CalmHandshakes
<1>1. ~E2eeMishap
  BY DEF E2eeMishap, HandshakeTypes
<1>2. ASSUME NEW e \in Ends, NEW o \in Obj, InitiateHandshake(e, o)
      PROVE  /\ expired' = {} /\ \A x \in BagToSet(wire') : wire'[x] = 1
             /\ \A q \in Made' : CalmObject(q)'
  <2>1. UNCHANGED <<expired, mishaps, overtaken>>
    BY <1>2 DEF InitiateHandshake
  <2> QED BY <1>0, <1>2, <2>1, InitiateCalm
<1>3. ASSUME NEW m \in BagToSet(wire), NEW o \in Obj, ProcessSourceHello(m, o)
      PROVE  /\ expired' = {} /\ \A x \in BagToSet(wire') : wire'[x] = 1
             /\ \A q \in Made' : CalmObject(q)'
  <2>1. UNCHANGED <<expired, mishaps, overtaken>>
    BY <1>3 DEF ProcessSourceHello
  <2> QED BY <1>0, <1>3, <2>1, SourceHelloCalm
<1>4. ASSUME NEW m \in BagToSet(wire), NEW o \in Made, ProcessDestinationHello(m, o)
      PROVE  /\ expired' = {} /\ \A x \in BagToSet(wire') : wire'[x] = 1
             /\ \A q \in Made' : CalmObject(q)'
  <2>1. UNCHANGED <<expired, mishaps, overtaken>>
    BY <1>4 DEF ProcessDestinationHello, managerVars
  <2> QED BY <1>0, <1>4, <2>1, DestinationHelloCalm
<1>5. ASSUME NEW m \in BagToSet(wire), NEW o \in Made, ProcessFinished(m, o)
      PROVE  /\ expired' = {} /\ \A x \in BagToSet(wire') : wire'[x] = 1
             /\ \A q \in Made' : CalmObject(q)'
  <2>1. UNCHANGED <<expired, mishaps, overtaken>>
    BY <1>5 DEF ProcessFinished
  <2> QED BY <1>0, <1>5, <2>1, FinishedCalm
<1>6. ASSUME NEW m \in BagToSet(wire), RefuseDestinationHello(m)
      PROVE  FALSE
  <2>1. UNCHANGED <<mishaps, overtaken>>
    BY <1>6 DEF RefuseDestinationHello, Refuse
  <2> QED BY <1>0, <1>6, <2>1, NoAnswerRefused
<1>7. ASSUME NEW m \in BagToSet(wire), RefuseFinished(m)
      PROVE  FALSE
  <2>1. UNCHANGED mishaps /\ ~overtaken
    BY <1>7 DEF RefuseFinished, Refuse
  <2> QED BY <1>0, <1>7, <2>1, NoFinishedRefused
<1>8. ASSUME NEW e \in Ends, NEW o \in Obj, RemoveSession(e, o)
      PROVE  /\ expired' = {} /\ \A x \in BagToSet(wire') : wire'[x] = 1
             /\ \A q \in Made' : CalmObject(q)'
  <2>1. UNCHANGED <<expired, mishaps, overtaken>>
    BY <1>8 DEF RemoveSession
  <2> QED BY <1>0, <1>8, <2>1, RemoveCalm
<1>9. ASSUME NEW e \in Ends, CleanupExpired(e)
      PROVE  FALSE
  <2>1. UNCHANGED <<mishaps, overtaken>> /\ expired # {}
    BY <1>9 DEF CleanupExpired
  <2> QED BY <1>0, <2>1
<1>10. CASE UNCHANGED handshakeVars
  <2>1. UNCHANGED <<mishaps, overtaken, expired, wire, pending, owner, stage, role, sidOf, peerOf>>
    BY <1>10 DEF handshakeVars, managerVars, objVars
  <2>2. Made' = Made /\ UnderWay' = UnderWay
    BY <2>1, MadeStays DEF UnderWay
  <2>3. ASSUME NEW q \in Made PROVE CalmObject(q)'
    <3>1. CalmObject(q)
      BY <1>0, <2>1
    <3> QED BY <2>1, <2>2, <3>1 DEF CalmObject
  <2> QED BY <1>0, <2>1, <2>2, <2>3
<1>11. /\ \A m : ~Lose(m) /\ ~Repeat(m)
       /\ \A e, s : ~TimeoutPending(e, s)
       /\ \A o : ~Expire(o)
  BY <1>1 DEF Lose, Repeat, TimeoutPending, Expire
<1> QED BY <1>2, <1>3, <1>4, <1>5, <1>6, <1>7, <1>8, <1>9, <1>10, <1>11
        DEF HandshakeNext, Deliver

-----------------------------------------------------------------------------
(* E2eeHandshake: the theorems *)

\* What is inductive holds of every behaviour: handshakes are numbered, messages say what
\* their senders are and, as long as nothing goes wrong, every answer is under way to an
\* object that waits for it (session.py:180-345, key_manager.py:80-205).
THEOREM HandshakeInvariance == HandshakeAssumption /\ HandshakeSpec => []HandshakeIInv
<1> SUFFICES ASSUME HandshakeAssumption PROVE HandshakeSpec => []HandshakeIInv
  OBVIOUS
<1>1. HandshakeInit => HandshakeIInv
  <2> SUFFICES ASSUME HandshakeInit PROVE HandshakeIInv
    OBVIOUS
  <2> USE DEF HandshakeInit
  <2>1. Made = {}
    BY DEF Made
  <2>2. IsABag(wire) /\ BagToSet(wire) = {}
    BY DEF IsABag, BagToSet, EmptyBag, SetToBag
  <2>3. HandshakeTypes
    <3>1. /\ owner \in [Obj -> Ends \union {NoObj}]
          /\ stage \in [Obj -> {"idle", "initiated", "completing", "active"}]
          /\ role \in [Obj -> {"none", "src", "dst"}]
          /\ sidOf \in [Obj -> Obj]
          /\ peerOf \in [Obj -> Obj \union {NoObj}]
      OBVIOUS
    <3>2. pending \in [Ends -> [Obj -> Obj \union {NoObj}]]
      OBVIOUS
    <3>3. byKey \in [Ends -> SUBSET Made] /\ expired \subseteq Made
      OBVIOUS
    <3>4. mishaps \in 0 .. MaxE2eeMishaps
      <4>1. mishaps = 0 /\ MaxE2eeMishaps \in Nat
        BY DEF HandshakeAssumption
      <4> HIDE DEF HandshakeInit
      <4> QED BY <4>1
    <3>5. overtaken \in BOOLEAN
      OBVIOUS
    <3> QED BY <2>2, <3>1, <3>2, <3>3, <3>4, <3>5 DEF HandshakeTypes
  <2>4. ObjectsInv
    <3>1. Made = 1 .. 0 /\ 0 \in 0 .. MaxObj
      BY <2>1 DEF HandshakeAssumption
    <3> QED BY <2>1, <3>1 DEF ObjectsInv
  <2>5. ManagersInv
    BY DEF ManagersInv
  <2>6. MessagesInv /\ CalmHandshakes
    BY <2>1, <2>2 DEF MessagesInv, CalmHandshakes
  <2> QED BY <2>3, <2>4, <2>5, <2>6 DEF HandshakeIInv
<1>2. HandshakeIInv /\ [HandshakeNext]_handshakeVars => HandshakeIInv'
  BY HandshakeTypesStep, StateKeeps, CalmHandshakesStep DEF HandshakeIInv
<1> QED BY <1>1, <1>2, PTL DEF HandshakeSpec

\* What is inductive says that an active end is not alone.
LEMMA InvImpliesMutual ==
  ASSUME HandshakeAssumption, HandshakeIInv, NEW o \in Made, stage[o] = "active"
  PROVE  \E p \in Made :
           /\ owner[p] # owner[o] /\ KeyPair(p) = KeyPair(o) /\ stage[p] \in {"completing", "active"}
           /\ \A q \in Made \ {o, p} : peerOf[q] # NoObj => KeyPair(q) # KeyPair(o)
<1> DEFINE p == peerOf[o]
<1>1. ObjectIs(o) /\ NoObj \notin Made
  BY DEF HandshakeIInv, ObjectsInv, Made, HandshakeAssumption
<1>2. p \in Made /\ peerOf[p] = o
  BY <1>1 DEF ObjectIs
<1>3. ObjectIs(p) /\ p # NoObj
  BY <1>1, <1>2 DEF HandshakeIInv, ObjectsInv
<1>4. /\ role[o] \in {"src", "dst"} /\ role[p] \in {"src", "dst"} /\ role[o] # role[p]
      /\ owner[p] # owner[o]
  BY <1>1, <1>2, <1>3 DEF ObjectIs
<1>5. stage[p] \in {"completing", "active"}
  <2>1. stage[p] \in {"idle", "initiated", "completing", "active"}
    BY <1>2 DEF HandshakeIInv, HandshakeTypes, Made
  <2>2. o # NoObj
    BY <1>1
  <2> QED BY <1>2, <1>3, <1>4, <2>1, <2>2 DEF ObjectIs
<1>6. KeyPair(p) = KeyPair(o)
  BY <1>2, <1>4 DEF KeyPair
<1>7. \A q \in Made \ {o, p} : KeyPair(q) # KeyPair(o)
  <2> TAKE q \in Made \ {o, p}
  <2>1. \A a, b, c, d : <<a, b>> = <<c, d>> => a = c /\ b = d
    OBVIOUS
  <2>2. KeyPair(q) \in {<<q, peerOf[q]>>, <<peerOf[q], q>>}
    BY DEF KeyPair
  <2>3. role[q] \in {"src", "dst"}
    BY DEF HandshakeIInv, ObjectsInv, ObjectIs
  <2>4. /\ role[q] = "src" => KeyPair(q) = <<q, peerOf[q]>>
        /\ role[q] = "dst" => KeyPair(q) = <<peerOf[q], q>>
        /\ role[o] = "src" => KeyPair(o) = <<o, p>>
        /\ role[o] = "dst" => KeyPair(o) = <<p, o>>
    BY DEF KeyPair
  <2> QED BY <1>4, <2>1, <2>3, <2>4
<1> QED BY <1>2, <1>4, <1>5, <1>6, <1>7

\* And that a calm handshake is complete once nothing is under way.
LEMMA InvImpliesCompletes ==
  ASSUME HandshakeAssumption, HandshakeIInv, mishaps = 0, ~overtaken, BagToSet(wire) = {},
         NEW o \in Made
  PROVE  stage[o] = "active" /\ \A e \in Ends : pending[e][o] = NoObj
<1>1. ASSUME NEW q \in Made PROVE ObjectIs(q) /\ CalmObject(q)
  BY DEF HandshakeIInv, ObjectsInv, CalmHandshakes
<1>2. UnderWay = {}
  BY DEF UnderWay
<1>3. ASSUME NEW q \in Made PROVE stage[q] # "initiated"
  <2> SUFFICES ASSUME stage[q] = "initiated" PROVE FALSE
    OBVIOUS
  <2>1. role[q] = "src"
    BY <1>1 DEF ObjectIs
  <2>2. PICK p \in Made : role[p] = "dst" /\ peerOf[p] = q
    BY <1>1, <1>2, <2>1 DEF CalmObject
  <2>3. CalmObject(p)
    BY <1>1
  <2> QED BY <1>2, <2>2, <2>3 DEF CalmObject
<1>4. ASSUME NEW q \in Made PROVE stage[q] = "active"
  <2>1. ObjectIs(q) /\ CalmObject(q) /\ stage[q] # "initiated"
    BY <1>1, <1>3
  <2>2. peerOf[q] \in Made
    BY <2>1 DEF ObjectIs
  <2>3. stage[peerOf[q]] # "initiated"
    BY <1>3, <2>2
  <2>4. stage[q] # "completing"
    BY <1>2, <2>1, <2>3 DEF CalmObject
  <2>5. stage[q] \in {"idle", "initiated", "completing", "active"}
    BY DEF HandshakeIInv, HandshakeTypes, Made
  <2> QED BY <2>1, <2>4, <2>5 DEF ObjectIs
<1>5. ASSUME NEW e \in Ends PROVE pending[e][o] = NoObj
  <2>1. o \in Obj
    BY DEF Made
  <2>2. ManagersInv
    BY DEF HandshakeIInv
  <2> QED BY <1>4, <2>1, <2>2 DEF ManagersInv
<1> QED BY <1>4, <1>5

\* An end that is active is not alone, and a calm handshake ends with both ends active
\* (session.py:248-345, key_manager.py:150-205).
THEOREM EndsMatch == HandshakeAssumption /\ HandshakeSpec => []HandshakesMatch
<1> SUFFICES ASSUME HandshakeAssumption PROVE HandshakeSpec => []HandshakesMatch
  OBVIOUS
<1>1. HandshakeIInv => HandshakesMatch
  BY InvImpliesMutual, InvImpliesCompletes DEF HandshakesMatch, ActiveIsMutual, CalmCompletes
<1> QED BY <1>1, HandshakeInvariance, PTL

-----------------------------------------------------------------------------
(* HpkeGroup *)

HeldKey == [id : KeyId, chain : SenderChain, recv : Nat]
GroupDist == [to : Member, id : KeyId, chain : SenderChain]
GroupPost == [id : KeyId, chain : SenderChain]

\* A sender's own id, and what it sends, have their types.
LEMMA OwnIdType ==
  ASSUME GroupTypeOK, NEW m \in Member, local[m] # Nobody
  PROVE  /\ OwnId(m) \in KeyId /\ local[m] \in [chain : SenderChain, drawn : Epoch]
         /\ local[m].chain \in SenderChain
<1>1. local[m] \in [chain : SenderChain, drawn : Epoch] /\ epoch[m] \in Epoch
  BY DEF GroupTypeOK
<1> QED BY <1>1 DEF OwnId, KeyId

\* The steps keep the types.
LEMMA GroupTypesStep ==
  ASSUME GroupAssumption, GroupTypeOK, [GroupNext]_groupVars
  PROVE  GroupTypeOK'
<1>1. CASE UNCHANGED groupVars
  BY <1>1 DEF GroupTypeOK, groupVars
<1>2. ASSUME NEW m \in Speaker, GenerateSenderKey(m) PROVE GroupTypeOK'
  <2>1. m \in Member /\ draws[m] + 1 \in Draw /\ draws[m] + 1 \in 0 .. MaxDraws
    BY <1>2 DEF GroupAssumption, GroupTypeOK, GenerateSenderKey, Draw
  <2>2. [draw |-> draws[m] + 1, at |-> 0] \in SenderChain /\ epoch[m] \in Epoch
    BY <2>1 DEF SenderChain, GroupTypeOK
  <2>3. /\ draws' \in [Member -> 0 .. MaxDraws]
        /\ local' \in [Member -> [chain : SenderChain, drawn : Epoch] \union {Nobody}]
    BY <1>2, <2>1, <2>2 DEF GenerateSenderKey, GroupTypeOK
  <2> QED BY <1>2, <2>3 DEF GenerateSenderKey, GroupTypeOK
<1>3. ASSUME NEW m \in Speaker, Post(m) PROVE GroupTypeOK'
  <2>1. m \in Member /\ local[m] # Nobody
    BY <1>3 DEF GroupAssumption, Post
  <2>2. OwnId(m) \in KeyId /\ local[m].chain \in SenderChain /\ local[m].drawn \in Epoch
    BY <2>1, OwnIdType
  <2>3. [id |-> OwnId(m), chain |-> local[m].chain] \in GroupPost
    BY <2>2 DEF GroupPost
  <2>4. posts' \subseteq GroupPost /\ posts \subseteq posts'
    BY <1>3, <2>3 DEF Post, GroupTypeOK, GroupPost
  <2>5. [local[m].chain EXCEPT !.at = @ + 1] \in SenderChain
    BY <2>2 DEF SenderChain
  <2>6. local' \in [Member -> [chain : SenderChain, drawn : Epoch] \union {Nobody}]
    <3>1. [local[m] EXCEPT !.chain.at = @ + 1] \in [chain : SenderChain, drawn : Epoch]
      BY <2>1, <2>2, <2>5, OwnIdType
    <3> QED BY <1>3, <2>1, <3>1 DEF Post, GroupTypeOK
  <2>7. opened' \in [Member -> Seq(posts')]
    BY <1>3, <2>4 DEF Post, GroupTypeOK
  <2> QED BY <1>3, <2>4, <2>6, <2>7 DEF Post, GroupTypeOK, GroupPost
<1>4. ASSUME NEW m \in Speaker, NEW to \in Member, Distribute(m, to) PROVE GroupTypeOK'
  <2>1. m \in Member /\ local[m] # Nobody
    BY <1>4 DEF GroupAssumption, Distribute
  <2>2. OwnId(m) \in KeyId /\ local[m].chain \in SenderChain
    BY <2>1, OwnIdType
  <2>3. [to |-> to, id |-> OwnId(m), chain |-> local[m].chain] \in GroupDist
    BY <2>2 DEF GroupDist
  <2> QED BY <1>4, <2>3 DEF Distribute, GroupTypeOK, GroupDist
<1>5. ASSUME NEW d \in dists, ProcessSenderKey(d) PROVE GroupTypeOK'
  <2>1. d.to \in Member /\ d.id \in KeyId /\ d.chain \in SenderChain
    BY DEF GroupTypeOK
  <2>2. [id |-> d.id, chain |-> d.chain, recv |-> 0] \in HeldKey
    BY <2>1 DEF HeldKey
  <2> QED BY <1>5, <2>1, <2>2 DEF ProcessSenderKey, GroupTypeOK, HeldKey
<1>6. ASSUME NEW m \in Member, NEW k \in remote[m], NEW p \in posts, OpenPost(m, k, p)
      PROVE  GroupTypeOK'
  <2>1. k \in HeldKey
    BY DEF GroupTypeOK, HeldKey
  <2> DEFINE new == [id |-> k.id, chain |-> [k.chain EXCEPT !.at = @ + 1], recv |-> k.recv + 1]
  <2>2. new \in HeldKey
    <3>1. k.id \in KeyId /\ k.chain \in SenderChain /\ k.recv \in Nat
      BY <2>1 DEF HeldKey
    <3>2. [k.chain EXCEPT !.at = @ + 1] \in SenderChain
      BY <3>1 DEF SenderChain
    <3> QED BY <3>1, <3>2 DEF HeldKey
  <2>3. remote' \in [Member -> SUBSET HeldKey]
    BY <1>6, <2>2 DEF OpenPost, GroupTypeOK, HeldKey
  <2>4. opened' \in [Member -> Seq(posts)]
    BY <1>6 DEF OpenPost, GroupTypeOK
  <2> QED BY <1>6, <2>3, <2>4 DEF OpenPost, GroupTypeOK, HeldKey
<1>7. ASSUME NEW m \in Member, NEW e \in Epoch, AnnounceEpoch(m, e) \/ ProcessEpochAdvance(m, e)
      PROVE  GroupTypeOK'
  BY <1>7 DEF AnnounceEpoch, ProcessEpochAdvance, AdvanceTo, GroupTypeOK
<1>8. ASSUME NEW m \in Member, NEW k \in remote[m], Cleanup(m, k) PROVE GroupTypeOK'
  BY <1>8 DEF Cleanup, GroupTypeOK
<1> QED BY <1>1, <1>2, <1>3, <1>4, <1>5, <1>6, <1>7, <1>8 DEF GroupNext

\* What a member opened stays as it is unless it opens something.
LEMMA OpenedStays ==
  ASSUME UNCHANGED opened, NEW m, NEW id
  PROVE  OpenedOf(m, id)' = OpenedOf(m, id)
BY DEF OpenedOf

\* What m opened by another id is not touched by an opening, and its own is one longer.
LEMMA OpenedGrows ==
  ASSUME GroupTypeOK, NEW m \in Member, NEW k \in remote[m], NEW p \in posts, OpenPost(m, k, p)
  PROVE  LET n == Len(opened[m]) + 1 IN
         /\ n \notin OpenedOf(m, p.id)
         /\ OpenedOf(m, p.id)' = OpenedOf(m, p.id) \union {n}
         /\ \A id : id # p.id => OpenedOf(m, id)' = OpenedOf(m, id)
         /\ \A q, id : q \in Member /\ q # m => OpenedOf(q, id)' = OpenedOf(q, id)
         /\ \A i \in DOMAIN opened[m] : i < n /\ i \in Nat /\ opened'[m][i] = opened[m][i]
         /\ opened'[m][n] = p
         /\ \A q \in Member : q # m => opened'[q] = opened[q]
<1> DEFINE n == Len(opened[m]) + 1
<1>1. opened[m] \in Seq(posts) /\ opened'[m] = Append(opened[m], p)
      /\ \A q \in Member : q # m => opened'[q] = opened[q]
  BY DEF GroupTypeOK, OpenPost
<1>2. /\ DOMAIN opened[m] = 1 .. n - 1 /\ n \in Nat /\ DOMAIN opened'[m] = 1 .. n
      /\ n >= 1 /\ opened'[m][n] = p /\ \A i \in 1 .. n - 1 : opened'[m][i] = opened[m][i]
  BY <1>1
<1> HIDE DEF n
<1>3. n \notin OpenedOf(m, p.id)
  BY <1>2 DEF OpenedOf
<1>4. \A id : OpenedOf(m, id)' = {i \in 1 .. n : opened'[m][i].id = id}
  BY <1>2 DEF OpenedOf
<1>5. \A id : OpenedOf(m, id) = {i \in 1 .. n - 1 : opened[m][i].id = id}
  BY <1>2 DEF OpenedOf
<1>6. \A i : i \in 1 .. n <=> i \in 1 .. n - 1 \/ i = n
  BY <1>2
<1>7. OpenedOf(m, p.id)' = OpenedOf(m, p.id) \union {n}
  BY <1>2, <1>4, <1>5, <1>6
<1>8. \A id : id # p.id => OpenedOf(m, id)' = OpenedOf(m, id)
  <2> TAKE id
  <2> HAVE id # p.id
  <2>1. \A i : i \in OpenedOf(m, id)' <=> i \in 1 .. n /\ opened'[m][i].id = id
    BY <1>4
  <2>2. \A i : i \in OpenedOf(m, id) <=> i \in 1 .. n - 1 /\ opened[m][i].id = id
    BY <1>5
  <2>3. \A i : i \in OpenedOf(m, id)' <=> i \in OpenedOf(m, id)
    BY <1>2, <1>6, <2>1, <2>2
  <2> QED BY <2>3
<1>9. \A q, id : q \in Member /\ q # m => OpenedOf(q, id)' = OpenedOf(q, id)
  BY <1>1 DEF OpenedOf
<1> QED BY <1>1, <1>2, <1>3, <1>7, <1>8, <1>9 DEF n

\* The places of what was opened are finitely many numbers.
LEMMA OpenedFinite ==
  ASSUME GroupTypeOK, NEW m \in Member, NEW id
  PROVE  /\ IsFiniteSet(OpenedOf(m, id)) /\ OpenedOf(m, id) \subseteq DOMAIN opened[m]
         /\ OpenedOf(m, id) \subseteq Nat
<1>1. opened[m] \in Seq(posts)
  BY DEF GroupTypeOK
<1>2. DOMAIN opened[m] = 1 .. Len(opened[m]) /\ Len(opened[m]) \in Nat
  BY <1>1
<1>3. IsFiniteSet(1 .. Len(opened[m]))
  BY <1>2, FS_Interval
<1>4. OpenedOf(m, id) \subseteq 1 .. Len(opened[m])
  BY <1>2 DEF OpenedOf
<1> QED BY <1>2, <1>3, <1>4, FS_Subset

\* An opening keeps the order and what is inductive.
LEMMA OpenPostKeeps ==
  ASSUME GroupIInv, NEW m \in Member, NEW k \in remote[m], NEW p \in posts, OpenPost(m, k, p)
  PROVE  HeldKeysInv' /\ OpenedInv' /\ GroupInOrderOnce'
<1> DEFINE n == Len(opened[m]) + 1
           Of == OpenedOf(m, p.id)
           after == [id |-> k.id, chain |-> [k.chain EXCEPT !.at = @ + 1], recv |-> k.recv + 1]
<1>0. GroupTypeOK /\ HeldKeysInv /\ OpenedInv /\ GroupInOrderOnce
  BY DEF GroupIInv
<1>1. /\ n \notin Of /\ OpenedOf(m, p.id)' = Of \union {n}
      /\ \A id : id # p.id => OpenedOf(m, id)' = OpenedOf(m, id)
      /\ \A q, id : q \in Member /\ q # m => OpenedOf(q, id)' = OpenedOf(q, id)
      /\ \A i \in DOMAIN opened[m] : i < n /\ i \in Nat /\ opened'[m][i] = opened[m][i]
      /\ opened'[m][n] = p
      /\ \A q \in Member : q # m => opened'[q] = opened[q]
  BY <1>0, OpenedGrows
<1>2. IsFiniteSet(Of) /\ Of \subseteq DOMAIN opened[m] /\ Of \subseteq Nat /\ n \in Nat
  <2>1. opened[m] \in Seq(posts)
    BY <1>0 DEF GroupTypeOK
  <2> QED BY <1>0, <2>1, OpenedFinite
<1>3. Cardinality(Of \union {n}) = Cardinality(Of) + 1 /\ Cardinality(Of) \in Nat
  BY <1>1, <1>2, FS_AddElement, FS_CardinalityType
<1>4. /\ k.id = p.id /\ k.recv = p.chain.at /\ k.chain = p.chain
      /\ received' = received
      /\ \A q \in Member : q # m => remote'[q] = remote[q]
      /\ remote'[m] = (remote[m] \ {k}) \union {after}
  BY <1>0 DEF OpenPost, GroupTypeOK
<1>5. k \in HeldKey /\ \A l \in remote[m] : l \in HeldKey
  BY <1>0 DEF GroupTypeOK, HeldKey
<1>6. /\ after.id = k.id /\ after.recv = k.recv + 1
      /\ after.chain.draw = k.chain.draw
  BY <1>5 DEF HeldKey, SenderChain
<1>7. /\ k.id \in received[m] /\ k.recv = Cardinality(Of)
      /\ \A l \in remote[m] : l.id = k.id => l = k
      /\ \A i \in Of : opened[m][i].chain.draw = k.chain.draw
  BY <1>0, <1>4 DEF HeldKeysInv
<1>8. OpenedInv'
  <2> SUFFICES ASSUME NEW q \in Member, NEW i \in DOMAIN opened'[q]
               PROVE  opened'[q][i].id \in received[q]
    BY <1>4 DEF OpenedInv
  <2>1. CASE q # m
    BY <1>0, <1>1, <2>1 DEF OpenedInv
  <2>2. CASE q = m
    <3>1. i \in DOMAIN opened[m] \/ i = n
      <4>1. opened[m] \in Seq(posts) /\ opened'[m] = Append(opened[m], p)
        BY <1>0 DEF GroupTypeOK, OpenPost
      <4> QED BY <2>2, <4>1
    <3> QED BY <1>0, <1>1, <1>4, <1>7, <2>2, <3>1 DEF OpenedInv
  <2> QED BY <2>1, <2>2
<1> HIDE DEF n, Of, after
<1>9. HeldKeysInv'
  <2> SUFFICES ASSUME NEW q \in Member, NEW l \in remote'[q]
               PROVE  /\ l.id \in received[q]
                      /\ \A j \in remote'[q] : j.id = l.id => j = l
                      /\ l.recv = Cardinality(OpenedOf(q, l.id)')
                      /\ \A i \in OpenedOf(q, l.id)' : opened'[q][i].chain.draw = l.chain.draw
    BY <1>4 DEF HeldKeysInv
  <2>1. CASE q # m
    BY <1>0, <1>1, <1>4, <2>1 DEF HeldKeysInv, OpenedOf
  <2>2. CASE q = m /\ l = after
    <3>1. \A j \in remote'[m] : j.id = l.id => j = l
      BY <1>4, <1>6, <1>7, <2>2
    <3>2. l.recv = Cardinality(OpenedOf(m, p.id)')
      BY <1>1, <1>3, <1>6, <1>7, <2>2
    <3>3. \A i \in OpenedOf(m, p.id)' : opened'[m][i].chain.draw = l.chain.draw
      BY <1>1, <1>2, <1>4, <1>6, <1>7, <2>2
    <3> QED BY <1>4, <1>6, <1>7, <2>2, <3>1, <3>2, <3>3
  <2>3. CASE q = m /\ l # after
    <3>1. l \in remote[m] /\ l # k /\ l.id # p.id
      BY <1>4, <1>7, <2>3
    <3>2. /\ l.id \in received[m] /\ \A j \in remote[m] : j.id = l.id => j = l
          /\ l.recv = Cardinality(OpenedOf(m, l.id))
          /\ \A i \in OpenedOf(m, l.id) : opened[m][i].chain.draw = l.chain.draw
      BY <1>0, <3>1 DEF HeldKeysInv
    <3>3. OpenedOf(m, l.id)' = OpenedOf(m, l.id) /\ OpenedOf(m, l.id) \subseteq DOMAIN opened[m]
      BY <1>0, <1>1, <3>1, OpenedFinite
    <3>4. \A j \in remote'[m] : j.id = l.id => j = l
      BY <1>4, <1>6, <3>1, <3>2
    <3> QED BY <1>1, <2>3, <3>2, <3>3, <3>4
  <2> QED BY <2>1, <2>2, <2>3
<1>10. GroupInOrderOnce'
  <2> SUFFICES ASSUME NEW q \in Member, NEW id \in received[q], NEW i \in OpenedOf(q, id)'
               PROVE  /\ opened'[q][i].chain.at = Cardinality({j \in OpenedOf(q, id)' : j < i})
                      /\ \A j \in OpenedOf(q, id)' :
                           opened'[q][j].chain.draw = opened'[q][i].chain.draw
    BY <1>4 DEF GroupInOrderOnce
  <2>1. CASE q # m
    BY <1>0, <1>1, <2>1 DEF GroupInOrderOnce
  <2>2. CASE q = m /\ id # p.id
    <3>1. OpenedOf(m, id)' = OpenedOf(m, id) /\ OpenedOf(m, id) \subseteq DOMAIN opened[m]
      BY <1>0, <1>1, <2>2, OpenedFinite
    <3>2. /\ opened[m][i].chain.at = Cardinality({j \in OpenedOf(m, id) : j < i})
          /\ \A j \in OpenedOf(m, id) : opened[m][j].chain.draw = opened[m][i].chain.draw
      BY <1>0, <2>2, <3>1 DEF GroupInOrderOnce
    <3> QED BY <1>1, <2>2, <3>1, <3>2
  <2>3. CASE q = m /\ id = p.id
    <3>1. \A j \in Of \union {n} : opened'[m][j].chain.draw = k.chain.draw
      BY <1>1, <1>2, <1>4, <1>7
    <3>4. \A j \in Of : j \in Nat /\ j < n /\ ~(n < j)
      BY <1>1, <1>2
    <3>2. CASE i = n
      <4>3. ~(n < n)
        BY <1>2
      <4>1. \A j : j \in {l \in Of \union {n} : l < n} <=> j \in Of
        BY <3>4, <4>3
      <4>2. {j \in Of \union {n} : j < n} = Of
        BY <4>1
      <4> QED BY <1>1, <1>4, <1>7, <2>3, <3>1, <3>2, <4>2
    <3>3. CASE i \in Of
      <4>3. \A j : j \in {l \in Of \union {n} : l < i} <=> j \in {l \in Of : l < i}
        BY <3>3, <3>4
      <4>1. {j \in Of \union {n} : j < i} = {j \in Of : j < i}
        BY <4>3
      <4>2. opened[m][i].chain.at = Cardinality({j \in Of : j < i})
        BY <1>0, <2>3, <3>3 DEF GroupInOrderOnce, Of
      <4> QED BY <1>1, <1>2, <2>3, <3>1, <3>3, <4>1, <4>2
    <3> QED BY <1>1, <2>3, <3>2, <3>3
  <2> QED BY <2>1, <2>2, <2>3
<1> QED BY <1>8, <1>9, <1>10

\* The other steps keep what is inductive.
LEMMA GroupStepKeeps ==
  ASSUME GroupIInv, [GroupNext]_groupVars
  PROVE  HeldKeysInv' /\ OpenedInv' /\ GroupInOrderOnce'
<1>0. GroupTypeOK /\ HeldKeysInv /\ OpenedInv /\ GroupInOrderOnce
  BY DEF GroupIInv
<1>1. ASSUME UNCHANGED <<remote, received, opened>>
      PROVE  HeldKeysInv' /\ OpenedInv' /\ GroupInOrderOnce'
  <2>1. \A q, id : OpenedOf(q, id)' = OpenedOf(q, id)
    BY <1>1 DEF OpenedOf
  <2>2. HeldKeysInv' /\ OpenedInv'
    BY <1>0, <1>1, <2>1 DEF HeldKeysInv, OpenedInv
  <2>3. GroupInOrderOnce'
    BY <1>0, <1>1, <2>1 DEF GroupInOrderOnce
  <2> QED BY <2>2, <2>3
<1>2. ASSUME NEW d \in dists, ProcessSenderKey(d)
      PROVE  HeldKeysInv' /\ OpenedInv' /\ GroupInOrderOnce'
  <2> DEFINE new == [id |-> d.id, chain |-> d.chain, recv |-> 0]
  <2>1. /\ d.to \in Member /\ d.id \notin received[d.to] /\ opened' = opened
        /\ \A q \in Member : remote'[q] = IF q = d.to THEN remote[q] \union {new} ELSE remote[q]
        /\ \A q \in Member :
             received'[q] = IF q = d.to THEN received[q] \union {d.id} ELSE received[q]
    BY <1>0, <1>2 DEF ProcessSenderKey, GroupTypeOK
  <2>2. OpenedOf(d.to, d.id) = {}
    BY <1>0, <2>1 DEF OpenedInv, OpenedOf
  <2>3. \A q, id : OpenedOf(q, id)' = OpenedOf(q, id)
    BY <2>1 DEF OpenedOf
  <2>4. new.id = d.id /\ new.recv = 0
    OBVIOUS
  <2> HIDE DEF new
  <2>5. HeldKeysInv'
    <3> SUFFICES ASSUME NEW q \in Member, NEW l \in remote'[q]
                 PROVE  /\ l.id \in received'[q]
                        /\ \A j \in remote'[q] : j.id = l.id => j = l
                        /\ l.recv = Cardinality(OpenedOf(q, l.id))
                        /\ \A i \in OpenedOf(q, l.id) : opened[q][i].chain.draw = l.chain.draw
      BY <2>1, <2>3 DEF HeldKeysInv
    <3>1. CASE q = d.to /\ l = new
      <4>1. \A j \in remote[q] : j.id # l.id
        BY <1>0, <2>1, <2>4, <3>1 DEF HeldKeysInv
      <4>2. OpenedOf(q, l.id) = {} /\ l.recv = 0 /\ l.id \in received'[q]
        BY <2>1, <2>2, <2>4, <3>1
      <4>3. Cardinality({}) = 0
        BY FS_EmptySet
      <4>4. \A j \in remote'[q] : j.id = l.id => j = l
        BY <2>1, <3>1, <4>1
      <4> QED BY <4>2, <4>3, <4>4
    <3>2. CASE l \in remote[q]
      <4>1. l.id \in received[q] /\ (q = d.to => l.id # new.id)
        BY <1>0, <2>1, <2>4, <3>2 DEF HeldKeysInv
      <4>2. /\ \A j \in remote[q] : j.id = l.id => j = l
            /\ l.recv = Cardinality(OpenedOf(q, l.id))
            /\ \A i \in OpenedOf(q, l.id) : opened[q][i].chain.draw = l.chain.draw
        BY <1>0, <3>2 DEF HeldKeysInv
      <4>3. \A j \in remote'[q] : j.id = l.id => j = l
        BY <2>1, <4>1, <4>2
      <4> QED BY <2>1, <4>1, <4>2, <4>3
    <3> QED BY <2>1, <3>1, <3>2
  <2>6. OpenedInv'
    BY <1>0, <2>1 DEF OpenedInv
  <2>7. GroupInOrderOnce'
    <3> SUFFICES ASSUME NEW q \in Member, NEW id \in received'[q], NEW i \in OpenedOf(q, id)
                 PROVE  /\ opened[q][i].chain.at = Cardinality({j \in OpenedOf(q, id) : j < i})
                        /\ \A j \in OpenedOf(q, id) :
                             opened[q][j].chain.draw = opened[q][i].chain.draw
      BY <2>1, <2>3 DEF GroupInOrderOnce
    <3>1. id \in received[q]
      BY <2>1, <2>2
    <3> QED BY <1>0, <3>1 DEF GroupInOrderOnce
  <2> QED BY <2>5, <2>6, <2>7
<1>3. ASSUME NEW m \in Member, NEW k \in remote[m], Cleanup(m, k)
      PROVE  HeldKeysInv' /\ OpenedInv' /\ GroupInOrderOnce'
  <2>1. /\ \A q \in Member : remote'[q] \subseteq remote[q]
        /\ opened' = opened /\ received' = received
    BY <1>0, <1>3 DEF Cleanup, GroupTypeOK
  <2>2. \A q, id : OpenedOf(q, id)' = OpenedOf(q, id)
    BY <2>1 DEF OpenedOf
  <2>3. HeldKeysInv'
    BY <1>0, <2>1, <2>2 DEF HeldKeysInv
  <2>4. OpenedInv'
    BY <1>0, <2>1 DEF OpenedInv
  <2>5. GroupInOrderOnce'
    BY <1>0, <2>1, <2>2 DEF GroupInOrderOnce
  <2> QED BY <2>3, <2>4, <2>5
<1>4. ASSUME NEW m, GenerateSenderKey(m) \/ Post(m) PROVE UNCHANGED <<remote, received, opened>>
  BY <1>4 DEF GenerateSenderKey, Post
<1>5. ASSUME NEW m, NEW to, Distribute(m, to) PROVE UNCHANGED <<remote, received, opened>>
  BY <1>5 DEF Distribute
<1>6. ASSUME NEW m, NEW e, AnnounceEpoch(m, e) \/ ProcessEpochAdvance(m, e)
      PROVE  UNCHANGED <<remote, received, opened>>
  BY <1>6 DEF AnnounceEpoch, ProcessEpochAdvance
<1>7. ASSUME UNCHANGED groupVars PROVE UNCHANGED <<remote, received, opened>>
  BY <1>7 DEF groupVars
<1> QED BY <1>1, <1>2, <1>3, <1>4, <1>5, <1>6, <1>7, OpenPostKeeps DEF GroupNext

\* The inductive invariant of the sender keys of a group.
THEOREM GroupInvariance == GroupAssumption /\ GroupSpec => []GroupIInv
<1> SUFFICES ASSUME GroupAssumption PROVE GroupSpec => []GroupIInv
  OBVIOUS
<1>1. GroupInit => GroupIInv
  <2> SUFFICES ASSUME GroupInit PROVE GroupIInv
    OBVIOUS
  <2>1. GroupTypeOK
    BY DEF GroupInit, GroupTypeOK, GroupAssumption, Epoch
  <2>2. HeldKeysInv /\ OpenedInv /\ GroupInOrderOnce
    BY DEF GroupInit, HeldKeysInv, OpenedInv, GroupInOrderOnce
  <2> QED BY <2>1, <2>2 DEF GroupIInv
<1>2. GroupIInv /\ [GroupNext]_groupVars => GroupIInv'
  BY GroupTypesStep, GroupStepKeeps DEF GroupIInv
<1> QED BY <1>1, <1>2, PTL DEF GroupSpec

\* Messages of a sender and epoch are opened once each, in the order they were sent and
\* from the first on (group_session.py:176-307, :351-358).
THEOREM GroupOpensInOrder == GroupAssumption /\ GroupSpec => []GroupInOrderOnce
<1>1. GroupIInv => GroupInOrderOnce
  BY DEF GroupIInv
<1> QED BY <1>1, GroupInvariance, PTL
=============================================================================
