----------------------------- MODULE HpkeSession -----------------------------
(***************************************************************************)
(* A private session of the vendored SDK's end-to-end encryption           *)
(* (src/anp/anp/e2e_encryption_hpke): session.py with the sequence numbers *)
(* of seq_manager.py and the chain keys of ratchet.py, one session object  *)
(* at each of two ends.                                                    *)
(*                                                                         *)
(* Cryptography is ideal: a chain key is the seed it comes from, its       *)
(* direction and how often it was advanced; a message opens only with the  *)
(* key and the session id it was sealed with. A session id and its seed    *)
(* are drawn together and stand for one another. Transport is left to the  *)
(* application (session.py:3), so nothing is promised of it: any message   *)
(* and any request to set up a session may come at any time after it was   *)
(* sent, several times or never. A message is known by its number: an end  *)
(* that is set up again with a request it had processed seals under the    *)
(* same numbers again.                                                     *)
(***************************************************************************)
EXTENDS Naturals, Sequences, FiniteSets

CONSTANTS
  Lower, Upper,     \* the ends; Lower has the DID that sorts first
  Sid,              \* session ids ever drawn
  NoSid, NoKey,     \* None
  MaxSkip,          \* max_skip of the window mode
  MaxSealed,        \* bound on messages
  MaxEntries        \* bound on how often one request is processed

ASSUME EndAssumption == Lower # Upper
ASSUME SidAssumption == NoSid \notin Sid
ASSUME KeyAssumption == NoKey \notin [sid : Sid, dir : {"init", "resp"}, at : Nat]
ASSUME BoundAssumption == MaxSkip \in Nat \ {0} /\ MaxSealed \in Nat /\ MaxEntries \in Nat

End == {Lower, Upper}
Peer(p) == IF p = Lower THEN Upper ELSE Lower

VARIABLES
  mode,             \* mode[p]: seq_mode
  state,            \* state[p]: _state
  session,          \* session[p]: _session_id
  sendKey, recvKey, \* the chain keys
  sendSeq, recvSeq, \* of the SeqManager
  used,             \* used[p]: _used_seqs that have not expired
  setups,           \* every e2ee_init and e2ee_rekey ever sent
  sealed,           \* every e2ee_msg ever sent
  got,              \* history: got[p], what p opened
  entered,          \* history: entered[p][s], how often p was set up for session s
  settling          \* history: the session last asked for, by a rekey or of an idle end,
                    \* while no other request was processed and none failed since

chainVars == <<sendKey, recvKey, sendSeq, recvSeq, used>>
vars == <<mode, state, session, chainVars, setups, sealed, got, entered, settling>>

ChainKey == [sid : Sid, dir : {"init", "resp"}, at : Nat]
Setup == [type : {"init", "rekey"}, from : End, sid : Sid]
Message == [to : End, sid : Sid, seq : Nat, key : ChainKey]
\* life: how often the receiver had been set up for the session by then
Opened == [sid : Sid, life : Nat, seq : Nat]

TypeOK ==
  /\ mode \in [End -> {"strict", "window"}]
  /\ state \in [End -> {"idle", "active"}]
  /\ session \in [End -> Sid \union {NoSid}]
  /\ sendKey \in [End -> ChainKey \union {NoKey}]
  /\ recvKey \in [End -> ChainKey \union {NoKey}]
  /\ sendSeq \in [End -> Nat] /\ recvSeq \in [End -> Nat]
  /\ used \in [End -> SUBSET Nat]
  /\ setups \subseteq Setup
  /\ sealed \subseteq Message
  /\ got \in [End -> Seq(Opened)]
  /\ entered \in [End -> [Sid -> Nat]]
  /\ settling \in Sid \union {NoSid}

Init ==
  /\ mode \in [End -> {"strict", "window"}]
  /\ state = [p \in End |-> "idle"]
  /\ session = [p \in End |-> NoSid]
  /\ sendKey = [p \in End |-> NoKey] /\ recvKey = [p \in End |-> NoKey]
  /\ sendSeq = [p \in End |-> 0] /\ recvSeq = [p \in End |-> 0]
  /\ used = [p \in End |-> {}]
  /\ setups = {} /\ sealed = {}
  /\ got = [p \in End |-> <<>>]
  /\ entered = [p \in End |-> [s \in Sid |-> 0]]
  /\ settling = NoSid

-----------------------------------------------------------------------------
(* Keys and sequence numbers *)

\* determine_direction: whoever has the smaller DID sends on the init chain.
Direction(p) == IF p = Lower THEN "init" ELSE "resp"

Chain(s, p) == [sid |-> s, dir |-> Direction(p), at |-> 0]

\* derive_message_key, n times.
Advance(k, n) == [k EXCEPT !.at = @ + n]

\* Mutation: strict mode lets numbers be skipped as the window does.
ValidWindow(p, n) == n \notin used[p] /\ recvSeq[p] <= n /\ n < recvSeq[p] + MaxSkip

\* validate_recv_seq
Valid(p, n) ==
  /\ n \notin used[p]
  /\ IF mode[p] = "strict"
     THEN n = recvSeq[p]
     ELSE recvSeq[p] <= n /\ n < recvSeq[p] + MaxSkip

\* The chain is wound forward to number n, never back.
KeyFor(p, n) == IF recvSeq[p] <= n THEN Advance(recvKey[p], n - recvSeq[p]) ELSE recvKey[p]

\* decrypt_aes_128_gcm succeeds: the key and, as associated data, the own session id.
Opens(p, m) == m.key = KeyFor(p, m.seq) /\ m.sid = session[p]

-----------------------------------------------------------------------------
(* Setting up *)

\* _setup_chain_keys
SetupChains(p, s) ==
  /\ session' = [session EXCEPT ![p] = s]
  /\ sendKey' = [sendKey EXCEPT ![p] = Chain(s, p)]
  /\ recvKey' = [recvKey EXCEPT ![p] = Chain(s, Peer(p))]
  /\ state' = [state EXCEPT ![p] = "active"]
  /\ entered' = [entered EXCEPT ![p][s] = @ + 1]

\* SeqManager.reset
ResetSeqs(p) ==
  /\ sendSeq' = [sendSeq EXCEPT ![p] = 0]
  /\ recvSeq' = [recvSeq EXCEPT ![p] = 0]
  /\ used' = [used EXCEPT ![p] = {}]

Requested == {r.sid : r \in setups}

Request(t, p, s) ==
  /\ s \notin Requested
  /\ setups' = setups \union {[type |-> t, from |-> p, sid |-> s]}

\* initiate_session: active at once, before the other end knows.
InitiateSession(p, s) ==
  /\ state[p] = "idle"
  /\ Request("init", p, s)
  /\ SetupChains(p, s)
  /\ settling' = IF state[Peer(p)] = "idle" THEN s ELSE NoSid
  /\ UNCHANGED <<mode, sendSeq, recvSeq, used, sealed, got>>

\* initiate_rekey, from any state.
InitiateRekey(p, s) ==
  /\ Request("rekey", p, s)
  /\ ResetSeqs(p)
  /\ SetupChains(p, s)
  /\ settling' = s
  /\ UNCHANGED <<mode, sealed, got>>

\* The transport brings p a request, for the first time or again: its proof does not tell,
\* it is valid for a day (proof.py:160).
Brought(t, p, r) ==
  /\ r.type = t /\ r.from = Peer(p)
  /\ UNCHANGED <<mode, setups, sealed, got>>

Settles(r) == settling' = IF r.sid = settling THEN settling ELSE NoSid

\* process_init in time and IDLE; otherwise it raises and changes nothing.
ProcessInit(p, r) ==
  /\ Brought("init", p, r) /\ entered[p][r.sid] < MaxEntries
  /\ state[p] = "idle"
  /\ SetupChains(p, r.sid)
  /\ Settles(r)
  /\ UNCHANGED <<sendSeq, recvSeq, used>>

\* Mutation: the numbers are kept over a rekey.
ProcessRekeyNoReset(p, r) ==
  /\ Brought("rekey", p, r) /\ entered[p][r.sid] < MaxEntries
  /\ SetupChains(p, r.sid)
  /\ Settles(r)
  /\ UNCHANGED <<sendSeq, recvSeq, used>>

\* process_rekey in time, from any state.
ProcessRekey(p, r) ==
  /\ Brought("rekey", p, r) /\ entered[p][r.sid] < MaxEntries
  /\ ResetSeqs(p)
  /\ SetupChains(p, r.sid)
  /\ Settles(r)

\* process_rekey raises in process_init, after it destroyed the old state.
RefuseRekey(p, r) ==
  /\ Brought("rekey", p, r)
  /\ state' = [state EXCEPT ![p] = "idle"]
  /\ ResetSeqs(p)
  /\ sendKey' = [sendKey EXCEPT ![p] = NoKey]
  /\ recvKey' = [recvKey EXCEPT ![p] = NoKey]
  /\ settling' = NoSid
  /\ UNCHANGED <<session, entered>>

-----------------------------------------------------------------------------
(* Messages *)

\* encrypt_message
Encrypt(p) ==
  /\ state[p] = "active"
  /\ sealed' = sealed \union
       {[to |-> Peer(p), sid |-> session[p], seq |-> sendSeq[p], key |-> sendKey[p]]}
  /\ Cardinality(sealed') <= MaxSealed
  /\ sendSeq' = [sendSeq EXCEPT ![p] = @ + 1]
  /\ sendKey' = [sendKey EXCEPT ![p] = Advance(@, 1)]
  /\ UNCHANGED <<mode, state, session, recvKey, recvSeq, used, setups, got, entered,
                 settling>>

\* decrypt_message; a message that is refused or does not open changes nothing.
Decrypt(p, m) ==
  /\ m.to = p /\ state[p] = "active" /\ Valid(p, m.seq) /\ Opens(p, m)
  /\ recvKey' = [recvKey EXCEPT ![p] = Advance(KeyFor(p, m.seq), 1)]
  /\ recvSeq' = [recvSeq EXCEPT ![p] = m.seq + 1]
  /\ used' = [used EXCEPT ![p] = @ \union {m.seq}]
  /\ got' = [got EXCEPT ![p] =
       Append(@, [sid |-> m.sid, life |-> entered[p][m.sid], seq |-> m.seq])]
  /\ UNCHANGED <<mode, state, session, sendKey, sendSeq, setups, sealed, entered,
                 settling>>

\* skip_key_ttl is over for the oldest entry.
ForgetUsed(p) ==
  /\ \E n \in used[p] :
       /\ \A o \in used[p] : n <= o
       /\ used' = [used EXCEPT ![p] = @ \ {n}]
  /\ UNCHANGED <<mode, state, session, sendKey, recvKey, sendSeq, recvSeq, setups, sealed,
                 got, entered, settling>>

-----------------------------------------------------------------------------
Next ==
  \/ \E p \in End : Encrypt(p) \/ ForgetUsed(p)
  \/ \E p \in End, s \in Sid : InitiateSession(p, s) \/ InitiateRekey(p, s)
  \/ \E p \in End, r \in setups :
       ProcessInit(p, r) \/ ProcessRekey(p, r) \/ RefuseRekey(p, r)
  \/ \E p \in End, m \in sealed : Decrypt(p, m)

Spec == Init /\ [][Next]_vars

-----------------------------------------------------------------------------
(* Properties *)

\* However the transport repeats and reorders messages and requests, and whenever the cache
\* of used numbers forgets: between two set-ups an end opens the numbers of its session once
\* each and in increasing order, in strict mode, which a lost message blocks until the next
\* set-up, without a gap.
InOrderOnce ==
  \A p \in End : \A j \in DOMAIN got[p] :
    /\ \A i \in 1 .. j - 1 : got[p][i].sid = got[p][j].sid =>
         \/ got[p][i].life < got[p][j].life
         \/ got[p][i].life = got[p][j].life /\ got[p][i].seq < got[p][j].seq
    /\ mode[p] = "strict" => \A n \in 0 .. got[p][j].seq - 1 :
         \E i \in 1 .. j - 1 : got[p][i] = [got[p][j] EXCEPT !.seq = n]

\* A number is opened a second time only by an end that was asked for the session, never by
\* the one that drew its id, and only after the request was processed again: of the two ends
\* of a session one opens every number once, whatever is brought twice (session.py:167-178).
OnceAtOneEnd ==
  \A s \in Sid : \E p \in End : \A j \in DOMAIN got[p] : got[p][j].sid = s =>
    \A i \in 1 .. j - 1 : got[p][i].sid = s => got[p][i].seq < got[p][j].seq

\* The numbers that guard against repetition do so, as far as requests do not come again.
NothingTwice == InOrderOnce /\ OnceAtOneEnd

\* A message of the session an end is in that passes the check of its number opens,
\* whatever was skipped or did not open before (session.py:237-252).
ValidOpens ==
  \A m \in sealed : state[m.to] = "active" /\ m.sid = session[m.to] /\ Valid(m.to, m.seq)
    => Opens(m.to, m)

\* A rekey, or an init of an idle end, that no other request follows brings both ends into
\* its session as soon as it arrives in time, whatever state crossed, lost, late and repeated
\* requests left them in.
Resynced ==
  settling # NoSid /\ (\A p \in End : entered[p][settling] > 0)
    => \A p \in End : state[p] = "active" /\ session[p] = settling

\* An end that was set up for its session once has sealed every number its peer has passed:
\* only a request that is processed again takes a sender back to numbers that are refused.
NotAhead ==
  \A p \in End :
    /\ state[p] = "active" /\ state[Peer(p)] = "active" /\ session[p] = session[Peer(p)]
    /\ entered[p][session[p]] = 1
    => recvSeq[Peer(p)] <= sendSeq[p]

\* The two ends stay in step: within a session each opens what the other seals and waits for
\* no number that has passed, and one undisturbed rekey is enough to bring them back into a
\* session (session.py:216-303).
StaysInStep == ValidOpens /\ Resynced /\ NotAhead

-----------------------------------------------------------------------------
(* Inductive invariant *)

\* What is known of a session id implies that it was drawn, and one is in a session, or
\* opens something of it, only after being set up for it.
DrawnInv ==
  /\ \A p \in End : session[p] # NoSid => entered[p][session[p]] > 0
  /\ \A p \in End, s \in Sid : entered[p][s] > 0 => s \in Requested
  /\ \A p \in End : \A i \in DOMAIN got[p] : got[p][i].life \in 1 .. entered[p][got[p][i].sid]

\* The chain keys of an active end are those of its session, as far advanced as its
\* sequence numbers say.
KeysInv == \A p \in End :
  IF state[p] = "active"
  THEN /\ session[p] \in Sid
       /\ sendKey[p] = Advance(Chain(session[p], p), sendSeq[p])
       /\ recvKey[p] = Advance(Chain(session[p], Peer(p)), recvSeq[p])
  ELSE sendSeq[p] = 0 /\ recvSeq[p] = 0

\* A message is sealed with the key of its number, by an end in its session, whose number is
\* higher while it stays in it.
SealedInv == \A m \in sealed :
  LET p == Peer(m.to) IN
    /\ m.key = Advance(Chain(m.sid, p), m.seq)
    /\ entered[p][m.sid] > 0
    /\ state[p] = "active" /\ session[p] = m.sid /\ entered[p][m.sid] = 1
         => m.seq < sendSeq[p]

\* A request is the only one for its session, and its sender was set up for it once; so one
\* of two ends is never set up again for a session.
SetupsInv ==
  /\ \A r \in setups : entered[r.from][r.sid] = 1
  /\ \A q \in setups, r \in setups : q.sid = r.sid => q = r
  /\ \A s \in Sid : \E p \in End : entered[p][s] <= 1

\* Since it was set up an active end opened numbers of its session below recvSeq only, in
\* strict mode all; the last of them is that of a message.
GotInv == \A p \in End : state[p] = "active" =>
  /\ \A i \in DOMAIN got[p] :
       got[p][i].sid = session[p] /\ got[p][i].life = entered[p][session[p]]
         => got[p][i].seq < recvSeq[p]
  /\ mode[p] = "strict" =>
       \A n \in 0 .. recvSeq[p] - 1 : \E i \in DOMAIN got[p] :
         got[p][i] = [sid |-> session[p], life |-> entered[p][session[p]], seq |-> n]
  /\ recvSeq[p] = 0 \/ \E m \in sealed :
       m.to = p /\ m.sid = session[p] /\ m.seq + 1 = recvSeq[p]

\* The end that asked for the settling session is in it; so is the other, or it was not set
\* up for it yet, and it is idle if an init is to do that.
SettlingInv == settling # NoSid =>
  \E r \in setups :
    /\ r.sid = settling
    /\ state[r.from] = "active" /\ session[r.from] = settling
    /\ IF entered[Peer(r.from)][settling] = 0
       THEN r.type = "init" => state[Peer(r.from)] = "idle"
       ELSE state[Peer(r.from)] = "active" /\ session[Peer(r.from)] = settling

SessionIInv ==
  TypeOK /\ DrawnInv /\ KeysInv /\ SealedInv /\ SetupsInv /\ GotInv /\ SettlingInv /\ InOrderOnce
=============================================================================
