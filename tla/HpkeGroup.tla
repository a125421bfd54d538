------------------------------ MODULE HpkeGroup ------------------------------
(***************************************************************************)
(* Group messages of the vendored SDK: the sender keys of                  *)
(* src/anp/anp/e2e_encryption_hpke/group_session.py, one session object at *)
(* each member of one group.                                               *)
(*                                                                         *)
(* A member draws a sender key for the epoch it is in, hands it to others  *)
(* in distributions sealed for each, and advances it with every message.   *)
(* A sender key is named after its sender and epoch, not after the draw.   *)
(* Distributions, announcements of an epoch and messages may be lost,      *)
(* repeated and come in any order; proofs are in time.  All sequence       *)
(* numbers are strict here, where the cache of used numbers adds nothing.  *)
(***************************************************************************)
EXTENDS Naturals, Sequences, FiniteSets

CONSTANTS
  Member,
  Speaker,      \* bound: the members that draw sender keys
  Nobody,       \* no sender key
  MaxEpoch,     \* bound on epochs
  MaxDraws,     \* bound on sender keys drawn by a member
  MaxPosts      \* bound on messages with one sender key

VARIABLES
  epoch,        \* epoch[m]: _epoch
  draws,        \* draws[m]: number of sender keys drawn so far
  local,        \* local[m]: _local_sender_key with its chain and send_seq
  remote,       \* remote[m]: _remote_sender_keys
  received,     \* received[m]: _received_key_ids
  dists,        \* group_e2ee_key ever sent
  announced,    \* epochs of the group_epoch_advance ever sent
  posts,        \* group_e2ee_msg ever sent
  opened        \* history: opened[m], what m opened

groupVars == <<epoch, draws, local, remote, received, dists, announced, posts, opened>>

Epoch == 0 .. MaxEpoch
Draw == 1 .. MaxDraws
SenderChain == [draw : Draw, at : Nat]
\* (sender_did, epoch, sender_key_id), the last naming sender and epoch of the draw
KeyId == [by : Member, epoch : Epoch, drawn : Epoch]

GroupTypeOK ==
  /\ epoch \in [Member -> Epoch]
  /\ draws \in [Member -> 0 .. MaxDraws]
  /\ local \in [Member -> [chain : SenderChain, drawn : Epoch] \union {Nobody}]
  /\ remote \in [Member -> SUBSET [id : KeyId, chain : SenderChain, recv : Nat]]
  /\ received \in [Member -> SUBSET KeyId]
  /\ dists \subseteq [to : Member, id : KeyId, chain : SenderChain]
  /\ announced \subseteq Epoch
  /\ posts \subseteq [id : KeyId, chain : SenderChain]
  /\ opened \in [Member -> Seq(posts)]

GroupInit ==
  /\ epoch = [m \in Member |-> 0]
  /\ draws = [m \in Member |-> 0]
  /\ local = [m \in Member |-> Nobody]
  /\ remote = [m \in Member |-> {}]
  /\ received = [m \in Member |-> {}]
  /\ dists = {} /\ announced = {} /\ posts = {}
  /\ opened = [m \in Member |-> <<>>]

-----------------------------------------------------------------------------
\* The epoch is that of the session, the id that of the key.
OwnId(m) == [by |-> m, epoch |-> epoch[m], drawn |-> local[m].drawn]

\* generate_sender_key; the id is the same for every draw of an epoch.
GenerateSenderKey(m) ==
  /\ draws[m] < MaxDraws
  /\ draws' = [draws EXCEPT ![m] = @ + 1]
  /\ local' = [local EXCEPT ![m] =
                 [chain |-> [draw |-> draws[m] + 1, at |-> 0], drawn |-> epoch[m]]]
  /\ UNCHANGED <<epoch, remote, received, dists, announced, posts, opened>>

\* build_sender_key_distribution: the chain as it is now, not as it began.
Distribute(m, to) ==
  /\ local[m] # Nobody /\ to # m
  /\ dists' = dists \union {[to |-> to, id |-> OwnId(m), chain |-> local[m].chain]}
  /\ UNCHANGED <<epoch, draws, local, remote, received, announced, posts, opened>>

\* Mutation: a key is refused only while it is held.
ProcessSenderKeyUnlessHeld(d) ==
  /\ \A k \in remote[d.to] : k.id # d.id
  /\ remote' = [remote EXCEPT ![d.to] = @ \union {[id |-> d.id, chain |-> d.chain, recv |-> 0]}]
  /\ received' = [received EXCEPT ![d.to] = @ \union {d.id}]
  /\ UNCHANGED <<epoch, draws, local, dists, announced, posts, opened>>

\* process_sender_key; a duplicate is refused, whatever became of the first.
ProcessSenderKey(d) ==
  /\ d.id \notin received[d.to]
  /\ remote' = [remote EXCEPT ![d.to] = @ \union {[id |-> d.id, chain |-> d.chain, recv |-> 0]}]
  /\ received' = [received EXCEPT ![d.to] = @ \union {d.id}]
  /\ UNCHANGED <<epoch, draws, local, dists, announced, posts, opened>>

\* encrypt_group_message
Post(m) ==
  /\ local[m] # Nobody /\ local[m].chain.at < MaxPosts
  /\ posts' = posts \union {[id |-> OwnId(m), chain |-> local[m].chain]}
  /\ local' = [local EXCEPT ![m].chain.at = @ + 1]
  /\ UNCHANGED <<epoch, draws, remote, received, dists, announced, opened>>

\* decrypt_group_message: the number of a message is how often its chain was
\* advanced; the number expected and the chain held must both fit.
OpenPost(m, k, p) ==
  /\ k.id = p.id /\ k.recv = p.chain.at
  /\ k.chain = p.chain
  /\ remote' = [remote EXCEPT ![m] = (@ \ {k}) \union
                  {[id |-> k.id, chain |-> [k.chain EXCEPT !.at = @ + 1], recv |-> k.recv + 1]}]
  /\ opened' = [opened EXCEPT ![m] = Append(@, p)]
  /\ UNCHANGED <<epoch, draws, local, received, dists, announced, posts>>

\* advance_epoch: the keys of others stay good for late messages; decrypting
\* does not look at read_only.
AdvanceTo(m, e) ==
  /\ e > epoch[m]
  /\ epoch' = [epoch EXCEPT ![m] = e]
  /\ local' = [local EXCEPT ![m] = Nobody]

\* A member that rotates the epoch advances itself and announces it.
AnnounceEpoch(m, e) ==
  /\ AdvanceTo(m, e)
  /\ announced' = announced \union {e}
  /\ UNCHANGED <<draws, remote, received, dists, posts, opened>>

\* process_epoch_advance
ProcessEpochAdvance(m, e) ==
  /\ e \in announced
  /\ AdvanceTo(m, e)
  /\ UNCHANGED <<draws, remote, received, dists, announced, posts, opened>>

\* cleanup_expired: the id of the key stays in _received_key_ids.
Cleanup(m, k) ==
  /\ remote' = [remote EXCEPT ![m] = @ \ {k}]
  /\ UNCHANGED <<epoch, draws, local, received, dists, announced, posts, opened>>

GroupNext ==
  \/ \E m \in Speaker : GenerateSenderKey(m) \/ Post(m)
  \/ \E m \in Speaker, to \in Member : Distribute(m, to)
  \/ \E d \in dists : ProcessSenderKey(d)
  \/ \E m \in Member : \E k \in remote[m], p \in posts : OpenPost(m, k, p)
  \/ \E m \in Member, e \in Epoch : AnnounceEpoch(m, e) \/ ProcessEpochAdvance(m, e)
  \/ \E m \in Member : \E k \in remote[m] : Cleanup(m, k)

GroupSpec == GroupInit /\ [][GroupNext]_groupVars

-----------------------------------------------------------------------------
(* Properties *)

\* The messages of a sender and epoch among those m opened, by their places
OpenedOf(m, id) == {i \in DOMAIN opened[m] : opened[m][i].id = id}

\* A member opens the messages of a sender and epoch once each, in the order they
\* were sent and from the first on: a repeated distribution does not take it back,
\* not even after its key has expired and was removed (group_session.py:351-358).
GroupInOrderOnce ==
  \A m \in Member : \A id \in received[m] : \A i \in OpenedOf(m, id) :
    /\ opened[m][i].chain.at = Cardinality({j \in OpenedOf(m, id) : j < i})
    /\ \A j \in OpenedOf(m, id) : opened[m][j].chain.draw = opened[m][i].chain.draw

-----------------------------------------------------------------------------
(* What is inductive *)

\* A key is held under one id, and under the id of a key that was received; what was opened
\* with it is all before the number expected, and of its draw.
HeldKeysInv ==
  \A m \in Member : \A k \in remote[m] :
    /\ k.id \in received[m]
    /\ \A l \in remote[m] : l.id = k.id => l = k
    /\ k.recv = Cardinality(OpenedOf(m, k.id))
    /\ \A i \in OpenedOf(m, k.id) : opened[m][i].chain.draw = k.chain.draw

\* Nothing is opened before its key is received.
OpenedInv == \A m \in Member : \A i \in DOMAIN opened[m] : opened[m][i].id \in received[m]

GroupIInv == GroupTypeOK /\ HeldKeysInv /\ OpenedInv /\ GroupInOrderOnce

GroupAssumption == Speaker \subseteq Member /\ MaxEpoch \in Nat /\ MaxDraws \in Nat
=============================================================================
