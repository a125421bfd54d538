------------------------------ MODULE ChatPeers ------------------------------
(***************************************************************************)
(* Two agents that discover each other and have one of them start a chat   *)
(* (src/anp/examples/python/openanp_examples/chat_a.py and chat_b.py, one  *)
(* program twice).  In each, the loop of lifespan and the requests         *)
(* /p2p/discover and /p2p/send are coroutines of one event loop, cut where *)
(* they await a call to the peer; _chat_lock is never held over an await.  *)
(* The one that discovered its peer first is to start; within a tolerance  *)
(* the one of the lesser DID.  Both start chats by themselves              *)
(* (CHAT_AUTO_START), and what is said is left out.                        *)
(***************************************************************************)
EXTENDS Integers, FiniteSets

CONSTANTS
  Chatter, Lesser,        \* the two agents, and the one whose DID is less
  Tolerance,              \* DISCOVER_TIE_TOLERANCE_SEC
  Turns,                  \* AUTO_CHAT_TURNS
  Stamps,                 \* what the agents' clocks show at a discovery
  Never, NoChat,
  MaxAsked, MaxChatMishaps          \* bounds

VARIABLES
  up,                     \* the agents that serve
  peer,                   \* of each agent, whether it has a RemoteAgent for its peer
  found,                  \* first_discover_ts
  coroutine,              \* where each coroutine is
  active,                 \* _active_session_id, which is never cleared
  turnsLeft,              \* of the chat an agent runs as initiator, NoChat before
  chatSent, received,         \* sent_count, message_count
  chatMishaps             \* calls that failed, tries that were used up

chatVars == <<up, peer, found, coroutine, active, turnsLeft, chatSent, received, chatMishaps>>

Partner(a) == CHOOSE b \in Chatter : b # a
Coroutine == {"loop", "discover", "send"}
\* "doomed" looks for a peer that does not serve yet.
Stage == {"off", "doomed", "discovering", "notifying", "proposing", "accepted", "refused",
          "over"}
ChatSession == Chatter \X Coroutine

ChatTypeOK ==
  /\ up \subseteq Chatter /\ peer \in [Chatter -> BOOLEAN]
  /\ found \in [Chatter -> Stamps \union {Never}]
  /\ coroutine \in [Chatter -> [Coroutine -> Stage]]
  /\ active \in [Chatter -> ChatSession \union {NoChat}]
  /\ turnsLeft \in [Chatter -> 0 .. Turns \union {NoChat}]
  /\ chatSent \in [Chatter -> Nat] /\ received \in [Chatter -> Nat]
  /\ chatMishaps \in 0 .. MaxChatMishaps

ChatInit ==
  /\ up = {} /\ peer = [a \in Chatter |-> FALSE] /\ found = [a \in Chatter |-> Never]
  /\ coroutine = [a \in Chatter |-> [c \in Coroutine |-> "off"]]
  /\ active = [a \in Chatter |-> NoChat] /\ turnsLeft = [a \in Chatter |-> NoChat]
  /\ chatSent = [a \in Chatter |-> 0] /\ received = [a \in Chatter |-> 0]
  /\ chatMishaps = 0

ChatMishap == chatMishaps < MaxChatMishaps /\ chatMishaps' = chatMishaps + 1

\* The requests of users that were made
Asked == {s \in ChatSession : s[2] # "loop" /\ coroutine[s[1]][s[2]] # "off"}
StartsChat(a, c) ==
  a \in up /\ coroutine[a][c] = "off" /\ (c = "loop" \/ Cardinality(Asked) < MaxAsked)

Goes(a, c, to) == coroutine' = [coroutine EXCEPT ![a][c] = to]

-----------------------------------------------------------------------------
(* ensure_peer_connection *)

Serve(a) ==
  /\ a \notin up /\ up' = up \union {a}
  /\ UNCHANGED <<peer, found, coroutine, active, turnsLeft, chatSent, received, chatMishaps>>

\* The first await of a coroutine of a: to discover the peer, unless it is known
Look(a, c) ==
  /\ StartsChat(a, c) /\ ~ peer[a]
  /\ Goes(a, c, IF Partner(a) \in up THEN "discovering" ELSE "doomed")
  /\ UNCHANGED <<up, peer, found, active, turnsLeft, chatSent, received, chatMishaps>>

Discovered(a, c) ==
  /\ coroutine[a][c] = "discovering" /\ Goes(a, c, "notifying")
  /\ peer' = [peer EXCEPT ![a] = TRUE]
  /\ \E t \in Stamps : found' = [found EXCEPT ![a] = IF @ = Never THEN t ELSE @]
  /\ UNCHANGED <<up, active, turnsLeft, chatSent, received, chatMishaps>>

\* A failure forgets the peer, even one that another coroutine has found meanwhile.
\* The loop tries again; after its last try it is over.
NotDiscovered(a, c) ==
  /\ \/ coroutine[a][c] = "doomed" /\ ~ peer[a] /\ UNCHANGED chatMishaps
     \/ coroutine[a][c] = "doomed" /\ peer[a] /\ ChatMishap
     \/ coroutine[a][c] = "discovering" /\ ChatMishap
  /\ peer' = [peer EXCEPT ![a] = FALSE]
  /\ Goes(a, c, IF c = "loop" THEN "off" ELSE "over")
  /\ UNCHANGED <<up, found, active, turnsLeft, chatSent, received>>

StopLooking(a) ==
  /\ coroutine[a]["loop"] = "off" /\ a \in up /\ ~ peer[a]
  /\ ChatMishap /\ Goes(a, "loop", "over")
  /\ UNCHANGED <<up, peer, found, active, turnsLeft, chatSent, received>>

\* notify_connected has been answered or has failed; or the peer was known at the start
Connected(a, c) ==
  \/ coroutine[a][c] = "notifying"
  \/ StartsChat(a, c) /\ peer[a]

-----------------------------------------------------------------------------
(* maybe_start_chat_if_discovered_first, propose_chat *)

Running(a) == turnsLeft[a] \notin {NoChat, 0}

ProposeChat(a, c) ==
  /\ c # "send" /\ Connected(a, c)
  /\ Goes(a, c, IF peer[a] /\ active[a] = NoChat /\ ~ Running(a) THEN "proposing" ELSE "over")
  /\ UNCHANGED <<up, peer, found, active, turnsLeft, chatSent, received, chatMishaps>>

\* Mutation: no tie-break.
DiscoveredFirstUntied(b, t) == found[b] # Never /\ t - found[b] > Tolerance
DiscoveredFirst(b, t) ==
  /\ found[b] # Never
  /\ \/ t - found[b] > Tolerance
     \/ t - found[b] \in - Tolerance .. Tolerance /\ b = Lesser

Decide(a, c) ==
  LET b == Partner(a)
      accepts == active[b] = NoChat /\ ~ DiscoveredFirst(b, found[a])
  IN /\ coroutine[a][c] = "proposing"
     /\ Goes(a, c, IF accepts THEN "accepted" ELSE "refused")
     /\ active' = IF accepts THEN [active EXCEPT ![b] = <<a, c>>] ELSE active
     /\ UNCHANGED <<up, peer, found, turnsLeft, chatSent, received, chatMishaps>>

\* The answer: the chat is a task of its own, which does nothing without a peer.
Decided(a, c) ==
  /\ coroutine[a][c] \in {"accepted", "refused"} /\ Goes(a, c, "over")
  /\ IF coroutine[a][c] = "accepted"
     THEN /\ active' = [active EXCEPT ![a] = IF @ = NoChat THEN <<a, c>> ELSE @]
          /\ turnsLeft' = [turnsLeft EXCEPT ![a] = CASE Running(a) -> @
                                                     [] ~ peer[a] -> 0
                                                     [] OTHER -> Turns]
     ELSE UNCHANGED <<active, turnsLeft>>
  /\ UNCHANGED <<up, peer, found, chatSent, received, chatMishaps>>

\* A call or its answer is lost: the proposal is given up, whatever the peer decided.
ProposalFails(a, c) ==
  /\ coroutine[a][c] \in {"proposing", "accepted", "refused"}
  /\ ChatMishap /\ Goes(a, c, "over")
  /\ UNCHANGED <<up, peer, found, active, turnsLeft, chatSent, received>>

-----------------------------------------------------------------------------
(* receive_message *)

Said(a) == chatSent' = [chatSent EXCEPT ![a] = @ + 1]
Heard(a) == received' = [received EXCEPT ![Partner(a)] = @ + 1]

\* One turn of _run_chat_as_initiator, and its reply
Turn(a) ==
  /\ Running(a) /\ peer[a]
  /\ turnsLeft' = [turnsLeft EXCEPT ![a] = @ - 1]
  /\ Said(a) /\ Heard(a)
  /\ UNCHANGED <<up, peer, found, coroutine, active, chatMishaps>>

\* A call that fails, or a peer that was forgotten, ends the chat.
TurnFails(a) ==
  /\ Running(a) /\ turnsLeft' = [turnsLeft EXCEPT ![a] = 0] /\ Said(a)
  /\ \/ peer[a] /\ ChatMishap /\ (Heard(a) \/ UNCHANGED received)
     \/ ~ peer[a] /\ UNCHANGED <<chatMishaps, received>>
  /\ UNCHANGED <<up, peer, found, coroutine, active>>

\* /p2p/send
SendMessage(a) ==
  /\ Connected(a, "send") /\ Goes(a, "send", "over")
  /\ IF peer[a]
     THEN /\ Said(a)
          /\ \/ Heard(a) /\ UNCHANGED chatMishaps
             \/ ChatMishap /\ (Heard(a) \/ UNCHANGED received)
     ELSE UNCHANGED <<chatSent, received, chatMishaps>>
  /\ UNCHANGED <<up, peer, found, active, turnsLeft>>

ChatNext ==
  \E a \in Chatter :
    \/ Serve(a) \/ StopLooking(a) \/ Turn(a) \/ TurnFails(a) \/ SendMessage(a)
    \/ \E c \in Coroutine :
         \/ Look(a, c) \/ Discovered(a, c) \/ NotDiscovered(a, c)
         \/ ProposeChat(a, c) \/ Decide(a, c) \/ Decided(a, c) \/ ProposalFails(a, c)

ChatSpec == ChatInit /\ [][ChatNext]_chatVars

-----------------------------------------------------------------------------
(* The invariant OneChat rests on *)

Linked(a, c) == coroutine[a][c] \in {"notifying", "proposing", "accepted", "refused"}

\* Who knows its peer has discovered it.
FoundInv ==
  \A a \in Chatter :
    /\ peer[a] => found[a] # Never
    /\ \A c \in Coroutine : Linked(a, c) => found[a] # Never

\* a has accepted a proposal of its partner.
Invited(a) == active[a] # NoChat /\ active[a][1] # a

\* A chat is proposed by one agent, and accepted by the other before the first has it as
\* its own.  Who has accepted one was not the first to discover, so that what it has
\* proposed itself will be refused.
ProposalsInv ==
  \A a \in Chatter :
    /\ Invited(a) =>
         /\ found[Partner(a)] # Never
         /\ active[Partner(a)] \in {NoChat, active[a]}
         /\ \A c \in Coroutine : coroutine[a][c] = "proposing" =>
              DiscoveredFirst(Partner(a), found[a])
    /\ active[a] # NoChat /\ ~ Invited(a) => active[Partner(a)] = active[a]
    /\ \A c \in Coroutine : coroutine[a][c] = "accepted" => active[Partner(a)] = <<a, c>>
    /\ turnsLeft[a] # NoChat => active[a] # NoChat /\ ~ Invited(a)

\* As long as no call failed: whoever found its peer keeps it, an accepted proposal leads
\* to a chat, only the second to discover is refused without one, and all that is said
\* arrives.
UndisturbedInv ==
  chatMishaps = 0 =>
    \A a \in Chatter :
      /\ \A c \in Coroutine : Linked(a, c) => peer[a]
      /\ coroutine[a]["loop"] = "over" \/ turnsLeft[a] # NoChat => peer[a]
      /\ Invited(a) => \/ turnsLeft[Partner(a)] # NoChat
                       \/ \E c \in Coroutine : coroutine[Partner(a)][c] = "accepted"
      /\ coroutine[a]["loop"] \in {"over", "refused"} =>
           \/ active[a] # NoChat \/ active[Partner(a)] # NoChat
           \/ DiscoveredFirst(Partner(a), found[a])
      /\ turnsLeft[a] # NoChat => chatSent[a] + turnsLeft[a] >= Turns
      /\ received[Partner(a)] = chatSent[a]

ChatIInv == ChatTypeOK /\ FoundInv /\ ProposalsInv /\ UndisturbedInv

-----------------------------------------------------------------------------
(* Properties *)

Settled ==
  /\ up = Chatter
  /\ \A a \in Chatter :
       /\ coroutine[a]["loop"] = "over" /\ ~ Running(a)
       /\ \A c \in Coroutine : coroutine[a][c] \in {"off", "over"}

\* One of the two starts the chat, never both, and both mean the same session - whatever
\* calls fail; and if none failed, one has started it once all is over, and every message
\* that was sent has been received (chat_a.py:207-264: the lock is not held while the peer
\* is asked, and the peer may be asking too).  A failed discovery that forgets the peer
\* another coroutine has found counts as a failed call: no chat may come of it.
OneChat ==
  /\ \A a \in Chatter : turnsLeft[a] # NoChat => turnsLeft[Partner(a)] = NoChat
  /\ \A a, b \in Chatter : active[a] = active[b] \/ NoChat \in {active[a], active[b]}
  /\ chatMishaps = 0 /\ Settled =>
       /\ \E a \in Chatter : turnsLeft[a] = 0 /\ chatSent[a] >= Turns
       /\ \A a \in Chatter : received[Partner(a)] = chatSent[a]
=============================================================================
