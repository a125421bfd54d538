---------------------------- MODULE ShortTermKeys ----------------------------
(***************************************************************************)
(* The first end-to-end encryption of the vendored SDK, over WebSockets    *)
(* (src/anp/anp/e2e_encryption): at each of two ends a WssMessageSDK       *)
(* (wss_message_sdk.py) whose recv_data loop hands what arrives to the     *)
(* ShortTermKeyGenerater of its session (short_term_key_generater.py), a   *)
(* coroutine of its own; several sessions may be under way at once, from   *)
(* either end.  A coroutine runs from one await to the next, and what the  *)
(* loop has handed over waits for it.                                      *)
(*                                                                         *)
(* Signatures are good and cipher suites agree; the random numbers and key *)
(* shares of a session are its number, and so are the keys derived from    *)
(* them.  Expiry of a key is negotiated and never looked at.               *)
(***************************************************************************)
EXTENDS Naturals, Sequences

CONSTANTS
  Party,            \* the two ends
  MaxSession, MaxTexts, MaxSkMishaps,         \* bounds
  NoSession

Session == 1 .. MaxSession

VARIABLES
  starter,         \* the end that negotiates each session, NoSession before
  skStage,         \* of each end, where the generater of each session is
  handed,          \* messages handed to it
  inbound,         \* what is on its way to each end, in order
  known,           \* short_term_keys; the application keeps them over a restart
  current,         \* short_term_keys_combined
  texts,           \* encrypted messages each end has sent
  skMishaps        \* messages lost, timeouts, stale proofs, restarts

skVars == <<starter, skStage, handed, inbound, known, current, texts, skMishaps>>

OtherParty(e) == CHOOSE f \in Party : f # e
KeyMessage == {"sourceHello", "destinationHello", "finished", "message"}

SkTypeOK ==
  /\ starter \in [Session -> Party \union {NoSession}]
  /\ skStage \in [Party -> [Session -> {"none", "wait_destination_hello", "arrived", "answered",
                                       "wait_finished", "finished", "failed"}]]
  /\ handed \in [Party -> [Session -> SUBSET KeyMessage]]
  /\ inbound \in [Party -> Seq([kind : KeyMessage, session : Session])]
  /\ known \in [Party -> SUBSET Session]
  /\ current \in [Party -> Session \union {NoSession}]
  /\ texts \in [Party -> 0 .. MaxTexts] /\ skMishaps \in 0 .. MaxSkMishaps

SkInit ==
  /\ starter = [s \in Session |-> NoSession]
  /\ skStage = [e \in Party |-> [s \in Session |-> "none"]]
  /\ handed = [e \in Party |-> [s \in Session |-> {}]]
  /\ inbound = [e \in Party |-> <<>>]
  /\ known = [e \in Party |-> {}] /\ current = [e \in Party |-> NoSession]
  /\ texts = [e \in Party |-> 0] /\ skMishaps = 0

SkMishap == skMishaps < MaxSkMishaps /\ skMishaps' = skMishaps + 1

\* A connection that is broken is opened again, and what was to be sent is not.
Transmit(e, kind, s) ==
  \/ /\ inbound' = [inbound EXCEPT ![OtherParty(e)] = Append(@, [kind |-> kind, session |-> s])]
     /\ UNCHANGED skMishaps
  \/ SkMishap /\ UNCHANGED inbound

Goes(e, s, to) == skStage' = [skStage EXCEPT ![e][s] = to]

\* A session is in short_term_key_generater_session_dict as long as its coroutine is.
InDict(e, s) == skStage[e][s] \notin {"none", "finished", "failed"}

-----------------------------------------------------------------------------
(* ShortTermKeyGenerater *)

\* negotiate_short_term_keys: the next session
Negotiate(e, s) ==
  /\ starter[s] = NoSession /\ \A r \in 1 .. s - 1 : starter[r] # NoSession
  /\ starter' = [starter EXCEPT ![s] = e]
  /\ Goes(e, s, "wait_destination_hello")
  /\ Transmit(e, "sourceHello", s)
  /\ UNCHANGED <<handed, known, current, texts>>

\* The hello is checked, and answered by one of its own; a proof of more than 30 s is refused.
SendDestinationHello(e, s) ==
  /\ skStage[e][s] = "arrived"
  /\ Goes(e, s, "answered") /\ Transmit(e, "destinationHello", s)
  /\ UNCHANGED <<starter, handed, known, current, texts>>

SendFinished(e, s) ==
  /\ Goes(e, s, "wait_finished") /\ Transmit(e, "finished", s)
  /\ UNCHANGED <<starter, handed, known, current, texts>>

\* The responder derives the keys and goes on; the initiator has waited for the hello,
\* and waked up by Finished instead it fails.
SendFinishedPassive(e, s) == skStage[e][s] = "answered" /\ SendFinished(e, s)
SendFinishedActive(e, s) ==
  /\ skStage[e][s] = "wait_destination_hello" /\ "destinationHello" \in handed[e][s]
  /\ SendFinished(e, s)
WakeEarly(e, s) ==
  /\ skStage[e][s] = "wait_destination_hello" /\ handed[e][s] = {"finished"}
  /\ Goes(e, s, "failed")
  /\ UNCHANGED <<starter, handed, inbound, known, current, texts, skMishaps>>

StaleProof(e, s) ==
  /\ \/ skStage[e][s] = "arrived"
     \/ skStage[e][s] = "wait_destination_hello" /\ "destinationHello" \in handed[e][s]
  /\ SkMishap /\ Goes(e, s, "failed")
  /\ UNCHANGED <<starter, handed, inbound, known, current, texts>>

\* A hello that came in time counts, however late the coroutine wakes up; Finished does not.
Timeout(e, s) ==
  /\ \/ skStage[e][s] = "wait_destination_hello" /\ "destinationHello" \notin handed[e][s]
     \/ skStage[e][s] = "wait_finished"
  /\ SkMishap /\ Goes(e, s, "failed")
  /\ UNCHANGED <<starter, handed, inbound, known, current, texts>>

\* Mutation: the responder does not wait for the initiator's Finished.
VerifiedHalf(e, s) == "finished" \in handed[e][s] \/ starter[s] # e
Verified(e, s) == "finished" \in handed[e][s]

\* process_finished, and set_short_term_keys: the latest session is the one to send with.
ReceiveFinished(e, s) ==
  /\ skStage[e][s] = "wait_finished" /\ Verified(e, s)
  /\ Goes(e, s, "finished")
  /\ known' = [known EXCEPT ![e] = @ \union {s}]
  /\ current' = [current EXCEPT ![e] = s]
  /\ UNCHANGED <<starter, handed, inbound, texts, skMishaps>>

-----------------------------------------------------------------------------
(* WssMessageSDK *)

Head1(e) == inbound[e][1]
Taken(e) == inbound' = [inbound EXCEPT ![e] = Tail(@)]

\* recv_data, for one that arrives: a new coroutine,
HearHello(e) ==
  /\ inbound[e] # <<>> /\ Head1(e).kind = "sourceHello"
  /\ Taken(e) /\ Goes(e, Head1(e).session, "arrived")
  /\ UNCHANGED <<starter, handed, known, current, texts, skMishaps>>

\* a message for one that is in the dictionary,
HandOver(e) ==
  /\ inbound[e] # <<>> /\ Head1(e).kind \in {"destinationHello", "finished"}
  /\ Taken(e)
  /\ handed' = IF InDict(e, Head1(e).session)
            THEN [handed EXCEPT ![e][Head1(e).session] = @ \union {Head1(e).kind}] ELSE handed
  /\ UNCHANGED <<starter, skStage, known, current, texts, skMishaps>>

\* or an encrypted message, which is dropped when its key is not known.
Read(e) ==
  /\ inbound[e] # <<>> /\ Head1(e).kind = "message" /\ Taken(e)
  /\ UNCHANGED <<starter, skStage, handed, known, current, texts, skMishaps>>

SendData(e) ==
  /\ current[e] # NoSession /\ texts[e] < MaxTexts
  /\ texts' = [texts EXCEPT ![e] = @ + 1]
  /\ Transmit(e, "message", current[e])
  /\ UNCHANGED <<starter, skStage, handed, known, current>>

\* A new process is given the keys its predecessor was called back with, in any order.
RestartParty(e) ==
  /\ SkMishap
  /\ skStage' = [skStage EXCEPT ![e] = [s \in Session |-> IF InDict(e, s) THEN "failed" ELSE @[s]]]
  /\ inbound' = [inbound EXCEPT ![e] = <<>>]
  /\ \E s \in IF known[e] = {} THEN {NoSession} ELSE known[e] : current' = [current EXCEPT ![e] = s]
  /\ UNCHANGED <<starter, handed, known, texts>>

SkNext ==
  \E e \in Party :
    \/ HearHello(e) \/ HandOver(e) \/ Read(e) \/ SendData(e) \/ RestartParty(e)
    \/ \E s \in Session :
         \/ Negotiate(e, s) \/ SendDestinationHello(e, s)
         \/ SendFinishedPassive(e, s) \/ SendFinishedActive(e, s) \/ WakeEarly(e, s)
         \/ StaleProof(e, s) \/ Timeout(e, s) \/ ReceiveFinished(e, s)

SkSpec == SkInit /\ [][SkNext]_skVars

-----------------------------------------------------------------------------
(* The inductive invariant behind the property *)

Coming(e, kind, s) ==
  \E i \in DOMAIN inbound[e] : inbound[e][i] = [kind |-> kind, session |-> s]
Reached(e, kind, s) == kind \in handed[e][s] \/ Coming(e, kind, s)

\* Whatever goes wrong: an end has derived the keys before it sends its Finished, a session is
\* negotiated once, and keys are known, and sent with, when Finished has come.
SessionInv(e, s) ==
  /\ starter[s] = NoSession => skStage[e][s] = "none"
  /\ Coming(e, "sourceHello", s) => starter[s] = OtherParty(e) /\ skStage[e][s] = "none"
  /\ \A i, j \in DOMAIN inbound[e] :
       inbound[e][i] = inbound[e][j] /\ inbound[e][i].kind = "sourceHello" => i = j
  /\ Reached(e, "finished", s) => skStage[OtherParty(e)][s] \in {"wait_finished", "finished", "failed"}
  /\ s \in known[e] => "finished" \in handed[e][s] /\ skStage[e][s] = "finished"
  /\ current[e] = s => s \in known[e]

\* As long as nothing does: the hello and the Finished of an end have come or are on their way,
\* once, as soon as it has sent them, and they are handed over in that order.
CalmSession(e, s) ==
  LET sent == skStage[OtherParty(e)][s] IN
  /\ skStage[e][s] # "failed"
  /\ starter[s] = e => skStage[e][s] \in {"wait_destination_hello", "wait_finished", "finished"}
  /\ starter[s] = OtherParty(e) => skStage[e][s] # "wait_destination_hello"
  /\ Reached(e, "destinationHello", s) <=>
       starter[s] = e /\ sent \in {"answered", "wait_finished", "finished"}
  /\ Reached(e, "finished", s) <=> sent \in {"wait_finished", "finished"}
  /\ skStage[e][s] = "finished" => "finished" \in handed[e][s]
  /\ starter[s] = e /\ (skStage[e][s] # "wait_destination_hello" \/ "finished" \in handed[e][s])
       => "destinationHello" \in handed[e][s]

OrderInv(e) ==
  \A i \in DOMAIN inbound[e] :
    LET m == inbound[e][i] IN
    /\ m.kind \in {"destinationHello", "finished"} =>
         /\ m.kind \notin handed[e][m.session]
         /\ \A j \in DOMAIN inbound[e] : inbound[e][j] = m => i = j
    /\ m.kind = "finished" /\ starter[m.session] = e =>
         \/ "destinationHello" \in handed[e][m.session]
         \/ \E j \in 1 .. i - 1 :
              inbound[e][j] = [kind |-> "destinationHello", session |-> m.session]
    /\ m.kind = "message" =>
         \/ "finished" \in handed[e][m.session]
         \/ \E j \in 1 .. i - 1 : inbound[e][j] = [kind |-> "finished", session |-> m.session]

SkIInv ==
  /\ SkTypeOK
  /\ \A e \in Party, s \in Session : SessionInv(e, s)
  /\ skMishaps = 0 => \A e \in Party : OrderInv(e) /\ \A s \in Session : CalmSession(e, s)

-----------------------------------------------------------------------------
(* Properties *)

\* What e has to wait for before it knows session s: Finished is on its way before position i
\* of what arrives, or handed over.
FinishedBefore(e, s, i) ==
  \/ s \in known[e] \/ "finished" \in handed[e][s]
  \/ \E j \in 1 .. i - 1 : inbound[e][j] = [kind |-> "finished", session |-> s]

\* Keys one end has are known at the other, or derived there and waiting for a Finished that
\* is on its way, unless a message was lost, a coroutine ran out of time or a process
\* was replaced; and so every message arrives after the Finished that makes its key
\* known - which its end may not have looked at yet (wss_message_sdk.py:182-188, where the
\* message is dropped then, short_term_key_generater.py:429-439).
KeysMeet ==
  \A e \in Party :
    /\ \A s \in known[OtherParty(e)] : skStage[e][s] \in {"wait_finished", "finished", "failed"}
    /\ skMishaps = 0 =>
         /\ \A s \in known[OtherParty(e)] : FinishedBefore(e, s, Len(inbound[e]) + 1)
         /\ \A i \in DOMAIN inbound[e] : inbound[e][i].kind = "message" =>
              FinishedBefore(e, inbound[e][i].session, i)
=============================================================================
