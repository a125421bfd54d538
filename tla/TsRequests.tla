------------------------------ MODULE TsRequests ------------------------------
(***************************************************************************)
(* An authenticated request of the TypeScript SDK                          *)
(* (src/anp/typescript/ts_sdk/src): HTTPClient.request signs one header,   *)
(* with one nonce, for all its attempts and starts one timer for them;     *)
(* AuthenticationManager.verifyAuthHeader looks for the nonce, awaits the  *)
(* DID document and the signature's check, and only then keeps the nonce.  *)
(***************************************************************************)
EXTENDS Naturals, FiniteSets

CONSTANTS
  TsCall,           \* calls of HTTPClient.request, each with a nonce of its own
  MaxRetries,       \* config.maxRetries
  SkewTolerance,    \* config.clockSkewTolerance, in ticks
  MaxNonces,        \* the 10000 of verifyAuthHeader
  MaxTsClock, MaxTsFaults                     \* bounds

VARIABLES
  tsClock, tsFaults,
  callStage,        \* where a call is
  signedAt,         \* the timestamp of its header
  attempt, aborted, \* of retryWithBackoff; of its AbortController
  arriving,         \* attempts on their way to the server
  verifying,        \* those in verifyAuthHeader, past the look for the nonce
  usedNonces,
  tsAnswers,        \* responses on their way back
  timesHandled,     \* how often the server did what a call asks
  overlapped,       \* history: calls two of whose attempts were verified at once
  forgotten,        \* history: nonces lost to usedNonces.clear()
  unresolved        \* history: calls refused for want of the DID document

tsHistory == <<overlapped, forgotten, unresolved>>
tsVars == <<tsClock, tsFaults, callStage, signedAt, attempt, aborted, arriving, verifying,
            usedNonces, tsAnswers, timesHandled, tsHistory>>

Attempt == [call : TsCall, no : 0 .. MaxRetries]

TsTypes ==
  /\ tsClock \in 0 .. MaxTsClock /\ tsFaults \in 0 .. MaxTsFaults
  /\ callStage \in [TsCall -> {"idle", "sent", "backoff", "ok", "exhausted", "refused"}]
  /\ signedAt \in [TsCall -> 0 .. MaxTsClock]
  /\ attempt \in [TsCall -> 0 .. MaxRetries] /\ aborted \in [TsCall -> BOOLEAN]
  /\ arriving \subseteq Attempt /\ verifying \subseteq Attempt
  /\ usedNonces \subseteq TsCall
  /\ tsAnswers \subseteq [attempt : Attempt, status : {200, 401, 500}]
  /\ timesHandled \in [TsCall -> Nat]
  /\ overlapped \subseteq TsCall /\ forgotten \subseteq TsCall /\ unresolved \subseteq TsCall

TsTypeOK == TsTypes /\ \A c \in TsCall : timesHandled[c] <= MaxRetries + 1

TsInit ==
  /\ tsClock = 0 /\ tsFaults = 0
  /\ callStage = [c \in TsCall |-> "idle"]
  /\ signedAt = [c \in TsCall |-> 0]
  /\ attempt = [c \in TsCall |-> 0] /\ aborted = [c \in TsCall |-> FALSE]
  /\ arriving = {} /\ verifying = {} /\ usedNonces = {} /\ tsAnswers = {}
  /\ timesHandled = [c \in TsCall |-> 0]
  /\ overlapped = {} /\ forgotten = {} /\ unresolved = {}

TsTick ==
  /\ tsClock < MaxTsClock /\ tsClock' = tsClock + 1
  /\ UNCHANGED <<tsFaults, callStage, signedAt, attempt, aborted, arriving, verifying, usedNonces,
                 tsAnswers, timesHandled, tsHistory>>

-----------------------------------------------------------------------------
(* HTTPClient.request, retryWithBackoff *)

\* Mutation: attempts are not counted.
AfterErrorUncounted(no) == "backoff"

\* The call is over, or waits for its next attempt.
AfterError(no) == IF no >= MaxRetries THEN "exhausted" ELSE "backoff"

\* generateAuthHeader: a new nonce, which stands for the call, and the time
GenerateAuthHeader(c) == signedAt' = [signedAt EXCEPT ![c] = tsClock]

StartRequest(c) ==
  /\ callStage[c] = "idle" /\ callStage' = [callStage EXCEPT ![c] = "sent"]
  /\ GenerateAuthHeader(c)
  /\ arriving' = arriving \union {[call |-> c, no |-> 0]}
  /\ UNCHANGED <<tsClock, tsFaults, attempt, aborted, verifying, usedNonces, tsAnswers,
                 timesHandled, tsHistory>>

\* The timer ends the attempt under way, and the next ones before they are sent.
Abort(c) ==
  /\ callStage[c] \in {"sent", "backoff"} /\ ~aborted[c]
  /\ aborted' = [aborted EXCEPT ![c] = TRUE]
  /\ callStage' = IF callStage[c] = "sent"
                  THEN [callStage EXCEPT ![c] = AfterError(attempt[c])] ELSE callStage
  /\ UNCHANGED <<tsClock, tsFaults, signedAt, attempt, arriving, verifying, usedNonces, tsAnswers,
                 timesHandled, tsHistory>>

\* fetch fails; what was sent may arrive all the same, or never.
ConnectionBreaks(c) ==
  /\ callStage[c] = "sent"
  /\ tsFaults < MaxTsFaults /\ tsFaults' = tsFaults + 1
  /\ callStage' = [callStage EXCEPT ![c] = AfterError(attempt[c])]
  /\ UNCHANGED <<tsClock, signedAt, attempt, aborted, arriving, verifying, usedNonces, tsAnswers,
                 timesHandled, tsHistory>>

Resend(c) ==
  /\ callStage[c] = "backoff"
  /\ attempt' = [attempt EXCEPT ![c] = @ + 1]
  /\ IF aborted[c]
     THEN /\ callStage' = [callStage EXCEPT ![c] = AfterError(attempt[c] + 1)]
          /\ UNCHANGED arriving
     ELSE /\ callStage' = [callStage EXCEPT ![c] = "sent"]
          /\ arriving' = arriving \union {[call |-> c, no |-> attempt[c] + 1]}
  /\ UNCHANGED <<tsClock, tsFaults, signedAt, aborted, verifying, usedNonces, tsAnswers,
                 timesHandled, tsHistory>>

\* A 5xx is tried again, a 4xx is not; nobody waits for the answer to an earlier attempt.
ReadAnswer(a) ==
  LET c == a.attempt.call IN
  /\ a \in tsAnswers /\ tsAnswers' = tsAnswers \ {a}
  /\ callStage' =
       IF callStage[c] # "sent" \/ attempt[c] # a.attempt.no THEN callStage
       ELSE [callStage EXCEPT ![c] =
               CASE a.status = 200 -> "ok" [] a.status = 401 -> "refused"
                 [] a.status = 500 -> AfterError(attempt[c])]
  /\ UNCHANGED <<tsClock, tsFaults, signedAt, attempt, aborted, arriving, verifying, usedNonces,
                 timesHandled, tsHistory>>

-----------------------------------------------------------------------------
(* verifyAuthHeader and the handler behind it *)

Answered(x, status) == tsAnswers \union {[attempt |-> x, status |-> status]}

TooOld(c) == tsClock - signedAt[c] > SkewTolerance

\* Mutation: nobody looks for the nonce.
NonceIsFreshAlways(c) == TRUE
NonceIsFresh(c) == c \notin usedNonces

\* Up to the first await
BeginVerify(x) ==
  /\ x \in arriving /\ arriving' = arriving \ {x}
  /\ IF ~TooOld(x.call) /\ NonceIsFresh(x.call)
     THEN /\ verifying' = verifying \union {x}
          /\ overlapped' = overlapped \union {y.call : y \in {z \in verifying : z.call = x.call}}
          /\ UNCHANGED tsAnswers
     ELSE /\ tsAnswers' = Answered(x, 401)
          /\ UNCHANGED <<verifying, overlapped>>
  /\ UNCHANGED <<tsClock, tsFaults, callStage, signedAt, attempt, aborted, usedNonces,
                 timesHandled, forgotten, unresolved>>

\* The whole set is cleared when it has grown too large, with what was just added.
KeptNonces(nonces) == IF Cardinality(nonces) > MaxNonces THEN {} ELSE nonces

\* The signature is right; the handler is called and ends well or in an error.
EndVerify(x) ==
  /\ x \in verifying /\ verifying' = verifying \ {x}
  /\ usedNonces' = KeptNonces(usedNonces \union {x.call})
  /\ forgotten' = forgotten \union ((usedNonces \union {x.call}) \ usedNonces')
  /\ timesHandled' = [timesHandled EXCEPT ![x.call] = @ + 1]
  /\ \E status \in {200, 500} : tsAnswers' = Answered(x, status)
  /\ UNCHANGED <<tsClock, tsFaults, callStage, signedAt, attempt, aborted, arriving, overlapped,
                 unresolved>>

\* resolveDID has no document that is fresh, and can get none.
ResolutionFails(x) ==
  /\ x \in verifying /\ verifying' = verifying \ {x}
  /\ tsFaults < MaxTsFaults /\ tsFaults' = tsFaults + 1
  /\ tsAnswers' = Answered(x, 401) /\ unresolved' = unresolved \union {x.call}
  /\ UNCHANGED <<tsClock, callStage, signedAt, attempt, aborted, arriving, usedNonces,
                 timesHandled, overlapped, forgotten>>

TsNext ==
  \/ TsTick
  \/ \E c \in TsCall : StartRequest(c) \/ Abort(c) \/ ConnectionBreaks(c) \/ Resend(c)
  \/ \E a \in tsAnswers : ReadAnswer(a)
  \/ \E x \in arriving : BeginVerify(x)
  \/ \E x \in verifying : EndVerify(x) \/ ResolutionFails(x)

TsSpec == TsInit /\ [][TsNext]_tsVars

-----------------------------------------------------------------------------
(* Properties *)

\* Retries under one nonce: a call is handled twice only when two of its attempts were
\* verified at once or the nonces were cleared in between; one that succeeds was handled,
\* and one that is refused was handled before, although its caller is told otherwise, or
\* was too old, or its DID could not be resolved (http-client.ts:57-146,
\* authentication-manager.ts:209-264).
HandledOnce ==
  \A c \in TsCall :
    /\ timesHandled[c] > 1 => c \in overlapped \union forgotten
    /\ callStage[c] = "ok" => timesHandled[c] >= 1
    /\ callStage[c] = "refused" =>
         timesHandled[c] >= 1 \/ TooOld(c) \/ c \in unresolved

\* Attempts are made of calls that were started, MaxRetries + 1 at most.
AttemptsInv ==
  /\ \A c \in TsCall : callStage[c] = "backoff" => attempt[c] < MaxRetries
  /\ \A x \in arriving \union verifying : callStage[x.call] # "idle"
  /\ \A a \in tsAnswers : callStage[a.attempt.call] # "idle"

\* The attempts of a call on their way to the server or in verifyAuthHeader
Outstanding(c) == {n \in 0 .. MaxRetries : [call |-> c, no |-> n] \in arriving \union verifying}

\* An attempt is made once and is in one place, so no call is handled oftener than it is sent.
PacedInv ==
  /\ arriving \intersect verifying = {}
  /\ \A x \in arriving \union verifying : x.no <= attempt[x.call]
  /\ \A c \in TsCall :
       IF callStage[c] = "idle" THEN attempt[c] = 0 /\ timesHandled[c] = 0
       ELSE timesHandled[c] + Cardinality(Outstanding(c)) <= attempt[c] + 1

\* A nonce that was used is known unless forgotten; an attempt is verified under a used one
\* only beside another; and an answer says what happened.
NoncesInv ==
  /\ \A c \in TsCall : timesHandled[c] >= 1 => c \in usedNonces \union forgotten
  /\ \A c \in usedNonces : timesHandled[c] >= 1
  /\ \A x, y \in verifying : x.call = y.call /\ x # y => x.call \in overlapped
  /\ \A x \in verifying : x.call \in usedNonces => x.call \in overlapped
  /\ \A a \in tsAnswers :
       \/ timesHandled[a.attempt.call] >= 1
       \/ a.status = 401 /\ (TooOld(a.attempt.call) \/ a.attempt.call \in unresolved)

TsIInv == TsTypes /\ AttemptsInv /\ PacedInv /\ NoncesInv /\ HandledOnce
=============================================================================
