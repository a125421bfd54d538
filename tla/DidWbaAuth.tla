----------------------------- MODULE DidWbaAuth -----------------------------
(***************************************************************************)
(* DID-WBA authentication of HTTP requests: the client that keeps one      *)
(* authentication header and one access token per server                  *)
(* (src/anp/anp/authentication/did_wba_authenticator.py), the requests it  *)
(* is used by, which run concurrently and retry once after a 401           *)
(* (src/anp/anp/anp_crawler/anp_client.py, fetch_url), and the server's    *)
(* verifier (src/anp/anp/authentication/did_wba_verifier.py) behind its    *)
(* middleware (fastanp/middleware.py and, the same, openanp/middleware.py).*)
(* The Java client (anp/java/anp4j, DIDWbaAuthHeader.java) keeps its       *)
(* header and token as the Python one does.                                *)
(*                                                                         *)
(* One client, one server, one domain.  A header is its nonce with the     *)
(* client's time; a token is the time it was issued at; the unit of time   *)
(* is a minute.  Signatures are good and the DID is the client's own.  A   *)
(* coroutine runs to its next await: the checks of the timestamp and of    *)
(* the nonce are one step, the resolution of the DID ends another.         *)
(***************************************************************************)
EXTENDS Integers, FiniteSets

CONSTANTS
  Call,         \* calls of fetch_url
  Header,       \* authentication headers that can be drawn
  None,         \* no header, no token
  TsAge,        \* timestamp_expiration_minutes
  Ahead,        \* how far a timestamp may lie in the future
  NonceAge,     \* nonce_expiration_minutes
  TokenAge,     \* access_token_expire_minutes
  Skews,        \* what the client's clock may be ahead of the server's
  MaxTime,
  MaxMishaps    \* bound on requests lost, DIDs not resolved, restarts

ASSUME AgesAssumption ==
  /\ TsAge \in Nat /\ Ahead \in Nat /\ NonceAge \in Nat /\ TokenAge \in Nat
  /\ Skews \subseteq Int
  /\ None \notin Header /\ None \notin Int /\ Header \intersect Int = {}
  /\ MaxTime \in Nat /\ MaxMishaps \in Nat

\* did_wba_verifier.py:58: "one minute longer than timestamp timeout"
ASSUME WindowAssumption == NonceAge >= TsAge + Ahead

\* The clocks agree to within what the verifier tolerates, the minute that a request is
\* under way included.
ASSUME ClockAssumption == \A s \in Skews : s <= Ahead /\ 1 - s <= TsAge

VARIABLES
  now,          \* the server's clock
  skew,         \* the client's clock minus the server's
  stamp,        \* timestamp of each header drawn
  cached,       \* auth_headers[domain]
  token,        \* tokens[domain]
  phase,        \* of each call
  cred,         \* what the current attempt of a call carries
  retried,      \* calls in their second attempt
  since,        \* when the current attempt was sent
  grant,        \* token in the answer to a call
  noncesAt,     \* _valid_server_nonces
  accepted,     \* history: calls whose header passed the nonce check, by header
  forgotten,    \* history: headers accepted before a restart of the server
  excused,      \* history: calls that shared the header of their retry, or met a mishap
  authMishaps

clientVars == <<skew, stamp, cached, token>>
callVars   == <<phase, cred, retried, since, grant>>
serverVars == <<noncesAt, accepted, forgotten>>
authVars   == <<now, clientVars, callVars, serverVars, excused, authMishaps>>

Drawn == {h \in Header : stamp[h] # None}
InFlight == {"sent", "resolving", "passed", "refused401"}

AuthTypeOK ==
  /\ now \in 0 .. MaxTime
  /\ skew \in Skews
  /\ stamp \in [Header -> Int \union {None}]
  /\ cached \in Drawn \union {None}
  /\ token \in Int \union {None}
  /\ phase \in [Call -> InFlight \union {"idle", "ok", "refused", "failed"}]
  /\ cred \in [Call -> Header \union Int \union {None}]
  /\ \A c \in Call : cred[c] \in Header => cred[c] \in Drawn
  /\ retried \in SUBSET Call
  /\ since \in [Call -> 0 .. MaxTime]
  /\ grant \in [Call -> Int \union {None}]
  /\ noncesAt \in [Header -> Int \union {None}]
  /\ accepted \in [Header -> SUBSET Call]
  /\ forgotten \in SUBSET Header
  /\ excused \in SUBSET Call
  /\ authMishaps \in 0 .. MaxMishaps

AuthInit ==
  /\ now = 0 /\ skew \in Skews
  /\ stamp = [h \in Header |-> None]
  /\ cached = None /\ token = None
  /\ phase = [c \in Call |-> "idle"]
  /\ cred = [c \in Call |-> None]
  /\ retried = {}
  /\ since = [c \in Call |-> 0]
  /\ grant = [c \in Call |-> None]
  /\ noncesAt = [h \in Header |-> None]
  /\ accepted = [h \in Header |-> {}]
  /\ forgotten = {} /\ excused = {}
  /\ authMishaps = 0

Mishap == authMishaps < MaxMishaps /\ authMishaps' = authMishaps + 1

-----------------------------------------------------------------------------
(* The client *)

\* generate_auth_header, and the cache
DrawHeader(h) ==
  /\ stamp[h] = None
  /\ stamp' = [stamp EXCEPT ![h] = now + skew]
  /\ cached' = h

Send(c, credential) ==
  /\ phase' = [phase EXCEPT ![c] = "sent"]
  /\ cred' = [cred EXCEPT ![c] = credential]
  /\ since' = [since EXCEPT ![c] = now]
  /\ grant' = [grant EXCEPT ![c] = None]

\* Calls whose second attempt is under way with header h.
Retrying(h) == {c \in retried : phase[c] \in InFlight /\ cred[c] = h}

\* fetch_url up to the request: the token, or else the header in the cache, or else a
\* new one.
Fetch(c) ==
  /\ phase[c] = "idle"
  /\ \/ /\ token # None
        /\ Send(c, token)
        /\ UNCHANGED <<stamp, cached, excused>>
     \/ /\ token = None /\ cached # None
        /\ Send(c, cached)
        /\ excused' = excused \union Retrying(cached)
        /\ UNCHANGED <<stamp, cached>>
     \/ /\ token = None /\ cached = None
        /\ \E h \in Header : DrawHeader(h) /\ Send(c, h)
        /\ UNCHANGED excused
  /\ UNCHANGED <<now, skew, token, retried, serverVars, authMishaps>>

\* Mutation: get_auth_header answers from its cache even when a new header is asked for.
RetryFromCache(c) ==
  /\ phase[c] = "refused401" /\ c \notin retried
  /\ token' = None
  /\ retried' = retried \union {c}
  /\ IF cached # None
     THEN Send(c, cached) /\ UNCHANGED <<stamp, cached>>
     ELSE \E h \in Header : DrawHeader(h) /\ Send(c, h)
  /\ UNCHANGED <<now, skew, serverVars, excused, authMishaps>>

\* The answer is 401, for the first time: the token goes, whoever stored it, and the
\* request is made again with a new header.
Retry(c) ==
  /\ phase[c] = "refused401" /\ c \notin retried
  /\ token' = None
  /\ retried' = retried \union {c}
  /\ \E h \in Header : DrawHeader(h) /\ Send(c, h)
  /\ UNCHANGED <<now, skew, serverVars, excused, authMishaps>>

\* _process_response of a request that was let in; the token is kept only when the
\* handler behind the middleware answered 200.
Succeed(c) ==
  /\ phase[c] = "passed"
  /\ phase' = [phase EXCEPT ![c] = "ok"]
  /\ \/ grant[c] # None /\ token' = grant[c]
     \/ UNCHANGED token
  /\ UNCHANGED <<now, skew, stamp, cached, cred, retried, since, grant, serverVars,
                 excused, authMishaps>>

\* A second 401 is the answer to the caller.
GiveUp(c) ==
  /\ phase[c] = "refused401" /\ c \in retried
  /\ phase' = [phase EXCEPT ![c] = "refused"]
  /\ UNCHANGED <<now, clientVars, cred, retried, since, grant, serverVars, excused,
                 authMishaps>>

\* A ClientError or the timeout of 30 seconds, wherever the request has got to.
Fail(c) ==
  /\ phase[c] \in InFlight
  /\ Mishap
  /\ phase' = [phase EXCEPT ![c] = "failed"]
  /\ UNCHANGED <<now, clientVars, cred, retried, since, grant, serverVars, excused>>

-----------------------------------------------------------------------------
(* The server *)

\* _verify_timestamp
Timely(h) == stamp[h] - now <= Ahead /\ now - stamp[h] <= TsAge

\* Mutation: an entry goes when it reaches the age, not when it exceeds it.
KeptShorter(h) == noncesAt[h] # None /\ now - noncesAt[h] < NonceAge

\* _is_valid_server_nonce: entries that outlive the clean-up
Kept(h) == noncesAt[h] # None /\ now - noncesAt[h] <= NonceAge

\* _handle_did_auth up to the await of the DID document: the nonce is used up whatever
\* comes after.
CheckHeader(c) ==
  LET h == cred[c] IN
  /\ phase[c] = "sent" /\ h \in Header
  /\ \/ /\ Timely(h)
        /\ noncesAt' = [g \in Header |->
             IF Kept(g) THEN noncesAt[g] ELSE IF g = h THEN now ELSE None]
        /\ phase' = [phase EXCEPT ![c] = IF Kept(h) THEN "refused401" ELSE "resolving"]
        /\ accepted' = IF Kept(h) THEN accepted
                       ELSE [accepted EXCEPT ![h] = @ \union {c}]
     \/ /\ ~Timely(h)
        /\ phase' = [phase EXCEPT ![c] = "refused401"]
        /\ UNCHANGED <<noncesAt, accepted>>
  /\ UNCHANGED <<now, clientVars, cred, retried, since, grant, forgotten, excused,
                 authMishaps>>

\* The DID document arrives, the signature is good and a token is issued.
Resolve(c) ==
  /\ phase[c] = "resolving"
  /\ phase' = [phase EXCEPT ![c] = "passed"]
  /\ grant' = [grant EXCEPT ![c] = now]
  /\ UNCHANGED <<now, clientVars, cred, retried, since, serverVars, excused, authMishaps>>

\* resolve_did_wba_document returns None.
FailToResolve(c) ==
  /\ phase[c] = "resolving"
  /\ Mishap
  /\ phase' = [phase EXCEPT ![c] = "refused401"]
  /\ excused' = excused \union {c}
  /\ UNCHANGED <<now, clientVars, cred, retried, since, grant, serverVars>>

\* _handle_bearer_auth: a token is good before its expiry; no new one is issued.
CheckToken(c) ==
  /\ phase[c] = "sent" /\ cred[c] \in Int
  /\ phase' = [phase EXCEPT ![c] = IF now < cred[c] + TokenAge THEN "passed" ELSE "refused401"]
  /\ UNCHANGED <<now, clientVars, cred, retried, since, grant, serverVars, excused,
                 authMishaps>>

\* The verifier lives in memory: a new process has no nonces, and the connections of the
\* old one are gone.
Restart ==
  /\ Mishap
  /\ noncesAt' = [h \in Header |-> None]
  /\ forgotten' = forgotten \union {h \in Header : accepted[h] # {}}
  /\ phase' = [c \in Call |-> IF phase[c] \in InFlight THEN "failed" ELSE phase[c]]
  /\ UNCHANGED <<now, clientVars, cred, retried, since, grant, accepted, excused>>

\* No request is under way for more than a minute.
Tick ==
  /\ now < MaxTime
  /\ \A c \in Call : phase[c] \in InFlight => since[c] = now
  /\ now' = now + 1
  /\ UNCHANGED <<clientVars, callVars, serverVars, excused, authMishaps>>

AuthNext ==
  \/ \E c \in Call :
       \/ Fetch(c) \/ Retry(c) \/ Succeed(c) \/ GiveUp(c) \/ Fail(c)
       \/ CheckHeader(c) \/ Resolve(c) \/ FailToResolve(c) \/ CheckToken(c)
  \/ Restart \/ Tick

AuthSpec == AuthInit /\ [][AuthNext]_authVars

-----------------------------------------------------------------------------
(* Properties *)

\* A header gets one request in, however clocks differ within the tolerance and however
\* long the server runs: its nonce is remembered for as long as its timestamp is good
\* (did_wba_verifier.py:57-60, 251-277).  A restart is the only way to forget it.
HeaderOnce ==
  \A h \in Header \ forgotten : \A c, d \in accepted[h] : c = d

\* The nonce of a header that was accepted is still known, and was young enough then, or
\* the timestamp of the header is too old by now.
NonceKnown(h) == noncesAt[h] # None /\ noncesAt[h] <= now /\ stamp[h] <= noncesAt[h] + Ahead
NonceInv ==
  \A h \in Header \ forgotten : accepted[h] # {} =>
    h \in Drawn /\ (NonceKnown(h) \/ now - stamp[h] > TsAge)

AuthIInv == AuthTypeOK /\ NonceInv /\ HeaderOnce

\* A caller is told 401 only when another call took the header of its retry from the
\* cache, or the DID could not be resolved: neither a token that has expired, nor one
\* that another call cleared, nor a header that was used before refuses a request whose
\* retry is its own (anp_client.py:146-166).
RefusedForAReason ==
  \A c \in Call : phase[c] = "refused" => c \in excused

\* A retry has a header of its own, stamped when it was sent and new to the server, and so
\* it is not refused.
OwnHeader(c) ==
  /\ cred[c] \in Header /\ stamp[cred[c]] = since[c] + skew
  /\ phase[c] = "sent" => noncesAt[cred[c]] = None
  /\ \A d \in Call \ {c} : phase[d] \in InFlight => cred[d] # cred[c]
RetryInv ==
  /\ \A c \in Call : phase[c] \in InFlight => since[c] <= now /\ now <= since[c] + 1
  /\ \A h \in Header : noncesAt[h] # None => h \in Drawn
  /\ \A c \in retried : phase[c] # "idle"
  /\ \A c \in retried \ excused :
       phase[c] \in InFlight => phase[c] # "refused401" /\ OwnHeader(c)

RefusalIInv == AuthTypeOK /\ RetryInv /\ RefusedForAReason
=============================================================================
