------------------------------ MODULE DidProofs ------------------------------
(***************************************************************************)
(* Proofs about DidWbaAuth for any calls and headers, any clocks and any   *)
(* ages that leave the nonce window as wide as that of the timestamps      *)
(* (WindowAssumption), with AuthIInv inductive; and about DidKeys for any  *)
(* number of documents, where None is no key and no document               *)
(* (DidKeysAssumption), with KeysIInv inductive.                           *)
(***************************************************************************)
EXTENDS DidWbaAuth, DidKeys, TLAPS

\* The initial state satisfies the inductive invariant.
LEMMA AuthInitIInv == AuthInit => AuthIInv
<1> SUFFICES ASSUME AuthInit PROVE AuthIInv
  OBVIOUS
<1>1. AuthTypeOK
  BY AgesAssumption DEF AuthInit, AuthTypeOK, Drawn, InFlight
<1>2. NonceInv /\ HeaderOnce
  BY DEF AuthInit, NonceInv, HeaderOnce
<1> QED BY <1>1, <1>2 DEF AuthIInv

-----------------------------------------------------------------------------
(* Types *)

\* A header that was drawn stays drawn.
LEMMA DrawnGrows ==
  ASSUME AuthTypeOK, NEW h \in Header, DrawHeader(h)
  PROVE  /\ Drawn \subseteq Drawn' /\ h \in Drawn'
         /\ stamp' \in [Header -> Int \union {None}]
         /\ cached' \in Drawn' \union {None}
<1>1. now + skew \in Int /\ now + skew # None
  BY AgesAssumption DEF AuthTypeOK
<1>2. stamp' = [stamp EXCEPT ![h] = now + skew] /\ stamp \in [Header -> Int \union {None}]
  BY DEF DrawHeader, AuthTypeOK
<1>3. Drawn \subseteq Drawn' /\ h \in Drawn'
  BY <1>1, <1>2 DEF Drawn
<1> QED BY <1>1, <1>2, <1>3 DEF DrawHeader

\* Sending keeps the types of what it assigns, for a credential the client may hold.
LEMMA SendTypes ==
  ASSUME AuthTypeOK, NEW c \in Call, NEW credential \in Header \union Int \union {None},
         credential \in Header => credential \in Drawn', Drawn \subseteq Drawn',
         Send(c, credential)
  PROVE  /\ phase' \in [Call -> InFlight \union {"idle", "ok", "refused", "failed"}]
         /\ cred' \in [Call -> Header \union Int \union {None}]
         /\ \A d \in Call : cred'[d] \in Header => cred'[d] \in Drawn'
         /\ since' \in [Call -> 0 .. MaxTime]
         /\ grant' \in [Call -> Int \union {None}]
BY DEF AuthTypeOK, Send, InFlight

\* Every step keeps the types.
LEMMA AuthTypesStep ==
  ASSUME AuthTypeOK, [AuthNext]_authVars
  PROVE  AuthTypeOK'
<1>1. ASSUME NEW c \in Call, Fetch(c) PROVE AuthTypeOK'
  <2>0. UNCHANGED <<now, skew, token, retried, serverVars, authMishaps>>
    BY <1>1 DEF Fetch
  <2>1. CASE token # None /\ Send(c, token) /\ UNCHANGED <<stamp, cached, excused>>
    <3>1. Drawn' = Drawn /\ token \in Int /\ token \notin Header
      BY <2>1, AgesAssumption DEF Drawn, AuthTypeOK
    <3> QED BY <2>0, <2>1, <3>1, SendTypes DEF AuthTypeOK, serverVars
  <2>2. CASE cached # None /\ Send(c, cached) /\ excused' = excused \union Retrying(cached)
             /\ UNCHANGED <<stamp, cached>>
    <3>1. Drawn' = Drawn /\ cached \in Drawn /\ cached \in Header
      BY <2>2 DEF Drawn, AuthTypeOK
    <3>2. excused' \in SUBSET Call
      BY <2>2 DEF Retrying, AuthTypeOK
    <3> QED BY <2>0, <2>2, <3>1, <3>2, SendTypes DEF AuthTypeOK, serverVars
  <2>3. CASE (\E h \in Header : DrawHeader(h) /\ Send(c, h)) /\ UNCHANGED excused
    <3>1. PICK h \in Header : DrawHeader(h) /\ Send(c, h)
      BY <2>3
    <3>2. Drawn \subseteq Drawn' /\ h \in Drawn' /\ stamp' \in [Header -> Int \union {None}]
          /\ cached' \in Drawn' \union {None}
      BY <3>1, DrawnGrows
    <3> QED BY <2>0, <2>3, <3>1, <3>2, SendTypes DEF AuthTypeOK, serverVars
  <2> QED BY <1>1, <2>1, <2>2, <2>3 DEF Fetch
<1>2. ASSUME NEW c \in Call, Retry(c) PROVE AuthTypeOK'
  <2>1. PICK h \in Header : DrawHeader(h) /\ Send(c, h)
    BY <1>2 DEF Retry
  <2>2. Drawn \subseteq Drawn' /\ h \in Drawn' /\ stamp' \in [Header -> Int \union {None}]
        /\ cached' \in Drawn' \union {None}
    BY <2>1, DrawnGrows
  <2> QED BY <1>2, <2>1, <2>2, SendTypes DEF Retry, AuthTypeOK, serverVars
<1>3. ASSUME NEW c \in Call, Succeed(c) \/ GiveUp(c) \/ Fail(c) PROVE AuthTypeOK'
  <2>1. Drawn' = Drawn /\ UNCHANGED <<stamp, cached, cred>>
    BY <1>3 DEF Succeed, GiveUp, Fail, Drawn, clientVars
  <2>2. phase' \in [Call -> InFlight \union {"idle", "ok", "refused", "failed"}]
    BY <1>3 DEF Succeed, GiveUp, Fail, AuthTypeOK, InFlight
  <2>3. token' \in Int \union {None}
    BY <1>3 DEF Succeed, GiveUp, Fail, AuthTypeOK, clientVars
  <2>4. authMishaps' \in 0 .. MaxMishaps
    BY <1>3, AgesAssumption DEF Succeed, GiveUp, Fail, Mishap, AuthTypeOK
  <2> QED BY <1>3, <2>1, <2>2, <2>3, <2>4
         DEF Succeed, GiveUp, Fail, AuthTypeOK, clientVars, callVars, serverVars
<1>4. ASSUME NEW c \in Call, CheckHeader(c) PROVE AuthTypeOK'
  <2> DEFINE h == cred[c]
  <2>1. h \in Header /\ Drawn' = Drawn /\ UNCHANGED <<stamp, cached, cred>>
    BY <1>4 DEF CheckHeader, Drawn, clientVars
  <2>2. phase' \in [Call -> InFlight \union {"idle", "ok", "refused", "failed"}]
    BY <1>4 DEF CheckHeader, AuthTypeOK, InFlight
  <2>3. noncesAt' \in [Header -> Int \union {None}]
    BY <1>4 DEF CheckHeader, AuthTypeOK
  <2>4. accepted' \in [Header -> SUBSET Call]
    BY <1>4, <2>1 DEF CheckHeader, AuthTypeOK
  <2> QED BY <1>4, <2>1, <2>2, <2>3, <2>4 DEF CheckHeader, AuthTypeOK, clientVars
<1>5. ASSUME NEW c \in Call, Resolve(c) \/ FailToResolve(c) \/ CheckToken(c) PROVE AuthTypeOK'
  <2>1. Drawn' = Drawn /\ UNCHANGED <<stamp, cached, cred>>
    BY <1>5 DEF Resolve, FailToResolve, CheckToken, Drawn, clientVars
  <2>2. phase' \in [Call -> InFlight \union {"idle", "ok", "refused", "failed"}]
    BY <1>5 DEF Resolve, FailToResolve, CheckToken, AuthTypeOK, InFlight
  <2>3. grant' \in [Call -> Int \union {None}] /\ excused' \in SUBSET Call
    BY <1>5 DEF Resolve, FailToResolve, CheckToken, AuthTypeOK
  <2>4. authMishaps' \in 0 .. MaxMishaps
    BY <1>5, AgesAssumption DEF Resolve, FailToResolve, CheckToken, Mishap, AuthTypeOK
  <2> QED BY <1>5, <2>1, <2>2, <2>3, <2>4
         DEF Resolve, FailToResolve, CheckToken, AuthTypeOK, clientVars, serverVars
<1>6. ASSUME Restart PROVE AuthTypeOK'
  <2>1. Drawn' = Drawn /\ UNCHANGED <<stamp, cached, cred>>
    BY <1>6 DEF Restart, Drawn, clientVars
  <2>2. phase' \in [Call -> InFlight \union {"idle", "ok", "refused", "failed"}]
    BY <1>6 DEF Restart, AuthTypeOK
  <2>3. authMishaps' \in 0 .. MaxMishaps
    BY <1>6, AgesAssumption DEF Restart, Mishap, AuthTypeOK
  <2> QED BY <1>6, <2>1, <2>2, <2>3 DEF Restart, AuthTypeOK, clientVars
<1>7. ASSUME Tick PROVE AuthTypeOK'
  <2>1. Drawn' = Drawn /\ now' \in 0 .. MaxTime
    BY <1>7, AgesAssumption DEF Tick, Drawn, clientVars, AuthTypeOK
  <2> QED BY <1>7, <2>1 DEF Tick, AuthTypeOK, clientVars, callVars, serverVars
<1>8. ASSUME UNCHANGED authVars PROVE AuthTypeOK'
  <2>1. Drawn' = Drawn
    BY <1>8 DEF authVars, clientVars, Drawn
  <2> QED BY <1>8, <2>1 DEF AuthTypeOK, authVars, clientVars, callVars, serverVars
<1> QED BY <1>1, <1>2, <1>3, <1>4, <1>5, <1>6, <1>7, <1>8 DEF AuthNext

-----------------------------------------------------------------------------
(* Nonces *)

\* A step that takes away neither nonces nor acceptances nor timestamps, while time does
\* not run back, keeps the invariant of the nonces.
LEMMA NoncesFrame ==
  ASSUME AuthIInv, UNCHANGED <<noncesAt, accepted, forgotten>>,
         now' \in Int, now <= now',
         \A h \in Drawn : stamp'[h] = stamp[h], Drawn \subseteq Drawn'
  PROVE  NonceInv' /\ HeaderOnce'
<1>1. ASSUME NEW h \in Header \ forgotten', accepted'[h] # {}
      PROVE  h \in Drawn' /\ (NonceKnown(h)' \/ now' - stamp'[h] > TsAge)
  <2>1. h \in Drawn /\ (NonceKnown(h) \/ now - stamp[h] > TsAge)
    BY <1>1 DEF AuthIInv, NonceInv
  <2>2. stamp'[h] = stamp[h] /\ stamp[h] \in Int /\ now \in Int /\ TsAge \in Int
    BY <2>1, AgesAssumption DEF AuthIInv, AuthTypeOK, Drawn
  <2>3. CASE NonceKnown(h)
    <3>1. noncesAt[h] \in Int
      BY <2>3 DEF NonceKnown, AuthIInv, AuthTypeOK
    <3> QED BY <2>1, <2>2, <2>3, <3>1 DEF NonceKnown
  <2>4. CASE now - stamp[h] > TsAge
    BY <2>1, <2>2, <2>4
  <2> QED BY <2>1, <2>3, <2>4
<1> QED BY <1>1 DEF NonceInv, HeaderOnce, AuthIInv

\* The only step that accepts a header: a header whose nonce was cleaned up is too old.
LEMMA NoncesCheck ==
  ASSUME AuthIInv, NEW c \in Call, CheckHeader(c)
  PROVE  NonceInv' /\ HeaderOnce'
<1> DEFINE h == cred[c]
<1>1. h \in Header /\ h \in Drawn /\ stamp[h] \in Int /\ now \in Int
  BY DEF CheckHeader, AuthIInv, AuthTypeOK, Drawn
<1>2. UNCHANGED <<now, stamp, forgotten>> /\ Drawn' = Drawn
  BY DEF CheckHeader, clientVars, Drawn
<1>3. TsAge \in Int /\ Ahead \in Int /\ NonceAge \in Int /\ NonceAge >= TsAge + Ahead
  BY AgesAssumption, WindowAssumption
<1>4. CASE ~Timely(h) /\ UNCHANGED <<noncesAt, accepted>>
  BY <1>1, <1>2, <1>4, NoncesFrame
<1>5. CASE /\ Timely(h)
           /\ noncesAt' = [g \in Header |->
                IF Kept(g) THEN noncesAt[g] ELSE IF g = h THEN now ELSE None]
           /\ accepted' = IF Kept(h) THEN accepted ELSE [accepted EXCEPT ![h] = @ \union {c}]
  \* a nonce that goes leaves a timestamp that is too old
  <2>1. ASSUME NEW g \in Header \ forgotten, accepted[g] # {}, ~Kept(g)
        PROVE  now - stamp[g] > TsAge
    <3>1. g \in Drawn /\ (NonceKnown(g) \/ now - stamp[g] > TsAge) /\ stamp[g] \in Int
      BY <2>1 DEF AuthIInv, NonceInv, AuthTypeOK, Drawn
    <3>2. CASE NonceKnown(g)
      <4>1. noncesAt[g] \in Int /\ now - noncesAt[g] > NonceAge
        BY <1>1, <1>3, <2>1, <3>2 DEF NonceKnown, Kept, AuthIInv, AuthTypeOK
      <4> QED BY <1>1, <1>3, <3>1, <3>2, <4>1 DEF NonceKnown
    <3> QED BY <3>1, <3>2
  \* so the header was not accepted before
  <2>2. h \in forgotten \/ accepted[h] = {} \/ Kept(h)
    BY <1>1, <1>3, <1>5, <2>1 DEF Timely
  <2>3. accepted \in [Header -> SUBSET Call]
    BY DEF AuthIInv, AuthTypeOK
  <2>4. HeaderOnce'
    BY <1>1, <1>2, <1>5, <2>2, <2>3 DEF HeaderOnce, AuthIInv
  <2>5. ASSUME NEW g \in Header \ forgotten', accepted'[g] # {}
        PROVE  g \in Drawn' /\ (NonceKnown(g)' \/ now' - stamp'[g] > TsAge)
    <3>1. CASE g = h /\ ~Kept(h)
      <4>1. noncesAt'[h] = now /\ now # None
        BY <1>1, <1>5, <3>1, AgesAssumption
      <4>2. stamp[h] <= now + Ahead
        BY <1>1, <1>3, <1>5 DEF Timely
      <4> QED BY <1>1, <1>2, <3>1, <4>1, <4>2 DEF NonceKnown
    <3>2. CASE Kept(g)
      <4>1. accepted[g] # {} /\ noncesAt'[g] = noncesAt[g]
        BY <1>5, <2>3, <2>5, <3>2
      <4> QED BY <1>2, <2>5, <4>1 DEF AuthIInv, NonceInv, NonceKnown
    <3>3. CASE g # h /\ ~Kept(g)
      <4>1. accepted[g] # {}
        BY <1>5, <2>3, <2>5, <3>3
      <4> QED BY <1>2, <2>1, <2>5, <3>3, <4>1 DEF AuthIInv, NonceInv
    <3> QED BY <3>1, <3>2, <3>3
  <2> QED BY <2>4, <2>5 DEF NonceInv
<1> QED BY <1>4, <1>5 DEF CheckHeader

\* Every step keeps the inductive invariant.
LEMMA AuthStep ==
  ASSUME AuthIInv, [AuthNext]_authVars
  PROVE  AuthIInv'
<1>0. AuthTypeOK' /\ AuthTypeOK
  BY AuthTypesStep DEF AuthIInv
<1>1. now \in Int /\ now' \in Int
  BY <1>0 DEF AuthTypeOK
<1>2. ASSUME NEW h \in Header, DrawHeader(h)
      PROVE  Drawn \subseteq Drawn' /\ \A g \in Drawn : stamp'[g] = stamp[g]
  <2>1. Drawn \subseteq Drawn'
    BY <1>0, <1>2, DrawnGrows
  <2> QED BY <1>0, <1>2, <2>1 DEF DrawHeader, Drawn, AuthTypeOK
<1>3. ASSUME NEW c \in Call, Fetch(c) \/ Retry(c) PROVE NonceInv' /\ HeaderOnce'
  <2>1. UNCHANGED <<now, noncesAt, accepted, forgotten>>
    BY <1>3 DEF Fetch, Retry, serverVars
  <2>2. stamp' = stamp \/ \E h \in Header : DrawHeader(h)
    BY <1>3 DEF Fetch, Retry
  <2>3. Drawn \subseteq Drawn' /\ \A g \in Drawn : stamp'[g] = stamp[g]
    BY <1>2, <2>2 DEF Drawn
  <2> QED BY <1>1, <2>1, <2>3, NoncesFrame
<1>4. ASSUME NEW c \in Call, Succeed(c) \/ GiveUp(c) \/ Fail(c) \/ Resolve(c) \/ FailToResolve(c)
                               \/ CheckToken(c)
      PROVE  NonceInv' /\ HeaderOnce'
  <2>1. UNCHANGED <<now, stamp, noncesAt, accepted, forgotten>>
    BY <1>4 DEF Succeed, GiveUp, Fail, Resolve, FailToResolve, CheckToken, clientVars, serverVars
  <2>2. Drawn' = Drawn
    BY <2>1 DEF Drawn
  <2> QED BY <1>1, <2>1, <2>2, NoncesFrame
<1>5. ASSUME Restart PROVE NonceInv' /\ HeaderOnce'
  \* whatever was accepted is forgotten now
  <2>1. \A h \in Header \ forgotten' : accepted'[h] = {}
    BY <1>5 DEF Restart
  <2> QED BY <2>1 DEF NonceInv, HeaderOnce
<1>6. ASSUME Tick PROVE NonceInv' /\ HeaderOnce'
  <2>1. UNCHANGED <<stamp, noncesAt, accepted, forgotten>> /\ now' = now + 1
    BY <1>6 DEF Tick, clientVars, serverVars
  <2>2. Drawn' = Drawn
    BY <2>1 DEF Drawn
  <2> QED BY <1>1, <2>1, <2>2, NoncesFrame
<1>7. ASSUME UNCHANGED authVars PROVE NonceInv' /\ HeaderOnce'
  <2>1. UNCHANGED <<now, stamp, noncesAt, accepted, forgotten>> /\ Drawn' = Drawn
    BY <1>7 DEF authVars, clientVars, serverVars, Drawn
  <2> QED BY <1>1, <2>1, NoncesFrame
<1>8. NonceInv' /\ HeaderOnce'
  BY <1>3, <1>4, <1>5, <1>6, <1>7, NoncesCheck DEF AuthNext
<1> QED BY <1>0, <1>8 DEF AuthIInv

-----------------------------------------------------------------------------
(* Retries *)

\* A step that leaves alone the clock, the headers and nonces, and does no more to calls
\* than end attempts or let them through, keeps what holds of retries.
LEMMA RetriesFrame ==
  ASSUME RefusalIInv,
         UNCHANGED <<now, skew, stamp, cred, since, retried>>,
         phase' \in [Call -> InFlight \union {"idle", "ok", "refused", "failed"}],
         excused \subseteq excused',
         \A h \in Header : noncesAt'[h] # None => noncesAt[h] # None,
         \A c \in Call : /\ phase'[c] \in InFlight => phase[c] \in InFlight
                         /\ phase'[c] = "sent" => phase[c] = "sent"
                         /\ phase'[c] = "idle" => phase[c] = "idle"
                         /\ phase'[c] = "refused401" /\ c \in retried =>
                              phase[c] = "refused401" \/ c \in excused'
  PROVE  RetryInv'
<1>1. Drawn' = Drawn
  BY DEF Drawn
<1>2. ASSUME NEW c \in retried' \ excused', phase'[c] \in InFlight
      PROVE  phase'[c] # "refused401" /\ OwnHeader(c)'
  <2>1. c \in retried \ excused /\ c \in Call /\ phase[c] \in InFlight
    BY <1>2 DEF RefusalIInv, AuthTypeOK
  <2>2. phase[c] # "refused401" /\ OwnHeader(c)
    BY <2>1 DEF RefusalIInv, RetryInv
  <2>3. phase'[c] # "refused401"
    BY <1>2, <2>1, <2>2
  <2> QED BY <2>1, <2>2, <2>3 DEF OwnHeader
<1>3. /\ \A c \in Call : phase'[c] \in InFlight => since'[c] <= now' /\ now' <= since'[c] + 1
      /\ \A h \in Header : noncesAt'[h] # None => h \in Drawn'
      /\ \A c \in retried' : phase'[c] # "idle"
  BY <1>1 DEF RefusalIInv, RetryInv, AuthTypeOK
<1> QED BY <1>2, <1>3 DEF RetryInv

\* A new attempt disturbs no retry when its credential is not the header of one.
LEMMA RetriesSend ==
  ASSUME RefusalIInv, AuthTypeOK', NEW c \in Call, NEW credential,
         c \notin retried, Send(c, credential),
         UNCHANGED <<now, skew, noncesAt>>,
         \A h \in Drawn : h \in Drawn' /\ stamp'[h] = stamp[h],
         retried' \subseteq retried \union {c}, excused \subseteq excused',
         \A d \in retried \ excused' : phase[d] \in InFlight => cred[d] # credential,
         c \in retried' => OwnHeader(c)'
  PROVE  RetryInv'
<1> USE DEF RefusalIInv
<1>1. /\ phase' = [phase EXCEPT ![c] = "sent"] /\ cred' = [cred EXCEPT ![c] = credential]
      /\ since' = [since EXCEPT ![c] = now]
      /\ phase \in [Call -> InFlight \union {"idle", "ok", "refused", "failed"}]
      /\ cred \in [Call -> Header \union Int \union {None}] /\ since \in [Call -> 0 .. MaxTime]
      /\ now \in Int /\ retried \in SUBSET Call
  BY DEF Send, AuthTypeOK
<1>2. \A d \in Call : phase'[d] \in InFlight => since'[d] <= now' /\ now' <= since'[d] + 1
  BY <1>1 DEF RetryInv
<1>3. \A h \in Header : noncesAt'[h] # None => h \in Drawn'
  BY DEF RetryInv
<1>4. \A d \in retried' : phase'[d] # "idle"
  BY <1>1 DEF RetryInv
<1>5. ASSUME NEW d \in retried' \ excused', phase'[d] \in InFlight
      PROVE  phase'[d] # "refused401" /\ OwnHeader(d)'
  <2>1. CASE d = c
    BY <1>1, <1>5, <2>1
  <2>2. CASE d # c
    <3>1. d \in retried \ excused /\ d \in Call /\ phase'[d] = phase[d] /\ cred'[d] = cred[d]
          /\ since'[d] = since[d]
      BY <1>1, <1>5, <2>2
    <3>2. phase[d] # "refused401" /\ OwnHeader(d)
      BY <1>5, <3>1 DEF RetryInv
    <3>3. cred[d] \in Drawn
      BY <3>1, <3>2 DEF OwnHeader, AuthTypeOK
    <3>4. cred[d] # credential
      BY <1>5, <3>1
    <3>5. \A e \in Call \ {d} : phase'[e] \in InFlight => cred'[e] # cred'[d]
      BY <1>1, <3>1, <3>2, <3>4 DEF OwnHeader
    <3> QED BY <3>1, <3>2, <3>3, <3>5 DEF OwnHeader
  <2> QED BY <2>1, <2>2
<1> QED BY <1>2, <1>3, <1>4, <1>5 DEF RetryInv

\* A header that is drawn is in use nowhere, unknown to the server, and bears the time.
LEMMA NewHeader ==
  ASSUME RefusalIInv, AuthTypeOK', NEW c \in Call, NEW h \in Header, DrawHeader(h), Send(c, h),
         UNCHANGED <<now, skew, noncesAt>>
  PROVE  /\ \A g \in Drawn : g \in Drawn' /\ stamp'[g] = stamp[g]
         /\ \A d \in Call : cred[d] # h
         /\ OwnHeader(c)'
<1> USE DEF RefusalIInv
<1>1. /\ stamp[h] = None /\ stamp' = [stamp EXCEPT ![h] = now + skew] /\ h \notin Drawn
      /\ stamp \in [Header -> Int \union {None}]
  BY DEF DrawHeader, Drawn, AuthTypeOK
<1>2. now + skew \in Int /\ now + skew # None
  BY AgesAssumption DEF AuthTypeOK
<1>3. \A g \in Drawn : g \in Drawn' /\ stamp'[g] = stamp[g]
  BY <1>1, <1>2 DEF Drawn
<1>4. \A d \in Call : cred[d] # h
  BY <1>1 DEF AuthTypeOK
<1>5. /\ phase' = [phase EXCEPT ![c] = "sent"] /\ cred' = [cred EXCEPT ![c] = h]
      /\ since' = [since EXCEPT ![c] = now]
      /\ phase \in [Call -> InFlight \union {"idle", "ok", "refused", "failed"}]
      /\ cred \in [Call -> Header \union Int \union {None}] /\ since \in [Call -> 0 .. MaxTime]
  BY DEF Send, AuthTypeOK
<1>6. noncesAt[h] = None
  BY <1>1 DEF RetryInv
<1>7. stamp'[cred'[c]] = since'[c] + skew'
  BY <1>1, <1>5
<1>8. OwnHeader(c)'
  BY <1>4, <1>5, <1>6, <1>7 DEF OwnHeader
<1> QED BY <1>3, <1>4, <1>8

\* The header of a retry is timely and its nonce is new: the server lets it pass.
LEMMA RetriesCheck ==
  ASSUME RefusalIInv, AuthTypeOK', NEW c \in Call, CheckHeader(c)
  PROVE  RetryInv'
<1> USE DEF RefusalIInv
<1> DEFINE h == cred[c]
<1>1. /\ phase[c] = "sent" /\ h \in Header /\ h \in Drawn
      /\ UNCHANGED <<now, skew, stamp, cred, since, retried, excused>>
      /\ phase \in [Call -> InFlight \union {"idle", "ok", "refused", "failed"}]
      /\ noncesAt \in [Header -> Int \union {None}]
  BY DEF CheckHeader, clientVars, AuthTypeOK
<1>2. \A d \in Call \ {c} : phase'[d] = phase[d]
  BY <1>1 DEF CheckHeader
<1>3. phase'[c] \in {"refused401", "resolving"}
  BY <1>1 DEF CheckHeader
<1>4. \A g \in Header : g # h /\ noncesAt'[g] # None => noncesAt[g] # None
  BY <1>1 DEF CheckHeader
<1>5. ASSUME c \in retried \ excused PROVE phase'[c] # "refused401" /\ OwnHeader(c)
  <2>1. OwnHeader(c) /\ stamp[h] = since[c] + skew /\ noncesAt[h] = None
    BY <1>1, <1>5 DEF RetryInv, OwnHeader, InFlight
  <2>2. since[c] <= now /\ now <= since[c] + 1
    BY <1>1 DEF RetryInv, InFlight
  <2>3. skew <= Ahead /\ 1 - skew <= TsAge
    BY ClockAssumption DEF AuthTypeOK
  <2>4. since[c] \in Int /\ now \in Int /\ skew \in Int /\ Ahead \in Int /\ TsAge \in Int
    BY AgesAssumption DEF AuthTypeOK
  <2>5. Timely(h)
    BY <2>1, <2>2, <2>3, <2>4 DEF Timely
  <2>6. ~Kept(h)
    BY <2>1 DEF Kept
  <2> QED BY <1>1, <2>1, <2>5, <2>6 DEF CheckHeader
<1>6. Drawn' = Drawn
  BY <1>1 DEF Drawn
<1>7. \A d \in Call : phase'[d] \in InFlight => since'[d] <= now' /\ now' <= since'[d] + 1
  BY <1>1, <1>2 DEF RetryInv, InFlight
<1>8. \A g \in Header : noncesAt'[g] # None => g \in Drawn'
  BY <1>1, <1>4, <1>6 DEF RetryInv
<1>9. \A d \in retried' : phase'[d] # "idle"
  BY <1>1, <1>2, <1>3 DEF RetryInv, AuthTypeOK
<1>10. ASSUME NEW d \in retried' \ excused', phase'[d] \in InFlight
       PROVE  phase'[d] # "refused401" /\ OwnHeader(d)'
  <2>1. d \in Call /\ d \in retried \ excused
    BY <1>1, <1>10 DEF AuthTypeOK
  <2>2. \A e \in Call : phase'[e] \in InFlight => phase[e] \in InFlight
    BY <1>1, <1>2 DEF InFlight
  <2>3. CASE d = c
    <3>1. phase'[c] # "refused401" /\ OwnHeader(c)
      BY <1>5, <2>1, <2>3
    <3> QED BY <1>1, <1>3, <2>2, <2>3, <3>1 DEF OwnHeader
  <2>4. CASE d # c
    <3>1. phase'[d] = phase[d] /\ phase[d] # "refused401" /\ OwnHeader(d)
      BY <1>2, <1>10, <2>1, <2>4 DEF RetryInv
    <3>2. cred[d] # h
      BY <1>1, <2>1, <2>4, <3>1 DEF OwnHeader, InFlight
    <3> QED BY <1>1, <1>4, <2>2, <3>1, <3>2 DEF OwnHeader
  <2> QED BY <2>3, <2>4
<1> QED BY <1>7, <1>8, <1>9, <1>10 DEF RetryInv

\* Every step keeps what holds of retries, and refuses nobody without a reason.
LEMMA RefusalStep ==
  ASSUME RefusalIInv, [AuthNext]_authVars
  PROVE  RefusalIInv'
<1>0. AuthTypeOK /\ AuthTypeOK'
  BY AuthTypesStep DEF RefusalIInv
<1>p. /\ phase' \in [Call -> InFlight \union {"idle", "ok", "refused", "failed"}]
      /\ phase \in [Call -> InFlight \union {"idle", "ok", "refused", "failed"}]
  BY <1>0 DEF AuthTypeOK
<1>1. ASSUME NEW c \in Call, Fetch(c) PROVE RetryInv'
  <2>1. /\ phase[c] = "idle" /\ c \notin retried
        /\ UNCHANGED <<now, skew, retried, noncesAt>>
    BY <1>1, <1>0 DEF Fetch, RefusalIInv, RetryInv, serverVars
  <2>2. CASE token # None /\ Send(c, token) /\ UNCHANGED <<stamp, cached, excused>>
    <3>1. token \in Int /\ token \notin Header /\ Drawn' = Drawn
      BY <1>0, <2>2, AgesAssumption DEF AuthTypeOK, Drawn
    <3>2. \A d \in retried \ excused' : phase[d] \in InFlight => cred[d] # token
      BY <2>2, <3>1 DEF RefusalIInv, RetryInv, OwnHeader
    <3> QED BY <1>0, <2>1, <2>2, <3>1, <3>2, RetriesSend
  <2>3. CASE cached # None /\ Send(c, cached) /\ excused' = excused \union Retrying(cached)
             /\ UNCHANGED <<stamp, cached>>
    <3>1. Drawn' = Drawn
      BY <2>3 DEF Drawn
    <3>2. \A d \in retried \ excused' : phase[d] \in InFlight => cred[d] # cached
      BY <2>3 DEF Retrying
    <3> QED BY <1>0, <2>1, <2>3, <3>1, <3>2, RetriesSend
  <2>4. CASE (\E h \in Header : DrawHeader(h) /\ Send(c, h)) /\ UNCHANGED excused
    <3>1. PICK h \in Header : DrawHeader(h) /\ Send(c, h)
      BY <2>4
    <3>2. /\ \A g \in Drawn : g \in Drawn' /\ stamp'[g] = stamp[g]
          /\ \A d \in Call : cred[d] # h
      BY <1>0, <2>1, <3>1, NewHeader
    <3>3. retried \in SUBSET Call
      BY <1>0 DEF AuthTypeOK
    <3> QED BY <1>0, <2>1, <2>4, <3>1, <3>2, <3>3, RetriesSend
  <2> QED BY <1>1, <2>2, <2>3, <2>4 DEF Fetch
<1>2. ASSUME NEW c \in Call, Retry(c) PROVE RetryInv'
  <2>1. /\ c \notin retried /\ retried' = retried \union {c}
        /\ UNCHANGED <<now, skew, noncesAt, excused>>
    BY <1>2 DEF Retry, serverVars
  <2>2. PICK h \in Header : DrawHeader(h) /\ Send(c, h)
    BY <1>2 DEF Retry
  <2>3. /\ \A g \in Drawn : g \in Drawn' /\ stamp'[g] = stamp[g]
        /\ \A d \in Call : cred[d] # h
        /\ OwnHeader(c)'
    BY <1>0, <2>1, <2>2, NewHeader
  <2>4. retried \in SUBSET Call
    BY <1>0 DEF AuthTypeOK
  <2> QED BY <1>0, <2>1, <2>2, <2>3, <2>4, RetriesSend
<1>3. ASSUME NEW c \in Call, Succeed(c) \/ GiveUp(c) \/ Fail(c) \/ Resolve(c) PROVE RetryInv'
  <2>1. /\ UNCHANGED <<now, skew, stamp, cred, since, retried, noncesAt, excused>>
        /\ \E to \in {"ok", "refused", "failed", "passed"} : phase' = [phase EXCEPT ![c] = to]
        /\ phase[c] \in InFlight
    BY <1>3 DEF Succeed, GiveUp, Fail, Resolve, clientVars, serverVars, InFlight
  <2> QED BY <1>p, <2>1, RetriesFrame
<1>4. ASSUME NEW c \in Call, FailToResolve(c) PROVE RetryInv'
  <2>1. /\ UNCHANGED <<now, skew, stamp, cred, since, retried, noncesAt>>
        /\ phase' = [phase EXCEPT ![c] = "refused401"] /\ phase[c] \in InFlight
        /\ excused' = excused \union {c}
    BY <1>4 DEF FailToResolve, clientVars, serverVars, InFlight
  <2> QED BY <1>p, <2>1, RetriesFrame
<1>5. ASSUME NEW c \in Call, CheckToken(c) PROVE RetryInv'
  <2>1. /\ UNCHANGED <<now, skew, stamp, cred, since, retried, noncesAt, excused>>
        /\ \E to \in {"passed", "refused401"} : phase' = [phase EXCEPT ![c] = to]
        /\ phase[c] \in InFlight /\ cred[c] \notin Header
    BY <1>5, AgesAssumption DEF CheckToken, clientVars, serverVars, InFlight
  \* a retry carries a header
  <2>2. c \in retried => c \in excused
    BY <2>1 DEF RefusalIInv, RetryInv, OwnHeader
  <2> QED BY <1>p, <2>1, <2>2, RetriesFrame
<1>6. ASSUME Restart PROVE RetryInv'
  <2>1. /\ UNCHANGED <<now, skew, stamp, cred, since, retried, excused>>
        /\ \A c \in Call : phase'[c] = IF phase[c] \in InFlight THEN "failed" ELSE phase[c]
        /\ \A h \in Header : noncesAt'[h] = None
    BY <1>6 DEF Restart, clientVars
  <2> QED BY <1>p, <2>1, RetriesFrame DEF InFlight
<1>7. ASSUME Tick PROVE RetryInv'
  <2>1. /\ UNCHANGED <<skew, stamp, phase, cred, since, retried, noncesAt, excused>>
        /\ now' = now + 1 /\ \A c \in Call : phase[c] \in InFlight => since[c] = now
    BY <1>7 DEF Tick, clientVars, callVars, serverVars
  <2>2. now \in Int /\ Drawn' = Drawn
    BY <1>0, <2>1 DEF AuthTypeOK, Drawn
  <2> QED BY <2>1, <2>2 DEF RefusalIInv, RetryInv, OwnHeader
<1>8. ASSUME UNCHANGED authVars PROVE RetryInv'
  <2>1. UNCHANGED <<now, skew, stamp, phase, cred, since, retried, noncesAt, excused>>
    BY <1>8 DEF authVars, clientVars, callVars, serverVars
  <2> QED BY <1>p, <2>1, RetriesFrame
<1>9. RetryInv'
  BY <1>0, <1>1, <1>2, <1>3, <1>4, <1>5, <1>6, <1>7, <1>8, RetriesCheck DEF AuthNext
<1>10. excused \subseteq excused'
  BY DEF AuthNext, Fetch, Retry, Succeed, GiveUp, Fail, CheckHeader, Resolve, FailToResolve,
         CheckToken, Restart, Tick, authVars
<1>11. ASSUME NEW c \in Call, phase'[c] = "refused", phase[c] # "refused"
       PROVE  GiveUp(c)
  BY <1>p, <1>11 DEF AuthNext, Fetch, Retry, Succeed, GiveUp, Fail, CheckHeader, Resolve,
     FailToResolve, CheckToken, Restart, Tick, authVars, callVars, Send
<1>12. RefusedForAReason'
  <2>1. ASSUME NEW c \in Call, GiveUp(c) PROVE c \in excused
    BY <2>1 DEF GiveUp, RefusalIInv, RetryInv, InFlight
  <2> QED BY <1>10, <1>11, <2>1 DEF RefusedForAReason, RefusalIInv
<1> QED BY <1>0, <1>9, <1>12 DEF RefusalIInv

-----------------------------------------------------------------------------
(* Theorems *)

\* AuthIInv is an invariant of the client, its calls and the verifier.
THEOREM AuthInvariance == AuthSpec => []AuthIInv
<1>1. AuthInit => AuthIInv
  BY AuthInitIInv
<1>2. AuthIInv /\ [AuthNext]_authVars => AuthIInv'
  BY AuthStep
<1> QED BY <1>1, <1>2, PTL DEF AuthSpec

\* The variables keep their types.
THEOREM AuthTypeCorrect == AuthSpec => []AuthTypeOK
<1>1. AuthIInv => AuthTypeOK
  BY DEF AuthIInv
<1> QED BY <1>1, AuthInvariance, PTL

\* The verifier never lets in two requests with one header: whatever the ages, the skew of
\* the clocks and the order of requests, while it runs (did_wba_verifier.py:192-274).
THEOREM HeaderUsedOnce == AuthSpec => []HeaderOnce
<1>1. AuthIInv => HeaderOnce
  BY DEF AuthIInv
<1> QED BY <1>1, AuthInvariance, PTL

\* A caller is told 401 for a reason, whatever tokens expired or were cleared by others, as
\* long as the clocks agree to within the tolerance (ClockAssumption): the header of a retry
\* is its own unless another call shared it (anp_client.py:146-166).
THEOREM RefusalHasAReason == AuthSpec => []RefusedForAReason
<1>1. AuthInit => RefusalIInv
  <2> SUFFICES ASSUME AuthInit PROVE RefusalIInv
    OBVIOUS
  <2>1. AuthTypeOK
    BY AuthInitIInv DEF AuthIInv
  <2>2. RetryInv /\ RefusedForAReason
    BY DEF AuthInit, RetryInv, RefusedForAReason, InFlight
  <2> QED BY <2>1, <2>2 DEF RefusalIInv
<1>2. RefusalIInv /\ [AuthNext]_authVars => RefusalIInv'
  BY RefusalStep
<1>3. RefusalIInv => RefusedForAReason
  BY DEF RefusalIInv
<1> QED BY <1>1, <1>2, <1>3, PTL DEF AuthSpec

-----------------------------------------------------------------------------
(* The keys of a DID (DidKeys) *)


\* A document by its fields
LEMMA CreateIs ==
  ASSUME NEW g \in Generation, NEW did, NEW e2ee \in BOOLEAN
  PROVE  LET w == Create(g, did, e2ee)
             f == {"key-1"} \union (IF e2ee THEN E2eeFragments ELSE {})
             plain == [id |-> did, methods |-> Methods(g, f), authentication |-> "key-1",
                       embedded |-> NoDoc, keyAgreement |-> IF e2ee THEN "key-3" ELSE "none",
                       services |-> "asCreated", proof |-> NoDoc]
         IN /\ w = [id |-> did, methods |-> Methods(g, f), authentication |-> "key-1",
                    embedded |-> NoDoc, keyAgreement |-> IF e2ee THEN "key-3" ELSE "none",
                    services |-> "asCreated",
                    proof |-> [method |-> "key-1", key |-> AuthKey(g), over |-> plain]]
            /\ Signable(w) = plain
            /\ w.keyAgreement = IF e2ee THEN "key-3" ELSE "none"
<1> DEFINE w == Create(g, did, e2ee)
           ms == Methods(g, {"key-1"} \union (IF e2ee THEN E2eeFragments ELSE {}))
           agreement == IF e2ee THEN "key-3" ELSE "none"
           plain == [id |-> did, methods |-> ms, authentication |-> "key-1", embedded |-> NoDoc,
                     keyAgreement |-> agreement, services |-> "asCreated", proof |-> NoDoc]
           proof == [method |-> "key-1", key |-> AuthKey(g), over |-> plain]
<1>1. w = [plain EXCEPT !.proof = proof]
  BY DEF Create, Proved
<1> HIDE DEF ms, agreement
<1>2. \A x : [[id |-> did, methods |-> ms, authentication |-> "key-1", embedded |-> NoDoc,
               keyAgreement |-> agreement, services |-> "asCreated", proof |-> NoDoc]
              EXCEPT !.proof = x]
      = [id |-> did, methods |-> ms, authentication |-> "key-1", embedded |-> NoDoc,
         keyAgreement |-> agreement, services |-> "asCreated", proof |-> x]
  OBVIOUS
<1>3. \A x : [[id |-> did, methods |-> ms, authentication |-> "key-1", embedded |-> NoDoc,
               keyAgreement |-> agreement, services |-> "asCreated", proof |-> x]
              EXCEPT !.proof = NoDoc]
      = [id |-> did, methods |-> ms, authentication |-> "key-1", embedded |-> NoDoc,
         keyAgreement |-> agreement, services |-> "asCreated", proof |-> NoDoc]
  OBVIOUS
<1> HIDE DEF w
<1>4. w = [id |-> did, methods |-> ms, authentication |-> "key-1", embedded |-> NoDoc,
           keyAgreement |-> agreement, services |-> "asCreated", proof |-> proof]
  <2> HIDE DEF proof
  <2> QED BY <1>1, <1>2 DEF plain
<1>5. Signable(w) = plain
  <2> HIDE DEF proof
  <2> QED BY <1>3, <1>4 DEF Signable, plain
<1>6. w.keyAgreement = agreement
  BY <1>4
<1> QED BY <1>4, <1>5, <1>6 DEF w, ms, agreement

\* What a document that was generated looks like, whatever its services are changed to.
LEMMA WrittenIs ==
  ASSUME DidKeysAssumption, NEW w \in Written, NEW x
  PROVE  LET e == [w EXCEPT !.services = x] IN
         /\ e = [id |-> w.id, methods |-> w.methods, authentication |-> w.authentication,
                 embedded |-> w.embedded, keyAgreement |-> w.keyAgreement,
                 services |-> x, proof |-> w.proof]
         /\ w = [w EXCEPT !.services = "asCreated"]
         /\ w.proof # NoDoc =>
              /\ w.proof.key = FindMethod(w, w.proof.method).key
              /\ w.id # Absent => w.id = FindMethod(w, "key-1").key
              /\ w.proof.over = Signable(e) <=> x = "asCreated"
<1>1. ASSUME NEW g \in Generation, NEW bound \in BOOLEAN, NEW e2ee \in BOOLEAN,
             w = Create(g, IF bound THEN AuthKey(g) ELSE Absent, e2ee)
      PROVE  LET e == [w EXCEPT !.services = x] IN
             /\ e = [id |-> w.id, methods |-> w.methods, authentication |-> w.authentication,
                     embedded |-> w.embedded, keyAgreement |-> w.keyAgreement,
                     services |-> x, proof |-> w.proof]
             /\ w = [w EXCEPT !.services = "asCreated"]
             /\ w.proof # NoDoc =>
                  /\ w.proof.key = FindMethod(w, w.proof.method).key
                  /\ w.id # Absent => w.id = FindMethod(w, "key-1").key
                  /\ w.proof.over = Signable(e) <=> x = "asCreated"
  <2> DEFINE did == IF bound THEN AuthKey(g) ELSE Absent
             f == {"key-1"} \union (IF e2ee THEN E2eeFragments ELSE {})
             ms == Methods(g, f)
             agreement == IF e2ee THEN "key-3" ELSE "none"
             plain == [id |-> did, methods |-> ms, authentication |-> "key-1", embedded |-> NoDoc,
                       keyAgreement |-> agreement, services |-> "asCreated", proof |-> NoDoc]
             proof == [method |-> "key-1", key |-> AuthKey(g), over |-> plain]
             e == [w EXCEPT !.services = x]
  <2>1. w = [id |-> did, methods |-> ms, authentication |-> "key-1", embedded |-> NoDoc,
             keyAgreement |-> agreement, services |-> "asCreated", proof |-> proof]
    BY <1>1, CreateIs
  <2>2. "key-1" \in DOMAIN ms /\ ms["key-1"].key = AuthKey(g)
    BY DEF Methods, Method, KindOf, AuthKey
  <2> HIDE DEF ms, agreement, plain
  <2>3. proof.method = "key-1" /\ proof.key = AuthKey(g) /\ proof.over = plain
    OBVIOUS
  <2> HIDE DEF proof
  <2>4. FindMethod(w, "key-1") = ms["key-1"]
    BY <2>1, <2>2 DEF FindMethod
  <2>5. /\ e = [id |-> did, methods |-> ms, authentication |-> "key-1", embedded |-> NoDoc,
                keyAgreement |-> agreement, services |-> x, proof |-> proof]
        /\ w = [w EXCEPT !.services = "asCreated"]
    <3> HIDE DEF did
    <3> QED BY <2>1
  <2>6. Signable(e) = [id |-> did, methods |-> ms, authentication |-> "key-1", embedded |-> NoDoc,
                       keyAgreement |-> agreement, services |-> x, proof |-> NoDoc]
    <3> HIDE DEF did, e
    <3>1. Signable(e) = [e EXCEPT !.proof = NoDoc]
      BY DEF Signable
    <3>2. e.id = did /\ e.methods = ms /\ e.keyAgreement = agreement /\ e.services = x
      BY <2>5
    <3> QED BY <2>5, <3>1, <3>2
  <2>7. plain = Signable(e) <=> x = "asCreated"
    <3>1. plain.services = "asCreated" /\ Signable(e).services = x
      BY <2>6 DEF plain
    <3>2. x = "asCreated" => plain = Signable(e)
      BY <2>6 DEF plain
    <3> QED BY <3>1, <3>2
  <2>8. w.id = did /\ w.proof = proof
    BY <2>1
  <2>9. w.proof.key = FindMethod(w, w.proof.method).key /\ (w.id # Absent => w.id = FindMethod(w, "key-1").key)
    BY <2>2, <2>3, <2>4, <2>8
  <2>10. e = [id |-> w.id, methods |-> w.methods, authentication |-> w.authentication,
              embedded |-> w.embedded, keyAgreement |-> w.keyAgreement,
              services |-> x, proof |-> w.proof]
    <3> HIDE DEF did
    <3> QED BY <2>1, <2>5
  <2> QED BY <2>3, <2>5, <2>7, <2>8, <2>9, <2>10
<1>2. ASSUME NEW g \in Generation, NEW kind \in {"p256", "ed25519"}, NEW known \in BOOLEAN,
             w = HandWritten(g, kind, known)
      PROVE  LET e == [w EXCEPT !.services = x] IN
             /\ e = [id |-> w.id, methods |-> w.methods, authentication |-> w.authentication,
                     embedded |-> w.embedded, keyAgreement |-> w.keyAgreement,
                     services |-> x, proof |-> w.proof]
             /\ w = [w EXCEPT !.services = "asCreated"]
             /\ w.proof = NoDoc
  <2> DEFINE embedded == [type |-> IF known THEN kind ELSE "unknown", key |-> KeyOf("key-1", g, kind)]
  <2>1. w = [id |-> Absent, methods |-> <<>>, authentication |-> "own", embedded |-> embedded,
             keyAgreement |-> "none", services |-> "asCreated", proof |-> NoDoc]
    BY <1>2 DEF HandWritten
  <2> HIDE DEF embedded
  <2> QED BY <2>1
<1> QED BY <1>1, <1>2 DEF Written

\* The fields of a document that was generated are those of its kind.
LEMMA WrittenFields ==
  ASSUME DidKeysAssumption, NEW w \in Written
  PROVE  /\ w # NoDoc /\ EditedDoc(w) # NoDoc
         /\ w.id \in Did /\ w.authentication \in {"key-1", "own"}
         /\ AuthenticationMethod(w).type \in Kind \union {"unknown"}
         /\ KeyInFile(w, "key-1") = AuthenticationMethod(w).key
         /\ AuthenticationMethod(w).key \in SecretKey
         /\ AuthenticationMethod(w).type \in Ecdsa => AuthenticationMethod(w).key.kind \in Ecdsa
         /\ w.keyAgreement = "key-3" =>
              /\ KeyInFile(w, "key-2") \in SecretKey
              /\ KeyInFile(w, "key-3") \in SecretKey /\ AgreementKey(w) = KeyInFile(w, "key-3")
         /\ w.keyAgreement # "key-3" =>
              AgreementKey(w) = Absent /\ KeyInFile(w, "key-2") = Absent /\ KeyInFile(w, "key-3") = Absent
<1>0. w # NoDoc /\ EditedDoc(w) # NoDoc
  BY DEF DidKeysAssumption
<1>1. ASSUME NEW g \in Generation, NEW bound \in BOOLEAN, NEW e2ee \in BOOLEAN,
             w = Create(g, IF bound THEN AuthKey(g) ELSE Absent, e2ee)
      PROVE  /\ w.id \in Did /\ w.authentication \in {"key-1", "own"}
             /\ AuthenticationMethod(w).type \in Kind \union {"unknown"}
             /\ KeyInFile(w, "key-1") = AuthenticationMethod(w).key
             /\ AuthenticationMethod(w).key \in SecretKey
             /\ AuthenticationMethod(w).key.kind \in Ecdsa
             /\ w.keyAgreement = "key-3" =>
                  /\ KeyInFile(w, "key-2") \in SecretKey
                  /\ KeyInFile(w, "key-3") \in SecretKey /\ AgreementKey(w) = KeyInFile(w, "key-3")
             /\ w.keyAgreement # "key-3" =>
                  AgreementKey(w) = Absent /\ KeyInFile(w, "key-2") = Absent /\ KeyInFile(w, "key-3") = Absent
  <2> DEFINE did == IF bound THEN AuthKey(g) ELSE Absent
             f == {"key-1"} \union (IF e2ee THEN E2eeFragments ELSE {})
             ms == Methods(g, f)
  <2>1. /\ w.id = did /\ w.methods = ms /\ w.authentication = "key-1" /\ w.embedded = NoDoc
        /\ w.keyAgreement = IF e2ee THEN "key-3" ELSE "none"
    BY <1>1, CreateIs
  <2>2. did \in Did
    BY DEF Did
  <2>3. ASSUME NEW a \in Fragment
        PROVE  /\ KeyOf(a, g, KindOf(a)) \in SecretKey
               /\ KeyOf(a, g, KindOf(a)).kind = KindOf(a)
               /\ Method(KeyOf(a, g, KindOf(a))).type = KindOf(a)
               /\ Method(KeyOf(a, g, KindOf(a))).key = KeyOf(a, g, KindOf(a))
    BY DEF SecretKey, KeyOf, KindOf, Kind, Ecdsa, Fragment, Method
  <2>4. DOMAIN ms = f /\ \A a \in f : ms[a] = Method(KeyOf(a, g, KindOf(a)))
    BY DEF Methods
  <2>5. KindOf("key-1") \in Ecdsa /\ KindOf("key-1") \in Kind
    BY DEF KindOf, Kind, Ecdsa
  <2>6. /\ "key-1" \in f /\ "none" \notin f
        /\ IF e2ee THEN "key-2" \in f /\ "key-3" \in f ELSE "key-2" \notin f /\ "key-3" \notin f
    BY DEF E2eeFragments
  <2> HIDE DEF ms, f, did
  <2>7. \A a \in f : FindMethod(w, a) = ms[a]
    BY <2>1, <2>4 DEF FindMethod
  <2>8. \A a : a \notin f => FindMethod(w, a) = NoMethod
    BY <2>1, <2>4, <2>6 DEF FindMethod
  <2>9. AuthenticationMethod(w) = ms["key-1"] /\ KeyInFile(w, "key-1") = ms["key-1"].key
    BY <2>1, <2>6, <2>7 DEF AuthenticationMethod, KeyInFile
  <2>10. {"key-1", "key-2", "key-3"} = Fragment
    BY DEF Fragment
  <2>11. /\ ms["key-1"].type = KindOf("key-1") /\ ms["key-1"].key \in SecretKey
         /\ ms["key-1"].key.kind = KindOf("key-1")
    BY <2>3, <2>4, <2>6, <2>10
  <2>12. e2ee => /\ FindMethod(w, "key-2").key \in SecretKey
                 /\ FindMethod(w, "key-3").key \in SecretKey
    BY <2>3, <2>4, <2>6, <2>7, <2>10
  <2>13. NoMethod.key = Absent
    BY DEF NoMethod
  <2>14. /\ KeyInFile(w, "key-2") = FindMethod(w, "key-2").key
         /\ KeyInFile(w, "key-3") = FindMethod(w, "key-3").key
         /\ AgreementKey(w) = FindMethod(w, w.keyAgreement).key
    BY DEF KeyInFile, AgreementKey
  <2>15. e2ee => w.keyAgreement = "key-3"
    BY <2>1
  <2>16. ~e2ee => w.keyAgreement = "none"
    BY <2>1
  <2> QED BY <2>1, <2>2, <2>5, <2>6, <2>8, <2>9, <2>11, <2>12, <2>13, <2>14, <2>15, <2>16
<1>2. ASSUME NEW g \in Generation, NEW kind \in {"p256", "ed25519"}, NEW known \in BOOLEAN,
             w = HandWritten(g, kind, known)
      PROVE  /\ w.id \in Did /\ w.authentication \in {"key-1", "own"}
             /\ AuthenticationMethod(w).type \in Kind \union {"unknown"}
             /\ KeyInFile(w, "key-1") = AuthenticationMethod(w).key
             /\ AuthenticationMethod(w).key \in SecretKey
             /\ AuthenticationMethod(w).type \in Ecdsa => AuthenticationMethod(w).key.kind \in Ecdsa
             /\ w.keyAgreement # "key-3" /\ AgreementKey(w) = Absent
             /\ KeyInFile(w, "key-2") = Absent /\ KeyInFile(w, "key-3") = Absent
  <2> DEFINE embedded == [type |-> IF known THEN kind ELSE "unknown", key |-> KeyOf("key-1", g, kind)]
  <2>1. /\ w.id = Absent /\ w.methods = <<>> /\ w.authentication = "own" /\ w.embedded = embedded
        /\ w.keyAgreement = "none"
    BY <1>2 DEF HandWritten
  <2>2. /\ embedded.type = IF known THEN kind ELSE "unknown"
        /\ embedded.key = KeyOf("key-1", g, kind)
        /\ kind \in Kind
    BY DEF Kind, Ecdsa
  <2>3. KeyOf("key-1", g, kind) \in SecretKey /\ KeyOf("key-1", g, kind).kind = kind
    BY <2>2 DEF KeyOf, SecretKey, Fragment
  <2>4. embedded # NoDoc
    BY <2>2, <2>3 DEF DidKeysAssumption
  <2> HIDE DEF embedded
  <2>5. DOMAIN w.methods = {}
    BY <2>1
  <2>6. FindMethod(w, "own") = embedded /\ \A a : a # "own" => FindMethod(w, a) = NoMethod
    BY <2>1, <2>4, <2>5 DEF FindMethod
  <2>7. /\ AuthenticationMethod(w) = embedded /\ KeyInFile(w, "key-1") = embedded.key
        /\ AgreementKey(w) = Absent
        /\ KeyInFile(w, "key-2") = Absent /\ KeyInFile(w, "key-3") = Absent
    BY <2>1, <2>6 DEF AuthenticationMethod, KeyInFile, AgreementKey, NoMethod
  <2>8. Absent \in Did
    BY DEF Did
  <2>9. /\ embedded.type \in Kind \union {"unknown"}
        /\ embedded.type \in Ecdsa => embedded.key.kind \in Ecdsa
    BY <2>2, <2>3 DEF Ecdsa
  <2> QED BY <2>1, <2>2, <2>3, <2>7, <2>8, <2>9
<1> QED BY <1>0, <1>1, <1>2 DEF Written

\* A document written out, with other services
LEMMA SetServices ==
  ASSUME NEW a, NEW m, NEW b, NEW d, NEW k, NEW x, NEW p, NEW y
  PROVE  [[id |-> a, methods |-> m, authentication |-> b, embedded |-> d, keyAgreement |-> k,
           services |-> x, proof |-> p] EXCEPT !.services = y] =
           [id |-> a, methods |-> m, authentication |-> b, embedded |-> d, keyAgreement |-> k,
            services |-> y, proof |-> p]
OBVIOUS

\* Services changed by hand change the services, and break the proof.
LEMMA WithServices ==
  ASSUME DidKeysAssumption, NEW w \in Written, NEW x, NEW e, e = [w EXCEPT !.services = x]
  PROVE  /\ e.id = w.id /\ e.authentication = w.authentication /\ e.services = x
         /\ e.proof = w.proof
         /\ \A f : FindMethod(e, f) = FindMethod(w, f)
         /\ AgreementKey(e) = AgreementKey(w)
         /\ [e EXCEPT !.services = "edited"] = EditedDoc(w)
         /\ e.proof # NoDoc => Bound(e) /\ (ProofHolds(e) <=> x = "asCreated")
<1>1. e = [id |-> w.id, methods |-> w.methods, authentication |-> w.authentication,
           embedded |-> w.embedded, keyAgreement |-> w.keyAgreement,
           services |-> x, proof |-> w.proof]
  BY WrittenIs
<1>2. w.proof # NoDoc =>
        /\ w.proof.key = FindMethod(w, w.proof.method).key
        /\ w.id # Absent => w.id = FindMethod(w, "key-1").key
        /\ w.proof.over = Signable(e) <=> x = "asCreated"
  BY WrittenIs
<1>3. EditedDoc(w) = [id |-> w.id, methods |-> w.methods, authentication |-> w.authentication,
                      embedded |-> w.embedded, keyAgreement |-> w.keyAgreement,
                      services |-> "edited", proof |-> w.proof]
  BY WrittenIs DEF EditedDoc
<1>4. /\ e.id = w.id /\ e.authentication = w.authentication /\ e.services = x
      /\ e.proof = w.proof /\ e.methods = w.methods /\ e.embedded = w.embedded
      /\ e.keyAgreement = w.keyAgreement
  BY <1>1
<1>5. \A f : FindMethod(e, f) = FindMethod(w, f)
  BY <1>4 DEF FindMethod
<1>6. AgreementKey(e) = AgreementKey(w)
  BY <1>4, <1>5 DEF AgreementKey
<1>7. [e EXCEPT !.services = "edited"] = EditedDoc(w)
  <2> DEFINE r == [id |-> w.id, methods |-> w.methods, authentication |-> w.authentication,
                   embedded |-> w.embedded, keyAgreement |-> w.keyAgreement,
                   services |-> x, proof |-> w.proof]
  <2>1. [r EXCEPT !.services = "edited"] = EditedDoc(w)
    BY <1>3, SetServices
  <2>2. e = r
    BY <1>1
  <2> HIDE DEF r
  <2> QED BY <2>1, <2>2, Zenon
<1>8. e.proof # NoDoc => Bound(e)
  BY <1>2, <1>4, <1>5 DEF Bound
<1>9. e.proof # NoDoc => (ProofHolds(e) <=> x = "asCreated")
  BY <1>2, <1>4, <1>5 DEF ProofHolds
<1> QED BY <1>4, <1>5, <1>6, <1>7, <1>8, <1>9

-----------------------------------------------------------------------------
\* DidKeysTypeOK but for what FilesInv and WebInv say of documents
PlainTypes ==
  /\ made \in 0 .. MaxGenerations
  /\ saving \in Seq(Fragment \union {"document"})
  /\ diskKey \in [Fragment -> SecretKey \union {Absent}]
  /\ DOMAIN web = Did
  /\ edited \subseteq Did
  /\ flight = NoDoc \/
       flight \in [did : Did, method : {"key-1", "own"}, type : Kind, key : SecretKey]
  /\ {torn, undisturbed} \subseteq BOOLEAN
  /\ verdict \in {"none", "accepted", "refused", "unresolved", "raised"}

\* A published document is one that was generated, with the services it has now.
LEMMA PublishedIs ==
  ASSUME DidKeysAssumption, WebInv, NEW d \in Did, web[d] # NoDoc
  PROVE  \E w \in Written :
           /\ w.id = d /\ web[d] = [w EXCEPT !.services = web[d].services]
           /\ web[d].services = IF d \in edited THEN "edited" ELSE "asCreated"
<1>1. PICK w \in Written : w.id = d /\ web[d] = IF d \in edited THEN EditedDoc(w) ELSE w
  BY DEF WebInv
<1>2. w = [w EXCEPT !.services = "asCreated"]
  BY WrittenIs
<1>3. web[d] = [w EXCEPT !.services = IF d \in edited THEN "edited" ELSE "asCreated"]
  BY <1>1, <1>2 DEF EditedDoc
<1>4. web[d].services = IF d \in edited THEN "edited" ELSE "asCreated"
  BY <1>3, WithServices
<1> QED BY <1>1, <1>3, <1>4

\* The types of documents follow from where they come from.
LEMMA DocTypes ==
  ASSUME DidKeysAssumption, PlainTypes, FilesInv, WebInv
  PROVE  DidKeysTypeOK
<1> DEFINE Doc(d) == d = NoDoc \/ (d.id \in Did /\ d.authentication \in {"key-1", "own"})
<1>1. Doc(fresh) /\ Doc(diskDoc) /\ Doc(didDocument)
  BY WrittenFields DEF FilesInv
<1>2. ASSUME NEW d \in Did
      PROVE  Doc(web[d]) /\ (web[d] = NoDoc \/ web[d].id = d)
  <2>1. CASE web[d] = NoDoc
    BY <2>1
  <2>2. CASE web[d] # NoDoc
    <3>1. PICK w \in Written : w.id = d /\ web[d] = [w EXCEPT !.services = web[d].services]
      BY <2>2, PublishedIs
    <3>2. web[d].id = w.id /\ web[d].authentication = w.authentication
      BY <3>1, WithServices
    <3> QED BY <3>1, <3>2, WrittenFields
  <2> QED BY <2>1, <2>2
<1> QED BY <1>1, <1>2 DEF DidKeysTypeOK, PlainTypes

\* What is inductive, with the types of documents left to DocTypes
KeysIInv == PlainTypes /\ FilesInv /\ WebInv /\ FlightInv

\* The initial state satisfies what is inductive.
LEMMA DidKeysInitIInv ==
  ASSUME DidKeysAssumption, DidKeysInit PROVE KeysIInv
<1>1. PlainTypes
  <2>1. diskKey \in [Fragment -> SecretKey \union {Absent}] /\ DOMAIN web = Did
    BY DEF DidKeysInit
  <2>2. <<>> \in Seq(Fragment \union {"document"}) /\ 0 \in 0 .. MaxGenerations
    BY DEF DidKeysAssumption
  <2> QED BY <2>1, <2>2 DEF DidKeysInit, PlainTypes
<1>2. FilesInv
  BY DEF DidKeysInit, FilesInv
<1>3. WebInv
  BY DEF DidKeysInit, WebInv
<1>4. FlightInv
  BY DEF DidKeysInit, FlightInv
<1> QED BY <1>1, <1>2, <1>3, <1>4 DEF KeysIInv

\* What is in a file is a key or nothing.
LEMMA FileTypes ==
  ASSUME DidKeysAssumption, NEW w \in Written, NEW f \in Fragment
  PROVE  KeyInFile(w, f) \in SecretKey \union {Absent}
BY WrittenFields DEF Fragment

\* A new document has all its files still to be saved.
LEMMA GenerateKeeps ==
  ASSUME DidKeysAssumption, KeysIInv, Generate PROVE KeysIInv'
<1>0. PlainTypes /\ FilesInv /\ WebInv /\ FlightInv
  BY DEF KeysIInv
<1>1. made' \in Generation /\ made' \in 0 .. MaxGenerations
  BY <1>0 DEF Generate, PlainTypes, Generation, DidKeysAssumption
<1>2. /\ fresh' \in Written
      /\ saving' \in Seq(Fragment \union {"document"})
      /\ saving' # <<>> /\ \A f \in FilesOf(fresh') : f \in ToSave'
  <2>1. ASSUME NEW bound \in BOOLEAN, NEW e2ee \in BOOLEAN,
               fresh' = Create(made', IF bound THEN AuthKey(made') ELSE Absent, e2ee),
               saving' = IF e2ee THEN <<"document", "key-1", "key-2", "key-3">> ELSE <<"document", "key-1">>
        PROVE  /\ fresh' \in Written
               /\ saving' \in Seq(Fragment \union {"document"})
               /\ saving' # <<>> /\ \A f \in FilesOf(fresh') : f \in ToSave'
    <3>1. fresh' \in Written
      BY <1>1, <2>1 DEF Written
    <3>2. fresh'.keyAgreement = IF e2ee THEN "key-3" ELSE "none"
      <4>1. PICK g \in Generation : g = made'
        BY <1>1
      <4> DEFINE did == IF bound THEN AuthKey(g) ELSE Absent
      <4>2. fresh' = Create(g, did, e2ee)
        BY <2>1, <4>1
      <4>3. Create(g, did, e2ee).keyAgreement = IF e2ee THEN "key-3" ELSE "none"
        BY CreateIs
      <4> QED BY <4>2, <4>3
    <3>3. saving' = IF e2ee THEN <<"document", "key-1", "key-2", "key-3">> ELSE <<"document", "key-1">>
      BY <2>1
    <3>4. CASE e2ee
      <4>1. saving' = <<"document", "key-1", "key-2", "key-3">>
        BY <3>3, <3>4
      <4>2. /\ Len(saving') = 4 /\ saving'[1] = "document" /\ saving'[2] = "key-1"
            /\ saving'[3] = "key-2" /\ saving'[4] = "key-3"
        BY <4>1
      <4>3. \A f \in FilesOf(fresh') : f \in {"document", "key-1", "key-2", "key-3"}
        BY DEF FilesOf
      <4>4. {"document", "key-1", "key-2", "key-3"} \subseteq ToSave'
        BY <4>2 DEF ToSave
      <4>5. saving' \in Seq(Fragment \union {"document"})
        BY <4>1 DEF Fragment
      <4>6. saving' # <<>> /\ \A f \in FilesOf(fresh') : f \in ToSave'
        BY <4>1, <4>3, <4>4
      <4> QED BY <3>1, <4>5, <4>6
    <3>5. CASE ~e2ee
      <4>1. saving' = <<"document", "key-1">>
        BY <3>3, <3>5
      <4>2. Len(saving') = 2 /\ saving'[1] = "document" /\ saving'[2] = "key-1"
        BY <4>1
      <4>3. \A f \in FilesOf(fresh') : f \in {"document", "key-1"}
        BY <3>2, <3>5 DEF FilesOf
      <4>4. {"document", "key-1"} \subseteq ToSave'
        BY <4>2 DEF ToSave
      <4>5. saving' \in Seq(Fragment \union {"document"})
        BY <4>1 DEF Fragment
      <4>6. saving' # <<>> /\ \A f \in FilesOf(fresh') : f \in ToSave'
        BY <4>1, <4>3, <4>4
      <4> QED BY <3>1, <4>5, <4>6
    <3> QED BY <3>4, <3>5
  <2>2. ASSUME NEW kind \in {"p256", "ed25519"}, NEW known \in BOOLEAN,
               fresh' = HandWritten(made', kind, known), saving' = <<"document", "key-1">>
        PROVE  /\ fresh' \in Written
               /\ saving' \in Seq(Fragment \union {"document"})
               /\ saving' # <<>> /\ \A f \in FilesOf(fresh') : f \in ToSave'
    <3>1. fresh' \in Written
      BY <1>1, <2>2 DEF Written
    <3>2. fresh'.keyAgreement = "none"
      BY <2>2 DEF HandWritten
    <3>3. Len(saving') = 2 /\ saving'[1] = "document" /\ saving'[2] = "key-1"
      BY <2>2
    <3>4. \A f \in FilesOf(fresh') : f \in {"document", "key-1"}
      BY <3>2 DEF FilesOf
    <3>5. {"document", "key-1"} \subseteq ToSave'
      BY <3>3 DEF ToSave
    <3>6. saving' \in Seq(Fragment \union {"document"})
      BY <2>2 DEF Fragment
    <3> QED BY <3>1, <3>3, <3>4, <3>5, <3>6
  <2> QED BY <2>1, <2>2 DEF Generate
<1>3. UNCHANGED <<diskDoc, diskKey, torn, web, edited, didDocument, flight, undisturbed, verdict>>
  BY DEF Generate, webVars
<1>4. PlainTypes'
  BY <1>0, <1>1, <1>2, <1>3 DEF PlainTypes
<1>5. FilesInv'
  <2>1. fresh' # NoDoc
    BY <1>2, WrittenFields
  <2> QED BY <1>0, <1>2, <1>3, <2>1 DEF FilesInv
<1>6. WebInv' /\ FlightInv'
  BY <1>0, <1>3 DEF WebInv, FlightInv
<1> QED BY <1>4, <1>5, <1>6 DEF KeysIInv

\* A file that is written is no longer to be saved; the others are as they were.
LEMMA SaveFileKeeps ==
  ASSUME DidKeysAssumption, KeysIInv, SaveFile PROVE KeysIInv'
<1> DEFINE f == Head(saving)
<1>0. PlainTypes /\ FilesInv /\ WebInv /\ FlightInv
  BY DEF KeysIInv
<1>1. /\ saving # <<>> /\ saving' = Tail(saving) /\ fresh \in Written
      /\ saving \in Seq(Fragment \union {"document"})
      /\ UNCHANGED <<made, fresh, web, edited, didDocument, flight, verdict>>
      /\ undisturbed' = FALSE
  BY <1>0 DEF SaveFile, webVars, FilesInv, PlainTypes
<1>2. /\ f \in Fragment \union {"document"}
      /\ saving' \in Seq(Fragment \union {"document"})
      /\ \A a \in ToSave : a = f \/ a \in ToSave'
  <2>1. /\ f = saving[1] /\ Len(saving) \in Nat \ {0}
        /\ Len(saving') = Len(saving) - 1
        /\ \A i \in 1 .. Len(saving) - 1 : saving'[i] = saving[i + 1]
    BY <1>1
  <2>2. ASSUME NEW a \in ToSave PROVE a = f \/ a \in ToSave'
    <3>1. PICK i \in 1 .. Len(saving) : a = saving[i]
      BY DEF ToSave
    <3>2. CASE i = 1
      BY <2>1, <3>1, <3>2
    <3>3. CASE i # 1
      <4>1. i - 1 \in 1 .. Len(saving) - 1 /\ (i - 1) + 1 = i
        BY <2>1, <3>3
      <4>2. saving'[i - 1] = a /\ i - 1 \in 1 .. Len(saving')
        BY <2>1, <3>1, <4>1
      <4> QED BY <4>2 DEF ToSave
    <3> QED BY <3>2, <3>3
  <2> QED BY <1>1, <2>1, <2>2
<1>3. CASE f = "document"
  <2>1. diskDoc' = fresh /\ diskKey' = diskKey
    BY <1>3 DEF SaveFile
  <2>2. \A a : OnDisk(a) \/ a = f => OnDisk(a)'
    BY <1>1, <1>3, <2>1 DEF OnDisk
  <2>3. FilesInv'
    <3>1. fresh' # NoDoc
      BY <1>1, WrittenFields
    <3> QED BY <1>0, <1>1, <1>2, <2>1, <2>2, <3>1 DEF FilesInv
  <2>4. PlainTypes'
    BY <1>0, <1>1, <1>2, <2>1 DEF PlainTypes, SaveFile
  <2>5. WebInv' /\ FlightInv'
    BY <1>0, <1>1 DEF WebInv, FlightInv
  <2> QED BY <2>3, <2>4, <2>5 DEF KeysIInv
<1>4. CASE f # "document"
  <2>1. f \in Fragment
    BY <1>2, <1>4
  <2>2. /\ diskDoc' = diskDoc
        /\ diskKey' = [diskKey EXCEPT ![f] = KeyInFile(fresh, f)]
    BY <1>4 DEF SaveFile, KeyInFile
  <2>3. diskKey \in [Fragment -> SecretKey \union {Absent}]
    BY <1>0 DEF PlainTypes
  <2>4. /\ diskKey' \in [Fragment -> SecretKey \union {Absent}]
        /\ \A a \in Fragment : diskKey'[a] = IF a = f THEN KeyInFile(fresh, f) ELSE diskKey[a]
    BY <1>1, <2>1, <2>2, <2>3, FileTypes
  <2>5. \A a \in Fragment \union {"document"} : OnDisk(a) \/ a = f => OnDisk(a)'
    BY <1>1, <1>4, <2>2, <2>4 DEF OnDisk
  <2>6. FilesInv'
    <3>1. fresh' # NoDoc
      BY <1>1, WrittenFields
    <3>2. FilesOf(fresh) \subseteq Fragment \union {"document"}
      BY DEF FilesOf, Fragment
    <3>3. \A a \in FilesOf(fresh) : a \in ToSave \/ OnDisk(a)
      BY <1>0, <1>1, <3>1 DEF FilesInv
    <3>4. \A a \in FilesOf(fresh) : a \in ToSave' \/ OnDisk(a)'
      BY <1>2, <2>5, <3>2, <3>3
    <3> QED BY <1>0, <1>1, <2>2, <3>1, <3>4 DEF FilesInv
  <2>7. PlainTypes'
    BY <1>0, <1>1, <1>2, <2>4 DEF PlainTypes, SaveFile
  <2>8. WebInv' /\ FlightInv'
    BY <1>0, <1>1 DEF WebInv, FlightInv
  <2> QED BY <2>6, <2>7, <2>8 DEF KeysIInv
<1> QED BY <1>3, <1>4

\* A save that failed promises nothing.
LEMMA SaveFailsKeeps ==
  ASSUME DidKeysAssumption, KeysIInv, SaveFails PROVE KeysIInv'
<1>1. /\ saving' = <<>> /\ torn' = TRUE /\ undisturbed' = FALSE
      /\ UNCHANGED <<made, fresh, diskDoc, diskKey, web, edited, didDocument, flight, verdict>>
  BY DEF SaveFails, webVars
<1>2. saving' \in Seq(Fragment \union {"document"})
  BY <1>1
<1>3. PlainTypes'
  BY <1>1, <1>2 DEF KeysIInv, PlainTypes
<1>4. FilesInv' /\ WebInv' /\ FlightInv'
  BY <1>1 DEF KeysIInv, FilesInv, WebInv, FlightInv
<1> QED BY <1>3, <1>4 DEF KeysIInv

\* What is uploaded is what is on disk.
LEMMA PublishKeeps ==
  ASSUME DidKeysAssumption, KeysIInv, Publish PROVE KeysIInv'
<1>0. PlainTypes /\ FilesInv /\ WebInv /\ FlightInv
  BY DEF KeysIInv
<1>1. /\ diskDoc \in Written /\ diskDoc.id \in Did /\ DOMAIN web = Did
      /\ web' = [web EXCEPT ![diskDoc.id] = diskDoc] /\ edited' = edited \ {diskDoc.id}
      /\ UNCHANGED <<docVars, didDocument, flight, verdict>> /\ undisturbed' = FALSE
  BY <1>0, WrittenFields DEF Publish, FilesInv, PlainTypes
<1>2. WebInv'
  <2> SUFFICES ASSUME NEW d \in Did, web'[d] # NoDoc
               PROVE  \E w \in Written : w.id = d /\ web'[d] = IF d \in edited' THEN EditedDoc(w) ELSE w
    BY DEF WebInv
  <2>1. CASE d = diskDoc.id
    BY <1>1, <2>1
  <2>2. CASE d # diskDoc.id
    <3>1. web'[d] = web[d] /\ (d \in edited' <=> d \in edited)
      BY <1>1, <2>2
    <3> QED BY <1>0, <3>1 DEF WebInv
  <2> QED BY <2>1, <2>2
<1>3. PlainTypes'
  BY <1>0, <1>1 DEF PlainTypes, docVars
<1>4. FilesInv' /\ FlightInv'
  BY <1>0, <1>1 DEF FilesInv, FlightInv, docVars, FilesOf, OnDisk, ToSave
<1> QED BY <1>2, <1>3, <1>4 DEF KeysIInv

\* Changed services leave the methods as they are.
LEMMA EditKeeps ==
  ASSUME DidKeysAssumption, KeysIInv, NEW d \in Did, EditServices(d) PROVE KeysIInv'
<1>0. PlainTypes /\ FilesInv /\ WebInv /\ FlightInv
  BY DEF KeysIInv
<1>1. /\ web[d] # NoDoc /\ DOMAIN web = Did
      /\ web' = [web EXCEPT ![d] = [web[d] EXCEPT !.services = "edited"]]
      /\ edited' = edited \union {d}
      /\ UNCHANGED <<docVars, didDocument, flight, undisturbed, verdict>>
  BY <1>0 DEF EditServices, PlainTypes
<1>2. PICK w \in Written : w.id = d /\ web[d] = [w EXCEPT !.services = web[d].services]
  BY <1>0, <1>1, PublishedIs
<1>3. /\ web'[d] = EditedDoc(w) /\ EditedDoc(w) # NoDoc
      /\ \A a : FindMethod(web'[d], a) = FindMethod(web[d], a)
      /\ \A e \in Did : e # d => web'[e] = web[e]
  <2>1. [web[d] EXCEPT !.services = "edited"] = EditedDoc(w)
    BY <1>2, WithServices
  <2>2. web'[d] = EditedDoc(w) /\ \A e \in Did : e # d => web'[e] = web[e]
    BY <1>1, <2>1
  <2>3. \A a : FindMethod(web[d], a) = FindMethod(w, a)
    BY <1>2, WithServices
  <2>4. \A a : FindMethod(EditedDoc(w), a) = FindMethod(w, a)
    BY WithServices DEF EditedDoc
  <2> QED BY <2>2, <2>3, <2>4, WrittenFields
<1>4. WebInv'
  <2> SUFFICES ASSUME NEW e \in Did, web'[e] # NoDoc
               PROVE  \E v \in Written : v.id = e /\ web'[e] = IF e \in edited' THEN EditedDoc(v) ELSE v
    BY DEF WebInv
  <2>1. CASE e = d
    BY <1>1, <1>2, <1>3, <2>1
  <2>2. CASE e # d
    <3>1. web'[e] = web[e] /\ (e \in edited' <=> e \in edited)
      BY <1>1, <1>3, <2>2
    <3> QED BY <1>0, <3>1 DEF WebInv
  <2> QED BY <2>1, <2>2
<1>5. PlainTypes'
  BY <1>0, <1>1 DEF PlainTypes, docVars
<1>6. FilesInv'
  BY <1>0, <1>1 DEF FilesInv, docVars, FilesOf, OnDisk, ToSave
<1>7. FlightInv'
  <2> SUFFICES ASSUME undisturbed, flight # NoDoc
               PROVE  /\ web'[flight.did] # NoDoc
                      /\ \A a : FindMethod(web'[flight.did], a) = FindMethod(web[flight.did], a)
    BY <1>0, <1>1 DEF FlightInv
  <2>1. flight.did \in Did /\ web[flight.did] # NoDoc
    BY <1>0 DEF PlainTypes, FlightInv
  <2> QED BY <1>3, <2>1
<1> QED BY <1>4, <1>5, <1>6, <1>7 DEF KeysIInv

\* A restarted client reads the document anew.
LEMMA StartClientKeeps ==
  ASSUME DidKeysAssumption, KeysIInv, StartClient PROVE KeysIInv'
<1>1. /\ didDocument' = NoDoc /\ UNCHANGED <<docVars, webVars, flight, undisturbed, verdict>>
  BY DEF StartClient
<1>2. PlainTypes' /\ FilesInv'
  BY <1>1 DEF KeysIInv, PlainTypes, FilesInv, docVars, webVars, FilesOf, OnDisk, ToSave
<1>3. WebInv' /\ FlightInv'
  BY <1>1 DEF KeysIInv, WebInv, FlightInv, docVars, webVars
<1> QED BY <1>2, <1>3 DEF KeysIInv

\* Files that belong together hold the keys of the document, and what is published names them.
LEMMA SettledIs ==
  ASSUME DidKeysAssumption, KeysIInv, Settled
  PROVE  /\ diskDoc \in Written /\ diskDoc.id \in Did /\ web[diskDoc.id] # NoDoc
         /\ \A f \in FilesOf(diskDoc) \ {"document"} : diskKey[f] = KeyInFile(diskDoc, f)
         /\ \A a : FindMethod(web[diskDoc.id], a) = FindMethod(diskDoc, a)
         /\ AgreementKey(web[diskDoc.id]) = AgreementKey(diskDoc)
<1>1. /\ saving = <<>> /\ ~torn /\ diskDoc # NoDoc /\ web[diskDoc.id] # NoDoc
      /\ web[diskDoc.id] = [diskDoc EXCEPT !.services = web[diskDoc.id].services]
  BY DEF Settled
<1>2. diskDoc \in Written /\ fresh # NoDoc
  BY <1>1 DEF KeysIInv, FilesInv
<1>3. ToSave = {}
  BY <1>1 DEF ToSave
<1>4. \A f \in FilesOf(fresh) : OnDisk(f)
  BY <1>1, <1>2, <1>3 DEF KeysIInv, FilesInv
<1>5. diskDoc = fresh
  BY <1>4 DEF OnDisk, FilesOf
<1>6. \A f \in FilesOf(diskDoc) \ {"document"} : diskKey[f] = KeyInFile(diskDoc, f)
  BY <1>4, <1>5 DEF OnDisk
<1>7. /\ \A a : FindMethod(web[diskDoc.id], a) = FindMethod(diskDoc, a)
      /\ AgreementKey(web[diskDoc.id]) = AgreementKey(diskDoc)
  <2>1. PICK e, x : e = web[diskDoc.id] /\ x = web[diskDoc.id].services
    OBVIOUS
  <2>2. e = [diskDoc EXCEPT !.services = x]
    BY <1>1, <2>1
  <2>3. (\A a : FindMethod(e, a) = FindMethod(diskDoc, a)) /\ AgreementKey(e) = AgreementKey(diskDoc)
    BY <1>2, <2>2, WithServices
  <2> QED BY <2>1, <2>3
<1> QED BY <1>1, <1>2, <1>6, <1>7, WrittenFields

\* Drawn from settled keys, a header names the published method and is signed with its key.
LEMMA DrawKeeps ==
  ASSUME DidKeysAssumption, KeysIInv, DrawSigned PROVE KeysIInv'
<1> DEFINE doc == IF didDocument = NoDoc THEN diskDoc ELSE didDocument
           type == AuthenticationMethod(doc).type
           works == /\ type \in Encodable
                    /\ SigningKey(doc) # Absent /\ SigningKey(doc).kind \in Ecdsa
           header == [did |-> doc.id, method |-> doc.authentication, type |-> type,
                      key |-> SigningKey(doc)]
<1>0. PlainTypes /\ FilesInv /\ WebInv /\ FlightInv
  BY DEF KeysIInv
<1>1. /\ flight = NoDoc /\ doc # NoDoc /\ didDocument' = doc
      /\ flight' = IF works THEN header ELSE NoDoc
      /\ verdict' = IF works THEN "none" ELSE "raised"
      /\ undisturbed' = (Settled /\ Names(doc) = Names(diskDoc) /\ Signs(doc) /\ Signs(diskDoc))
      /\ UNCHANGED <<docVars, webVars>>
  BY DEF DrawSigned
<1>2. doc \in Written
  BY <1>0, <1>1 DEF FilesInv
<1>3. doc.id \in Did /\ doc.authentication \in {"key-1", "own"}
  BY <1>2, WrittenFields
<1>4. SigningKey(doc) = diskKey["key-1"] /\ diskKey["key-1"] \in SecretKey \union {Absent}
  BY <1>0 DEF SigningKey, PlainTypes, Fragment
<1>5. works => header \in [did : Did, method : {"key-1", "own"}, type : Kind, key : SecretKey]
  BY <1>3, <1>4 DEF Encodable, Kind
<1>6. works => header # NoDoc
  BY <1>5 DEF DidKeysAssumption
<1> HIDE DEF doc, type, works, header
<1>7. PlainTypes'
  <2>1. undisturbed' \in BOOLEAN
    BY <1>1 DEF Settled, Signs
  <2> QED BY <1>0, <1>1, <1>5, <2>1 DEF PlainTypes, docVars, webVars
<1>8. FilesInv' /\ WebInv'
  BY <1>0, <1>1, <1>2 DEF FilesInv, WebInv, docVars, webVars, FilesOf, OnDisk, ToSave
<1>9. FlightInv'
  <2> SUFFICES ASSUME undisturbed'
               PROVE  /\ works
                      /\ web[doc.id] # NoDoc
                      /\ FindMethod(web[doc.id], doc.authentication).key = SigningKey(doc)
                      /\ Readable(type, FindMethod(web[doc.id], doc.authentication).type)
    BY <1>1, <1>6 DEF FlightInv, webVars, header
  <2>1. Settled /\ Names(doc) = Names(diskDoc) /\ Signs(doc) /\ Signs(diskDoc)
    BY <1>1
  <2>2. /\ diskDoc \in Written /\ web[diskDoc.id] # NoDoc
        /\ diskKey["key-1"] = KeyInFile(diskDoc, "key-1")
        /\ \A a : FindMethod(web[diskDoc.id], a) = FindMethod(diskDoc, a)
    BY <2>1, SettledIs DEF FilesOf
  <2>3. doc.id = diskDoc.id /\ doc.authentication = diskDoc.authentication
    BY <2>1 DEF Names
  <2>4. type \in Ecdsa /\ AuthenticationMethod(diskDoc).type \in Ecdsa
    BY <2>1 DEF Signs, type
  <2>5. /\ KeyInFile(diskDoc, "key-1") = AuthenticationMethod(diskDoc).key
        /\ AuthenticationMethod(diskDoc).key \in SecretKey
        /\ AuthenticationMethod(diskDoc).key.kind \in Ecdsa
    BY <2>2, <2>4, WrittenFields
  <2>6. SigningKey(doc) = AuthenticationMethod(diskDoc).key /\ SigningKey(doc) # Absent
    BY <1>4, <2>2, <2>5 DEF DidKeysAssumption
  <2>7. works
    BY <2>4, <2>5, <2>6 DEF works, Encodable
  <2>8. FindMethod(web[doc.id], doc.authentication) = AuthenticationMethod(diskDoc)
    BY <2>2, <2>3 DEF AuthenticationMethod
  <2> QED BY <2>2, <2>3, <2>4, <2>6, <2>7, <2>8 DEF Readable
<1> QED BY <1>7, <1>8, <1>9 DEF KeysIInv

\* A header that nothing disturbed is accepted.
LEMMA VerifyKeeps ==
  ASSUME DidKeysAssumption, KeysIInv, VerifySigned PROVE KeysIInv'
<1>1. /\ flight # NoDoc /\ flight' = NoDoc
      /\ UNCHANGED <<docVars, webVars, didDocument, undisturbed>>
  BY DEF VerifySigned
<1>2. verdict' \in {"none", "accepted", "refused", "unresolved", "raised"}
  BY DEF VerifySigned
<1>3. PlainTypes' /\ FilesInv' /\ WebInv'
  BY <1>1, <1>2 DEF KeysIInv, PlainTypes, FilesInv, WebInv, docVars, webVars, FilesOf, OnDisk, ToSave
<1>4. undisturbed => verdict' = "accepted"
  BY <1>1 DEF KeysIInv, FlightInv, VerifySigned
<1> QED BY <1>1, <1>3, <1>4 DEF KeysIInv, FlightInv

\* However documents are generated, saved, torn, published and edited, what save_documents has
\* not written yet is all that can be missing on disk, unless it failed; what is published was
\* generated, but for edited services; and a header drawn from settled keys names what is
\* published.
THEOREM DidKeysInvariance == DidKeysAssumption /\ DidKeysSpec => []DidKeysIInv
<1> SUFFICES ASSUME DidKeysAssumption PROVE DidKeysSpec => []DidKeysIInv
  OBVIOUS
<1>1. DidKeysInit => KeysIInv
  BY DidKeysInitIInv
<1>2. KeysIInv /\ [DidKeysNext]_didKeysVars => KeysIInv'
  <2> SUFFICES ASSUME KeysIInv, [DidKeysNext]_didKeysVars PROVE KeysIInv'
    OBVIOUS
  <2>1. CASE DidKeysNext
    BY <2>1, GenerateKeeps, SaveFileKeeps, SaveFailsKeeps, PublishKeeps, EditKeeps,
       StartClientKeeps, DrawKeeps, VerifyKeeps DEF DidKeysNext
  <2>2. CASE UNCHANGED didKeysVars
    BY <2>2 DEF didKeysVars, docVars, webVars, KeysIInv, PlainTypes, FilesInv, WebInv, FlightInv,
                FilesOf, OnDisk, ToSave
  <2> QED BY <2>1, <2>2
<1>3. KeysIInv => DidKeysIInv
  BY DocTypes DEF KeysIInv, DidKeysIInv
<1> QED BY <1>1, <1>2, <1>3, PTL DEF DidKeysSpec

\* What is inductive says all that KeysTakeHold does.
LEMMA InvImpliesKeysTakeHold ==
  ASSUME DidKeysAssumption, KeysIInv PROVE KeysTakeHold
<1>1. undisturbed => verdict \in {"none", "accepted"}
  BY DEF KeysIInv, FlightInv
<1>2. Settled => AgreementKey(web[diskDoc.id]) \in {Absent, diskKey["key-3"]}
  <2> SUFFICES ASSUME Settled PROVE AgreementKey(diskDoc) \in {Absent, diskKey["key-3"]}
    BY SettledIs
  <2>1. CASE diskDoc.keyAgreement = "key-3"
    <3>1. "key-3" \in FilesOf(diskDoc) \ {"document"}
      BY <2>1 DEF FilesOf
    <3> QED BY <2>1, <3>1, SettledIs, WrittenFields
  <2>2. CASE diskDoc.keyAgreement # "key-3"
    BY <2>2, SettledIs, WrittenFields
  <2> QED BY <2>1, <2>2
<1>3. ASSUME NEW d \in Did, web[d] # NoDoc, web[d].proof # NoDoc
      PROVE  Bound(web[d]) /\ (ProofHolds(web[d]) <=> d \notin edited)
  <2>1. PICK w \in Written :
          /\ web[d] = [w EXCEPT !.services = web[d].services]
          /\ web[d].services = IF d \in edited THEN "edited" ELSE "asCreated"
    <3>1. WebInv
      BY DEF KeysIInv
    <3> QED BY <1>3, <3>1, PublishedIs
  <2>2. Bound(web[d]) /\ (ProofHolds(web[d]) <=> web[d].services = "asCreated")
    BY <1>3, <2>1, WithServices
  <2> QED BY <2>1, <2>2
<1> QED BY <1>1, <1>2, <1>3 DEF KeysTakeHold

\* A header drawn from settled keys is accepted although the client keeps an older document,
\* peers find the encryption key the owner has, and a published document passes its checks
\* until it is edited (did_wba_authenticator.py:49-86).
THEOREM NewKeysTakeHold == DidKeysAssumption /\ DidKeysSpec => []KeysTakeHold
<1> SUFFICES ASSUME DidKeysAssumption PROVE DidKeysSpec => []KeysTakeHold
  OBVIOUS
<1>1. DidKeysIInv => KeysIInv
  BY DEF DidKeysIInv, KeysIInv, DidKeysTypeOK, PlainTypes
<1>2. KeysIInv => KeysTakeHold
  BY InvImpliesKeysTakeHold
<1> QED BY <1>1, <1>2, DidKeysInvariance, PTL
=============================================================================
