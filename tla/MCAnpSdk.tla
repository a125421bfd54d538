------------------------------ MODULE MCAnpSdk ------------------------------
(***************************************************************************)
(* Seven parts of the vendored ANP SDK that share no state, checked in one *)
(* run: HPKE sessions, HPKE group keys, the handshakes of the two older    *)
(* encryptions, the negotiation of a protocol, DID-WBA authentication and  *)
(* the keys of a DID.  A behaviour is one of one part, chosen in the       *)
(* initial state.                                                          *)
(***************************************************************************)
EXTENDS HpkeSession, DidWbaAuth, MetaNegotiation, ShortTermKeys, DidKeys, E2eeHandshake,
        HpkeGroup, TLC

VARIABLE part   \* the one that runs

allVars == <<part, vars, authVars, groupVars, handshakeVars, metaVars, skVars, didKeysVars>>

SdkInit ==
  /\ part \in {"session", "auth", "group", "handshake", "negotiation", "keys", "did"}
  /\ Init /\ AuthInit /\ GroupInit /\ HandshakeInit /\ MetaInit
  /\ SkInit /\ DidKeysInit
  \* what a part chooses at its start does not matter to the others
  /\ part # "session" => \A p \in End : mode[p] = "strict"
  /\ part # "auth" => skew = CHOOSE s \in Skews : TRUE

SdkNext ==
  /\ UNCHANGED part
  /\ \/ /\ part = "session" /\ Next
        /\ UNCHANGED <<authVars, groupVars, handshakeVars, metaVars, skVars, didKeysVars>>
     \/ /\ part = "auth" /\ AuthNext
        /\ UNCHANGED <<vars, groupVars, handshakeVars, metaVars, skVars, didKeysVars>>
     \/ /\ part = "group" /\ GroupNext
        /\ UNCHANGED <<vars, authVars, handshakeVars, metaVars, skVars, didKeysVars>>
     \/ /\ part = "handshake" /\ HandshakeNext
        /\ UNCHANGED <<vars, authVars, groupVars, metaVars, skVars, didKeysVars>>
     \/ /\ part = "negotiation" /\ MetaNext
        /\ UNCHANGED <<vars, authVars, groupVars, handshakeVars, skVars, didKeysVars>>
     \/ /\ part = "keys" /\ SkNext
        /\ UNCHANGED <<vars, authVars, groupVars, handshakeVars, metaVars, didKeysVars>>
     \/ /\ part = "did" /\ DidKeysNext
        /\ UNCHANGED <<vars, authVars, groupVars, handshakeVars, metaVars, skVars>>

SdkSpec == SdkInit /\ [][SdkNext]_allVars

OneEitherWay == {-1, 1}

\* Ids and the ends of a handshake are alike; so are headers and calls, but what their symmetry
\* saves in states it costs in time.
Alike == Permutations(Sid) \union Permutations(Ends)

-----------------------------------------------------------------------------
\* The type invariant of the part that runs; the others keep their initial values.
SdkTypeOK ==
  /\ part = "session" => TypeOK
  /\ part = "auth" => AuthTypeOK
  /\ part = "group" => GroupTypeOK
  /\ part = "handshake" => HandshakeTypeOK
  /\ part = "negotiation" => MetaTypeOK
  /\ part = "keys" => SkTypeOK
  /\ part = "did" => DidKeysTypeOK
=============================================================================
