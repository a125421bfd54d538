------------------------------- MODULE DidKeys -------------------------------
(***************************************************************************)
(* The keys of a DID over their life: documents are created               *)
(* (create_did_wba_document, with or without a binding of the DID to its   *)
(* key, in src/anp/anp/authentication/did_wba.py) or written by hand,      *)
(* saved file by file (src/anp/tools/did_generater/generate_did_doc.py),   *)
(* and published; a client that runs meanwhile signs headers with what it  *)
(* finds (did_wba_authenticator.py), and servers verify them with what is  *)
(* published (did_wba.py, verification_methods.py, src/anp/anp/proof).     *)
(*                                                                         *)
(* A signature is the private key and what it is over; encodings are left  *)
(* out, and so are nonces, time stamps and tokens, which DidWbaAuth has.   *)
(* A header is verified once: when it comes again its nonce is known.      *)
(***************************************************************************)
EXTENDS Integers, Sequences

CONSTANTS
  MaxGenerations,   \* bound on the documents made
  Absent, NoDoc

VARIABLES
  made,             \* documents made so far
  saving,           \* the files still to be written, and
  fresh,            \* the document they belong to
  diskDoc, diskKey, \* did.json, and the key files by fragment
  torn,             \* history: a save failed, none was completed since
  web,              \* the documents that are published, by DID
  edited,           \* history: DIDs whose published document was changed since
  didDocument,      \* self.did_document, the client's
  flight,           \* the header under way
  undisturbed,      \* history: nothing was replaced since it was drawn from settled keys
  verdict           \* of the last header

docVars == <<made, saving, fresh, diskDoc, diskKey, torn>>
webVars == <<web, edited>>
didKeysVars == <<docVars, webVars, didDocument, flight, undisturbed, verdict>>

Fragment == {"key-1", "key-2", "key-3"}
Generation == 1 .. MaxGenerations
Ecdsa == {"secp256k1", "p256"}
Kind == Ecdsa \union {"x25519", "ed25519"}
SecretKey == [of : Fragment, generation : Generation, kind : Kind]
KeyOf(f, g, kind) == [of |-> f, generation |-> g, kind |-> kind]
AuthKey(g) == KeyOf("key-1", g, "secp256k1")

\* The last segment of a DID may name the key it is bound to (k1_ and the fingerprint).
Did == {Absent} \union {AuthKey(g) : g \in Generation}

-----------------------------------------------------------------------------
(* Documents *)

Signable(doc) == [doc EXCEPT !.proof = NoDoc]

\* generate_w3c_proof: over all of the document but its proof
Proved(doc, f, key) == [doc EXCEPT !.proof = [method |-> f, key |-> key, over |-> doc]]

Method(key) == [type |-> key.kind, key |-> key]
\* create_did_wba_document makes the key for authentication, _build_e2ee_entries those for
\* signing and for agreement.
E2eeFragments == {"key-2", "key-3"}
KindOf(f) == IF f = "key-1" THEN "secp256k1" ELSE IF f = "key-2" THEN "p256" ELSE "x25519"
Methods(g, fragments) == [f \in fragments |-> Method(KeyOf(f, g, KindOf(f)))]

Create(g, did, e2ee) ==
  Proved([id |-> did,
          methods |-> Methods(g, {"key-1"} \union (IF e2ee THEN E2eeFragments ELSE {})),
          authentication |-> "key-1", embedded |-> NoDoc,
          keyAgreement |-> IF e2ee THEN "key-3" ELSE "none",
          services |-> "asCreated", proof |-> NoDoc],
         "key-1", AuthKey(g))

\* A document written by hand: its method stands in authentication, and may be of a type
\* that create_verification_method does not know (JsonWebKey2020).
HandWritten(g, kind, known) ==
  [id |-> Absent, methods |-> <<>>, authentication |-> "own",
   embedded |-> [type |-> IF known THEN kind ELSE "unknown", key |-> KeyOf("key-1", g, kind)],
   keyAgreement |-> "none", services |-> "asCreated", proof |-> NoDoc]

NoMethod == [type |-> "none", key |-> Absent]
\* _find_verification_method: a method of the list, or one embedded in authentication
FindMethod(doc, f) ==
  IF f \in DOMAIN doc.methods THEN doc.methods[f]
  ELSE IF f = doc.authentication /\ doc.embedded # NoDoc THEN doc.embedded ELSE NoMethod

\* resolve_did_wba_document with verify_proof: a document without a proof passes.
ProofHolds(doc) ==
  doc.proof # NoDoc =>
    /\ FindMethod(doc, doc.proof.method).key = doc.proof.key
    /\ doc.proof.over = Signable(doc)

\* verify_did_key_binding
Bound(doc) == doc.id # Absent => doc.id = FindMethod(doc, "key-1").key

\* extract_x25519_public_key_from_did_document, of the first entry
AgreementKey(doc) == FindMethod(doc, doc.keyAgreement).key

-----------------------------------------------------------------------------
(* Creation, files, publication *)

DidKeysTypeOK ==
  LET Doc(d) == d = NoDoc \/ (d.id \in Did /\ d.authentication \in {"key-1", "own"})
  IN /\ made \in 0 .. MaxGenerations
     /\ saving \in Seq(Fragment \union {"document"})
     /\ Doc(fresh) /\ Doc(diskDoc) /\ Doc(didDocument)
     /\ diskKey \in [Fragment -> SecretKey \union {Absent}]
     /\ DOMAIN web = Did /\ \A d \in Did : Doc(web[d]) /\ (web[d] = NoDoc \/ web[d].id = d)
     /\ edited \subseteq Did
     /\ flight = NoDoc \/
          flight \in [did : Did, method : {"key-1", "own"}, type : Kind, key : SecretKey]
     /\ {torn, undisturbed} \subseteq BOOLEAN
     /\ verdict \in {"none", "accepted", "refused", "unresolved", "raised"}

DidKeysInit ==
  /\ made = 0 /\ saving = <<>> /\ fresh = NoDoc /\ diskDoc = NoDoc
  /\ diskKey = [f \in Fragment |-> Absent] /\ torn = FALSE
  /\ web = [d \in Did |-> NoDoc] /\ edited = {}
  /\ didDocument = NoDoc /\ flight = NoDoc /\ undisturbed = FALSE /\ verdict = "none"

\* What is about to be saved, in the order save_documents writes it
Generate ==
  /\ made < MaxGenerations /\ saving = <<>> /\ made' = made + 1
  /\ \/ \E bound, e2ee \in BOOLEAN :
          /\ fresh' = Create(made', IF bound THEN AuthKey(made') ELSE Absent, e2ee)
          /\ saving' = IF e2ee THEN <<"document", "key-1", "key-2", "key-3">>
                       ELSE <<"document", "key-1">>
     \/ \E kind \in {"p256", "ed25519"}, known \in BOOLEAN :
          fresh' = HandWritten(made', kind, known) /\ saving' = <<"document", "key-1">>
  /\ UNCHANGED <<diskDoc, diskKey, torn, webVars, didDocument, flight, undisturbed, verdict>>

SaveFile ==
  LET f == Head(saving) IN
  /\ saving # <<>> /\ saving' = Tail(saving)
  /\ diskDoc' = IF f = "document" THEN fresh ELSE diskDoc
  /\ diskKey' = IF f = "document" THEN diskKey
                ELSE [diskKey EXCEPT ![f] =
                       FindMethod(fresh, IF f = "key-1" THEN fresh.authentication ELSE f).key]
  /\ torn' = (torn /\ saving' # <<>>)
  /\ undisturbed' = FALSE
  /\ UNCHANGED <<made, fresh, webVars, didDocument, flight, verdict>>

\* A file cannot be written: the others are not tried.
SaveFails ==
  /\ saving # <<>> /\ saving' = <<>> /\ torn' = TRUE /\ undisturbed' = FALSE
  /\ UNCHANGED <<made, fresh, diskDoc, diskKey, webVars, didDocument, flight, verdict>>

\* The owner uploads did.json,
Publish ==
  /\ diskDoc # NoDoc
  /\ web' = [web EXCEPT ![diskDoc.id] = diskDoc]
  /\ edited' = edited \ {diskDoc.id}
  /\ undisturbed' = FALSE
  /\ UNCHANGED <<docVars, didDocument, flight, verdict>>

\* or changes a service in the document that is up.
EditServices(d) ==
  /\ web[d] # NoDoc
  /\ web' = [web EXCEPT ![d].services = "edited"]
  /\ edited' = edited \union {d}
  /\ UNCHANGED <<docVars, didDocument, flight, undisturbed, verdict>>

-----------------------------------------------------------------------------
(* The client *)

\* What its headers name: the DID and the method
Names(doc) == <<doc.id, doc.authentication>>
\* The files belong together, and the document with the keys is published.
Settled ==
  /\ saving = <<>> /\ ~ torn /\ diskDoc # NoDoc
  /\ web[diskDoc.id] # NoDoc
  /\ web[diskDoc.id] = [diskDoc EXCEPT !.services = web[diskDoc.id].services]

StartClient ==
  /\ didDocument # NoDoc /\ didDocument' = NoDoc
  /\ UNCHANGED <<docVars, webVars, flight, undisturbed, verdict>>

\* Mutation: the private key is kept with the document.
SigningKeyKept(doc) == FindMethod(doc, doc.authentication).key
\* _load_private_key: the file is read for every signature.
SigningKey(doc) == diskKey["key-1"]

AuthenticationMethod(doc) == FindMethod(doc, doc.authentication)
\* encode_signature of the method's class: X25519 raises, and so does an unknown type.
Encodable == Ecdsa \union {"ed25519"}
Signs(doc) == doc # NoDoc /\ AuthenticationMethod(doc).type \in Ecdsa

\* generate_auth_header, with the document read first: a method of a type that is unknown
\* or cannot sign, and a key file that is missing or not of an ECDSA key, raise.  The
\* signature is encoded as the type of the method has it.
DrawSigned ==
  LET doc == IF didDocument = NoDoc THEN diskDoc ELSE didDocument
      type == AuthenticationMethod(doc).type
      works == /\ type \in Encodable
               /\ SigningKey(doc) # Absent /\ SigningKey(doc).kind \in Ecdsa
  IN /\ flight = NoDoc /\ doc # NoDoc
     /\ didDocument' = doc
     /\ flight' = IF works THEN [did |-> doc.id, method |-> doc.authentication, type |-> type,
                                 key |-> SigningKey(doc)]
                  ELSE NoDoc
     /\ verdict' = IF works THEN "none" ELSE "raised"
     /\ undisturbed' = (Settled /\ Names(doc) = Names(diskDoc) /\ Signs(doc) /\ Signs(diskDoc))
     /\ UNCHANGED <<docVars, webVars>>

-----------------------------------------------------------------------------
(* The server *)

\* The two ECDSA classes write and read a signature alike, Ed25519 in another way.
Readable(encoded, type) == {encoded, type} \subseteq Ecdsa

\* verify_auth_header_signature, against the document the DID has now
VerifySigned ==
  LET doc == web[flight.did] IN
  /\ flight # NoDoc /\ flight' = NoDoc
  /\ verdict' = IF doc = NoDoc THEN "unresolved"
                ELSE IF /\ FindMethod(doc, flight.method).key = flight.key
                        /\ Readable(flight.type, FindMethod(doc, flight.method).type)
                     THEN "accepted"
                ELSE "refused"
  /\ UNCHANGED <<docVars, webVars, didDocument, undisturbed>>

DidKeysNext ==
  \/ Generate \/ SaveFile \/ SaveFails \/ Publish \/ \E d \in Did : EditServices(d)
  \/ StartClient \/ DrawSigned \/ VerifySigned

DidKeysSpec == DidKeysInit /\ [][DidKeysNext]_didKeysVars

-----------------------------------------------------------------------------
(* Properties *)

\* New keys take hold without a restart of the client, although it keeps the document it
\* read first: a header drawn when the files belong together and are published, and not
\* overtaken by other keys, is accepted, as long as the new document names the DID and the
\* method of the old one, both of a type that signs, whatever was saved, torn or published
\* before (did_wba_authenticator.py:49-86).  The peers find the encryption key whose secret
\* half the owner has; and a published document passes the checks of its proof and of its
\* binding, until somebody changes it.
KeysTakeHold ==
  /\ undisturbed => verdict \in {"none", "accepted"}
  /\ Settled => AgreementKey(web[diskDoc.id]) \in {Absent, diskKey["key-3"]}
  /\ \A d \in Did : web[d] # NoDoc /\ web[d].proof # NoDoc =>
       Bound(web[d]) /\ (ProofHolds(web[d]) <=> d \notin edited)

-----------------------------------------------------------------------------
(* What is inductive *)

\* The documents that are ever generated
Written ==
  {Create(g, IF bound THEN AuthKey(g) ELSE Absent, e2ee) :
     g \in Generation, bound \in BOOLEAN, e2ee \in BOOLEAN} \union
  {HandWritten(g, kind, known) : g \in Generation, kind \in {"p256", "ed25519"}, known \in BOOLEAN}
EditedDoc(doc) == [doc EXCEPT !.services = "edited"]

\* The files of a document, and what is in the file of a key
FilesOf(doc) ==
  {"document", "key-1"} \union (IF doc.keyAgreement = "key-3" THEN {"key-2", "key-3"} ELSE {})
KeyInFile(doc, f) == FindMethod(doc, IF f = "key-1" THEN doc.authentication ELSE f).key
OnDisk(f) == IF f = "document" THEN diskDoc = fresh ELSE diskKey[f] = KeyInFile(fresh, f)
ToSave == {saving[i] : i \in 1 .. Len(saving)}

\* What save_documents still has to write is all that can be missing from the files, but
\* after a save that failed.
FilesInv ==
  /\ {fresh, diskDoc, didDocument} \subseteq Written \union {NoDoc}
  /\ fresh = NoDoc => diskDoc = NoDoc /\ saving = <<>>
  /\ (saving # <<>> \/ ~torn) /\ fresh # NoDoc =>
       \A f \in FilesOf(fresh) : f \in ToSave \/ OnDisk(f)

\* What is published was generated, but for the services of those that were edited.
WebInv ==
  \A d \in Did : web[d] # NoDoc =>
    \E doc \in Written : doc.id = d /\ web[d] = IF d \in edited THEN EditedDoc(doc) ELSE doc

\* A header that is drawn from settled keys will be accepted as long as it is undisturbed.
FlightInv ==
  undisturbed =>
    IF flight = NoDoc THEN verdict = "accepted"
    ELSE /\ verdict = "none" /\ web[flight.did] # NoDoc
         /\ FindMethod(web[flight.did], flight.method).key = flight.key
         /\ Readable(flight.type, FindMethod(web[flight.did], flight.method).type)

DidKeysIInv == DidKeysTypeOK /\ FilesInv /\ WebInv /\ FlightInv

\* None is no key and no document: the two stand for Python's None.
DidKeysAssumption ==
  /\ MaxGenerations \in Nat
  /\ Absent \notin SecretKey
  /\ \A doc \in Written : NoDoc \notin {doc, EditedDoc(doc)}
  /\ NoDoc \notin [did : Did, method : {"key-1", "own"}, type : Kind, key : SecretKey]
  /\ \A type \in Kind \union {"unknown"}, key \in SecretKey : NoDoc # [type |-> type, key |-> key]
=============================================================================
