----------------------------- MODULE AgentProofs -----------------------------
(***************************************************************************)
(* Proofs about agents.  What agents of the ANP SDK do with each other:    *)
(* the AP2 payment (Ap2Payment), the requests and negotiations of the      *)
(* TypeScript agents (TsRequests, TsNegotiation), the chat of two agents   *)
(* (ChatPeers), the JSON-RPC server (RpcServer), the description of an     *)
(* agent and its reader (AgentDiscovery) and the crawler (AnpCrawler), and *)
(* all seven as MCAnpAgents composes them; and what the autonomous mode of *)
(* a node decides (SwarmMind).                                             *)
(***************************************************************************)
EXTENDS MCAnpAgents, SwarmMind, FiniteSetTheorems, TLAPS

\* What the theorems assume of the constants: bounds that are numbers, and a value for
\* "no mandate" that is none.
Ap2Assumption ==
  /\ MaxClock \in Nat /\ MaxPurchases \in Nat /\ CartTtl \in Nat
  /\ Nothing \notin Cart /\ Nothing \notin CartMandate

-----------------------------------------------------------------------------
(* Ap2Payment: types *)

\* A response has its type.
LEMMA RespondTypes ==
  ASSUME Ap2TypeOK, NEW r \in Request, NEW ok \in BOOLEAN,
         NEW cart \in CartMandate \union {Nothing}, Respond(r, ok, cart)
  PROVE  replies' \subseteq
           [to : Shopper, run : Number, ok : BOOLEAN, cart : CartMandate \union {Nothing}]
<1> DEFINE p == [to |-> r.from, run |-> r.run, ok |-> ok, cart |-> cart]
<1>1. r.from \in Shopper /\ r.run \in Number
  BY DEF Request
<1>2. p \in [to : Shopper, run : Number, ok : BOOLEAN, cart : CartMandate \union {Nothing}]
  BY <1>1
<1>3. replies' \subseteq replies \union {p}
  BY DEF Respond
<1> HIDE DEF p
<1> QED BY <1>2, <1>3 DEF Ap2TypeOK

LEMMA MandateTypes ==
  ASSUME Ap2Assumption, Ap2TypeOK, RunsInv, NEW r \in requests
  PROVE  BuildCartMandate(r) \in CartMandate
<1>1. r.from \in Shopper /\ r.id \in CartId /\ r.quantity \in Basket
  BY DEF Ap2TypeOK, Request
<1>2. r.run \in 1 .. MaxPurchases
  BY DEF RunsInv, Ap2TypeOK, Number, Ap2Assumption
<1>3. clock + CartTtl \in 0 .. MaxClock + CartTtl
  BY DEF Ap2Assumption, Ap2TypeOK
<1>4. [id |-> r.id, quantity |-> r.quantity, no |-> r.run] \in Cart
  BY <1>1, <1>2 DEF Cart
<1> QED BY <1>1, <1>3, <1>4 DEF CartMandate, BuildCartMandate, BuildMandate

LEMMA Ap2TypesStep ==
  ASSUME Ap2Assumption, Ap2TypeOK, RunsInv, StepsInv, [Ap2Next]_ap2Vars
  PROVE  Ap2TypeOK'
<1> USE DEF Ap2TypeOK
<1>1. CASE Pass \/ UNCHANGED ap2Vars
  BY <1>1 DEF Pass, ap2Vars, Ap2Assumption
<1>2. ASSUME NEW s \in Shopper, GiveUp(s) PROVE Ap2TypeOK'
  BY <1>2 DEF GiveUp
<1>3. ASSUME NEW s \in Shopper, NEW id \in CartId, NEW q \in Basket, RequestCart(s, id, q)
      PROVE  Ap2TypeOK'
  <2> DEFINE r == [from |-> s, run |-> purchases', id |-> id, quantity |-> q,
                   cartHash |-> Nothing]
  <2>1. purchases' \in Number
    BY <1>3 DEF RequestCart, Ap2Assumption, Number
  <2>2. r \in Request
    BY <2>1 DEF Request
  <2>3. requests' = requests \union {r}
    BY <1>3 DEF RequestCart
  <2> HIDE DEF r
  <2> QED BY <1>3, <2>1, <2>2, <2>3 DEF RequestCart
<1>4. ASSUME NEW s \in Shopper, NEW p \in replies, Pay(s, p) PROVE Ap2TypeOK'
  <2> DEFINE r == [from |-> s, run |-> p.run, id |-> p.cart.contents.id,
                   quantity |-> p.cart.contents.quantity, cartHash |-> p.cart.contents]
  <2>1. p.cart \in CartMandate
    BY <1>4 DEF Pay, StepsInv, StepInv, Unread
  <2>2. p.cart.contents \in Cart /\ p.run \in Number
    BY <2>1 DEF CartMandate
  <2>3. r \in Request
    BY <2>2 DEF Request, Cart
  <2>4. requests' = requests \union {r}
    BY <1>4 DEF Pay
  <2> HIDE DEF r
  <2> QED BY <1>4, <2>1, <2>3, <2>4 DEF Pay
<1>5. ASSUME NEW s \in Shopper, NEW p \in replies, RejectCart(s, p) \/ Finish(s, p)
      PROVE  Ap2TypeOK'
  BY <1>5 DEF RejectCart, Finish
<1>6. ASSUME NEW r \in requests, HandleCreateCartMandate(r) PROVE Ap2TypeOK'
  <2>1. BuildCartMandate(r) \in CartMandate /\ r.id \in CartId /\ r \in Request
    BY MandateTypes DEF Request
  <2>2. replies' \subseteq
          [to : Shopper, run : Number, ok : BOOLEAN, cart : CartMandate \union {Nothing}]
    BY <1>6, <2>1, RespondTypes DEF HandleCreateCartMandate
  <2>3. cartMandates' \in [CartId -> CartMandate \union {Nothing}]
    BY <1>6, <2>1 DEF HandleCreateCartMandate, Stores
  <2>4. replaced' \subseteq Cart
    <3>1. cartMandates[r.id] # Nothing => cartMandates[r.id].contents \in Cart
      BY <2>1 DEF CartMandate
    <3> QED BY <1>6, <3>1 DEF HandleCreateCartMandate
  <2> QED BY <1>6, <2>2, <2>3, <2>4 DEF HandleCreateCartMandate
<1>7. ASSUME NEW r \in requests, HandleSendPaymentMandate(r) PROVE Ap2TypeOK'
  <2> DEFINE stored == cartMandates[r.id]
  <2>1. r \in Request /\ r.id \in CartId /\ r.from \in Shopper /\ r.quantity \in Basket
    BY DEF Request
  <2>2. replies' \subseteq
          [to : Shopper, run : Number, ok : BOOLEAN, cart : CartMandate \union {Nothing}]
    BY <1>7, <2>1, RespondTypes DEF HandleSendPaymentMandate
  <2>3. stored \in CartMandate /\ stored.contents.quantity \in Basket
    BY <1>7, <2>1 DEF HandleSendPaymentMandate, Accepts, CartMandate, Cart
  <2>4. receipts' = receipts \union {IssueReceipts(r, stored)}
    BY <1>7 DEF HandleSendPaymentMandate
  <2>5. IssueReceipts(r, stored) \in
          [shopper : Shopper, paid : Basket, shipped : Basket, cart : CartMandate,
           at : 0 .. MaxClock]
    BY <2>1, <2>3 DEF IssueReceipts
  <2> HIDE DEF stored
  <2> QED BY <1>7, <2>2, <2>4, <2>5 DEF HandleSendPaymentMandate
<1>8. ASSUME NEW r \in requests, RefusePaymentMandate(r) PROVE Ap2TypeOK'
  <2>1. replies' \subseteq
          [to : Shopper, run : Number, ok : BOOLEAN, cart : CartMandate \union {Nothing}]
    BY <1>8, RespondTypes DEF RefusePaymentMandate
  <2> QED BY <1>8, <2>1 DEF RefusePaymentMandate
<1> QED BY <1>1, <1>2, <1>3, <1>4, <1>5, <1>6, <1>7, <1>8 DEF Ap2Next

-----------------------------------------------------------------------------
(* Ap2Payment: runs *)

\* A request that is handled becomes the response to it, if its run still waits.
LEMMA RespondMoves ==
  ASSUME Ap2TypeOK, RunsInv, NEW r \in requests, NEW ok \in BOOLEAN, NEW cart,
         Respond(r, ok, cart), requests' = requests \ {r},
         UNCHANGED <<buying, purchase, purchases>>
  PROVE  /\ RunsInv'
         /\ \A s \in Shopper : Awaited(s)' \subseteq Awaited(s)
         /\ \A s \in Shopper : \A p \in Unread(s)' :
              \/ p \in Unread(s)
              \/ /\ r \in Awaited(s) /\ buying[s] \in {"cart", "payment"}
                 /\ p.run = purchase[s] /\ p.ok = ok /\ p.cart = cart
<1> DEFINE new == [to |-> r.from, run |-> r.run, ok |-> ok, cart |-> cart]
<1>1. r.from \in Shopper
  BY DEF Ap2TypeOK, Request
<1>2. \A s \in Shopper : Awaited(s)' = Awaited(s) \ {r}
  BY DEF Awaited
<1>3. /\ new.to = r.from /\ new.run = r.run /\ new.ok = ok /\ new.cart = cart
      /\ replies' = IF r \in Awaited(r.from) /\ buying[r.from] \in {"cart", "payment"}
                    THEN replies \union {new} ELSE replies
  BY DEF Respond, Awaited
<1> HIDE DEF new
<1>4. ASSUME NEW s \in Shopper
      PROVE  \/ Unread(s)' = Unread(s)
             \/ /\ s = r.from /\ r \in Awaited(s) /\ buying[s] \in {"cart", "payment"}
                /\ Unread(s)' = Unread(s) \union {new}
  BY <1>3 DEF Unread
<1>5. ASSUME NEW s \in Shopper
      PROVE  /\ \A x, y \in Awaited(s)' : x = y
             /\ \A x, y \in Unread(s)' : x = y
             /\ Awaited(s)' = {} \/ Unread(s)' = {}
             /\ Unread(s)' # {} => buying'[s] \in {"cart", "payment"}
  <2>1. /\ \A x, y \in Awaited(s) : x = y
        /\ \A x, y \in Unread(s) : x = y
        /\ Awaited(s) = {} \/ Unread(s) = {}
        /\ Unread(s) # {} => buying[s] \in {"cart", "payment"}
    BY DEF RunsInv
  <2>2. CASE Unread(s)' = Unread(s)
    BY <1>2, <2>1, <2>2
  <2>3. CASE r \in Awaited(s) /\ Unread(s)' = Unread(s) \union {new}
                /\ buying[s] \in {"cart", "payment"}
    BY <1>2, <2>1, <2>3
  <2> QED BY <1>4, <2>2, <2>3
<1>6. /\ \A q \in requests' :
           /\ q.run \in 1 .. purchases'
           /\ q.cartHash # Nothing => q.id = q.cartHash.id /\ q.quantity = q.cartHash.quantity
      /\ \A s \in Shopper : purchase'[s] <= purchases'
      /\ \A p \in replies' : p.run \in 1 .. purchases'
  BY <1>3 DEF RunsInv
<1>7. RunsInv'
  BY <1>5, <1>6 DEF RunsInv
<1>8. ASSUME NEW s \in Shopper, NEW p \in Unread(s)', p \notin Unread(s)
      PROVE  /\ r \in Awaited(s) /\ buying[s] \in {"cart", "payment"}
             /\ p.run = purchase[s] /\ p.ok = ok /\ p.cart = cart
  BY <1>3, <1>4, <1>8 DEF Awaited
<1> QED BY <1>2, <1>7, <1>8

LEMMA RunsStep ==
  ASSUME Ap2Assumption, Ap2TypeOK, RunsInv, StepsInv, [Ap2Next]_ap2Vars
  PROVE  RunsInv'
<1> USE DEF RunsInv
<1>1. CASE Pass \/ UNCHANGED ap2Vars
  BY <1>1 DEF Pass, ap2Vars, Awaited, Unread
<1>2. ASSUME NEW s \in Shopper, GiveUp(s) PROVE RunsInv'
  <2>1. /\ UNCHANGED <<purchase, requests, purchases>>
        /\ buying' = [buying EXCEPT ![s] = "failed"]
        /\ replies' = {r \in replies : r.to # s}
    BY <1>2 DEF GiveUp
  <2>2. \A x \in Shopper : Awaited(x)' = Awaited(x)
    BY <2>1 DEF Awaited
  <2>3. \A x \in Shopper : Unread(x)' = IF x = s THEN {} ELSE Unread(x)
    BY <2>1 DEF Unread
  <2>4. \A x \in Shopper : x # s => buying'[x] = buying[x]
    BY <2>1 DEF Ap2TypeOK
  <2> QED BY <2>1, <2>2, <2>3, <2>4
<1>3. ASSUME NEW s \in Shopper, NEW id \in CartId, NEW q \in Basket, RequestCart(s, id, q)
      PROVE  RunsInv'
  <2> DEFINE r == [from |-> s, run |-> purchases + 1, id |-> id, quantity |-> q,
                   cartHash |-> Nothing]
  <2>1. /\ purchases \in Nat /\ purchases' = purchases + 1 /\ requests' = requests \union {r}
        /\ UNCHANGED replies
        /\ \A x \in Shopper : /\ purchase'[x] = IF x = s THEN purchases + 1 ELSE purchase[x]
                              /\ x # s => buying'[x] = buying[x]
        /\ buying[s] \notin {"cart", "payment"}
    BY <1>3 DEF RequestCart, Ap2TypeOK, Number
  <2>2. r.from = s /\ r.run = purchases + 1 /\ r.cartHash = Nothing
    OBVIOUS
  <2> HIDE DEF r
  <2>3. /\ \A x \in Shopper : purchase[x] \in Nat /\ purchase[x] <= purchases
        /\ \A y \in requests : y.run \in Nat /\ y.run <= purchases
    BY <2>1 DEF Ap2TypeOK, Number
  <2>4. Awaited(s)' = {r}
    BY <2>1, <2>2, <2>3 DEF Awaited
  <2>5. \A x \in Shopper : x # s => Awaited(x)' = Awaited(x)
    BY <2>1, <2>2 DEF Awaited
  <2>6. \A x \in Shopper : Unread(x)' = Unread(x)
    BY <2>1 DEF Unread
  <2>7. Unread(s) = {}
    BY <2>1
  <2>8. /\ \A y \in requests' :
             /\ y.run \in 1 .. purchases'
             /\ y.cartHash # Nothing => y.id = y.cartHash.id /\ y.quantity = y.cartHash.quantity
        /\ \A x \in Shopper : purchase'[x] <= purchases'
        /\ \A p \in replies' : p.run \in 1 .. purchases'
    BY <2>1, <2>2, <2>3
  <2> QED BY <2>1, <2>4, <2>5, <2>6, <2>7, <2>8
<1>4. ASSUME NEW s \in Shopper, NEW p \in replies, Pay(s, p) PROVE RunsInv'
  <2> DEFINE r == [from |-> s, run |-> p.run, id |-> p.cart.contents.id,
                   quantity |-> p.cart.contents.quantity, cartHash |-> p.cart.contents]
  <2>1. /\ UNCHANGED <<purchase, purchases>> /\ p.to = s
        /\ requests' = requests \union {r} /\ replies' = replies \ {p}
        /\ \A x \in Shopper : x # s => buying'[x] = buying[x]
    BY <1>4 DEF Pay, Ap2TypeOK
  <2>2. /\ r.from = s /\ r.run = p.run /\ r.cartHash = p.cart.contents
        /\ r.id = r.cartHash.id /\ r.quantity = r.cartHash.quantity
    OBVIOUS
  <2> HIDE DEF r
  <2>3. p \in Unread(s) /\ p.run = purchase[s]
    BY <2>1 DEF Unread, StepsInv, StepInv
  <2>4. Awaited(s) = {} /\ Unread(s) = {p}
    BY <2>3
  <2>5. Awaited(s)' = {r}
    BY <2>1, <2>2, <2>3, <2>4 DEF Awaited
  <2>6. \A x \in Shopper : x # s => Awaited(x)' = Awaited(x) /\ Unread(x)' = Unread(x)
    BY <2>1, <2>2 DEF Awaited, Unread
  <2>7. Unread(s)' = {}
    BY <2>1, <2>4 DEF Unread
  <2>8. p.run \in 1 .. purchases
    BY DEF Ap2TypeOK
  <2> QED BY <2>1, <2>2, <2>5, <2>6, <2>7, <2>8
<1>5. ASSUME NEW s \in Shopper, NEW p \in replies, RejectCart(s, p) \/ Finish(s, p)
      PROVE  RunsInv'
  <2>1. /\ UNCHANGED <<purchase, requests, purchases>> /\ p.to = s
        /\ replies' = replies \ {p}
        /\ \A x \in Shopper : x # s => buying'[x] = buying[x]
    BY <1>5 DEF RejectCart, Finish, Ap2TypeOK
  <2>2. Unread(s)' = {} /\ \A x \in Shopper : x # s => Unread(x)' = Unread(x)
    BY <2>1 DEF Unread
  <2>3. \A x \in Shopper : Awaited(x)' = Awaited(x)
    BY <2>1 DEF Awaited
  <2> QED BY <2>1, <2>2, <2>3
<1>6. ASSUME NEW r \in requests,
             HandleCreateCartMandate(r) \/ HandleSendPaymentMandate(r) \/ RefusePaymentMandate(r)
      PROVE  RunsInv'
  <2>1. /\ requests' = requests \ {r} /\ UNCHANGED <<buying, purchase, purchases>>
        /\ \E ok \in BOOLEAN : \E cart : Respond(r, ok, cart)
    BY <1>6 DEF HandleCreateCartMandate, HandleSendPaymentMandate, RefusePaymentMandate
  <2> QED BY <2>1, RespondMoves
<1> QED BY <1>1, <1>2, <1>3, <1>4, <1>5, <1>6 DEF Ap2Next

-----------------------------------------------------------------------------
(* Ap2Payment: carts and payments *)

\* What was replaced stays so, the clock only goes on, and a cart that is no longer the
\* merchant's was replaced.
LEMMA CartsKept ==
  ASSUME Ap2Assumption, Ap2TypeOK, [Ap2Next]_ap2Vars
  PROVE  /\ replaced \subseteq replaced' /\ clock <= clock' /\ clock \in Nat /\ clock' \in Nat
         /\ \A m \in CartMandate :
              \/ m.contents \in replaced'
              \/ cartMandates[m.contents.id] = m => cartMandates'[m.contents.id] = m
<1>1. clock \in Nat
  BY DEF Ap2TypeOK
<1> SUFFICES ASSUME \/ cartMandates' # cartMandates \/ replaced' # replaced
                    \/ ~(clock <= clock' /\ clock' \in Nat)
             PROVE  /\ replaced \subseteq replaced' /\ clock <= clock' /\ clock' \in Nat
                    /\ \A m \in CartMandate :
                         \/ m.contents \in replaced'
                         \/ cartMandates[m.contents.id] = m => cartMandates'[m.contents.id] = m
  BY <1>1
<1>2. CASE Pass
  BY <1>1, <1>2 DEF Pass
<1>3. ASSUME NEW r \in requests, HandleCreateCartMandate(r)
      PROVE  /\ replaced \subseteq replaced' /\ clock <= clock' /\ clock' \in Nat
             /\ \A m \in CartMandate :
                  \/ m.contents \in replaced'
                  \/ cartMandates[m.contents.id] = m => cartMandates'[m.contents.id] = m
  <2>1. clock' = clock /\ replaced \subseteq replaced'
    BY <1>3 DEF HandleCreateCartMandate
  <2>2. ASSUME NEW m \in CartMandate, cartMandates[m.contents.id] = m, m.contents \notin replaced'
        PROVE  cartMandates'[m.contents.id] = m
    <3>1. \A x \in CartId : x # r.id => cartMandates'[x] = cartMandates[x]
      BY <1>3 DEF HandleCreateCartMandate, Ap2TypeOK
    <3>2. m.contents.id \in CartId
      BY DEF CartMandate, Cart
    <3>3. m.contents.id = r.id => m = Nothing
      BY <1>3, <2>2 DEF HandleCreateCartMandate
    <3> QED BY <2>2, <3>1, <3>2, <3>3 DEF Ap2Assumption
  <2> QED BY <1>1, <2>1, <2>2
<1>4. UNCHANGED <<cartMandates, replaced, clock>> => FALSE
  BY <1>1
<1>5. ASSUME NEW s \in Shopper,
             \/ GiveUp(s)
             \/ \E id \in CartId, quantity \in Basket : RequestCart(s, id, quantity)
             \/ \E r \in replies : Pay(s, r) \/ RejectCart(s, r) \/ Finish(s, r)
      PROVE  UNCHANGED <<cartMandates, replaced, clock>>
  BY <1>5 DEF GiveUp, RequestCart, Pay, RejectCart, Finish
<1>6. ASSUME NEW r \in requests, HandleSendPaymentMandate(r) \/ RefusePaymentMandate(r)
      PROVE  UNCHANGED <<cartMandates, replaced, clock>>
  BY <1>6 DEF HandleSendPaymentMandate, RefusePaymentMandate
<1> QED BY <1>2, <1>3, <1>4, <1>5, <1>6 DEF Ap2Next, ap2Vars

\* A run whose shopper does nothing keeps its step, whatever others do.
LEMMA StepKept ==
  ASSUME Ap2Assumption, Ap2TypeOK, [Ap2Next]_ap2Vars, NEW s \in Shopper, StepInv(s),
         UNCHANGED <<buying[s], purchase[s], wanted[s]>>,
         Awaited(s)' \subseteq Awaited(s), Unread(s)' \subseteq Unread(s)
  PROVE  StepInv(s)'
<1>1. \A m \in CartMandate : /\ IsStored(m) => IsStored(m)'
                             /\ Lapsed(m) => Lapsed(m)'
  <2>1. ASSUME NEW m \in CartMandate, IsStored(m) PROVE IsStored(m)'
    BY <2>1, CartsKept DEF IsStored
  <2>2. ASSUME NEW m \in CartMandate, Lapsed(m) PROVE Lapsed(m)'
    <3>1. m.exp \in 0 .. MaxClock + CartTtl /\ MaxClock + CartTtl \in Nat
      BY DEF CartMandate, Ap2Assumption
    <3> QED BY <2>2, <3>1, CartsKept DEF Lapsed
  <2> QED BY <2>1, <2>2
<1>2. wanted[s] \in CartMandate \union {Nothing}
      /\ \A p \in Unread(s) : p.cart \in CartMandate \union {Nothing}
  BY DEF Ap2TypeOK, Unread
<1> QED BY <1>1, <1>2 DEF StepInv, IsStored, Lapsed

\* The response to the one request of a run is of the step the run is at.
LEMMA StepAnswered ==
  ASSUME Ap2Assumption, Ap2TypeOK, RunsInv, [Ap2Next]_ap2Vars, NEW s \in Shopper, StepInv(s),
         NEW r \in requests, NEW ok \in BOOLEAN, NEW cart \in CartMandate \union {Nothing},
         Respond(r, ok, cart), requests' = requests \ {r},
         UNCHANGED <<buying, purchase, purchases, wanted>>,
         r \in Awaited(s) /\ buying[s] = "cart" => cart # Nothing /\ IsStored(cart)',
         r \in Awaited(s) /\ buying[s] = "payment" => ok \/ Lapsed(wanted[s])
  PROVE  StepInv(s)'
<1>1. /\ Awaited(s)' \subseteq Awaited(s)
      /\ \A p \in Unread(s)' :
           \/ p \in Unread(s)
           \/ /\ r \in Awaited(s) /\ buying[s] \in {"cart", "payment"}
              /\ p.run = purchase[s] /\ p.ok = ok /\ p.cart = cart
  BY RespondMoves
<1>2. wanted[s] \in CartMandate \union {Nothing}
      /\ \A p \in Unread(s) : p.cart \in CartMandate \union {Nothing}
  BY DEF Ap2TypeOK, Unread
<1>3. \A p \in Unread(s)' : p.run = purchase'[s]
  BY <1>1 DEF StepInv
<1>4. ASSUME buying'[s] = "cart"
      PROVE  /\ \A y \in Awaited(s)' : y.cartHash = Nothing
             /\ \A p \in Unread(s)' : p.cart # Nothing /\ IsStored(p.cart)'
  <2>1. \A y \in Awaited(s)' : y.cartHash = Nothing
    BY <1>1, <1>4 DEF StepInv
  <2>2. ASSUME NEW p \in Unread(s)' PROVE p.cart # Nothing /\ IsStored(p.cart)'
    <3>1. CASE p \in Unread(s)
      BY <1>2, <1>4, <3>1, CartsKept DEF StepInv, IsStored
    <3>2. CASE r \in Awaited(s) /\ p.cart = cart
      BY <1>4, <3>2 DEF IsStored
    <3> QED BY <1>1, <3>1, <3>2
  <2> QED BY <2>1, <2>2
<1>5. ASSUME buying'[s] = "payment"
      PROVE  /\ wanted'[s] # Nothing /\ wanted'[s].aud = s /\ IsStored(wanted[s])'
             /\ \A y \in Awaited(s)' : y.cartHash = wanted'[s].contents
             /\ \A p \in Unread(s)' : p.ok \/ Lapsed(wanted[s])'
  <2>1. /\ wanted[s] # Nothing /\ wanted[s].aud = s /\ IsStored(wanted[s])
        /\ \A y \in Awaited(s) : y.cartHash = wanted[s].contents
        /\ \A p \in Unread(s) : p.ok \/ Lapsed(wanted[s])
    BY <1>5 DEF StepInv
  <2>2. IsStored(wanted[s])'
    BY <1>2, <2>1, CartsKept DEF IsStored
  <2>3. Lapsed(wanted[s]) => Lapsed(wanted[s])'
    <3>1. wanted[s].exp \in 0 .. MaxClock + CartTtl /\ MaxClock + CartTtl \in Nat
      BY <1>2, <2>1 DEF CartMandate, Ap2Assumption
    <3> QED BY <3>1, CartsKept DEF Lapsed
  <2> QED BY <1>1, <1>5, <2>1, <2>2, <2>3
<1> QED BY <1>3, <1>4, <1>5 DEF StepInv, IsStored, Lapsed

LEMMA StepsStep ==
  ASSUME Ap2Assumption, Ap2TypeOK, RunsInv, StepsInv, [Ap2Next]_ap2Vars
  PROVE  StepsInv'
<1> SUFFICES ASSUME NEW x \in Shopper PROVE StepInv(x)'
  BY DEF StepsInv
<1>0. StepInv(x)
  BY DEF StepsInv
<1>1. CASE Pass \/ UNCHANGED ap2Vars
  BY <1>0, <1>1, StepKept DEF Pass, ap2Vars, Awaited, Unread
<1>2. ASSUME NEW s \in Shopper, GiveUp(s) PROVE StepInv(x)'
  <2>1. /\ UNCHANGED <<purchase, requests, wanted>>
        /\ buying'[s] = "failed" /\ (x # s => buying'[x] = buying[x])
        /\ replies' = {r \in replies : r.to # s}
    BY <1>2 DEF GiveUp, Ap2TypeOK
  <2>2. CASE x # s
    BY <1>0, <2>1, <2>2, StepKept DEF Awaited, Unread
  <2>3. CASE x = s
    BY <1>0, <2>1, <2>3 DEF StepInv, Unread
  <2> QED BY <2>2, <2>3
<1>3. ASSUME NEW s \in Shopper, NEW id \in CartId, NEW q \in Basket, RequestCart(s, id, q)
      PROVE  StepInv(x)'
  <2> DEFINE r == [from |-> s, run |-> purchases + 1, id |-> id, quantity |-> q,
                   cartHash |-> Nothing]
  <2>1. /\ purchases \in Nat /\ requests' = requests \union {r} /\ UNCHANGED replies
        /\ x # s => UNCHANGED <<buying[x], purchase[x], wanted[x]>>
        /\ purchase'[s] = purchases + 1 /\ buying'[s] = "cart"
        /\ buying[s] \notin {"cart", "payment"}
    BY <1>3 DEF RequestCart, Ap2TypeOK, Number
  <2>2. r.from = s /\ r.cartHash = Nothing
    OBVIOUS
  <2> HIDE DEF r
  <2>3. CASE x # s
    BY <1>0, <2>1, <2>2, <2>3, StepKept DEF Awaited, Unread
  <2>4. CASE x = s
    <3>1. Unread(s)' = {}
      BY <2>1 DEF Unread, RunsInv
    <3>2. \A y \in requests : y.run \in Nat /\ y.run <= purchases
      BY <2>1 DEF RunsInv
    <3>3. \A y \in Awaited(s)' : y.cartHash = Nothing
      BY <2>1, <2>2, <3>2 DEF Awaited
    <3> QED BY <2>1, <2>4, <3>1, <3>3 DEF StepInv
  <2> QED BY <2>3, <2>4
<1>4. ASSUME NEW s \in Shopper, NEW p \in replies, Pay(s, p) PROVE StepInv(x)'
  <2> DEFINE r == [from |-> s, run |-> p.run, id |-> p.cart.contents.id,
                   quantity |-> p.cart.contents.quantity, cartHash |-> p.cart.contents]
  <2>1. /\ UNCHANGED <<clock, purchase, purchases, replaced, cartMandates>> /\ p.to = s
        /\ requests' = requests \union {r} /\ replies' = replies \ {p}
        /\ x # s => UNCHANGED <<buying[x], wanted[x]>>
        /\ buying[s] = "cart" /\ buying'[s] = "payment" /\ wanted'[s] = p.cart
        /\ p.cart.aud = s
    BY <1>4 DEF Pay, Ap2TypeOK, ValidateCartMandate, ValidateMandate
  <2>2. r.from = s /\ r.cartHash = p.cart.contents
    OBVIOUS
  <2> HIDE DEF r
  <2>3. CASE x # s
    BY <1>0, <2>1, <2>2, <2>3, StepKept DEF Awaited, Unread
  <2>4. CASE x = s
    <3>1. p \in Unread(s) /\ p.cart # Nothing /\ IsStored(p.cart)
      BY <1>0, <2>1, <2>4 DEF Unread, StepInv
    <3>2. Awaited(s) = {} /\ Unread(s) = {p}
      BY <3>1 DEF RunsInv
    <3>3. Unread(s)' = {} /\ \A y \in Awaited(s)' : y = r
      BY <2>1, <3>2 DEF Unread, Awaited
    <3>4. wanted'[s] # Nothing /\ wanted'[s].aud = s /\ IsStored(wanted[s])'
      BY <2>1, <3>1 DEF IsStored
    <3> QED BY <2>1, <2>2, <2>4, <3>3, <3>4 DEF StepInv
  <2> QED BY <2>3, <2>4
<1>5. ASSUME NEW s \in Shopper, NEW p \in replies, RejectCart(s, p) \/ Finish(s, p)
      PROVE  StepInv(x)'
  <2>1. /\ UNCHANGED <<purchase, requests, wanted>> /\ p.to = s
        /\ replies' = replies \ {p}
        /\ x # s => buying'[x] = buying[x]
        /\ buying'[s] \notin {"cart", "payment"}
        /\ buying[s] = "payment" \/ buying'[s] # "refused"
    BY <1>5 DEF RejectCart, Finish, Ap2TypeOK
  <2>2. CASE x # s
    BY <1>0, <2>1, <2>2, StepKept DEF Awaited, Unread
  <2>3. CASE x = s
    BY <1>0, <2>1, <2>3 DEF StepInv, Unread
  <2> QED BY <2>2, <2>3
<1>6. ASSUME NEW r \in requests, HandleCreateCartMandate(r) PROVE StepInv(x)'
  <2>0. PICK m : m = BuildCartMandate(r)
    OBVIOUS
  <2>1. /\ Respond(r, TRUE, m) /\ requests' = requests \ {r} /\ r.cartHash = Nothing
        /\ UNCHANGED <<buying, purchase, purchases, wanted>>
    BY <1>6, <2>0 DEF HandleCreateCartMandate
  <2>2. m \in CartMandate /\ m # Nothing
    BY <2>0, MandateTypes DEF Ap2Assumption
  <2>3. IsStored(m)'
    <3>1. m.contents.id = r.id /\ r.id \in CartId
      BY <2>0 DEF BuildCartMandate, BuildMandate, Ap2TypeOK, Request
    <3>2. cartMandates' = [cartMandates EXCEPT ![r.id] = m]
      BY <1>6, <2>0 DEF HandleCreateCartMandate, Stores
    <3> QED BY <3>1, <3>2 DEF IsStored, Ap2TypeOK
  <2>4. ASSUME r \in Awaited(x), buying[x] = "payment" PROVE FALSE
    <3>1. wanted[x] # Nothing /\ r.cartHash = wanted[x].contents
      BY <1>0, <2>4 DEF StepInv
    <3>2. wanted[x].contents \in Cart
      BY <3>1 DEF Ap2TypeOK, CartMandate
    <3> QED BY <2>1, <3>1, <3>2 DEF Ap2Assumption
  <2> QED BY <1>0, <2>1, <2>2, <2>3, <2>4, StepAnswered
<1>7. ASSUME NEW r \in requests, HandleSendPaymentMandate(r) PROVE StepInv(x)'
  <2>1. /\ Respond(r, TRUE, Nothing) /\ requests' = requests \ {r} /\ r.cartHash # Nothing
        /\ UNCHANGED <<buying, purchase, purchases, wanted>>
    BY <1>7 DEF HandleSendPaymentMandate
  <2>2. ~(r \in Awaited(x) /\ buying[x] = "cart")
    BY <1>0, <2>1 DEF StepInv
  <2> QED BY <1>0, <2>1, <2>2, StepAnswered
<1>8. ASSUME NEW r \in requests, RefusePaymentMandate(r) PROVE StepInv(x)'
  <2>1. /\ Respond(r, FALSE, Nothing) /\ requests' = requests \ {r} /\ r.cartHash # Nothing
        /\ ~Accepts(cartMandates[r.id], r)
        /\ UNCHANGED <<buying, purchase, purchases, wanted>>
    BY <1>8 DEF RefusePaymentMandate
  <2>2. ~(r \in Awaited(x) /\ buying[x] = "cart")
    BY <1>0, <2>1 DEF StepInv
  <2>3. ASSUME r \in Awaited(x), buying[x] = "payment" PROVE Lapsed(wanted[x])
    <3>1. /\ wanted[x] # Nothing /\ wanted[x].aud = r.from /\ IsStored(wanted[x])
          /\ r.cartHash = wanted[x].contents
      BY <1>0, <2>3 DEF StepInv, Awaited
    <3>2. r.id = wanted[x].contents.id
      BY <2>1, <3>1 DEF RunsInv
    <3>3. wanted[x].contents \in replaced \/ ~(clock < wanted[x].exp)
      BY <2>1, <3>1, <3>2
        DEF IsStored, Accepts, ValidateCartMandate, ValidateMandate, ValidatePaymentMandate
    <3>4. wanted[x].exp \in 0 .. MaxClock + CartTtl /\ MaxClock + CartTtl \in Nat /\ clock \in Nat
      BY <3>1 DEF Ap2TypeOK, CartMandate, Ap2Assumption
    <3> QED BY <3>3, <3>4 DEF Lapsed
  <2> QED BY <1>0, <2>1, <2>2, <2>3, StepAnswered
<1> QED BY <1>1, <1>2, <1>3, <1>4, <1>5, <1>6, <1>7, <1>8 DEF Ap2Next

-----------------------------------------------------------------------------
(* Ap2Payment: theorems *)

\* A receipt ships what is paid, and a run that ends refused paid for a cart that is lost.
LEMMA OrdersStep ==
  ASSUME Ap2Assumption, Ap2TypeOK, RunsInv, StepsInv, OrdersHonoured, [Ap2Next]_ap2Vars
  PROVE  OrdersHonoured'
<1>1. ASSUME NEW e \in receipts'
      PROVE  e.shipped = e.paid /\ e.cart.aud = e.shopper /\ e.at < e.cart.exp
  <2>1. CASE e \in receipts
    BY <2>1 DEF OrdersHonoured
  <2>2. ASSUME NEW r \in requests, HandleSendPaymentMandate(r), e \notin receipts
        PROVE  e.shipped = e.paid /\ e.cart.aud = e.shopper /\ e.at < e.cart.exp
    <3>1. /\ e = IssueReceipts(r, cartMandates[r.id]) /\ r.cartHash # Nothing
          /\ Accepts(cartMandates[r.id], r)
      BY <1>1, <2>2 DEF HandleSendPaymentMandate
    <3>2. r.quantity = r.cartHash.quantity
      BY <3>1 DEF RunsInv
    <3> QED BY <3>1, <3>2 DEF IssueReceipts, Accepts, ValidateCartMandate, ValidateMandate,
                              ValidatePaymentMandate
  <2>3. receipts' = receipts \/ \E r \in requests : HandleSendPaymentMandate(r)
    BY DEF Ap2Next, ap2Vars, Pass, GiveUp, RequestCart, Pay, RejectCart, Finish,
           HandleCreateCartMandate, RefusePaymentMandate
  <2> QED BY <1>1, <2>1, <2>2, <2>3
<1>2. ASSUME NEW s \in Shopper, buying'[s] = "refused" PROVE Lapsed(wanted[s])'
  <2>1. ASSUME buying[s] = "refused", wanted'[s] = wanted[s] PROVE Lapsed(wanted[s])'
    <3>1. wanted[s] # Nothing
      BY <2>1 DEF StepsInv, StepInv
    <3>2. wanted[s].exp \in 0 .. MaxClock + CartTtl /\ MaxClock + CartTtl \in Nat
      BY <3>1 DEF Ap2TypeOK, CartMandate, Ap2Assumption
    <3> QED BY <2>1, <3>2, CartsKept DEF OrdersHonoured, Lapsed
  <2>2. ASSUME NEW p \in replies, Finish(s, p) PROVE Lapsed(wanted[s])'
    <3>1. p \in Unread(s) /\ buying[s] = "payment" /\ ~p.ok
      BY <1>2, <2>2 DEF Finish, Unread, Ap2TypeOK
    <3>2. Lapsed(wanted[s])
      BY <3>1 DEF StepsInv, StepInv
    <3> QED BY <2>2, <3>2 DEF Finish, Lapsed
  <2>3. CASE UNCHANGED <<buying, wanted>>
    BY <1>2, <2>1, <2>3
  <2>4. ASSUME NEW t \in Shopper, NEW p \in replies, Finish(t, p), t # s
        PROVE  UNCHANGED <<buying[s], wanted[s]>>
    BY <2>4 DEF Finish, Ap2TypeOK
  <2>5. ASSUME NEW t \in Shopper, NEW p \in replies, Pay(t, p) \/ RejectCart(t, p)
        PROVE  UNCHANGED <<buying[s], wanted[s]>>
    BY <1>2, <2>5 DEF Pay, RejectCart, Ap2TypeOK
  <2>6. ASSUME NEW t \in Shopper,
               GiveUp(t) \/ \E id \in CartId, quantity \in Basket : RequestCart(t, id, quantity)
        PROVE  UNCHANGED <<buying[s], wanted[s]>>
    BY <1>2, <2>6 DEF GiveUp, RequestCart, Ap2TypeOK
  <2>7. CASE Pass \/ UNCHANGED ap2Vars
    BY <2>3, <2>7 DEF Pass, ap2Vars
  <2>8. CASE \E r \in requests : \/ HandleCreateCartMandate(r) \/ HandleSendPaymentMandate(r)
                                 \/ RefusePaymentMandate(r)
    BY <2>3, <2>8 DEF HandleCreateCartMandate, HandleSendPaymentMandate, RefusePaymentMandate
  <2>9. UNCHANGED <<buying[s], wanted[s]>> => Lapsed(wanted[s])'
    BY <1>2, <2>1
  <2> QED BY <2>2, <2>4, <2>5, <2>6, <2>7, <2>8, <2>9 DEF Ap2Next
<1> QED BY <1>1, <1>2 DEF OrdersHonoured, Lapsed

\* Ap2IInv is an invariant of the flow with any shoppers, carts and purchases.
THEOREM Ap2Invariance == ASSUME Ap2Assumption PROVE Ap2Spec => []Ap2IInv
<1>1. Ap2Init => Ap2IInv
  <2> SUFFICES ASSUME Ap2Init PROVE Ap2IInv
    OBVIOUS
  <2>1. Ap2TypeOK
    BY DEF Ap2Init, Ap2TypeOK, Number, Ap2Assumption
  <2>2. RunsInv /\ StepsInv
    BY DEF Ap2Init, RunsInv, StepsInv, StepInv, Awaited, Unread
  <2>3. OrdersHonoured
    BY DEF Ap2Init, OrdersHonoured
  <2> QED BY <2>1, <2>2, <2>3 DEF Ap2IInv
<1>2. Ap2IInv /\ [Ap2Next]_ap2Vars => Ap2IInv'
  BY Ap2TypesStep, RunsStep, StepsStep, OrdersStep DEF Ap2IInv
<1> QED BY <1>1, <1>2, PTL DEF Ap2Spec

\* What is shipped is what was paid for, on an own unexpired cart, and a shopper is refused
\* only over a cart that was replaced or has expired (ap2_complete_flow.py:208-254).
THEOREM OrdersAreHonoured == ASSUME Ap2Assumption PROVE Ap2Spec => []OrdersHonoured
<1>1. Ap2IInv => OrdersHonoured
  BY DEF Ap2IInv
<1> QED BY <1>1, Ap2Invariance, PTL

-----------------------------------------------------------------------------
(* TsNegotiation: the machine *)

\* What the theorems assume of the constants: two agents, and a value for "not set" that is
\* no protocol and no test cases.
TsMetaAssumption ==
  /\ \E a, b \in Agent : a # b /\ Agent = {a, b}
  /\ Unset \notin Protocol /\ Unset \notin Tests
  /\ MaxNegotiationRounds \in Nat /\ MaxTsFixes \in Nat

LEMMA PeerLaw ==
  ASSUME TsMetaAssumption, NEW a \in Agent
  PROVE  Peer(a) \in Agent /\ Peer(a) # a /\ \A b \in Agent : b # a => b = Peer(a)
BY DEF TsMetaAssumption, Peer

\* The machine never comes back to the state in which it may accept.
LEMMA TargetsLaw ==
  ASSUME NEW e \in DOMAIN Targets, NEW s \in DOMAIN Targets[e]
  PROVE  /\ Targets[e][s] \in State
         /\ Targets[e][s] \in {"Idle", "Negotiating"} => s \in {"Idle", "Negotiating"}
         /\ e = "accept" => s = "Negotiating" /\ Targets[e][s] = "CodeGeneration"
BY DEF Targets, State

\* One transition: it keeps the types, and an agreement is reached once.
LEMMA TransitionLaw ==
  ASSUME TsMetaAssumption, TsMetaTypeOK, NEW a \in Agent, NEW e \in DOMAIN Targets, Knows(a, e),
         NEW about, Transition(a, e, about),
         e \in {"initiate", "receive_request", "accept"} => about \in Protocol,
         e = "tests_agreed" => about \in Tests
  PROVE  /\ machine' \in [Agent -> State] /\ offered' \in [Agent -> Protocol \union {Unset}]
         /\ agreed' \in [Agent -> Protocol \union {Unset}]
         /\ tests' \in [Agent -> Tests \union {Unset}]
         /\ rounds' \in [Agent -> 0 .. MaxNegotiationRounds] /\ fixes' \in 0 .. MaxTsFixes
         /\ \A b \in Agent : machine[b] \notin {"Idle", "Negotiating"} =>
              machine'[b] \notin {"Idle", "Negotiating"}
         /\ IF e = "accept"
            THEN /\ machine[a] = "Negotiating" /\ machine'[a] = "CodeGeneration"
                 /\ agreed' = [agreed EXCEPT ![a] = about]
            ELSE agreed' = agreed
         /\ tests' = IF e = "tests_agreed" THEN [tests EXCEPT ![a] = about] ELSE tests
<1> DEFINE gaveUp == e = "negotiate" /\ MaxRoundsExceeded(a)
           target == IF gaveUp THEN "Rejected" ELSE Targets[e][machine[a]]
<1>1. /\ machine' = [machine EXCEPT ![a] = target]
      /\ offered' = IF e \in {"initiate", "receive_request"}
                    THEN [offered EXCEPT ![a] = about] ELSE offered
      /\ agreed' = IF e = "accept" THEN [agreed EXCEPT ![a] = about] ELSE agreed
      /\ tests' = IF e = "tests_agreed" THEN [tests EXCEPT ![a] = about] ELSE tests
      /\ rounds' = IF e = "negotiate" /\ ~gaveUp THEN [rounds EXCEPT ![a] = @ + 1] ELSE rounds
      /\ fixes' = IF target = "FixError" THEN fixes + 1 ELSE fixes
      /\ target = "FixError" => fixes < MaxTsFixes
  BY DEF Transition, SetAgreedProtocol
<1>2. machine[a] \in DOMAIN Targets[e]
  BY DEF Knows
<1>3. /\ target \in State
      /\ target \in {"Idle", "Negotiating"} => machine[a] \in {"Idle", "Negotiating"}
      /\ e = "accept" => machine[a] = "Negotiating" /\ target = "CodeGeneration"
  BY <1>2, TargetsLaw DEF State
<1>4. ~gaveUp /\ e = "negotiate" => rounds[a] < MaxNegotiationRounds
  BY DEF MaxRoundsExceeded, TsMetaTypeOK, TsMetaAssumption
<1> HIDE DEF target, gaveUp
<1>5. machine' \in [Agent -> State] /\ offered' \in [Agent -> Protocol \union {Unset}]
  BY <1>1, <1>3 DEF TsMetaTypeOK
<1>6. /\ agreed' \in [Agent -> Protocol \union {Unset}]
      /\ tests' \in [Agent -> Tests \union {Unset}]
  BY <1>1 DEF TsMetaTypeOK
<1>7. rounds' \in [Agent -> 0 .. MaxNegotiationRounds] /\ fixes' \in 0 .. MaxTsFixes
  BY <1>1, <1>4 DEF TsMetaTypeOK, TsMetaAssumption
<1>8. /\ machine'[a] = target /\ \A b \in Agent : b # a => machine'[b] = machine[b]
  BY <1>1 DEF TsMetaTypeOK
<1> QED BY <1>1, <1>3, <1>5, <1>6, <1>7, <1>8

LEMMA TellLaw ==
  ASSUME TsMetaAssumption, TsMetaTypeOK, NEW a \in Agent, NEW e, NEW about, Tell(a, e, about),
         [to |-> Peer(a), event |-> e, about |-> about] \in MetaMessage
  PROVE  /\ mail' \subseteq MetaMessage
         /\ \A m \in mail' : m \in mail \/ (m.to = Peer(a) /\ m.event = e /\ m.about = about)
BY DEF Tell, TsMetaTypeOK

-----------------------------------------------------------------------------
(* TsNegotiation: steps *)

\* What an agent does by itself that accepts nothing.
LEMMA QuietStep ==
  ASSUME TsMetaAssumption, TsMetaIInv, NEW a \in Agent, NEW e \in DOMAIN Targets, NEW about,
         e \notin {"accept", "tests_agreed"}, Knows(a, e), Transition(a, e, about),
         e \in {"initiate", "receive_request"} => about \in Protocol,
         mail' \subseteq MetaMessage,
         \A m \in mail' : m \in mail \/ m.event \notin {"accept", "tests_agreed"},
         UNCHANGED <<said, saidTests>>
  PROVE  TsMetaIInv'
<1> USE DEF TsMetaIInv
<1>1. /\ machine' \in [Agent -> State] /\ offered' \in [Agent -> Protocol \union {Unset}]
      /\ rounds' \in [Agent -> 0 .. MaxNegotiationRounds] /\ fixes' \in 0 .. MaxTsFixes
      /\ \A b \in Agent : machine[b] \notin {"Idle", "Negotiating"} =>
           machine'[b] \notin {"Idle", "Negotiating"}
      /\ UNCHANGED <<agreed, tests>>
  BY TransitionLaw
<1>2. TsMetaTypeOK'
  BY <1>1 DEF TsMetaTypeOK
<1>3. AgreementInv'
  BY <1>1 DEF AgreementInv
<1> QED BY <1>2, <1>3

LEMMA AcceptStep ==
  ASSUME TsMetaAssumption, TsMetaIInv, NEW a \in Agent, NEW p \in Protocol, Accept(a, p)
  PROVE  TsMetaIInv'
<1> USE DEF TsMetaIInv
<1>1. "accept" \in DOMAIN Targets /\ [to |-> Peer(a), event |-> "accept", about |-> p] \in MetaMessage
  BY PeerLaw DEF Targets, MetaMessage
<1>2. /\ machine' \in [Agent -> State] /\ offered' \in [Agent -> Protocol \union {Unset}]
      /\ agreed' \in [Agent -> Protocol \union {Unset}]
      /\ rounds' \in [Agent -> 0 .. MaxNegotiationRounds] /\ fixes' \in 0 .. MaxTsFixes
      /\ \A b \in Agent : machine[b] \notin {"Idle", "Negotiating"} =>
           machine'[b] \notin {"Idle", "Negotiating"}
      /\ machine[a] = "Negotiating" /\ machine'[a] = "CodeGeneration"
      /\ agreed' = [agreed EXCEPT ![a] = p] /\ UNCHANGED tests
  BY <1>1, TransitionLaw DEF Accept
<1>3. /\ mail' \subseteq MetaMessage
      /\ \A m \in mail' : m \in mail \/ (m.to = Peer(a) /\ m.event = "accept" /\ m.about = p)
  BY <1>1, TellLaw DEF Accept
<1>4. said' = [said EXCEPT ![a] = p] /\ UNCHANGED saidTests
  BY DEF Accept
<1>5. TsMetaTypeOK'
  BY <1>2, <1>3, <1>4 DEF TsMetaTypeOK
<1>6. agreed[a] = Unset /\ said[a] = Unset /\ p # Unset
  BY <1>2 DEF AgreementInv, TsMetaAssumption
<1>7. /\ agreed'[a] = p /\ said'[a] = p
      /\ \A b \in Agent : b # a => agreed'[b] = agreed[b] /\ said'[b] = said[b]
  BY <1>2, <1>4 DEF TsMetaTypeOK
<1>8. ASSUME NEW b \in Agent
      PROVE  /\ said'[b] # Unset => agreed'[b] = said'[b]
             /\ agreed'[b] # Unset => /\ agreed'[b] \in {said'[b], said'[Peer(b)]}
                                     /\ machine'[b] \notin {"Idle", "Negotiating"}
             /\ tests'[b] # Unset => tests'[b] \in UNION {saidTests'[x] : x \in Agent}
  BY <1>2, <1>4, <1>6, <1>7, PeerLaw DEF AgreementInv
<1>9. ASSUME NEW m \in mail'
      PROVE  /\ m.event = "accept" => m.about = said'[Peer(m.to)]
             /\ m.event = "tests_agreed" => m.about \in UNION {saidTests'[x] : x \in Agent}
  <2>1. CASE m \in mail
    <3>1. m.to \in Agent /\ (m.event = "accept" => m.about \in Protocol)
      BY <2>1 DEF TsMetaTypeOK, MetaMessage
    <3>2. m.event = "accept" => m.about = said[Peer(m.to)] /\ m.about # Unset
      BY <2>1, <3>1 DEF AgreementInv, TsMetaAssumption
    <3> QED BY <1>4, <1>6, <1>7, <2>1, <3>1, <3>2, PeerLaw DEF AgreementInv
  <2>2. CASE m.to = Peer(a) /\ m.event = "accept" /\ m.about = p
    BY <1>7, <2>2, PeerLaw
  <2> QED BY <1>3, <2>1, <2>2
<1> QED BY <1>5, <1>8, <1>9 DEF AgreementInv, Peer

LEMMA AgreeTestsStep ==
  ASSUME TsMetaAssumption, TsMetaIInv, NEW a \in Agent, NEW t \in Tests, AgreeTests(a, t)
  PROVE  TsMetaIInv'
<1> USE DEF TsMetaIInv
<1>1. /\ "tests_agreed" \in DOMAIN Targets
      /\ [to |-> Peer(a), event |-> "tests_agreed", about |-> t] \in MetaMessage
  BY PeerLaw DEF Targets, MetaMessage
<1>2. /\ machine' \in [Agent -> State] /\ offered' \in [Agent -> Protocol \union {Unset}]
      /\ tests' \in [Agent -> Tests \union {Unset}]
      /\ rounds' \in [Agent -> 0 .. MaxNegotiationRounds] /\ fixes' \in 0 .. MaxTsFixes
      /\ \A b \in Agent : machine[b] \notin {"Idle", "Negotiating"} =>
           machine'[b] \notin {"Idle", "Negotiating"}
      /\ tests' = [tests EXCEPT ![a] = t] /\ UNCHANGED agreed
  BY <1>1, TransitionLaw DEF AgreeTests
<1>3. /\ mail' \subseteq MetaMessage
      /\ \A m \in mail' : m \in mail \/ (m.event = "tests_agreed" /\ m.about = t)
  BY <1>1, TellLaw DEF AgreeTests
<1>4. saidTests' = [saidTests EXCEPT ![a] = @ \union {t}] /\ UNCHANGED said
  BY DEF AgreeTests
<1>5. TsMetaTypeOK'
  BY <1>2, <1>3, <1>4 DEF TsMetaTypeOK
<1>6. /\ t \in saidTests'[a] /\ \A x \in Agent : saidTests[x] \subseteq saidTests'[x]
      /\ \A b \in Agent : tests'[b] = IF b = a THEN t ELSE tests[b]
  BY <1>2, <1>4 DEF TsMetaTypeOK
<1>7. AgreementInv'
  BY <1>2, <1>3, <1>4, <1>6 DEF AgreementInv
<1> QED BY <1>5, <1>7

LEMMA ProcessMessageStep ==
  ASSUME TsMetaAssumption, TsMetaIInv, NEW m \in mail, ProcessMessage(m)
  PROVE  TsMetaIInv'
<1> USE DEF TsMetaIInv
<1> DEFINE a == m.to
<1>1. /\ a \in Agent /\ m.event \in DOMAIN Targets
      /\ m.event \in {"initiate", "receive_request", "accept"} => m.about \in Protocol
      /\ m.event = "tests_agreed" => m.about \in Tests
  BY DEF TsMetaTypeOK, MetaMessage, Targets
<1>2. mail' = mail \ {m} /\ UNCHANGED <<said, saidTests>>
  BY DEF ProcessMessage
<1>3. CASE ~Knows(a, m.event)
  <2>1. UNCHANGED <<machine, offered, agreed, tests, rounds, fixes>>
    BY <1>3 DEF ProcessMessage
  <2>2. TsMetaTypeOK'
    BY <1>2, <2>1 DEF TsMetaTypeOK
  <2>3. AgreementInv'
    BY <1>2, <2>1 DEF AgreementInv
  <2> QED BY <2>2, <2>3
<1>4. CASE Knows(a, m.event)
  <2>1. /\ machine' \in [Agent -> State] /\ offered' \in [Agent -> Protocol \union {Unset}]
        /\ agreed' \in [Agent -> Protocol \union {Unset}]
        /\ tests' \in [Agent -> Tests \union {Unset}]
        /\ rounds' \in [Agent -> 0 .. MaxNegotiationRounds] /\ fixes' \in 0 .. MaxTsFixes
        /\ \A b \in Agent : machine[b] \notin {"Idle", "Negotiating"} =>
             machine'[b] \notin {"Idle", "Negotiating"}
        /\ IF m.event = "accept"
           THEN /\ machine[a] = "Negotiating" /\ machine'[a] = "CodeGeneration"
                /\ agreed' = [agreed EXCEPT ![a] = m.about]
           ELSE agreed' = agreed
        /\ tests' = IF m.event = "tests_agreed" THEN [tests EXCEPT ![a] = m.about] ELSE tests
    BY <1>1, <1>4, TransitionLaw DEF ProcessMessage
  <2>2. TsMetaTypeOK'
    BY <1>2, <2>1 DEF TsMetaTypeOK
  <2>3. CASE m.event = "accept"
    <3>1. said[a] = Unset /\ m.about = said[Peer(a)]
      BY <1>1, <2>1, <2>3 DEF AgreementInv
    <3>2. AgreementInv'
      BY <1>1, <1>2, <2>1, <2>3, <3>1 DEF AgreementInv, TsMetaTypeOK
    <3> QED BY <2>2, <3>2
  <2>4. CASE m.event = "tests_agreed"
    <3>1. m.about \in UNION {saidTests[x] : x \in Agent}
      BY <2>4 DEF AgreementInv
    <3>2. AgreementInv'
      BY <1>1, <1>2, <2>1, <2>4, <3>1 DEF AgreementInv, TsMetaTypeOK
    <3> QED BY <2>2, <3>2
  <2>5. CASE m.event \notin {"accept", "tests_agreed"}
    <3>1. AgreementInv'
      BY <1>2, <2>1, <2>5 DEF AgreementInv
    <3> QED BY <2>2, <3>1
  <2> QED BY <2>3, <2>4, <2>5
<1> QED BY <1>3, <1>4

LEMMA TsMetaStep ==
  ASSUME TsMetaAssumption, TsMetaIInv, [TsMetaNext]_negotiationVars
  PROVE  TsMetaIInv'
<1>1. ASSUME NEW a \in Agent, NEW p \in Protocol, NEW e \in DOMAIN Targets, Propose(a, e, p)
      PROVE  TsMetaIInv'
  <2>1. /\ e \in {"initiate", "negotiate"} /\ Knows(a, e) /\ Transition(a, e, p)
        /\ UNCHANGED <<said, saidTests>>
        /\ Tell(a, "reject", Unset) \/ Tell(a, "receive_request", p)
    BY <1>1 DEF Propose
  <2>2. /\ [to |-> Peer(a), event |-> "reject", about |-> Unset] \in MetaMessage
        /\ [to |-> Peer(a), event |-> "receive_request", about |-> p] \in MetaMessage
    BY PeerLaw DEF MetaMessage
  <2>3. /\ mail' \subseteq MetaMessage
        /\ \A m \in mail' : m \in mail \/ m.event \notin {"accept", "tests_agreed"}
    BY <2>1, <2>2, TellLaw DEF TsMetaIInv
  <2> QED BY <2>1, <2>3, QuietStep
<1>2. ASSUME NEW a \in Agent, NEW e \in DOMAIN Targets, Step(a, e)
      PROVE  TsMetaIInv'
  <2>1. /\ e \in {"reject", "timeout", "code_ready", "code_error", "skip_tests", "fix_accepted",
                  "fix_rejected"}
        /\ Knows(a, e) /\ Transition(a, e, Unset) /\ Tell(a, e, Unset)
        /\ UNCHANGED <<said, saidTests>>
    BY <1>2 DEF Step
  <2>2. [to |-> Peer(a), event |-> e, about |-> Unset] \in MetaMessage
    BY <2>1, PeerLaw DEF MetaMessage
  <2>3. /\ mail' \subseteq MetaMessage
        /\ \A m \in mail' : m \in mail \/ m.event \notin {"accept", "tests_agreed"}
    BY <2>1, <2>2, TellLaw DEF TsMetaIInv
  <2> QED BY <2>1, <2>3, QuietStep
<1>3. ASSUME NEW a \in Agent, NEW e \in DOMAIN Targets, StepAlone(a, e)
      PROVE  TsMetaIInv'
  <2>1. /\ e \in {"tests_passed", "tests_failed", "start_communication", "protocol_error", "end"}
        /\ Knows(a, e) /\ Transition(a, e, Unset) /\ UNCHANGED <<mail, said, saidTests>>
    BY <1>3 DEF StepAlone
  <2>2. mail' \subseteq MetaMessage
    BY <2>1 DEF TsMetaIInv, TsMetaTypeOK
  <2> QED BY <2>1, <2>2, QuietStep
<1>4. CASE UNCHANGED negotiationVars
  BY <1>4 DEF negotiationVars, TsMetaIInv, TsMetaTypeOK, AgreementInv
<1> QED BY <1>1, <1>2, <1>3, <1>4, AcceptStep, AgreeTestsStep, ProcessMessageStep DEF TsMetaNext

-----------------------------------------------------------------------------
(* TsNegotiation: theorems *)

\* TsMetaIInv is an invariant of two agents with any protocols, tests and bounds.
THEOREM TsMetaInvariance == ASSUME TsMetaAssumption PROVE TsMetaSpec => []TsMetaIInv
<1>1. TsMetaInit => TsMetaIInv
  BY DEF TsMetaInit, TsMetaIInv, TsMetaTypeOK, AgreementInv, State, TsMetaAssumption
<1>2. TsMetaIInv /\ [TsMetaNext]_negotiationVars => TsMetaIInv'
  BY TsMetaStep
<1> QED BY <1>1, <1>2, PTL DEF TsMetaSpec

\* Two agents that have agreed have agreed on the same, unless both accepted by themselves,
\* in whatever order messages come (meta-protocol-machine.ts).
THEOREM AgreementIsShared == ASSUME TsMetaAssumption PROVE TsMetaSpec => []SameAgreement
<1>1. TsMetaIInv => SameAgreement
  BY PeerLaw DEF TsMetaIInv, AgreementInv, SameAgreement
<1> QED BY <1>1, TsMetaInvariance, PTL

-----------------------------------------------------------------------------
(* TsRequests: types *)

\* What the theorems assume of the constants: bounds and a tolerance that are numbers.
TsAssumption ==
  MaxRetries \in Nat /\ SkewTolerance \in Nat /\ MaxTsClock \in Nat /\ MaxTsFaults \in Nat

LEMMA TsTypesStep ==
  ASSUME TsAssumption, TsTypes, AttemptsInv, [TsNext]_tsVars
  PROVE  TsTypes'
<1> USE DEF TsTypes, TsAssumption
<1>1. CASE TsTick \/ UNCHANGED tsVars
  BY <1>1 DEF TsTick, tsVars, tsHistory
<1>2. ASSUME NEW c \in TsCall, StartRequest(c) PROVE TsTypes'
  BY <1>2 DEF StartRequest, GenerateAuthHeader, Attempt, tsHistory
<1>3. ASSUME NEW c \in TsCall, Abort(c) \/ ConnectionBreaks(c) PROVE TsTypes'
  <2>1. AfterError(attempt[c]) \in {"exhausted", "backoff"}
    BY DEF AfterError
  <2>2. callStage' \in [TsCall -> {"idle", "sent", "backoff", "ok", "exhausted", "refused"}]
    BY <1>3, <2>1 DEF Abort, ConnectionBreaks
  <2>3. aborted' \in [TsCall -> BOOLEAN]
    BY <1>3 DEF Abort, ConnectionBreaks
  <2>4. /\ tsFaults' \in 0 .. MaxTsFaults
        /\ UNCHANGED <<tsClock, signedAt, attempt, arriving, verifying, usedNonces, tsAnswers,
                       timesHandled, overlapped, forgotten, unresolved>>
    BY <1>3 DEF Abort, ConnectionBreaks, tsHistory
  <2> QED BY <2>2, <2>3, <2>4
<1>4. ASSUME NEW c \in TsCall, Resend(c) PROVE TsTypes'
  <2>1. attempt[c] + 1 \in 0 .. MaxRetries
    BY <1>4 DEF Resend, AttemptsInv
  <2>2. AfterError(attempt[c] + 1) \in {"exhausted", "backoff"}
    BY DEF AfterError
  <2>3. [call |-> c, no |-> attempt[c] + 1] \in Attempt
    BY <2>1 DEF Attempt
  <2> QED BY <1>4, <2>1, <2>2, <2>3 DEF Resend, tsHistory
<1>5. ASSUME NEW a \in tsAnswers, ReadAnswer(a) PROVE TsTypes'
  <2>1. AfterError(attempt[a.attempt.call]) \in {"exhausted", "backoff"}
    BY DEF AfterError
  <2>2. callStage' \in [TsCall -> {"idle", "sent", "backoff", "ok", "exhausted", "refused"}]
    BY <1>5, <2>1 DEF ReadAnswer
  <2>3. /\ tsAnswers' \subseteq tsAnswers
        /\ UNCHANGED <<tsClock, tsFaults, signedAt, attempt, aborted, arriving, verifying,
                       usedNonces, timesHandled, overlapped, forgotten, unresolved>>
    BY <1>5 DEF ReadAnswer, tsHistory
  <2> QED BY <2>2, <2>3
<1>6. ASSUME NEW x \in Attempt, NEW status \in {200, 401, 500}
      PROVE  Answered(x, status) \subseteq [attempt : Attempt, status : {200, 401, 500}]
  BY DEF Answered
<1>7. ASSUME NEW x \in arriving, BeginVerify(x) PROVE TsTypes'
  <2>1. x \in Attempt /\ x.call \in TsCall
    BY DEF Attempt
  <2>2. {y.call : y \in {z \in verifying : z.call = x.call}} \subseteq TsCall
    BY DEF Attempt
  <2> QED BY <1>6, <1>7, <2>1, <2>2 DEF BeginVerify
<1>8. ASSUME NEW x \in verifying, EndVerify(x) PROVE TsTypes'
  <2>1. x \in Attempt /\ x.call \in TsCall
    BY DEF Attempt
  <2>2. KeptNonces(usedNonces \union {x.call}) \subseteq TsCall
    BY <2>1 DEF KeptNonces
  <2>3. /\ usedNonces' \subseteq TsCall /\ forgotten' \subseteq TsCall
        /\ verifying' \subseteq Attempt
    <3>1. /\ usedNonces' = KeptNonces(usedNonces \union {x.call}) /\ verifying' = verifying \ {x}
          /\ forgotten' = forgotten \union ((usedNonces \union {x.call}) \ usedNonces')
      BY <1>8 DEF EndVerify
    <3> QED BY <2>1, <2>2, <3>1
  <2>4. timesHandled' \in [TsCall -> Nat]
    BY <1>8, <2>1 DEF EndVerify
  <2>5. tsAnswers' \subseteq [attempt : Attempt, status : {200, 401, 500}]
    BY <1>6, <1>8, <2>1 DEF EndVerify
  <2>6. UNCHANGED <<tsClock, tsFaults, callStage, signedAt, attempt, aborted, arriving,
                    overlapped, unresolved>>
    BY <1>8 DEF EndVerify
  <2> QED BY <2>3, <2>4, <2>5, <2>6
<1>9. ASSUME NEW x \in verifying, ResolutionFails(x) PROVE TsTypes'
  <2>1. x \in Attempt /\ x.call \in TsCall
    BY DEF Attempt
  <2> QED BY <1>6, <1>9, <2>1 DEF ResolutionFails
<1> QED BY <1>1, <1>2, <1>3, <1>4, <1>5, <1>7, <1>8, <1>9 DEF TsNext

LEMMA AttemptsStep ==
  ASSUME TsAssumption, TsTypes, AttemptsInv, [TsNext]_tsVars
  PROVE  AttemptsInv'
<1> USE DEF TsTypes, TsAssumption, AttemptsInv
<1>1. CASE TsTick \/ UNCHANGED tsVars
  BY <1>1 DEF TsTick, tsVars
<1>2. ASSUME NEW c \in TsCall, StartRequest(c) PROVE AttemptsInv'
  BY <1>2 DEF StartRequest
<1>3. ASSUME NEW c \in TsCall, Abort(c) \/ ConnectionBreaks(c) PROVE AttemptsInv'
  <2>1. /\ UNCHANGED <<attempt, arriving, verifying, tsAnswers>>
        /\ \A d \in TsCall :
             callStage'[d] = callStage[d] \/ callStage'[d] = AfterError(attempt[d])
    BY <1>3 DEF Abort, ConnectionBreaks
  <2>2. \A d \in TsCall : /\ AfterError(attempt[d]) # "idle"
                          /\ AfterError(attempt[d]) = "backoff" => attempt[d] < MaxRetries
    BY DEF AfterError
  <2>3. \A x \in Attempt : x.call \in TsCall
    BY DEF Attempt
  <2> QED BY <2>1, <2>2, <2>3
<1>4. ASSUME NEW c \in TsCall, Resend(c) PROVE AttemptsInv'
  <2>1. /\ UNCHANGED <<verifying, tsAnswers>> /\ callStage[c] = "backoff"
        /\ attempt' = [attempt EXCEPT ![c] = attempt[c] + 1]
        /\ \A x \in arriving' : x \in arriving \/ x.call = c
        /\ \/ callStage' = [callStage EXCEPT ![c] = "sent"]
           \/ callStage' = [callStage EXCEPT ![c] = AfterError(attempt[c] + 1)]
    BY <1>4 DEF Resend
  <2>2. callStage'[c] # "idle" /\ (callStage'[c] = "backoff" => attempt'[c] < MaxRetries)
        /\ \A d \in TsCall : d # c => callStage'[d] = callStage[d] /\ attempt'[d] = attempt[d]
    BY <2>1 DEF AfterError
  <2>3. \A x \in Attempt : x.call \in TsCall
    BY DEF Attempt
  <2> QED BY <2>1, <2>2, <2>3
<1>5. ASSUME NEW a \in tsAnswers, ReadAnswer(a) PROVE AttemptsInv'
  <2>1. /\ UNCHANGED <<attempt, arriving, verifying>> /\ tsAnswers' \subseteq tsAnswers
        /\ \A d \in TsCall :
             \/ callStage'[d] = callStage[d]
             \/ callStage'[d] \in {"ok", "refused", AfterError(attempt[d])}
    <3>1. a.status \in {200, 401, 500}
      OBVIOUS
    <3> QED BY <1>5, <3>1 DEF ReadAnswer
  <2>2. \A d \in TsCall : /\ AfterError(attempt[d]) # "idle"
                          /\ AfterError(attempt[d]) = "backoff" => attempt[d] < MaxRetries
    BY DEF AfterError
  <2>3. \A x \in Attempt : x.call \in TsCall
    BY DEF Attempt
  <2> QED BY <2>1, <2>2, <2>3
<1>6. ASSUME NEW x \in arriving, BeginVerify(x) PROVE AttemptsInv'
  <2>1. /\ UNCHANGED <<attempt, callStage>> /\ arriving' \subseteq arriving
        /\ verifying' \subseteq verifying \union {x}
        /\ \A a \in tsAnswers' : a \in tsAnswers \/ a.attempt = x
    BY <1>6 DEF BeginVerify, Answered
  <2> QED BY <2>1
<1>7. ASSUME NEW x \in verifying, EndVerify(x) \/ ResolutionFails(x) PROVE AttemptsInv'
  <2>1. /\ UNCHANGED <<attempt, callStage, arriving>> /\ verifying' \subseteq verifying
        /\ \A a \in tsAnswers' : a \in tsAnswers \/ a.attempt = x
    BY <1>7 DEF EndVerify, ResolutionFails, Answered
  <2> QED BY <2>1
<1> QED BY <1>1, <1>2, <1>3, <1>4, <1>5, <1>6, <1>7 DEF TsNext

-----------------------------------------------------------------------------
(* TsRequests: how often a call is handled *)

LEMMA OutstandingIsFinite ==
  ASSUME TsAssumption, NEW c
  PROVE  IsFiniteSet(Outstanding(c)) /\ Cardinality(Outstanding(c)) \in Nat
<1>1. Outstanding(c) \subseteq 0 .. MaxRetries /\ IsFiniteSet(0 .. MaxRetries)
  BY FS_Interval DEF Outstanding, TsAssumption
<1> QED BY <1>1, FS_Subset, FS_CardinalityType

LEMMA OutstandingIsFiniteNext ==
  ASSUME TsAssumption, NEW c
  PROVE  IsFiniteSet(Outstanding(c)') /\ Cardinality(Outstanding(c)') \in Nat
<1>1. Outstanding(c)' \subseteq 0 .. MaxRetries /\ IsFiniteSet(0 .. MaxRetries)
  BY FS_Interval DEF Outstanding, TsAssumption
<1> QED BY <1>1, FS_Subset, FS_CardinalityType

\* A call of which nothing is sent, and which is not handled, keeps its account.
LEMMA AccountKept ==
  ASSUME TsAssumption, TsTypes, PacedInv, NEW c \in TsCall,
         UNCHANGED <<attempt, timesHandled>>,
         Outstanding(c)' \subseteq Outstanding(c),
         callStage'[c] = "idle" <=> callStage[c] = "idle"
  PROVE  IF callStage'[c] = "idle" THEN attempt'[c] = 0 /\ timesHandled'[c] = 0
         ELSE timesHandled'[c] + Cardinality(Outstanding(c)') <= attempt'[c] + 1
<1>1. PICK o, p : o = Outstanding(c) /\ p = Outstanding(c)'
  OBVIOUS
<1>2. IsFiniteSet(o) /\ Cardinality(o) \in Nat /\ Cardinality(p) \in Nat
  BY <1>1, OutstandingIsFinite, OutstandingIsFiniteNext
<1>3. Cardinality(p) <= Cardinality(o)
  BY <1>1, <1>2, FS_Subset
<1>4. timesHandled[c] \in Nat /\ attempt[c] \in Nat
  BY DEF TsTypes
<1>5. IF callStage[c] = "idle" THEN attempt[c] = 0 /\ timesHandled[c] = 0
      ELSE timesHandled[c] + Cardinality(o) <= attempt[c] + 1
  BY <1>1 DEF PacedInv
<1>6. IF callStage'[c] = "idle" THEN attempt'[c] = 0 /\ timesHandled'[c] = 0
      ELSE timesHandled'[c] + Cardinality(p) <= attempt'[c] + 1
  BY <1>2, <1>3, <1>4, <1>5
<1> QED BY <1>1, <1>6

LEMMA PacedFrame ==
  ASSUME TsAssumption, TsTypes, PacedInv,
         UNCHANGED <<attempt, timesHandled, arriving, verifying>>,
         \A c \in TsCall : callStage'[c] = "idle" <=> callStage[c] = "idle"
  PROVE  PacedInv'
<1>1. \A c \in TsCall : Outstanding(c)' = Outstanding(c)
  BY DEF Outstanding
<1>2. \A c \in TsCall :
        IF callStage'[c] = "idle" THEN attempt'[c] = 0 /\ timesHandled'[c] = 0
        ELSE timesHandled'[c] + Cardinality(Outstanding(c)') <= attempt'[c] + 1
  BY <1>1, AccountKept
<1> QED BY <1>2 DEF PacedInv

LEMMA SendPaced ==
  ASSUME TsAssumption, TsTypes, AttemptsInv, PacedInv, NEW c \in TsCall,
         StartRequest(c) \/ Resend(c)
  PROVE  PacedInv'
<1>1. PICK n : n = IF callStage[c] = "idle" THEN 0 ELSE attempt[c] + 1
  OBVIOUS
<1>2. n \in 0 .. MaxRetries /\ attempt[c] \in Nat /\ timesHandled[c] \in Nat
  BY <1>1 DEF StartRequest, Resend, AttemptsInv, TsTypes, TsAssumption
<1>3. PICK x : x = [call |-> c, no |-> n]
  OBVIOUS
<1>4. x \notin arriving \union verifying
  BY <1>1, <1>2, <1>3 DEF AttemptsInv, PacedInv, StartRequest, Resend
<1>5. /\ arriving' = arriving \/ arriving' = arriving \union {x}
      /\ verifying' = verifying /\ timesHandled' = timesHandled
  BY <1>1, <1>3 DEF StartRequest, Resend
<1>6. /\ callStage'[c] # "idle" /\ attempt'[c] = n
      /\ \A d \in TsCall : d # c => callStage'[d] = callStage[d] /\ attempt'[d] = attempt[d]
  <2>1. AfterError(attempt[c] + 1) # "idle"
    BY DEF AfterError
  <2>2. CASE StartRequest(c)
    BY <1>1, <2>2 DEF StartRequest, TsTypes, PacedInv
  <2>3. CASE Resend(c)
    BY <1>1, <2>1, <2>3 DEF Resend, TsTypes
  <2> QED BY <2>2, <2>3
<1>7. arriving' \intersect verifying' = {}
  BY <1>4, <1>5 DEF PacedInv
<1>8. ASSUME NEW y \in arriving' \union verifying' PROVE y.no <= attempt'[y.call]
  <2>1. CASE y \in arriving \union verifying
    <3>1. y.call \in TsCall /\ y.no \in Nat /\ y.no <= attempt[y.call]
      BY <2>1 DEF TsTypes, Attempt, PacedInv
    <3>2. y.call = c => attempt[c] <= n
      BY <1>1, <1>2, <2>1 DEF AttemptsInv
    <3> QED BY <1>2, <1>6, <3>1, <3>2
  <2>2. CASE y = x
    BY <1>2, <1>3, <1>6, <2>2
  <2> QED BY <1>5, <2>1, <2>2
<1>9. ASSUME NEW d \in TsCall
      PROVE  IF callStage'[d] = "idle" THEN attempt'[d] = 0 /\ timesHandled'[d] = 0
             ELSE timesHandled'[d] + Cardinality(Outstanding(d)') <= attempt'[d] + 1
  <2>1. CASE d # c
    <3>1. Outstanding(d)' = Outstanding(d)
      BY <1>3, <1>5, <2>1 DEF Outstanding
    <3> QED BY <1>5, <1>6, <2>1, <3>1 DEF PacedInv
  <2>2. CASE d = c
    <3>1. PICK o, p : o = Outstanding(c) /\ p = Outstanding(c)'
      OBVIOUS
    <3>2. IsFiniteSet(o) /\ Cardinality(o) \in Nat /\ Cardinality(p) \in Nat
      BY <3>1, OutstandingIsFinite, OutstandingIsFiniteNext
    <3>3. p \subseteq o \union {n}
      BY <1>3, <1>5, <3>1 DEF Outstanding
    <3>4. Cardinality(p) <= Cardinality(o) + 1
      <4>1. /\ IsFiniteSet(o \union {n})
            /\ Cardinality(o \union {n}) <= Cardinality(o) + 1
            /\ Cardinality(o \union {n}) \in Nat
        <5>1. /\ IsFiniteSet(o \union {n})
              /\ Cardinality(o \union {n}) = IF n \in o THEN Cardinality(o) ELSE Cardinality(o) + 1
          BY <3>2, FS_AddElement
        <5> QED BY <3>2, <5>1
      <4>2. Cardinality(p) <= Cardinality(o \union {n})
        BY <3>3, <4>1, FS_Subset
      <4> QED BY <3>2, <4>1, <4>2
    <3>5. timesHandled[c] + Cardinality(o) <= n
      <4>1. CASE callStage[c] = "idle"
        <5>1. o = {}
          BY <3>1, <4>1 DEF Outstanding, AttemptsInv
        <5>2. Cardinality(o) = 0
          BY <5>1, FS_EmptySet
        <5> QED BY <1>1, <4>1, <5>2 DEF PacedInv
      <4>2. CASE callStage[c] # "idle"
        BY <1>1, <1>2, <3>1, <4>2 DEF PacedInv
      <4> QED BY <4>1, <4>2
    <3>6. timesHandled'[c] + Cardinality(p) <= attempt'[c] + 1
      BY <1>2, <1>5, <1>6, <3>2, <3>4, <3>5
    <3> QED BY <1>6, <2>2, <3>1, <3>6
  <2> QED BY <2>1, <2>2
<1> QED BY <1>7, <1>8, <1>9 DEF PacedInv

LEMMA PacedStep ==
  ASSUME TsAssumption, TsTypes, AttemptsInv, PacedInv, [TsNext]_tsVars
  PROVE  PacedInv'
<1>1. CASE TsTick \/ UNCHANGED tsVars
  BY <1>1, PacedFrame DEF TsTick, tsVars
<1>2. ASSUME NEW c \in TsCall, StartRequest(c) \/ Resend(c) PROVE PacedInv'
  BY <1>2, SendPaced
<1>3. ASSUME NEW c \in TsCall, Abort(c) \/ ConnectionBreaks(c) PROVE PacedInv'
  <2>1. AfterError(attempt[c]) # "idle"
    BY DEF AfterError
  <2>2. /\ UNCHANGED <<attempt, timesHandled, arriving, verifying>>
        /\ \A d \in TsCall : callStage'[d] = "idle" <=> callStage[d] = "idle"
    BY <1>3, <2>1 DEF Abort, ConnectionBreaks, TsTypes
  <2> QED BY <2>2, PacedFrame
<1>4. ASSUME NEW a \in tsAnswers, ReadAnswer(a) PROVE PacedInv'
  <2>1. a.status \in {200, 401, 500} /\ AfterError(attempt[a.attempt.call]) # "idle"
    BY DEF AfterError, TsTypes
  <2>2. /\ UNCHANGED <<attempt, timesHandled, arriving, verifying>>
        /\ \A d \in TsCall : callStage'[d] = "idle" <=> callStage[d] = "idle"
    BY <1>4, <2>1 DEF ReadAnswer, TsTypes
  <2> QED BY <2>2, PacedFrame
<1>5. ASSUME NEW x \in arriving \union verifying,
             (x \in arriving /\ BeginVerify(x)) \/ (x \in verifying /\ ResolutionFails(x))
      PROVE  PacedInv'
  <2>1. /\ UNCHANGED <<attempt, timesHandled, callStage>>
        /\ arriving' \union verifying' \subseteq arriving \union verifying
        /\ arriving' \intersect verifying' = {}
    BY <1>5 DEF BeginVerify, ResolutionFails, PacedInv
  <2>2. \A c \in TsCall : Outstanding(c)' \subseteq Outstanding(c)
    BY <2>1 DEF Outstanding
  <2>3. \A c \in TsCall :
          IF callStage'[c] = "idle" THEN attempt'[c] = 0 /\ timesHandled'[c] = 0
          ELSE timesHandled'[c] + Cardinality(Outstanding(c)') <= attempt'[c] + 1
    BY <2>1, <2>2, AccountKept
  <2> QED BY <2>1, <2>3 DEF PacedInv
<1>6. ASSUME NEW x \in verifying, EndVerify(x) PROVE PacedInv'
  <2>1. /\ UNCHANGED <<attempt, callStage, arriving>> /\ verifying' = verifying \ {x}
        /\ timesHandled' = [timesHandled EXCEPT ![x.call] = timesHandled[x.call] + 1]
    BY <1>6 DEF EndVerify
  <2>2. /\ x.call \in TsCall /\ x.no \in 0 .. MaxRetries /\ callStage[x.call] # "idle"
        /\ x = [call |-> x.call, no |-> x.no] /\ x \notin arriving
    BY DEF TsTypes, Attempt, AttemptsInv, PacedInv
  <2>3. ASSUME NEW c \in TsCall
        PROVE  IF callStage'[c] = "idle" THEN attempt'[c] = 0 /\ timesHandled'[c] = 0
               ELSE timesHandled'[c] + Cardinality(Outstanding(c)') <= attempt'[c] + 1
    <3>1. CASE c # x.call
      <4>1. Outstanding(c)' = Outstanding(c)
        BY <2>1, <3>1 DEF Outstanding
      <4>2. timesHandled'[c] = timesHandled[c]
        BY <2>1, <3>1 DEF TsTypes
      <4> QED BY <2>1, <4>1, <4>2 DEF PacedInv
    <3>2. CASE c = x.call
      <4>1. PICK o, p : o = Outstanding(c) /\ p = Outstanding(c)'
        OBVIOUS
      <4>2. IsFiniteSet(o) /\ Cardinality(o) \in Nat
        BY <4>1, OutstandingIsFinite
      <4>3. x.no \in o /\ p = o \ {x.no}
        BY <2>1, <2>2, <3>2, <4>1 DEF Outstanding
      <4>4. Cardinality(p) = Cardinality(o) - 1
        BY <4>2, <4>3, FS_RemoveElement
      <4>5. /\ timesHandled[c] \in Nat /\ attempt[c] \in Nat
            /\ timesHandled'[c] = timesHandled[c] + 1
        BY <2>1, <3>2 DEF TsTypes
      <4>6. timesHandled[c] + Cardinality(o) <= attempt[c] + 1
        BY <2>2, <3>2, <4>1 DEF PacedInv
      <4>7. timesHandled'[c] + Cardinality(p) <= attempt'[c] + 1
        BY <2>1, <4>2, <4>4, <4>5, <4>6
      <4> QED BY <2>1, <2>2, <3>2, <4>1, <4>7
    <3> QED BY <3>1, <3>2
  <2>4. /\ arriving' \intersect verifying' = {}
        /\ \A y \in arriving' \union verifying' : y.no <= attempt'[y.call]
    BY <2>1 DEF PacedInv
  <2> QED BY <2>3, <2>4 DEF PacedInv
<1> QED BY <1>1, <1>2, <1>3, <1>4, <1>5, <1>6 DEF TsNext

-----------------------------------------------------------------------------
(* TsRequests: nonces *)

\* A header once too old stays so.
LEMMA StaysTooOld ==
  ASSUME TsAssumption, TsTypes, AttemptsInv, [TsNext]_tsVars, NEW c \in TsCall,
         callStage[c] # "idle", TooOld(c)
  PROVE  TooOld(c)'
<1>1. tsClock' = tsClock \/ tsClock' = tsClock + 1
  BY DEF TsNext, tsVars, TsTick, StartRequest, Abort, ConnectionBreaks, Resend, ReadAnswer,
         BeginVerify, EndVerify, ResolutionFails
<1>2. signedAt'[c] = signedAt[c]
  <2>1. ASSUME NEW d \in TsCall, StartRequest(d) PROVE signedAt'[c] = signedAt[c]
    BY <2>1 DEF StartRequest, GenerateAuthHeader, TsTypes
  <2>2. ~(\E d \in TsCall : StartRequest(d)) => signedAt' = signedAt
    BY DEF TsNext, tsVars, TsTick, Abort, ConnectionBreaks, Resend, ReadAnswer,
           BeginVerify, EndVerify, ResolutionFails
  <2> QED BY <2>1, <2>2
<1>3. tsClock \in Nat /\ signedAt[c] \in Nat /\ SkewTolerance \in Nat
  BY DEF TsTypes, TsAssumption
<1> QED BY <1>1, <1>2, <1>3 DEF TooOld

\* An answer under way stays explained when nothing of its call is lost.
LEMMA AnswersKept ==
  ASSUME TsAssumption, TsTypes, AttemptsInv, NoncesInv, [TsNext]_tsVars,
         unresolved \subseteq unresolved',
         \A c \in TsCall : timesHandled[c] >= 1 => timesHandled'[c] >= 1,
         NEW a \in tsAnswers
  PROVE  \/ timesHandled'[a.attempt.call] >= 1
         \/ a.status = 401 /\ (TooOld(a.attempt.call)' \/ a.attempt.call \in unresolved')
<1>1. a.attempt.call \in TsCall /\ callStage[a.attempt.call] # "idle"
  BY DEF TsTypes, Attempt, AttemptsInv
<1>2. PICK c : c = a.attempt.call
  OBVIOUS
<1>3. TooOld(c) => TooOld(c)'
  BY <1>1, <1>2, StaysTooOld
<1> QED BY <1>1, <1>2, <1>3 DEF NoncesInv, TooOld

\* A step of a client's, or of the clock.
LEMMA NoncesFrame ==
  ASSUME TsAssumption, TsTypes, AttemptsInv, NoncesInv, [TsNext]_tsVars,
         UNCHANGED <<verifying, usedNonces, timesHandled, tsHistory>>, tsAnswers' \subseteq tsAnswers
  PROVE  NoncesInv'
<1>1. \A a \in tsAnswers' :
        \/ timesHandled'[a.attempt.call] >= 1
        \/ a.status = 401 /\ (TooOld(a.attempt.call)' \/ a.attempt.call \in unresolved')
  BY AnswersKept DEF tsHistory
<1> QED BY <1>1 DEF NoncesInv, TooOld, tsHistory

LEMMA NoncesStep ==
  ASSUME TsAssumption, TsTypes, AttemptsInv, NoncesInv, [TsNext]_tsVars
  PROVE  NoncesInv'
<1>1. CASE \/ TsTick \/ UNCHANGED tsVars
           \/ \E c \in TsCall : StartRequest(c) \/ Abort(c) \/ ConnectionBreaks(c) \/ Resend(c)
           \/ \E a \in tsAnswers : ReadAnswer(a)
  <2>1. /\ UNCHANGED <<verifying, usedNonces, timesHandled, tsHistory>>
        /\ tsAnswers' \subseteq tsAnswers
    BY <1>1 DEF TsTick, tsVars, StartRequest, Abort, ConnectionBreaks, Resend, ReadAnswer
  <2> QED BY <2>1, NoncesFrame
<1>2. ASSUME NEW x \in arriving, BeginVerify(x) PROVE NoncesInv'
  <2>1. /\ UNCHANGED <<usedNonces, timesHandled, forgotten, unresolved, tsClock, signedAt>>
        /\ x.call \in TsCall
    BY <1>2 DEF BeginVerify, TsTypes, Attempt
  <2>2. ASSUME NEW a \in tsAnswers'
        PROVE  \/ timesHandled'[a.attempt.call] >= 1
               \/ /\ a.status = 401
                  /\ TooOld(a.attempt.call)' \/ a.attempt.call \in unresolved'
    <3>1. CASE a \in tsAnswers
      BY <2>1, <3>1, AnswersKept
    <3>2. CASE a \notin tsAnswers
      <4>1. a.attempt = x /\ a.status = 401 /\ (TooOld(x.call) \/ x.call \in usedNonces)
        BY <1>2, <2>2, <3>2 DEF BeginVerify, Answered, NonceIsFresh
      <4> QED BY <2>1, <4>1 DEF NoncesInv, TooOld
    <3> QED BY <3>1, <3>2
  <2>3. /\ \A y, z \in verifying' : y.call = z.call /\ y # z => y.call \in overlapped'
        /\ \A y \in verifying' : y.call \in usedNonces' => y.call \in overlapped'
    <3>1. CASE UNCHANGED <<verifying, overlapped>>
      BY <2>1, <3>1 DEF NoncesInv
    <3>2. CASE /\ NonceIsFresh(x.call) /\ verifying' = verifying \union {x}
               /\ overlapped' =
                    overlapped \union {y.call : y \in {z \in verifying : z.call = x.call}}
      BY <2>1, <3>2 DEF NoncesInv, NonceIsFresh
    <3> QED BY <1>2, <3>1, <3>2 DEF BeginVerify
  <2> QED BY <2>1, <2>2, <2>3 DEF NoncesInv, TooOld
<1>3. ASSUME NEW x \in verifying, EndVerify(x) PROVE NoncesInv'
  <2>1. /\ verifying' = verifying \ {x} /\ UNCHANGED <<overlapped, unresolved, tsClock, signedAt>>
        /\ usedNonces' \subseteq usedNonces \union {x.call}
        /\ forgotten' = forgotten \union ((usedNonces \union {x.call}) \ usedNonces')
        /\ timesHandled' = [timesHandled EXCEPT ![x.call] = timesHandled[x.call] + 1]
        /\ x.call \in TsCall
    BY <1>3 DEF EndVerify, KeptNonces, TsTypes, Attempt
  <2>2. /\ timesHandled'[x.call] >= 1 /\ timesHandled \in [TsCall -> Nat]
        /\ \A c \in TsCall : c # x.call => timesHandled'[c] = timesHandled[c]
        /\ \A c \in TsCall : timesHandled[c] >= 1 => timesHandled'[c] >= 1
    BY <2>1 DEF TsTypes
  <2>3. ASSUME NEW a \in tsAnswers'
        PROVE  \/ timesHandled'[a.attempt.call] >= 1
               \/ /\ a.status = 401
                  /\ TooOld(a.attempt.call)' \/ a.attempt.call \in unresolved'
    <3>1. CASE a \in tsAnswers
      BY <2>1, <2>2, <3>1, AnswersKept
    <3>2. CASE a.attempt = x
      BY <2>2, <3>2
    <3> QED BY <1>3, <2>3, <3>1, <3>2 DEF EndVerify, Answered
  <2>4. /\ \A c \in TsCall : timesHandled'[c] >= 1 => c \in usedNonces' \union forgotten'
        /\ \A c \in usedNonces' : timesHandled'[c] >= 1
    BY <2>1, <2>2 DEF NoncesInv, TsTypes
  <2>5. /\ \A y, z \in verifying' : y.call = z.call /\ y # z => y.call \in overlapped'
        /\ \A y \in verifying' : y.call \in usedNonces' => y.call \in overlapped'
    BY <2>1 DEF NoncesInv
  <2> QED BY <2>3, <2>4, <2>5 DEF NoncesInv, TooOld
<1>4. ASSUME NEW x \in verifying, ResolutionFails(x) PROVE NoncesInv'
  <2>1. /\ verifying' = verifying \ {x}
        /\ UNCHANGED <<usedNonces, timesHandled, overlapped, forgotten>>
        /\ unresolved' = unresolved \union {x.call}
    BY <1>4 DEF ResolutionFails
  <2>2. ASSUME NEW a \in tsAnswers'
        PROVE  \/ timesHandled'[a.attempt.call] >= 1
               \/ /\ a.status = 401
                  /\ TooOld(a.attempt.call)' \/ a.attempt.call \in unresolved'
    <3>1. CASE a \in tsAnswers
      BY <2>1, <3>1, AnswersKept
    <3>2. CASE a.attempt = x /\ a.status = 401
      BY <2>1, <3>2
    <3> QED BY <1>4, <2>2, <3>1, <3>2 DEF ResolutionFails, Answered
  <2> QED BY <2>1, <2>2 DEF NoncesInv, TooOld
<1> QED BY <1>1, <1>2, <1>3, <1>4 DEF TsNext

LEMMA HandledStep ==
  ASSUME TsAssumption, TsTypes, AttemptsInv, NoncesInv, HandledOnce, [TsNext]_tsVars
  PROVE  HandledOnce'
<1>1. ASSUME NEW x \in verifying, EndVerify(x) PROVE HandledOnce'
  <2>1. /\ UNCHANGED <<callStage, overlapped, unresolved, tsClock, signedAt>>
        /\ usedNonces' \subseteq usedNonces \union {x.call}
        /\ forgotten \subseteq forgotten'
        /\ timesHandled' = [timesHandled EXCEPT ![x.call] = timesHandled[x.call] + 1]
        /\ x.call \in TsCall
    BY <1>1 DEF EndVerify, KeptNonces, TsTypes, Attempt
  <2>2. /\ timesHandled \in [TsCall -> Nat] /\ timesHandled'[x.call] = timesHandled[x.call] + 1
        /\ \A c \in TsCall : c # x.call => timesHandled'[c] = timesHandled[c]
    BY <2>1 DEF TsTypes
  <2>3. timesHandled[x.call] >= 1 => x.call \in overlapped \union forgotten
    BY <2>1 DEF NoncesInv
  <2>4. \A c \in TsCall : timesHandled'[c] > 1 => c \in overlapped' \union forgotten'
    BY <2>1, <2>2, <2>3 DEF HandledOnce
  <2>5. \A c \in TsCall : timesHandled[c] >= 1 => timesHandled'[c] >= 1
    BY <2>2
  <2> QED BY <2>1, <2>4, <2>5 DEF HandledOnce, TooOld
<1>2. ASSUME ~ \E x \in verifying : EndVerify(x) PROVE HandledOnce'
  <2>1. /\ UNCHANGED <<timesHandled, forgotten>>
        /\ overlapped \subseteq overlapped' /\ unresolved \subseteq unresolved'
    BY <1>2 DEF TsNext, tsVars, tsHistory, TsTick, StartRequest, Abort, ConnectionBreaks, Resend,
                ReadAnswer, BeginVerify, ResolutionFails
  <2>2. ASSUME NEW c \in TsCall, callStage'[c] \in {"ok", "refused"}, callStage[c] # callStage'[c]
        PROVE  \E a \in tsAnswers : /\ a.attempt.call = c /\ tsClock' = tsClock
                                    /\ signedAt' = signedAt
                                    /\ a.status = IF callStage'[c] = "ok" THEN 200 ELSE 401
    <3>1. PICK a \in tsAnswers : ReadAnswer(a)
      <4>1. ASSUME NEW d \in TsCall,
                   StartRequest(d) \/ Abort(d) \/ ConnectionBreaks(d) \/ Resend(d)
            PROVE  FALSE
        BY <2>2, <4>1
          DEF StartRequest, Abort, ConnectionBreaks, Resend, AfterError, TsTypes
      <4> QED BY <2>2, <4>1 DEF TsNext, tsVars, TsTick, BeginVerify, EndVerify, ResolutionFails
    <3>2. a.status \in {200, 401, 500} /\ a.attempt.call \in TsCall
      BY DEF TsTypes, Attempt
    <3>3. a.attempt.call = c
      BY <2>2, <3>1, <3>2 DEF ReadAnswer, TsTypes
    <3>4. callStage'[c] = CASE a.status = 200 -> "ok" [] a.status = 401 -> "refused"
                            [] a.status = 500 -> AfterError(attempt[c])
      BY <2>2, <3>1, <3>2, <3>3 DEF ReadAnswer, TsTypes
    <3>5. AfterError(attempt[c]) \notin {"ok", "refused"}
      BY DEF AfterError
    <3>6. a.status = IF callStage'[c] = "ok" THEN 200 ELSE 401
      BY <2>2, <3>2, <3>4, <3>5
    <3> QED BY <3>1, <3>3, <3>6 DEF ReadAnswer
  <2>3. ASSUME NEW c \in TsCall
        PROVE  /\ callStage'[c] = "ok" => timesHandled[c] >= 1
               /\ callStage'[c] = "refused" =>
                    timesHandled[c] >= 1 \/ TooOld(c)' \/ c \in unresolved'
    <3>1. CASE callStage[c] = callStage'[c]
      BY <2>1, <3>1, StaysTooOld DEF HandledOnce
    <3>2. CASE callStage[c] # callStage'[c]
      BY <2>1, <2>2, <3>2 DEF NoncesInv, TooOld
    <3> QED BY <3>1, <3>2
  <2> QED BY <2>1, <2>3 DEF HandledOnce, TooOld
<1> QED BY <1>1, <1>2

-----------------------------------------------------------------------------
(* TsRequests: theorems *)

\* TsIInv is an invariant of any calls, whatever is retried, aborted or lost.
THEOREM TsInvariance == ASSUME TsAssumption PROVE TsSpec => []TsIInv
<1>1. TsInit => TsIInv
  BY DEF TsInit, TsIInv, TsTypes, AttemptsInv, PacedInv, NoncesInv, HandledOnce, TsAssumption
<1>2. TsIInv /\ [TsNext]_tsVars => TsIInv'
  BY TsTypesStep, AttemptsStep, PacedStep, NoncesStep, HandledStep DEF TsIInv
<1> QED BY <1>1, <1>2, PTL DEF TsSpec

\* A call is handled once for each time it is sent at most.
LEMMA HandledAtMost ==
  ASSUME TsAssumption, TsIInv
  PROVE  TsTypeOK
<1>1. ASSUME NEW c \in TsCall PROVE timesHandled[c] <= MaxRetries + 1
  <2>1. PICK o : o = Outstanding(c)
    OBVIOUS
  <2>2. Cardinality(o) \in Nat
    BY <2>1, OutstandingIsFinite
  <2>3. timesHandled[c] \in Nat /\ attempt[c] \in 0 .. MaxRetries /\ MaxRetries \in Nat
    BY DEF TsIInv, TsTypes, TsAssumption
  <2>4. \/ timesHandled[c] = 0
        \/ timesHandled[c] + Cardinality(o) <= attempt[c] + 1
    BY <2>1 DEF TsIInv, PacedInv
  <2> QED BY <2>2, <2>3, <2>4
<1> QED BY <1>1 DEF TsIInv, TsTypeOK

\* The types, and that no call is handled more than MaxRetries + 1 times, however its attempts
\* and their answers cross (http-client.ts:212-250, authentication-manager.ts:186-280).
THEOREM RequestsTypeCorrect == ASSUME TsAssumption PROVE TsSpec => []TsTypeOK
<1>1. TsIInv => TsTypeOK
  BY HandledAtMost
<1> QED BY <1>1, TsInvariance, PTL

\* A call is handled twice only when two attempts were verified at once or the nonces were
\* cleared, and a refused one was handled before, too old or not resolved
\* (http-client.ts:57-146, authentication-manager.ts:209-264).
THEOREM RetriesAreHandledOnce == ASSUME TsAssumption PROVE TsSpec => []HandledOnce
<1>1. TsIInv => HandledOnce
  BY DEF TsIInv
<1> QED BY <1>1, TsInvariance, PTL

-----------------------------------------------------------------------------
(* SwarmMind: the decisions the goal manager looks at *)

\* The last k entries of a sequence
LEMMA LastOfIs ==
  ASSUME NEW S, NEW s \in Seq(S), NEW k \in Nat
  PROVE  /\ LastOf(s, k) \in Seq(S)
         /\ Len(LastOf(s, k)) = IF Len(s) <= k THEN Len(s) ELSE k
         /\ \A i \in 1 .. Len(LastOf(s, k)) :
              LastOf(s, k)[i] = s[i + Len(s) - Len(LastOf(s, k))]
<1>0. Len(s) \in Nat /\ \A i \in 1 .. Len(s) : s[i] \in S
  OBVIOUS
<1>1. CASE Len(s) <= k
  BY <1>0, <1>1 DEF LastOf
<1>2. CASE Len(s) > k
  <2>1. LastOf(s, k) = SubSeq(s, Len(s) - k + 1, Len(s))
    BY <1>0, <1>2 DEF LastOf
  <2>2. Len(s) - k + 1 \in 1 .. Len(s) + 1
    BY <1>0, <1>2
  <2>3. LastOf(s, k) \in Seq(S) /\ Len(LastOf(s, k)) = k
    BY <1>0, <2>1, <2>2
  <2>4. \A i \in 1 .. k : LastOf(s, k)[i] = s[Len(s) - k + 1 + i - 1]
    BY <1>0, <2>1, <2>2
  <2> QED BY <1>0, <1>2, <2>3, <2>4
<1> QED BY <1>0, <1>1, <1>2

\* Entries of a sequence that are in P
CountIn(s, P) == Cardinality({i \in DOMAIN s : s[i] \in P})

LEMMA CountIsNat ==
  ASSUME NEW S, NEW s \in Seq(S), NEW P
  PROVE  /\ CountIn(s, P) \in Nat
         /\ IsFiniteSet({i \in DOMAIN s : s[i] \in P})
<1>1. IsFiniteSet(1 .. Len(s))
  BY FS_Interval
<1>2. {i \in DOMAIN s : s[i] \in P} \in SUBSET (1 .. Len(s))
  OBVIOUS
<1>3. IsFiniteSet({i \in DOMAIN s : s[i] \in P})
  BY <1>1, <1>2, FS_Subset
<1> QED BY <1>3, FS_CardinalityType DEF CountIn

\* One more entry makes a difference of at most one,
LEMMA CountOfLonger ==
  ASSUME NEW S, NEW s \in Seq(S), NEW t \in Seq(S), NEW P,
         Len(t) = Len(s) + 1, \A i \in 1 .. Len(s) : t[i] = s[i]
  PROVE  CountIn(t, P) <= CountIn(s, P) + 1 /\ CountIn(s, P) <= CountIn(t, P) + 1
<1> DEFINE A == {i \in DOMAIN s : s[i] \in P}
           B == {i \in DOMAIN t : t[i] \in P}
<1>1. IsFiniteSet(A) /\ IsFiniteSet(B) /\ Cardinality(A) \in Nat /\ Cardinality(B) \in Nat
  BY CountIsNat DEF CountIn
<1>2. B \ {Len(t)} = A
  OBVIOUS
<1>3. Cardinality(A) = IF Len(t) \in B THEN Cardinality(B) - 1 ELSE Cardinality(B)
  BY <1>1, <1>2, FS_RemoveElement
<1> QED BY <1>1, <1>3 DEF CountIn

\* and so does a window that moves on by one.
LEMMA CountOfNext ==
  ASSUME NEW S, NEW s \in Seq(S), NEW t \in Seq(S), NEW P,
         Len(t) = Len(s), \A i \in 1 .. Len(s) - 1 : t[i] = s[i + 1]
  PROVE  CountIn(t, P) <= CountIn(s, P) + 1 /\ CountIn(s, P) <= CountIn(t, P) + 1
<1> DEFINE A == {i \in DOMAIN s : s[i] \in P}
           B == {i \in DOMAIN t : t[i] \in P}
           A1 == A \ {1}
           B1 == B \ {Len(t)}
           f == [i \in A1 |-> i - 1]
<1>1. IsFiniteSet(A) /\ IsFiniteSet(B) /\ Cardinality(A) \in Nat /\ Cardinality(B) \in Nat
  BY CountIsNat DEF CountIn
<1>2. /\ IsFiniteSet(A1) /\ IsFiniteSet(B1)
      /\ Cardinality(A1) = IF 1 \in A THEN Cardinality(A) - 1 ELSE Cardinality(A)
      /\ Cardinality(B1) = IF Len(t) \in B THEN Cardinality(B) - 1 ELSE Cardinality(B)
  BY <1>1, FS_RemoveElement
<1>3. f \in Bijection(A1, B1)
  <2>1. \A i \in A1 : i \in 2 .. Len(s) /\ s[i] \in P
    OBVIOUS
  <2>2. \A i \in B1 : i \in 1 .. Len(s) - 1 /\ t[i] \in P
    OBVIOUS
  <2>3. \A i \in A1 : i - 1 \in B1
    <3> SUFFICES ASSUME NEW i \in A1 PROVE i - 1 \in B1
      OBVIOUS
    <3>1. i - 1 \in 1 .. Len(s) - 1 /\ (i - 1) + 1 = i
      BY <2>1
    <3>2. t[i - 1] = s[i]
      BY <3>1
    <3> QED BY <2>1, <3>1, <3>2
  <2>4. \A i \in B1 : i + 1 \in A1
    <3> SUFFICES ASSUME NEW i \in B1 PROVE i + 1 \in A1
      OBVIOUS
    <3>1. i + 1 \in 2 .. Len(s) /\ t[i] = s[i + 1]
      BY <2>2
    <3> QED BY <2>2, <3>1
  <2> HIDE DEF A, B, A1, B1
  <2>5. f \in [A1 -> B1]
    BY <2>3
  <2>6. \A i, j \in A1 : f[i] = f[j] => i = j
    BY <2>1
  <2>7. \A j \in B1 : \E i \in A1 : f[i] = j
    <3> SUFFICES ASSUME NEW j \in B1 PROVE \E i \in A1 : f[i] = j
      OBVIOUS
    <3> QED BY <2>2, <2>4
  <2> HIDE DEF f
  <2> QED BY <2>5, <2>6, <2>7 DEF Bijection, Injection, Surjection, IsInjective
<1> HIDE DEF A1, B1, f
<1>4. Cardinality(A1) = Cardinality(B1)
  BY <1>2, <1>3, FS_Bijection DEF ExistsBijection
<1> QED BY <1>1, <1>2, <1>4 DEF CountIn

\* A decision that is recorded changes what the goal manager counts by at most one.
LEMMA RecordCounts ==
  ASSUME TypeOK, stage = "acted" => verdict \in Verdicts, Record, NEW P
  PROVE  Count(P)' <= Count(P) + 1 /\ Count(P) <= Count(P)' + 1
<1> DEFINE h == history
           a == Append(history, verdict)
           k == Keep(a)
           s == LastOf(h, Recent)
           t == LastOf(k, Recent)
<1>0. HistoryCap \in Nat /\ Recent \in Nat /\ Recent <= HistoryCap
  BY HistoryAssumption
<1>1. h \in Seq(Verdicts) /\ a \in Seq(Verdicts) /\ Len(a) = Len(h) + 1
  <2>1. history \in Seq(Verdicts)
    BY DEF TypeOK
  <2>2. verdict \in Verdicts
    BY DEF Record
  <2> QED BY <2>1, <2>2
<1>2. \A i \in 1 .. Len(h) : a[i] = h[i]
  BY <1>1
<1>3. /\ k \in Seq(Verdicts)
      /\ Len(k) = IF Len(a) <= HistoryCap THEN Len(a) ELSE HistoryCap
      /\ \A i \in 1 .. Len(k) : k[i] = a[i + Len(a) - Len(k)]
  BY <1>0, <1>1, LastOfIs DEF Keep
<1>4. /\ s \in Seq(Verdicts)
      /\ Len(s) = IF Len(h) <= Recent THEN Len(h) ELSE Recent
      /\ \A i \in 1 .. Len(s) : s[i] = h[i + Len(h) - Len(s)]
  BY <1>0, <1>1, LastOfIs
<1> HIDE DEF k, a
<1>5. /\ t \in Seq(Verdicts)
      /\ Len(t) = IF Len(k) <= Recent THEN Len(k) ELSE Recent
      /\ \A i \in 1 .. Len(t) : t[i] = k[i + Len(k) - Len(t)]
  BY <1>0, <1>3, LastOfIs
<1> HIDE DEF s, t, h
<1>6. Len(h) \in Nat /\ Len(a) \in Nat /\ Len(k) \in Nat /\ Len(s) \in Nat /\ Len(t) \in Nat
  BY <1>1, <1>3, <1>4, <1>5
<1>7. \A i \in 1 .. Len(t) : t[i] = a[i + Len(a) - Len(t)]
  <2> SUFFICES ASSUME NEW i \in 1 .. Len(t) PROVE t[i] = a[i + Len(a) - Len(t)]
    OBVIOUS
  <2> DEFINE j == i + Len(k) - Len(t)
  <2>1. j \in 1 .. Len(k) /\ j + Len(a) - Len(k) = i + Len(a) - Len(t)
    BY <1>5, <1>6
  <2> QED BY <1>3, <1>5, <2>1
<1>8. Len(t) = IF Len(h) + 1 <= Recent THEN Len(h) + 1 ELSE Recent
  BY <1>0, <1>1, <1>3, <1>5, <1>6
<1>9. CountIn(t, P) <= CountIn(s, P) + 1 /\ CountIn(s, P) <= CountIn(t, P) + 1
  <2>1. CASE Len(h) < Recent
    <3>1. Len(s) = Len(h) /\ Len(t) = Len(s) + 1 /\ Len(a) = Len(t)
      BY <1>0, <1>1, <1>4, <1>6, <1>8, <2>1
    <3>2. \A i \in 1 .. Len(s) : t[i] = s[i]
      <4> SUFFICES ASSUME NEW i \in 1 .. Len(s) PROVE t[i] = s[i]
        OBVIOUS
      <4>1. i + Len(a) - Len(t) = i /\ i + Len(h) - Len(s) = i
        BY <1>6, <3>1
      <4>2. t[i] = a[i]
        BY <1>6, <1>7, <3>1, <4>1
      <4>3. s[i] = h[i]
        BY <1>4, <4>1
      <4> QED BY <1>2, <3>1, <4>2, <4>3
    <3> QED BY <1>4, <1>5, <3>1, <3>2, CountOfLonger
  <2>2. CASE Len(h) >= Recent
    <3>1. Len(s) = Recent /\ Len(t) = Len(s)
      BY <1>0, <1>4, <1>6, <1>8, <2>2
    <3>2. \A i \in 1 .. Len(s) - 1 : t[i] = s[i + 1]
      <4> SUFFICES ASSUME NEW i \in 1 .. Len(s) - 1 PROVE t[i] = s[i + 1]
        OBVIOUS
      <4> DEFINE j == i + Len(a) - Len(t)
      <4>1. j \in 1 .. Len(h) /\ (i + 1) + Len(h) - Len(s) = j /\ i \in 1 .. Len(t)
            /\ i + 1 \in 1 .. Len(s)
        BY <1>1, <1>6, <2>2, <3>1
      <4>2. t[i] = a[j]
        BY <1>7, <4>1
      <4>3. s[i + 1] = h[j]
        BY <1>4, <4>1
      <4> QED BY <1>2, <4>1, <4>2, <4>3
    <3> QED BY <1>4, <1>5, <3>1, <3>2, CountOfNext
  <2> QED BY <1>0, <1>6, <2>1, <2>2
<1>10. history' = k
  BY DEF Record, k, a
<1>11. s = Latest /\ t = Latest'
  BY <1>10 DEF s, t, h, Latest
<1> QED BY <1>9, <1>11 DEF CountIn, Count

\* What is counted is a number, whatever the history.
LEMMA CountsAreNat ==
  ASSUME NEW h \in Seq(Verdicts), NEW P
  PROVE  CountIn(LastOf(h, Recent), P) \in Nat
BY LastOfIs, HistoryAssumption, CountIsNat

-----------------------------------------------------------------------------
(* SwarmMind: the mode does not swing *)

LEMMA MindTypesStep ==
  ASSUME TypeOK, stage = "acted" => verdict \in Verdicts, [Next]_vars
  PROVE  TypeOK' /\ (stage = "acted" => verdict \in Verdicts)'
<1> DEFINE T == TypeOK' /\ (stage = "acted" => verdict \in Verdicts)'
<1> USE DEF goalVars, busVars
<1>0. Ready \in Nat /\ MaxPending \in Nat
  BY BufferAssumption
<1>a. inbox \in 0 .. MaxPending /\ events \in 0 .. MaxPending /\ buffered \in 0 .. Ready
      /\ since \in 0 .. 2
  BY DEF TypeOK
<1>1. CASE UNCHANGED vars
  BY <1>1 DEF vars, TypeOK
<1>2. ASSUME NEW b \in {"message_bus", "event_bus"}, Subscribe(b) PROVE T
  BY <1>2 DEF Subscribe, TypeOK
<1>3. ASSUME NEW s \in Sensor, Publish(s) PROVE T
  <2>1. inbox' \in 0 .. MaxPending /\ events' \in 0 .. MaxPending
    BY <1>0, <1>3, <1>a DEF Publish
  <2> QED BY <1>3, <2>1 DEF Publish, TypeOK
<1>4. ASSUME Collect \/ Deliver PROVE T
  <2>1. inbox' \in 0 .. MaxPending /\ events' \in 0 .. MaxPending /\ buffered' \in 0 .. Ready
    BY <1>0, <1>4, <1>a DEF Collect, Deliver, AddToBuffer
  <2> QED BY <1>4, <2>1 DEF Collect, Deliver, TypeOK
<1>5. CASE Trigger \/ CycleFails
  BY <1>5 DEF Trigger, CycleFails, TypeOK
<1>6. ASSUME NEW v \in Verdicts, Act(v) PROVE T
  BY <1>6, VerdictAssumption DEF Act, TypeOK
<1>7. CASE Record
  <2>1. HistoryCap \in Nat
    BY HistoryAssumption
  <2>2. verdict \in Verdicts /\ history \in Seq(Verdicts)
    BY <1>7 DEF Record, TypeOK
  <2> DEFINE a == Append(history, verdict)
  <2>3. a \in Seq(Verdicts)
    BY <2>2
  <2>4. history' = LastOf(a, HistoryCap)
    BY <1>7 DEF Record, Keep
  <2>5. Len(a) \in Nat
    BY <2>3
  <2> HIDE DEF a
  <2>6. history' \in Seq(Verdicts) /\ Len(history') <= HistoryCap
    BY <2>1, <2>3, <2>4, <2>5, LastOfIs
  <2>7. Quiet \in Verdict
    BY DEF Quiet, Verdict
  <2>8. since' \in 0 .. 2
    BY <1>7, <1>a DEF Record
  <2> QED BY <1>7, <2>6, <2>7, <2>8 DEF Record, TypeOK
<1>8. CASE Evaluate
  <2>1. next' \in Mode /\ heading' \in {"up", "down"}
    <3>1. CASE Escalate
      <4>1. Trouble \in {"emergency", "surveillance", "alert", "none"}
        BY DEF Trouble
      <4> QED BY <3>1, <4>1 DEF Escalate, Mode
    <3>2. CASE DeEscalate
      <4>1. mode \in Mode
        BY DEF TypeOK
      <4>2. Below[mode] \in Mode
        BY <4>1 DEF Below, Mode
      <4> QED BY <3>2, <4>2 DEF DeEscalate
    <3> QED BY <1>8, <3>1, <3>2 DEF Evaluate
  <2>2. since' = 0 /\ UNCHANGED <<busVars, buffered, stage, verdict, history, mode>>
    BY <1>8 DEF Evaluate
  <2> QED BY <2>1, <2>2 DEF TypeOK
<1>9. CASE SetMode
  BY <1>9 DEF SetMode, TypeOK
<1> QED
  BY <1>1, <1>2, <1>3, <1>4, <1>5, <1>6, <1>7, <1>8, <1>9
  DEF Next, Readings, Cycle, Adjust

\* What the goal manager counts changes with the history alone.
LEMMA CountsStay ==
  ASSUME history' = history
  PROVE  Criticals' = Criticals /\ Highs' = Highs /\ Anomalies' = Anomalies
BY DEF Criticals, Highs, Anomalies, Count, Latest

\* One decision less of a kind, and one more decision since
LEMMA Makeweight ==
  \A before, after, n, min \in Nat :
    before + n >= min /\ before <= after + 1 => after + (n + 1) >= min
OBVIOUS

LEMMA MoodStep ==
  ASSUME MindIInv, [Next]_vars
  PROVE  MoodInv'
<1> DEFINE Same == UNCHANGED <<history, heading, since>>
<1>0. TypeOK /\ MoodInv /\ (stage = "acted" => verdict \in Verdicts)
  BY DEF MindIInv
<1>1. Criticals \in Nat /\ Highs \in Nat /\ Anomalies \in Nat /\ since \in 0 .. 2
  BY <1>0, CountsAreNat DEF TypeOK, Criticals, Highs, Anomalies, Count, CountIn, Latest
<1>2. /\ CriticalMin \in Nat /\ HighMin \in Nat /\ AnomalyMin \in Nat
      /\ HighClear \in Nat /\ AnomalyClear \in Nat
  BY ThresholdAssumption
<1>3. CASE Same
  BY <1>0, <1>3, CountsStay DEF MoodInv
<1>4. CASE Record
  <2>1. history' \in Seq(Verdicts)
    BY <1>0, <1>4, MindTypesStep DEF Next, Cycle, TypeOK
  <2>2. Criticals' \in Nat /\ Highs' \in Nat /\ Anomalies' \in Nat
    BY <2>1, CountsAreNat DEF Criticals, Highs, Anomalies, Count, CountIn, Latest
  <2>3. /\ Criticals' <= Criticals + 1 /\ Criticals <= Criticals' + 1
        /\ Highs' <= Highs + 1 /\ Highs <= Highs' + 1
        /\ Anomalies' <= Anomalies + 1 /\ Anomalies <= Anomalies' + 1
    <3>1. \A P : Count(P)' <= Count(P) + 1 /\ Count(P) <= Count(P)' + 1
      BY <1>0, <1>4, RecordCounts
    <3> QED BY <3>1 DEF Criticals, Highs, Anomalies
  <2>4. /\ since' = IF since < 2 THEN since + 1 ELSE since
        /\ heading' = heading
    BY <1>4 DEF Record, goalVars
  <2>5. ASSUME since' < 2 PROVE since < 2 /\ since' = since + 1
    BY <1>1, <2>4, <2>5
  <2>6. ASSUME since' < 2, heading' = "up"
        PROVE  \/ Criticals' + since' >= CriticalMin
               \/ Highs' + since' >= HighMin
               \/ Anomalies' + since' >= AnomalyMin
    <3>1. \/ Criticals + since >= CriticalMin
          \/ Highs + since >= HighMin
          \/ Anomalies + since >= AnomalyMin
      BY <1>0, <2>4, <2>5, <2>6 DEF MoodInv
    <3>2. since \in Nat /\ since' = since + 1
      BY <1>1, <2>5, <2>6
    <3> QED BY <1>1, <1>2, <2>2, <2>3, <3>1, <3>2, Makeweight
  <2>7. ASSUME since' < 2, heading' = "down"
        PROVE  /\ Criticals' <= since'
               /\ Highs' < HighClear + since'
               /\ Anomalies' < AnomalyClear + since'
    <3>1. Criticals <= since /\ Highs < HighClear + since /\ Anomalies < AnomalyClear + since
      BY <1>0, <2>4, <2>5, <2>7 DEF MoodInv
    <3> QED BY <1>1, <1>2, <2>2, <2>3, <2>5, <2>7, <3>1
  <2> QED BY <2>6, <2>7 DEF MoodInv
<1>5. CASE Evaluate
  <2>1. since' = 0 /\ Criticals' = Criticals /\ Highs' = Highs /\ Anomalies' = Anomalies
    BY <1>5, CountsStay DEF Evaluate
  <2>2. CASE Escalate
    <3>1. heading' = "up" /\ Trouble # "none"
      BY <2>2 DEF Escalate
    <3>2. Criticals >= CriticalMin \/ Highs >= HighMin \/ Anomalies >= AnomalyMin
      BY <1>1, <1>2, <3>1 DEF Trouble
    <3> QED BY <1>1, <1>2, <2>1, <3>1, <3>2 DEF MoodInv
  <2>3. CASE DeEscalate
    <3>1. heading' = "down" /\ AllClear
      BY <2>3 DEF DeEscalate
    <3> QED BY <1>1, <1>2, <2>1, <3>1 DEF MoodInv, AllClear
  <2> QED BY <1>5, <2>2, <2>3 DEF Evaluate
<1>6. ASSUME [Next]_vars, ~ Record, ~ Evaluate PROVE Same
  BY <1>6 DEF Next, Readings, Cycle, Adjust, Subscribe, Publish, Collect, Deliver, Trigger,
              CycleFails, Act, SetMode, goalVars, busVars, vars
<1> QED BY <1>3, <1>4, <1>5, <1>6

\* The inductive invariant: types, and what the last change was decided on still shows in
\* the decisions recorded since (_evaluate_and_adjust, record_decision).
THEOREM MindInvariance == Spec => []MindIInv
<1>1. Init => MindIInv
  <2> SUFFICES ASSUME Init PROVE MindIInv
    OBVIOUS
  <2>1. Ready \in Nat \ {0} /\ MaxPending \in Nat \ {0} /\ HistoryCap \in Nat
    BY BufferAssumption, HistoryAssumption
  <2>2. TypeOK /\ stage # "acted"
    BY <2>1 DEF Init, TypeOK, Quiet, Verdict, Mode
  <2>3. MoodInv
    BY DEF Init, MoodInv
  <2> QED BY <2>2, <2>3 DEF MindIInv
<1>2. MindIInv /\ [Next]_vars => MindIInv'
  BY MindTypesStep, MoodStep DEF MindIInv
<1> QED BY <1>1, <1>2, PTL DEF Spec

\* The mode does not swing: two decisions at least are recorded between raising it and
\* lowering it, or back, whatever the cycles conclude, however late a mode is set, and
\* for any thresholds of which those that escalate lie above those that clear, CRITICAL
\* by two and the others by one (_evaluate_and_adjust).
THEOREM ModeIsSteady == Spec => NoFlapping
<1>1. MindIInv /\ [Next]_vars
        => [heading # "none" /\ heading' # heading => since >= 2]_vars
  <2> SUFFICES ASSUME MindIInv, [Next]_vars, heading # "none", heading' # heading
               PROVE  since >= 2
    BY DEF vars
  <2>0. TypeOK /\ MoodInv
    BY DEF MindIInv
  <2>1. /\ Criticals \in Nat /\ Highs \in Nat /\ Anomalies \in Nat
        /\ since \in 0 .. 2 /\ heading \in {"up", "down"}
    BY <2>0, CountsAreNat DEF TypeOK, Criticals, Highs, Anomalies, Count, CountIn, Latest
  <2>2. /\ CriticalMin \in Nat /\ HighMin \in Nat /\ AnomalyMin \in Nat
        /\ HighClear \in Nat /\ AnomalyClear \in Nat
        /\ CriticalMin > 1 /\ HighMin > HighClear /\ AnomalyMin > AnomalyClear
    BY ThresholdAssumption
  <2>3. Escalate \/ DeEscalate
    BY DEF Next, Readings, Cycle, Adjust, Subscribe, Publish, Collect, Deliver, Trigger,
           CycleFails, Act, Record, Evaluate, SetMode, goalVars, busVars, vars
  <2>4. SUFFICES ASSUME since < 2 PROVE FALSE
    BY <2>1
  <2>5. CASE Escalate
    <3>1. heading = "down" /\ Trouble # "none"
      BY <2>1, <2>5 DEF Escalate
    <3>2. Criticals <= since /\ Highs < HighClear + since /\ Anomalies < AnomalyClear + since
      BY <2>0, <2>4, <3>1 DEF MoodInv
    <3>3. Criticals < CriticalMin /\ Highs < HighMin /\ Anomalies < AnomalyMin
      BY <2>1, <2>2, <2>4, <3>2
    <3> QED BY <2>1, <2>2, <3>1, <3>3 DEF Trouble
  <2>6. CASE DeEscalate
    <3>1. heading = "up" /\ AllClear
      BY <2>1, <2>6 DEF DeEscalate
    <3>2. \/ Criticals + since >= CriticalMin
          \/ Highs + since >= HighMin
          \/ Anomalies + since >= AnomalyMin
      BY <2>0, <2>4, <3>1 DEF MoodInv
    <3> QED BY <2>1, <2>2, <2>4, <3>1, <3>2 DEF AllClear
  <2> QED BY <2>3, <2>5, <2>6
<1> QED BY <1>1, MindInvariance, PTL DEF Spec, NoFlapping

-----------------------------------------------------------------------------
(* ChatPeers: assumptions *)

\* What the theorems assume of the constants of ChatPeers: two agents, one of them of the
\* lesser DID, times and bounds that are numbers, and values for "not yet" that are none.
ChatAssumption ==
  /\ \E a, b \in Chatter : a # b /\ Chatter = {a, b}
  /\ Lesser \in Chatter
  /\ Tolerance \in Nat /\ Turns \in Nat /\ MaxChatMishaps \in Nat
  /\ Stamps \subseteq Nat /\ Never \notin Stamps
  /\ NoChat \notin ChatSession /\ NoChat \notin 0 .. Turns

-----------------------------------------------------------------------------
(* ChatPeers: two agents *)

LEMMA Partners ==
  ASSUME ChatAssumption, NEW a \in Chatter
  PROVE  /\ Partner(a) \in Chatter /\ Partner(a) # a /\ Partner(Partner(a)) = a
         /\ \A b \in Chatter : b = a \/ b = Partner(a)
<1>1. PICK x, y \in Chatter : x # y /\ Chatter = {x, y}
  BY DEF ChatAssumption
<1>2. \A b \in Chatter : Partner(b) \in Chatter /\ Partner(b) # b
  BY <1>1 DEF Partner
<1> QED BY <1>1, <1>2

\* Not both agents discovered first (propose_chat).
LEMMA OneIsFirst ==
  ASSUME ChatAssumption, NEW a \in Chatter, ChatTypeOK,
         found[a] # Never, found[Partner(a)] # Never
  PROVE  DiscoveredFirst(a, found[Partner(a)]) <=> ~ DiscoveredFirst(Partner(a), found[a])
<1>1. Partner(a) \in Chatter /\ Partner(a) # a /\ (Lesser = a \/ Lesser = Partner(a))
  BY Partners DEF ChatAssumption
<1>2. Stamps \subseteq Int /\ Tolerance \in Nat /\ Tolerance \in Int
  BY DEF ChatAssumption
<1>3. found[a] \in Int /\ found[Partner(a)] \in Int
  BY <1>1, <1>2 DEF ChatTypeOK
<1> QED BY <1>1, <1>2, <1>3 DEF DiscoveredFirst

LEMMA ChatTypesStep ==
  ASSUME ChatAssumption, ChatTypeOK, [ChatNext]_chatVars
  PROVE  ChatTypeOK'
<1> USE DEF ChatTypeOK
<1>0. "off" \in Stage /\ "doomed" \in Stage /\ "discovering" \in Stage /\ "notifying" \in Stage
      /\ "proposing" \in Stage /\ "accepted" \in Stage /\ "refused" \in Stage /\ "over" \in Stage
      /\ "loop" \in Coroutine /\ "send" \in Coroutine
  BY DEF Stage, Coroutine
<1>1. ASSUME NEW a \in Chatter, NEW c \in Coroutine, NEW to \in Stage, Goes(a, c, to)
      PROVE  coroutine' \in [Chatter -> [Coroutine -> Stage]]
  BY <1>1 DEF Goes
<1>2. ASSUME ChatMishap PROVE chatMishaps' \in 0 .. MaxChatMishaps
  BY <1>2 DEF ChatMishap, ChatAssumption
<1>3. ASSUME NEW a \in Chatter PROVE Partner(a) \in Chatter
  BY Partners
<1>4. ASSUME NEW a \in Chatter, Said(a) PROVE chatSent' \in [Chatter -> Nat]
  BY <1>4 DEF Said
<1>5. ASSUME NEW a \in Chatter, Heard(a) PROVE received' \in [Chatter -> Nat]
  BY <1>3, <1>5 DEF Heard
<1>6. ASSUME NEW a \in Chatter,
             Serve(a) \/ StopLooking(a) \/ Turn(a) \/ TurnFails(a) \/ SendMessage(a)
      PROVE  ChatTypeOK'
  <2>1. CASE Serve(a)
    BY <2>1 DEF Serve
  <2>2. CASE StopLooking(a)
    BY <2>2, <1>0, <1>1, <1>2 DEF StopLooking
  <2>3. CASE Turn(a)
    <3>1. turnsLeft[a] \in 1 .. Turns
      BY <2>3 DEF Turn, Running, ChatAssumption
    <3>2. turnsLeft' \in [Chatter -> 0 .. Turns \union {NoChat}]
      BY <2>3, <3>1 DEF Turn, ChatAssumption
    <3> QED BY <2>3, <3>2, <1>4, <1>5 DEF Turn
  <2>4. CASE TurnFails(a)
    <3>1. turnsLeft' \in [Chatter -> 0 .. Turns \union {NoChat}]
      BY <2>4 DEF TurnFails, ChatAssumption
    <3> QED BY <2>4, <3>1, <1>2, <1>4, <1>5 DEF TurnFails
  <2>5. CASE SendMessage(a)
    BY <2>5, <1>0, <1>1, <1>2, <1>4, <1>5 DEF SendMessage
  <2> QED BY <1>6, <2>1, <2>2, <2>3, <2>4, <2>5
<1>7. ASSUME NEW a \in Chatter, NEW c \in Coroutine,
             \/ Look(a, c) \/ Discovered(a, c) \/ NotDiscovered(a, c)
             \/ ProposeChat(a, c) \/ Decide(a, c) \/ Decided(a, c) \/ ProposalFails(a, c)
      PROVE  ChatTypeOK'
  <2> USE <1>0, <1>1
  <2>1. CASE Look(a, c)
    BY <2>1 DEF Look
  <2>2. CASE Discovered(a, c)
    BY <2>2 DEF Discovered
  <2>3. CASE NotDiscovered(a, c)
    BY <2>3, <1>2 DEF NotDiscovered
  <2>4. CASE ProposeChat(a, c)
    BY <2>4 DEF ProposeChat
  <2>5. CASE Decide(a, c)
    BY <2>5 DEF Decide, ChatSession
  <2>6. CASE Decided(a, c)
    <3>1. active' \in [Chatter -> ChatSession \union {NoChat}]
      BY <2>6 DEF Decided, ChatSession
    <3>2. Turns \in 0 .. Turns /\ 0 \in 0 .. Turns
      BY DEF ChatAssumption
    <3>3. turnsLeft' \in [Chatter -> 0 .. Turns \union {NoChat}]
      BY <2>6, <3>2 DEF Decided
    <3>4. coroutine' \in [Chatter -> [Coroutine -> Stage]]
      BY <2>6 DEF Decided
    <3> QED BY <2>6, <3>1, <3>3, <3>4 DEF Decided
  <2>7. CASE ProposalFails(a, c)
    BY <2>7, <1>2 DEF ProposalFails
  <2> QED BY <1>7, <2>1, <2>2, <2>3, <2>4, <2>5, <2>6, <2>7
<1> QED BY <1>6, <1>7 DEF ChatNext, chatVars

LEMMA GoesOnly ==
  ASSUME ChatTypeOK, NEW a \in Chatter, NEW c \in Coroutine, NEW to, Goes(a, c, to)
  PROVE  /\ coroutine'[a][c] = to
         /\ \A b \in Chatter, d \in Coroutine :
              b # a \/ d # c => coroutine'[b][d] = coroutine[b][d]
BY DEF ChatTypeOK, Goes

\* Whom a coroutine asks or tells something, it knows.
LEMMA FoundStep ==
  ASSUME ChatAssumption, ChatTypeOK, FoundInv, [ChatNext]_chatVars
  PROVE  /\ FoundInv'
         /\ \A b \in Chatter : found[b] # Never => found'[b] = found[b]
<1> USE DEF FoundInv
<1>0. "loop" \in Coroutine /\ "send" \in Coroutine
  BY DEF Coroutine
<1>1. CASE UNCHANGED chatVars
  BY <1>1 DEF chatVars, Linked
<1>2. ASSUME NEW a \in Chatter,
             Serve(a) \/ StopLooking(a) \/ Turn(a) \/ TurnFails(a) \/ SendMessage(a)
      PROVE  FoundInv' /\ found' = found
  <2>1. found' = found /\ peer' = peer
    BY <1>2 DEF Serve, StopLooking, Turn, TurnFails, SendMessage
  <2>2. \A b \in Chatter, d \in Coroutine : Linked(b, d)' => Linked(b, d)
    <3>1. CASE StopLooking(a)
      BY <3>1, <1>0, GoesOnly DEF StopLooking, Linked
    <3>2. CASE SendMessage(a)
      BY <3>2, <1>0, GoesOnly DEF SendMessage, Linked
    <3> QED BY <1>2, <3>1, <3>2 DEF Serve, Turn, TurnFails, Linked
  <2> QED BY <2>1, <2>2
<1>3. ASSUME NEW a \in Chatter, NEW c \in Coroutine,
             \/ Look(a, c) \/ NotDiscovered(a, c) \/ Decide(a, c) \/ Decided(a, c)
             \/ ProposalFails(a, c)
      PROVE  FoundInv' /\ found' = found
  <2>1. found' = found /\ \A b \in Chatter : peer'[b] => peer[b]
    BY <1>3 DEF Look, NotDiscovered, Decide, Decided, ProposalFails, ChatTypeOK
  <2>2. PICK to \in Stage :
          Goes(a, c, to) /\ (to \in {"notifying", "proposing", "accepted", "refused"} => Linked(a, c))
    BY <1>3 DEF Look, NotDiscovered, Decide, Decided, ProposalFails, Linked, Stage
  <2>3. \A b \in Chatter, d \in Coroutine : Linked(b, d)' => Linked(b, d)
    BY <2>2, GoesOnly DEF Linked
  <2> QED BY <2>1, <2>3
<1>4. ASSUME NEW a \in Chatter, NEW c \in Coroutine, ProposeChat(a, c)
      PROVE  FoundInv' /\ found' = found
  <2>1. Linked(a, c) \/ peer[a]
    BY <1>4 DEF ProposeChat, Connected, Linked
  <2>2. found[a] # Never
    BY <2>1
  <2>3. PICK to : Goes(a, c, to)
    BY <1>4 DEF ProposeChat
  <2>4. \A b \in Chatter, d \in Coroutine : Linked(b, d)' => Linked(b, d) \/ b = a
    BY <2>3, GoesOnly DEF Linked
  <2> QED BY <1>4, <2>2, <2>4 DEF ProposeChat
<1>5. ASSUME NEW a \in Chatter, NEW c \in Coroutine, Discovered(a, c)
      PROVE  FoundInv' /\ \A b \in Chatter : found[b] # Never => found'[b] = found[b]
  <2>1. /\ \A b \in Chatter : b # a => found'[b] = found[b] /\ peer'[b] = peer[b]
        /\ found[a] # Never => found'[a] = found[a]
        /\ found'[a] # Never
    BY <1>5 DEF Discovered, ChatTypeOK, ChatAssumption
  <2>2. \A b \in Chatter, d \in Coroutine : Linked(b, d)' => Linked(b, d) \/ b = a
    BY <1>5, GoesOnly DEF Discovered, Linked
  <2> QED BY <2>1, <2>2
<1> QED BY <1>1, <1>2, <1>3, <1>4, <1>5 DEF ChatNext, chatVars

-----------------------------------------------------------------------------
(* ChatPeers: who proposes and who accepts *)

\* A step that keeps the chats, and after which no coroutine is about to propose that was
\* not or was free to.
LEMMA ProposalsStay ==
  ASSUME ChatAssumption, ChatTypeOK, FoundInv, ProposalsInv,
         active' = active,
         \A b \in Chatter : found[b] # Never => found'[b] = found[b],
         \A b \in Chatter : turnsLeft'[b] # NoChat => turnsLeft[b] # NoChat,
         \A b \in Chatter, d \in Coroutine :
           /\ coroutine'[b][d] = "proposing" => coroutine[b][d] = "proposing" \/ active[b] = NoChat
           /\ coroutine'[b][d] = "accepted" => coroutine[b][d] = "accepted"
  PROVE  ProposalsInv'
<1> SUFFICES ASSUME NEW a \in Chatter
             PROVE  /\ Invited(a)' =>
                         /\ found'[Partner(a)] # Never
                         /\ active'[Partner(a)] \in {NoChat, active'[a]}
                         /\ \A c \in Coroutine : coroutine'[a][c] = "proposing" =>
                              DiscoveredFirst(Partner(a), found[a])'
                    /\ active'[a] # NoChat /\ ~ Invited(a)' => active'[Partner(a)] = active'[a]
                    /\ \A c \in Coroutine :
                         coroutine'[a][c] = "accepted" => active'[Partner(a)] = <<a, c>>
                    /\ turnsLeft'[a] # NoChat => active'[a] # NoChat /\ ~ Invited(a)'
  BY DEF ProposalsInv
<1>1. Partner(a) \in Chatter /\ (Invited(a)' <=> Invited(a))
  BY Partners DEF Invited
<1>2. Invited(a) => found'[Partner(a)] # Never /\ found'[Partner(a)] = found[Partner(a)]
  BY <1>1 DEF ProposalsInv
<1>3. ASSUME Invited(a), NEW c \in Coroutine, coroutine'[a][c] = "proposing"
      PROVE  DiscoveredFirst(Partner(a), found[a])'
  <2>1. coroutine[a][c] = "proposing"
    BY <1>3 DEF Invited
  <2>2. DiscoveredFirst(Partner(a), found[a]) /\ found[a] # Never
    BY <1>3, <2>1 DEF ProposalsInv, FoundInv, Linked
  <2>3. found'[a] = found[a]
    BY <2>2
  <2> QED BY <1>2, <1>3, <2>2, <2>3 DEF DiscoveredFirst
<1> QED BY <1>1, <1>2, <1>3 DEF ProposalsInv

\* An agent that did not discover first accepts the proposal of the other.
LEMMA AcceptProposalStep ==
  ASSUME ChatAssumption, ChatTypeOK, FoundInv, ProposalsInv,
         NEW a \in Chatter, NEW c \in Coroutine, Decide(a, c), active' # active
  PROVE  ProposalsInv'
<1> DEFINE b == Partner(a)
<1>1. b \in Chatter /\ b # a /\ Partner(b) = a /\ \A x \in Chatter : x = a \/ x = b
  BY Partners
<1>2. /\ coroutine[a][c] = "proposing"
      /\ active[b] = NoChat /\ ~ DiscoveredFirst(b, found[a])
      /\ active' = [active EXCEPT ![b] = <<a, c>>]
      /\ Goes(a, c, "accepted")
      /\ UNCHANGED <<found, turnsLeft>>
  BY DEF Decide
<1> HIDE DEF b
<1>3. active'[b] = <<a, c>> /\ active'[a] = active[a] /\ <<a, c>> # NoChat
  BY <1>1, <1>2 DEF ChatTypeOK, ChatAssumption, ChatSession
<1>4. /\ coroutine'[a][c] = "accepted"
      /\ \A x \in Chatter, d \in Coroutine : x # a \/ d # c => coroutine'[x][d] = coroutine[x][d]
  BY <1>2, GoesOnly
<1>5. found[a] # Never
  BY <1>2 DEF FoundInv, Linked
<1>6. active[a] = NoChat
  <2>1. ~ Invited(a)
    BY <1>1, <1>2 DEF ProposalsInv, b
  <2> QED BY <1>1, <1>2, <2>1 DEF ProposalsInv, b
<1>7. turnsLeft[a] = NoChat /\ turnsLeft[b] = NoChat
  BY <1>1, <1>2, <1>6 DEF ProposalsInv
<1>8. \A d \in Coroutine : coroutine[a][d] # "accepted" /\ coroutine[b][d] # "accepted"
  BY <1>1, <1>2, <1>6, <1>3 DEF ProposalsInv, b, ChatAssumption, ChatSession
<1>9. ASSUME NEW d \in Coroutine, coroutine'[b][d] = "proposing"
      PROVE  DiscoveredFirst(a, found[b])
  <2>1. coroutine[b][d] = "proposing"
    BY <1>1, <1>4, <1>9
  <2>2. found[b] # Never
    BY <1>1, <2>1 DEF FoundInv, Linked
  <2> QED BY <1>1, <1>2, <1>5, <2>2, OneIsFirst DEF b
<1>10. Invited(b)' /\ ~ Invited(a)'
  BY <1>1, <1>3, <1>6 DEF Invited
<1>11. \A d \in Coroutine : coroutine'[b][d] = "proposing" => DiscoveredFirst(a, found[b])'
  BY <1>2, <1>9 DEF DiscoveredFirst
<1>12. \A d \in Coroutine :
         /\ coroutine'[a][d] = "accepted" => active'[b] = <<a, d>>
         /\ coroutine'[b][d] # "accepted"
  BY <1>1, <1>3, <1>4, <1>8
<1>13. Partner(a) = b
  BY DEF b
<1> QED BY <1>1, <1>2, <1>3, <1>5, <1>6, <1>7, <1>10, <1>11, <1>12, <1>13 DEF ProposalsInv

\* Who was accepted runs the chat.
LEMMA DecidedStep ==
  ASSUME ChatAssumption, ChatTypeOK, FoundInv, ProposalsInv,
         NEW a \in Chatter, NEW c \in Coroutine, Decided(a, c), coroutine[a][c] = "accepted"
  PROVE  /\ ProposalsInv'
         /\ active'[a] = <<a, c>> /\ active[Partner(a)] = <<a, c>>
<1> DEFINE b == Partner(a)
<1>1. b \in Chatter /\ b # a /\ Partner(b) = a /\ \A x \in Chatter : x = a \/ x = b
  BY Partners
<1>2. /\ active' = [active EXCEPT ![a] = IF @ = NoChat THEN <<a, c>> ELSE @]
      /\ \A x \in Chatter : x # a => turnsLeft'[x] = turnsLeft[x]
      /\ Goes(a, c, "over")
      /\ UNCHANGED found
  BY DEF Decided, ChatTypeOK
<1> HIDE DEF b
<1>13. Partner(a) = b
  BY DEF b
<1>3. active[b] = <<a, c>> /\ <<a, c>> # NoChat
  BY <1>13 DEF ProposalsInv, ChatAssumption, ChatSession
<1>4. Invited(b)
  BY <1>1, <1>3 DEF Invited
<1>5. active[a] \in {NoChat, <<a, c>>}
  BY <1>1, <1>3, <1>4 DEF ProposalsInv
<1>6. active'[a] = <<a, c>> /\ active'[b] = <<a, c>>
  BY <1>1, <1>2, <1>3, <1>5 DEF ChatTypeOK
<1>7. ~ Invited(a)' /\ Invited(b)'
  BY <1>1, <1>3, <1>6 DEF Invited
<1>8. \A x \in Chatter, d \in Coroutine :
        /\ coroutine'[x][d] = "proposing" => coroutine[x][d] = "proposing"
        /\ coroutine'[x][d] = "accepted" => coroutine[x][d] = "accepted"
  BY <1>2, GoesOnly
<1>9. \A d \in Coroutine :
        /\ coroutine'[a][d] = "accepted" => active'[b] = <<a, d>>
        /\ coroutine'[b][d] # "accepted"
  <2>1. ASSUME NEW d \in Coroutine, coroutine[b][d] = "accepted" PROVE FALSE
    BY <1>1, <1>3, <1>5, <2>1 DEF ProposalsInv, ChatAssumption, ChatSession
  <2> QED BY <1>3, <1>6, <1>8, <1>13, <2>1, <1>1 DEF ProposalsInv
<1>10. \A d \in Coroutine : coroutine'[b][d] = "proposing" => DiscoveredFirst(a, found[b])'
  BY <1>1, <1>2, <1>4, <1>8 DEF ProposalsInv, DiscoveredFirst
<1>11. found'[a] # Never
  BY <1>1, <1>2, <1>4 DEF ProposalsInv
<1>12. turnsLeft'[b] = NoChat
  BY <1>1, <1>2, <1>4 DEF ProposalsInv
<1> QED BY <1>1, <1>3, <1>6, <1>7, <1>9, <1>10, <1>11, <1>12, <1>13 DEF ProposalsInv

LEMMA ProposalsStep ==
  ASSUME ChatAssumption, ChatTypeOK, FoundInv, ProposalsInv, [ChatNext]_chatVars
  PROVE  ProposalsInv'
<1> DEFINE Holds(x, d) ==
      /\ coroutine'[x][d] = "proposing" => coroutine[x][d] = "proposing" \/ active[x] = NoChat
      /\ coroutine'[x][d] = "accepted" => coroutine[x][d] = "accepted"
<1>0. /\ \A b \in Chatter : found[b] # Never => found'[b] = found[b]
      /\ "loop" \in Coroutine /\ "send" \in Coroutine
  BY FoundStep DEF Coroutine
<1>1. ASSUME active' = active, \A x \in Chatter : turnsLeft'[x] # NoChat => turnsLeft[x] # NoChat,
             \A x \in Chatter, d \in Coroutine : Holds(x, d)
      PROVE  ProposalsInv'
  BY <1>0, <1>1, ProposalsStay
<1>2. CASE UNCHANGED chatVars
  BY <1>1, <1>2 DEF chatVars
<1>3. ASSUME NEW a \in Chatter,
             Serve(a) \/ StopLooking(a) \/ Turn(a) \/ TurnFails(a) \/ SendMessage(a)
      PROVE  ProposalsInv'
  <2>1. active' = active /\ \A x \in Chatter : turnsLeft'[x] # NoChat => turnsLeft[x] # NoChat
    BY <1>3 DEF Serve, StopLooking, Turn, TurnFails, SendMessage, Running, ChatTypeOK
  <2>2. \A x \in Chatter, d \in Coroutine : Holds(x, d)
    <3>1. CASE StopLooking(a)
      BY <3>1, <1>0, GoesOnly DEF StopLooking
    <3>2. CASE SendMessage(a)
      BY <3>2, <1>0, GoesOnly DEF SendMessage
    <3> QED BY <1>3, <3>1, <3>2 DEF Serve, Turn, TurnFails
  <2> HIDE DEF Holds
  <2> QED BY <1>1, <2>1, <2>2
<1>4. ASSUME NEW a \in Chatter, NEW c \in Coroutine,
             Look(a, c) \/ Discovered(a, c) \/ NotDiscovered(a, c) \/ ProposalFails(a, c)
      PROVE  ProposalsInv'
  <2>1. active' = active /\ turnsLeft' = turnsLeft
    BY <1>4 DEF Look, Discovered, NotDiscovered, ProposalFails
  <2>2. PICK to : Goes(a, c, to) /\ to \notin {"proposing", "accepted"}
    BY <1>4 DEF Look, Discovered, NotDiscovered, ProposalFails
  <2>3. \A x \in Chatter, d \in Coroutine : Holds(x, d)
    BY <2>2, GoesOnly
  <2> HIDE DEF Holds
  <2> QED BY <1>1, <2>1, <2>3
<1>5. ASSUME NEW a \in Chatter, NEW c \in Coroutine, ProposeChat(a, c)
      PROVE  ProposalsInv'
  <2>1. active' = active /\ turnsLeft' = turnsLeft
    BY <1>5 DEF ProposeChat
  <2>2. PICK to : Goes(a, c, to) /\ (to = "proposing" => active[a] = NoChat) /\ to # "accepted"
    BY <1>5 DEF ProposeChat
  <2>3. \A x \in Chatter, d \in Coroutine : Holds(x, d)
    BY <2>2, GoesOnly
  <2> HIDE DEF Holds
  <2> QED BY <1>1, <2>1, <2>3
<1>6. ASSUME NEW a \in Chatter, NEW c \in Coroutine, Decide(a, c) \/ Decided(a, c)
      PROVE  ProposalsInv'
  <2>1. CASE Decide(a, c) /\ active' # active
    BY <2>1, AcceptProposalStep
  <2>2. CASE Decided(a, c) /\ coroutine[a][c] = "accepted"
    BY <2>2, DecidedStep
  <2>3. CASE Decide(a, c) /\ active' = active
    <3>1. active[Partner(a)] # <<a, c>> \/ active[Partner(a)] # NoChat
      BY DEF ChatAssumption, ChatSession
    <3>2. Goes(a, c, "refused") /\ turnsLeft' = turnsLeft
      BY <2>3, <3>1, Partners DEF Decide, ChatTypeOK
    <3>3. \A x \in Chatter, d \in Coroutine : Holds(x, d)
      BY <3>2, GoesOnly
    <3> HIDE DEF Holds
    <3> QED BY <1>1, <2>3, <3>2, <3>3
  <2>4. CASE Decided(a, c) /\ coroutine[a][c] # "accepted"
    <3>1. active' = active /\ turnsLeft' = turnsLeft /\ Goes(a, c, "over")
      BY <2>4 DEF Decided
    <3>2. \A x \in Chatter, d \in Coroutine : Holds(x, d)
      BY <3>1, GoesOnly
    <3> HIDE DEF Holds
    <3> QED BY <1>1, <3>1, <3>2
  <2> QED BY <1>6, <2>1, <2>2, <2>3, <2>4
<1> QED BY <1>2, <1>3, <1>4, <1>5, <1>6 DEF ChatNext

-----------------------------------------------------------------------------
(* ChatPeers: as long as no call failed *)

LEMMA UndisturbedStep ==
  ASSUME ChatAssumption, ChatTypeOK, FoundInv, ProposalsInv, UndisturbedInv,
         [ChatNext]_chatVars
  PROVE  UndisturbedInv'
<1> SUFFICES ASSUME chatMishaps' = 0 PROVE UndisturbedInv'
  BY DEF UndisturbedInv
<1> DEFINE Holds(x) ==
             /\ \A c \in Coroutine : Linked(x, c) => peer[x]
             /\ coroutine[x]["loop"] = "over" \/ turnsLeft[x] # NoChat => peer[x]
           Expected(x) == \/ turnsLeft[x] # NoChat
                         \/ \E c \in Coroutine : coroutine[x][c] = "accepted"
           Looped(x) == coroutine[x]["loop"] \in {"over", "refused"} =>
                          \/ active[x] # NoChat \/ active[Partner(x)] # NoChat
                          \/ DiscoveredFirst(Partner(x), found[x])
           Told(x) == turnsLeft[x] # NoChat => chatSent[x] + turnsLeft[x] >= Turns
           All(x) == /\ Holds(x) /\ Looped(x) /\ Told(x)
                     /\ Invited(x) => Expected(Partner(x))
                     /\ received[Partner(x)] = chatSent[x]
<1>0. /\ chatMishaps = 0 /\ ~ ChatMishap
      /\ \A x \in Chatter : found[x] # Never => found'[x] = found[x]
      /\ "loop" \in Coroutine /\ "send" \in Coroutine
  <2>1. ~ ChatMishap
    BY DEF ChatMishap, ChatTypeOK
  <2>2. chatMishaps' = chatMishaps
    BY <2>1 DEF ChatNext, chatVars, Serve, StopLooking, Turn, TurnFails, SendMessage, Look,
                Discovered, NotDiscovered, ProposeChat, Decide, Decided, ProposalFails
  <2> QED BY <2>1, <2>2, FoundStep DEF Coroutine
<1>1. \A x \in Chatter : All(x)
  BY <1>0 DEF UndisturbedInv
<1>2. SUFFICES \A x \in Chatter : All(x)'
  BY DEF UndisturbedInv
<1>3. \A x \in Chatter : Partner(x) \in Chatter /\ Partner(x) # x /\ Partner(Partner(x)) = x
  BY Partners
<1>4. \A x \in Chatter : active[x] # NoChat => active'[x] = active[x]
  BY DEF ChatNext, chatVars, Serve, StopLooking, Turn, TurnFails, SendMessage, Look,
         Discovered, NotDiscovered, ProposeChat, Decide, Decided, ProposalFails, ChatTypeOK
<1>5. \A x \in Chatter : turnsLeft[x] # NoChat => turnsLeft'[x] # NoChat
  BY DEF ChatNext, chatVars, Serve, StopLooking, Turn, TurnFails, SendMessage, Look,
         Discovered, NotDiscovered, ProposeChat, Decide, Decided, ProposalFails, ChatTypeOK,
         Running, ChatAssumption
<1>6. \A x \in Chatter : turnsLeft[x] # NoChat => peer[x] /\ turnsLeft[x] \in 0 .. Turns
  BY <1>1 DEF ChatTypeOK
<1> HIDE DEF All, Holds, Expected, Looped, Told
<1>7. CASE UNCHANGED chatVars
  <2>1. ASSUME NEW x \in Chatter PROVE All(x)'
    BY <1>1, <1>7 DEF All, Holds, Expected, Looped, Told, Linked, Invited, DiscoveredFirst, chatVars
  <2> QED BY <2>1
<1>8. ASSUME NEW a \in Chatter,
             Serve(a) \/ StopLooking(a) \/ Turn(a) \/ TurnFails(a) \/ SendMessage(a)
      PROVE  \A x \in Chatter : All(x)'
  <2>1. /\ peer' = peer /\ active' = active /\ found' = found
        /\ \A x \in Chatter : turnsLeft'[x] # NoChat => turnsLeft[x] # NoChat
    BY <1>8 DEF Serve, StopLooking, Turn, TurnFails, SendMessage, Running, ChatTypeOK
  <2>2. /\ \A x \in Chatter, d \in Coroutine :
            /\ Linked(x, d)' => Linked(x, d)
            /\ coroutine[x][d] = "accepted" => coroutine'[x][d] = "accepted"
        /\ \A x \in Chatter : coroutine'[x]["loop"] = coroutine[x]["loop"]
    <3>1. CASE StopLooking(a)
      BY <1>0, <3>1 DEF StopLooking
    <3>2. CASE SendMessage(a)
      <4>1. coroutine[a]["send"] # "accepted"
        BY <3>2, <1>0 DEF SendMessage, Connected, StartsChat
      <4> QED BY <3>2, <4>1, <1>0, GoesOnly DEF SendMessage, Linked
    <3> QED BY <1>8, <3>1, <3>2 DEF Serve, Turn, TurnFails, Linked
  <2>3. /\ \A x \in Chatter : received'[Partner(x)] = chatSent'[x]
        /\ \A x \in Chatter : Told(x)'
    <3>0. \A x \in Chatter : received[Partner(x)] = chatSent[x] /\ Told(x)
      BY <1>1 DEF All
    <3>1. CASE UNCHANGED <<chatSent, received, turnsLeft>>
      BY <3>0, <3>1 DEF Told
    <3>2. ASSUME Said(a), Heard(a)
          PROVE  /\ \A x \in Chatter : received'[Partner(x)] = chatSent'[x]
                 /\ \A x \in Chatter : x # a => chatSent'[x] = chatSent[x]
                 /\ chatSent'[a] = chatSent[a] + 1
      <4>1. /\ \A x \in Chatter : x # a => chatSent'[x] = chatSent[x]
            /\ \A x \in Chatter : x # Partner(a) => received'[x] = received[x]
            /\ chatSent'[a] = chatSent[a] + 1 /\ received'[Partner(a)] = received[Partner(a)] + 1
        BY <1>3, <3>2 DEF Said, Heard, ChatTypeOK
      <4>2. \A x \in Chatter : x # a => Partner(x) # Partner(a)
        BY <1>3
      <4> QED BY <1>3, <3>0, <4>1, <4>2
    <3>3. CASE Turn(a)
      <4>1. /\ \A x \in Chatter : x # a => turnsLeft'[x] = turnsLeft[x]
            /\ turnsLeft'[a] = turnsLeft[a] - 1 /\ turnsLeft[a] # NoChat
            /\ Said(a) /\ Heard(a)
        BY <3>3 DEF Turn, Running, ChatTypeOK
      <4>2. turnsLeft[a] \in Nat /\ chatSent[a] \in Nat /\ Turns \in Nat
        BY <1>6, <4>1 DEF ChatTypeOK, ChatAssumption
      <4>3. chatSent'[a] + turnsLeft'[a] = chatSent[a] + turnsLeft[a]
        BY <3>2, <4>1, <4>2
      <4> QED BY <3>0, <3>2, <4>1, <4>3 DEF Told
    <3>4. CASE TurnFails(a)
      BY <1>0, <1>6, <3>4 DEF TurnFails, Running
    <3>5. CASE SendMessage(a) /\ peer[a]
      <4>1. Said(a) /\ Heard(a) /\ turnsLeft' = turnsLeft
        BY <1>0, <3>5 DEF SendMessage
      <4>2. \A x \in Chatter : turnsLeft[x] # NoChat =>
              turnsLeft[x] \in Nat /\ chatSent[x] \in Nat /\ Turns \in Nat
        BY <1>6 DEF ChatTypeOK, ChatAssumption
      <4>3. \A x \in Chatter : turnsLeft[x] # NoChat => chatSent'[x] + turnsLeft[x] >= Turns
        BY <3>0, <3>2, <4>1, <4>2 DEF Told
      <4> QED BY <3>2, <4>1, <4>3 DEF Told
    <3>6. CASE SendMessage(a) /\ ~ peer[a]
      BY <3>1, <3>6 DEF SendMessage
    <3> QED BY <1>8, <3>1, <3>3, <3>4, <3>5, <3>6 DEF Serve, StopLooking
  <2>4. ASSUME NEW x \in Chatter PROVE All(x)'
    <3>1. Holds(x)'
      BY <1>1, <2>1, <2>2 DEF All, Holds
    <3>2. Looped(x)'
      BY <1>1, <1>3, <2>1, <2>2 DEF All, Looped, DiscoveredFirst
    <3>3. Invited(x)' => Expected(Partner(x))'
      BY <1>1, <1>3, <1>5, <2>1, <2>2 DEF All, Expected, Invited
    <3> QED BY <2>3, <3>1, <3>2, <3>3 DEF All
  <2> QED BY <2>4
<1>9. ASSUME NEW a \in Chatter, NEW c \in Coroutine,
             \/ Look(a, c) \/ Discovered(a, c) \/ NotDiscovered(a, c)
             \/ ProposeChat(a, c) \/ Decide(a, c) \/ Decided(a, c) \/ ProposalFails(a, c)
      PROVE  \A x \in Chatter : All(x)'
  <2>1. chatSent' = chatSent /\ received' = received /\ ~ ProposalFails(a, c)
    BY <1>0, <1>9 DEF Look, Discovered, NotDiscovered, ProposeChat, Decide, Decided, ProposalFails
  <2>2. PICK to : Goes(a, c, to)
    BY <1>9, <2>1 DEF Look, Discovered, NotDiscovered, ProposeChat, Decide, Decided
  <2>3. /\ coroutine'[a][c] = to
        /\ \A b \in Chatter, d \in Coroutine :
             b # a \/ d # c => coroutine'[b][d] = coroutine[b][d]
    BY <2>2, GoesOnly
  <2>4. \A x \in Chatter : peer[x] => peer'[x]
    BY <1>0, <1>9, <2>1 DEF Look, Discovered, NotDiscovered, ProposeChat, Decide, Decided, ChatTypeOK
  <2>5. \A x \in Chatter : turnsLeft'[x] # NoChat => turnsLeft[x] # NoChat \/ peer[x]
    BY <1>1, <1>9, <2>1 DEF All, Holds, Linked, Look, Discovered, NotDiscovered, ProposeChat, Decide, Decided, ChatTypeOK
  <2>6. to \in {"notifying", "proposing", "accepted", "refused"} \/ (c = "loop" /\ to = "over") => peer'[a]
    BY <1>0, <1>1, <1>9, <2>1, <2>3 DEF All, Holds, Linked, Look, Discovered, NotDiscovered, ProposeChat, Decide, Decided, ChatTypeOK, Goes, Connected, StartsChat
  <2>7. ASSUME c = "loop", to \in {"over", "refused"}
        PROVE  \/ active'[a] # NoChat \/ active'[Partner(a)] # NoChat
               \/ DiscoveredFirst(Partner(a), found[a]) /\ found[a] # Never
    <3>1. coroutine'[a]["loop"] = to
      BY <2>3, <2>7
    <3>2. CASE ProposeChat(a, c)
      <4>1. peer[a]
        BY <1>1, <3>2 DEF ProposeChat, Connected, StartsChat, All, Holds, Linked
      <4>2. active[a] # NoChat \/ Running(a)
        BY <2>7, <3>1, <3>2, <4>1, <1>0 DEF ProposeChat, Goes, ChatTypeOK
      <4>3. active[a] # NoChat
        BY <4>2 DEF Running, ProposalsInv
      <4> QED BY <1>4, <4>3
    <3>3. CASE Decide(a, c)
      <4>1. coroutine[a][c] = "proposing" /\ found[a] # Never
        BY <3>3 DEF Decide, FoundInv, Linked
      <4>2. active[Partner(a)] # NoChat \/ DiscoveredFirst(Partner(a), found[a])
        BY <2>7, <3>1, <3>3, <1>0 DEF Decide, Goes, ChatTypeOK
      <4> QED BY <1>3, <1>4, <4>1, <4>2
    <3>4. CASE Decided(a, c) /\ coroutine[a][c] = "accepted"
      <4>1. active'[a] = <<a, c>> /\ <<a, c>> # NoChat
        BY <3>4, DecidedStep DEF ChatAssumption, ChatSession
      <4> QED BY <4>1
    <3>5. CASE Decided(a, c) /\ coroutine[a][c] = "refused"
      <4>1. found[a] # Never
        BY <3>5 DEF FoundInv, Linked
      <4>2. coroutine[a]["loop"] = "refused"
        BY <2>7, <3>5
      <4> QED BY <1>1, <1>3, <1>4, <4>1, <4>2 DEF All, Looped
    <3>6. CASE Look(a, c) \/ Discovered(a, c) \/ NotDiscovered(a, c)
      BY <1>0, <2>7, <3>1, <3>6 DEF Look, Discovered, NotDiscovered, Goes, ChatTypeOK
    <3> QED BY <1>9, <2>1, <3>2, <3>3, <3>4, <3>5, <3>6 DEF Decided
  <2>8. ASSUME NEW x \in Chatter PROVE Looped(x)'
    <3>0. SUFFICES ASSUME coroutine'[x]["loop"] \in {"over", "refused"}
                   PROVE  \/ active'[x] # NoChat \/ active'[Partner(x)] # NoChat
                          \/ DiscoveredFirst(Partner(x), found[x])'
      BY DEF Looped
    <3>1. \/ active'[x] # NoChat \/ active'[Partner(x)] # NoChat
          \/ DiscoveredFirst(Partner(x), found[x]) /\ found[x] # Never
      <4>1. CASE x = a /\ c = "loop"
        BY <2>3, <2>7, <3>0, <4>1
      <4>2. CASE ~ (x = a /\ c = "loop")
        <5>1. coroutine[x]["loop"] \in {"over", "refused"}
          BY <1>0, <2>3, <3>0, <4>2
        <5>2. found[x] # Never
          BY <1>0, <1>1, <5>1 DEF All, Holds, FoundInv, Linked
        <5> QED BY <1>1, <1>3, <1>4, <5>1, <5>2 DEF All, Looped
      <4> QED BY <4>1, <4>2
    <3>2. DiscoveredFirst(Partner(x), found[x]) => found[Partner(x)] # Never
      BY DEF DiscoveredFirst
    <3> QED BY <1>0, <1>3, <3>1, <3>2 DEF DiscoveredFirst
  <2>9. ASSUME NEW x \in Chatter PROVE Told(x)'
    <3>1. turnsLeft'[x] = turnsLeft[x] \/ turnsLeft'[x] = Turns
      <4>1. ASSUME Decided(a, c), x = a PROVE turnsLeft'[x] = turnsLeft[x] \/ turnsLeft'[x] = Turns
        <5>1. Linked(a, c)
          BY <4>1 DEF Decided, Linked
        <5>2. peer[a]
          BY <1>1, <5>1 DEF All, Holds
        <5> QED BY <4>1, <5>2 DEF Decided, ChatTypeOK
      <4> QED BY <1>9, <2>1, <4>1 DEF Look, Discovered, NotDiscovered, ProposeChat, Decide, Decided, ChatTypeOK
    <3>2. chatSent'[x] = chatSent[x] /\ chatSent[x] \in Nat /\ Turns \in Nat
      BY <2>1 DEF ChatTypeOK, ChatAssumption
    <3>3. turnsLeft[x] # NoChat => chatSent[x] + turnsLeft[x] >= Turns
      BY <1>1 DEF All, Told
    <3>4. CASE turnsLeft'[x] = Turns
      BY <3>2, <3>4 DEF Told
    <3>5. CASE turnsLeft'[x] = turnsLeft[x]
      BY <3>2, <3>3, <3>5 DEF Told
    <3> QED BY <3>1, <3>4, <3>5
  <2>10. ASSUME NEW x \in Chatter, Invited(x)' PROVE Expected(Partner(x))'
    <3>1. CASE Invited(x)
      <4>1. Expected(Partner(x))
        BY <1>1, <3>1 DEF All
      <4>2. CASE turnsLeft[Partner(x)] # NoChat
        BY <1>3, <1>5, <4>2 DEF Expected
      <4>3. ASSUME NEW d \in Coroutine, coroutine[Partner(x)][d] = "accepted"
            PROVE  Expected(Partner(x))'
        <5>1. CASE coroutine'[Partner(x)][d] = "accepted"
          BY <5>1 DEF Expected
        <5>2. CASE coroutine'[Partner(x)][d] # "accepted"
          <6>1. Partner(x) = a /\ d = c
            BY <1>3, <2>3, <4>3, <5>2
          <6>2. Decided(a, c)
            BY <1>9, <2>1, <4>3, <6>1, <1>0 DEF Look, Discovered, NotDiscovered, ProposeChat, Decide, Connected, StartsChat
          <6>3. turnsLeft'[a] # NoChat
            BY <4>3, <6>1, <6>2 DEF Decided, ChatTypeOK, Running, ChatAssumption
          <6> QED BY <6>1, <6>3 DEF Expected
        <5> QED BY <5>1, <5>2
      <4> QED BY <4>1, <4>2, <4>3 DEF Expected
    <3>2. CASE ~ Invited(x)
      <4>1. active[x] = NoChat /\ active'[x] # NoChat /\ active'[x][1] # x
        BY <1>4, <2>10, <3>2 DEF Invited
      <4>2. CASE Decide(a, c)
        <5>1. x = Partner(a) /\ coroutine'[a][c] = "accepted"
          BY <1>3, <2>3, <4>1, <4>2 DEF Decide, ChatTypeOK, Goes
        <5> QED BY <1>3, <5>1 DEF Expected
      <4>3. CASE Decided(a, c)
        BY <4>1, <4>3 DEF Decided, ChatTypeOK
      <4> QED BY <1>9, <2>1, <4>1, <4>2, <4>3 DEF Look, Discovered, NotDiscovered, ProposeChat
    <3> QED BY <3>1, <3>2
  <2>11. ASSUME NEW x \in Chatter PROVE Holds(x)'
    <3>1. \A d \in Coroutine : Linked(x, d)' => peer'[x]
      BY <1>1, <2>3, <2>4, <2>6 DEF All, Holds, Linked
    <3>2. coroutine'[x]["loop"] = "over" \/ turnsLeft'[x] # NoChat => peer'[x]
      BY <1>0, <1>1, <2>3, <2>4, <2>5, <2>6 DEF All, Holds
    <3> QED BY <3>1, <3>2 DEF Holds
  <2>12. \A x \in Chatter : received'[Partner(x)] = chatSent'[x]
    BY <1>1, <2>1 DEF All
  <2> QED BY <2>8, <2>9, <2>10, <2>11, <2>12 DEF All
<1> QED BY <1>7, <1>8, <1>9 DEF ChatNext

-----------------------------------------------------------------------------
(* ChatPeers: theorems *)

\* The inductive invariant: types, whom an agent knows, who has proposed and who accepted,
\* and what comes of it as long as no call fails (ensure_peer_connection, propose_chat,
\* maybe_start_chat_if_discovered_first).
THEOREM ChatInvariance == ChatAssumption /\ ChatSpec => []ChatIInv
<1> SUFFICES ASSUME ChatAssumption PROVE ChatSpec => []ChatIInv
  OBVIOUS
<1>1. ChatInit => ChatIInv
  <2> SUFFICES ASSUME ChatInit PROVE ChatIInv
    OBVIOUS
  <2>1. ChatTypeOK
    BY DEF ChatInit, ChatTypeOK, Stage, ChatAssumption
  <2>2. \A a \in Chatter : Partner(a) \in Chatter
    BY Partners
  <2>3. "loop" \in Coroutine
    BY DEF Coroutine
  <2>4. FoundInv /\ ProposalsInv
    BY DEF ChatInit, FoundInv, ProposalsInv, Linked, Invited
  <2>5. UndisturbedInv
    BY <2>2, <2>3 DEF ChatInit, UndisturbedInv, Linked, Invited
  <2> QED BY <2>1, <2>4, <2>5 DEF ChatIInv
<1>2. ChatIInv /\ [ChatNext]_chatVars => ChatIInv'
  <2> SUFFICES ASSUME ChatTypeOK, FoundInv, ProposalsInv, UndisturbedInv, [ChatNext]_chatVars
               PROVE  ChatIInv'
    BY DEF ChatIInv
  <2> QED BY ChatTypesStep, FoundStep, ProposalsStep, UndisturbedStep DEF ChatIInv
<1> QED BY <1>1, <1>2, PTL DEF ChatSpec

\* Of two agents that may both discover, propose and accept at any time, whatever their
\* clocks show and whatever calls fail, at most one starts the chat, and both mean the
\* same session; and if no call failed one has started it when all is over, and all that
\* was said has arrived (chat_a.py:207-264).
THEOREM ChatIsOne == ChatAssumption /\ ChatSpec => []OneChat
<1> SUFFICES ASSUME ChatAssumption PROVE ChatSpec => []OneChat
  OBVIOUS
<1>1. ChatIInv => OneChat
  <2> SUFFICES ASSUME ChatIInv PROVE OneChat
    OBVIOUS
  <2>0. ChatTypeOK /\ FoundInv /\ ProposalsInv /\ UndisturbedInv
    BY DEF ChatIInv
  <2>1. \A a \in Chatter : /\ Partner(a) \in Chatter /\ Partner(a) # a /\ Partner(Partner(a)) = a
                           /\ \A b \in Chatter : b = a \/ b = Partner(a)
    BY Partners
  <2>2. ASSUME NEW a \in Chatter, turnsLeft[a] # NoChat PROVE turnsLeft[Partner(a)] = NoChat
    <3>1. active[a] # NoChat /\ ~ Invited(a)
      BY <2>0, <2>2 DEF ProposalsInv
    <3>2. Invited(Partner(a))
      BY <2>0, <2>1, <3>1 DEF ProposalsInv, Invited
    <3> QED BY <2>0, <2>1, <3>2 DEF ProposalsInv
  <2>3. ASSUME NEW a \in Chatter, NEW b \in Chatter, active[a] # NoChat, active[b] # NoChat
        PROVE  active[a] = active[b]
    BY <2>0, <2>1, <2>3 DEF ProposalsInv
  <2>4. ASSUME chatMishaps = 0, Settled
        PROVE  /\ \E a \in Chatter : turnsLeft[a] = 0 /\ chatSent[a] >= Turns
               /\ \A a \in Chatter : received[Partner(a)] = chatSent[a]
    <3>1. ASSUME NEW a \in Chatter, turnsLeft[a] # NoChat
          PROVE  turnsLeft[a] = 0 /\ chatSent[a] >= Turns
      <4>1. turnsLeft[a] = 0
        BY <2>4, <3>1 DEF Settled, Running
      <4>2. chatSent[a] + 0 >= Turns /\ chatSent[a] \in Nat
        BY <2>0, <2>4, <3>1, <4>1 DEF UndisturbedInv, ChatTypeOK
      <4> QED BY <4>1, <4>2
    <3>2. ASSUME NEW a \in Chatter, Invited(a) PROVE turnsLeft[Partner(a)] # NoChat
      BY <2>0, <2>1, <2>4, <3>2 DEF UndisturbedInv, Settled
    <3>3. ASSUME NEW a \in Chatter, active[a] # NoChat
          PROVE  \E b \in Chatter : turnsLeft[b] # NoChat
      <4>1. Invited(a) \/ Invited(Partner(a))
        BY <2>0, <2>1, <3>3 DEF ProposalsInv, Invited
      <4> QED BY <2>1, <3>2, <4>1
    <3>4. \E a \in Chatter : active[a] # NoChat
      <4> SUFFICES ASSUME \A a \in Chatter : active[a] = NoChat PROVE FALSE
        OBVIOUS
      <4>1. \A a \in Chatter : DiscoveredFirst(Partner(a), found[a]) /\ found[a] # Never
        BY <2>0, <2>1, <2>4 DEF UndisturbedInv, Settled, FoundInv
      <4>2. PICK a \in Chatter : TRUE
        BY DEF ChatAssumption
      <4> QED BY <2>0, <2>1, <4>1, <4>2, OneIsFirst
    <3>5. \E b \in Chatter : turnsLeft[b] # NoChat
      BY <3>3, <3>4
    <3> QED BY <2>0, <2>4, <3>1, <3>5 DEF UndisturbedInv
  <2>5. \A a \in Chatter : turnsLeft[a] # NoChat => turnsLeft[Partner(a)] = NoChat
    BY <2>2
  <2>6. \A a, b \in Chatter : active[a] = active[b] \/ NoChat \in {active[a], active[b]}
    BY <2>3
  <2> QED BY <2>4, <2>5, <2>6 DEF OneChat
<1> QED BY <1>1, ChatInvariance, PTL

-----------------------------------------------------------------------------
(* Selection *)

\* How many numbers of I come before i
Before(I, i) == Cardinality({j \in I : j < i})

\* Numbers of a finite set are counted: later ones have more before them, and all have fewer
\* than there are.
LEMMA BeforeCounts ==
  ASSUME NEW I, IsFiniteSet(I), I \subseteq Nat
  PROVE  /\ Cardinality(I) \in Nat
         /\ \A i \in I : Before(I, i) \in 0 .. Cardinality(I) - 1
         /\ \A i, j \in I : i < j => Before(I, i) < Before(I, j)
<1>1. \A i : IsFiniteSet({j \in I : j < i}) /\ Before(I, i) \in Nat
  <2> TAKE i
  <2>1. {j \in I : j < i} \subseteq I
    OBVIOUS
  <2>2. IsFiniteSet({j \in I : j < i})
    BY <2>1, FS_Subset
  <2> QED BY <2>2, FS_CardinalityType DEF Before
<1>2. Cardinality(I) \in Nat
  BY FS_CardinalityType
<1>3. ASSUME NEW i \in I, NEW T, IsFiniteSet(T), {j \in I : j < i} \subseteq T, i \in T
      PROVE  Before(I, i) + 1 <= Cardinality(T)
  <2> DEFINE B == {j \in I : j < i}
  <2>1. IsFiniteSet(B) /\ i \notin B
    BY <1>1
  <2>2. Cardinality(B \union {i}) = Cardinality(B) + 1
    BY <2>1, FS_AddElement
  <2>3. B \union {i} \subseteq T
    BY <1>3
  <2>4. Cardinality(B \union {i}) <= Cardinality(T)
    BY <1>3, <2>3, FS_Subset
  <2> QED BY <2>2, <2>4 DEF Before
<1>4. \A i \in I : Before(I, i) \in 0 .. Cardinality(I) - 1
  <2> TAKE i \in I
  <2>1. {j \in I : j < i} \subseteq I
    OBVIOUS
  <2>2. Before(I, i) + 1 <= Cardinality(I)
    BY <1>3, <2>1
  <2>3. Before(I, i) \in Nat
    BY <1>1
  <2> HIDE DEF Before
  <2> QED BY <1>2, <2>2, <2>3
<1>5. \A i, j \in I : i < j => Before(I, i) < Before(I, j)
  <2> SUFFICES ASSUME NEW i \in I, NEW j \in I, i < j PROVE Before(I, i) < Before(I, j)
    OBVIOUS
  <2> DEFINE T == {l \in I : l < j}
  <2>1. {l \in I : l < i} \subseteq T /\ i \in T
    <3>1. \A l \in I : l \in Nat
      OBVIOUS
    <3>2. \A l \in I : l < i => l < j
      BY <3>1
    <3> QED BY <3>2
  <2>2. IsFiniteSet(T) /\ Cardinality(T) = Before(I, j)
    BY <1>1 DEF Before
  <2> HIDE DEF T
  <2>3. Before(I, i) + 1 <= Cardinality(T)
    BY <1>3, <2>1, <2>2
  <2>4. Before(I, i) \in Nat /\ Before(I, j) \in Nat
    BY <1>1
  <2> QED BY <2>2, <2>3, <2>4
<1> QED BY <1>2, <1>4, <1>5

\* The numbers in order are all those of the set, and increase.
LEMMA InOrderLists ==
  ASSUME NEW I, IsFiniteSet(I), I \subseteq Nat
  PROVE  /\ Cardinality(I) \in Nat /\ DOMAIN InOrder(I) = 1 .. Cardinality(I)
         /\ \A k \in DOMAIN InOrder(I) : InOrder(I)[k] \in I
         /\ \A i \in I : \E k \in DOMAIN InOrder(I) : InOrder(I)[k] = i
         /\ \A k, l \in DOMAIN InOrder(I) : k < l => InOrder(I)[k] < InOrder(I)[l]
<1> DEFINE n == Cardinality(I)
           f == [i \in I |-> Before(I, i)]
<1>1. /\ n \in Nat /\ \A i \in I : Before(I, i) \in 0 .. n - 1
      /\ \A i, j \in I : i < j => Before(I, i) < Before(I, j)
  BY BeforeCounts
<1>2. DOMAIN InOrder(I) = 1 .. n /\ \A k \in 1 .. n : InOrder(I)[k] = CHOOSE i \in I : Before(I, i) = k - 1
  BY DEF InOrder, Before
<1>3. IsFiniteSet(0 .. n - 1) /\ Cardinality(0 .. n - 1) = n
  <2>1. CASE n = 0
    <3>1. 0 .. n - 1 = {}
      BY <2>1
    <3> QED BY <2>1, <3>1, FS_EmptySet
  <2>2. CASE n > 0
    <3>1. 0 \in Int /\ n - 1 \in Int /\ 0 <= n - 1 /\ (n - 1) - 0 + 1 = n
      BY <1>1, <2>2
    <3>2. IsFiniteSet(0 .. n - 1) /\ Cardinality(0 .. n - 1) = IF 0 > n - 1 THEN 0 ELSE (n - 1) - 0 + 1
      BY <3>1, FS_Interval
    <3> QED BY <3>1, <3>2
  <2> QED BY <1>1, <2>1, <2>2
<1>4. f \in Injection(I, 0 .. n - 1)
  <2>1. f \in [I -> 0 .. n - 1]
    BY <1>1
  <2>2. \A i, j \in I : Before(I, i) = Before(I, j) => i = j
    <3> SUFFICES ASSUME NEW i \in I, NEW j \in I, i # j PROVE Before(I, i) # Before(I, j)
      OBVIOUS
    <3>1. i < j \/ j < i
      OBVIOUS
    <3>2. Before(I, i) \in Int /\ Before(I, j) \in Int
      BY <1>1
    <3>3. Before(I, i) < Before(I, j) \/ Before(I, j) < Before(I, i)
      BY <1>1, <3>1
    <3> QED BY <3>2, <3>3
  <2>3. \A i, j \in I : f[i] = f[j] => i = j
    BY <2>2
  <2> HIDE DEF f
  <2> QED BY <2>1, <2>3 DEF Injection, IsInjective
<1>5. f \in Surjection(I, 0 .. n - 1)
  BY <1>3, <1>4, FS_Injection
<1>6. \A k \in 1 .. n : \E i \in I : Before(I, i) = k - 1
  <2> TAKE k \in 1 .. n
  <2>1. k - 1 \in 0 .. n - 1
    BY <1>1
  <2>2. \E i \in I : f[i] = k - 1
    BY <1>5, <2>1 DEF Surjection
  <2> QED BY <2>2
<1> HIDE DEF n
<1>7. \A k \in 1 .. n : InOrder(I)[k] \in I /\ Before(I, InOrder(I)[k]) = k - 1
  BY <1>2, <1>6
<1>8. \A k, l \in 1 .. n : k < l => InOrder(I)[k] < InOrder(I)[l]
  <2> SUFFICES ASSUME NEW k \in 1 .. n, NEW l \in 1 .. n, k < l
               PROVE  InOrder(I)[k] < InOrder(I)[l]
    OBVIOUS
  <2> DEFINE i == InOrder(I)[k]  j == InOrder(I)[l]
  <2>1. i \in I /\ j \in I /\ Before(I, i) < Before(I, j)
    BY <1>1, <1>7
  <2> HIDE DEF i, j
  <2>2. i \in Nat /\ j \in Nat /\ ~(j < i) /\ i # j
    BY <1>1, <2>1
  <2>3. i < j
    BY <2>2
  <2> QED BY <2>3 DEF i, j
<1>9. \A i \in I : \E k \in 1 .. n : InOrder(I)[k] = i
  <2> TAKE i \in I
  <2>1. Before(I, i) \in 0 .. n - 1
    BY <1>1 DEF n
  <2> DEFINE k == Before(I, i) + 1
  <2>2. k \in 1 .. n /\ k - 1 = Before(I, i)
    BY <1>1, <2>1 DEF n
  <2> HIDE DEF k
  <2>3. InOrder(I)[k] \in I /\ Before(I, InOrder(I)[k]) = Before(I, i)
    BY <1>7, <2>2
  <2> DEFINE j == InOrder(I)[k]
  <2>4. j \in Nat /\ i \in Nat /\ j \in I /\ Before(I, j) = Before(I, i)
    BY <2>3
  <2> HIDE DEF j
  <2>5. ~(j < i) /\ ~(i < j)
    BY <1>1, <2>1, <2>4
  <2>6. j = i
    BY <2>4, <2>5
  <2> QED BY <2>2, <2>6 DEF j
<1> QED BY <1>1, <1>2, <1>7, <1>8, <1>9 DEF n

\* A finite set of numbers that is not empty has a greatest.
LEMMA HasGreatest ==
  ASSUME NEW I, IsFiniteSet(I), I \subseteq Nat, I # {}
  PROVE  \E i \in I : \A j \in I : i >= j
<1> DEFINE n == Cardinality(I)
<1>1. /\ n \in Nat /\ DOMAIN InOrder(I) = 1 .. n
      /\ \A k \in DOMAIN InOrder(I) : InOrder(I)[k] \in I
      /\ \A i \in I : \E k \in DOMAIN InOrder(I) : InOrder(I)[k] = i
      /\ \A k, l \in DOMAIN InOrder(I) : k < l => InOrder(I)[k] < InOrder(I)[l]
  BY InOrderLists
<1> HIDE DEF n
<1>2. n \in 1 .. n
  <2>1. PICK i \in I : TRUE
    OBVIOUS
  <2>2. PICK k \in 1 .. n : InOrder(I)[k] = i
    BY <1>1, <2>1
  <2> QED BY <1>1, <2>2
<1>3. \A j \in I : InOrder(I)[n] >= j
  <2> TAKE j \in I
  <2>1. PICK k \in 1 .. n : InOrder(I)[k] = j
    BY <1>1
  <2>2. k = n \/ k < n
    BY <1>1
  <2>3. InOrder(I)[n] \in Nat
    BY <1>1, <1>2
  <2> QED BY <1>1, <1>2, <2>1, <2>2, <2>3
<1> QED BY <1>1, <1>2, <1>3

\* What is kept of a sequence is a sequence of its elements in A, and all of them.
LEMMA ThoseAre ==
  ASSUME NEW S, NEW s \in Seq(S), NEW A
  PROVE  /\ Those(s, A) \in Seq(S)
         /\ \A k \in DOMAIN Those(s, A) : Those(s, A)[k] \in A /\ \E i \in DOMAIN s : Those(s, A)[k] = s[i]
         /\ \A i \in DOMAIN s : s[i] \in A => \E k \in DOMAIN Those(s, A) : Those(s, A)[k] = s[i]
<1> DEFINE I == {i \in DOMAIN s : s[i] \in A}
           at == InOrder(I)
<1>1. DOMAIN s = 1 .. Len(s) /\ Len(s) \in Nat
  OBVIOUS
<1>2. IsFiniteSet(1 .. Len(s))
  BY <1>1, FS_Interval
<1>3. I \subseteq 1 .. Len(s)
  BY <1>1
<1>4. IsFiniteSet(I) /\ I \subseteq Nat
  BY <1>2, <1>3, FS_Subset
<1>5. \A i : i \in I <=> i \in DOMAIN s /\ s[i] \in A
  OBVIOUS
<1> HIDE DEF I
<1>6. /\ Cardinality(I) \in Nat /\ DOMAIN at = 1 .. Cardinality(I)
      /\ \A k \in DOMAIN at : at[k] \in I
      /\ \A i \in I : \E k \in DOMAIN at : at[k] = i
  BY <1>4, InOrderLists
<1>7. Those(s, A) = [k \in DOMAIN at |-> s[at[k]]]
  BY DEF Those, I
<1> HIDE DEF at
<1>8. Those(s, A) \in Seq(S)
  <2>1. \A k \in 1 .. Cardinality(I) : s[at[k]] \in S
    BY <1>5, <1>6
  <2> QED BY <1>6, <1>7, <2>1
<1>9. \A k \in DOMAIN Those(s, A) : Those(s, A)[k] \in A /\ \E i \in DOMAIN s : Those(s, A)[k] = s[i]
  BY <1>5, <1>6, <1>7
<1>10. \A i \in DOMAIN s : s[i] \in A => \E k \in DOMAIN Those(s, A) : Those(s, A)[k] = s[i]
  BY <1>5, <1>6, <1>7
<1> QED BY <1>8, <1>9, <1>10

-----------------------------------------------------------------------------
(* RpcServer *)

\* What the requests, the sessions and the clean-up leave to each other
RpcAssumption == KindAssumption /\ SessionAssumption /\ BatchAssumption

\* A sequence with one element replaced
LEMMA Replaced ==
  ASSUME NEW S, NEW s \in Seq(S), NEW i \in DOMAIN s, NEW x \in S
  PROVE  /\ [s EXCEPT ![i] = x] \in Seq(S) /\ DOMAIN [s EXCEPT ![i] = x] = DOMAIN s
         /\ [s EXCEPT ![i] = x][i] = x
         /\ \A j \in DOMAIN s : j # i => [s EXCEPT ![i] = x][j] = s[j]
OBVIOUS

\* The session that a request is handed, and what is left to the other DIDs.
LEMMA ContextMade ==
  ASSUME RpcAssumption, RpcTypeOK, SessionsInv, NEW c \in Conn, NEW i, InjectContext(c, i)
  PROVE  LET d == caller[c]
             gone(q) == sessions[q] = NoSession \/ sessions[q].accessed + SessionTimeout < rpcClock
         IN
         /\ d \in Did /\ GetOrCreate(d) \in Session /\ IdleOf(d) \in Time
         /\ IdleOf(d) < SessionTimeout + CleanupInterval
         /\ sessions'[d] = GetOrCreate(d) /\ GetOrCreate(d).accessed = rpcClock
         /\ \/ sessions[d] # NoSession /\ GetOrCreate(d).created = sessions[d].created
            \/ gone(d) /\ GetOrCreate(d).created = rpcClock
         /\ \A q \in Did : q # d =>
              sessions'[q] = sessions[q] \/ (sessions'[q] = NoSession /\ gone(q))
         /\ lastCleanup' \in {lastCleanup, rpcClock}
         /\ \A q \in Did : q # d /\ sessions'[q] # NoSession /\ dialect # "anp4j" =>
              lastCleanup' <= sessions[q].accessed + SessionTimeout
         /\ sessions' \in [Did -> Session \union {NoSession}]
<1> DEFINE d == caller[c]
<1>1. /\ d \in Did /\ rpcClock \in Nat /\ lastCleanup \in Nat /\ lastCleanup <= rpcClock
      /\ rpcClock \in Time /\ rpcClock <= MaxRpcClock /\ MaxRpcClock \in Nat
      /\ SessionTimeout \in Nat /\ CleanupInterval \in Nat \ {0} /\ NoSession \notin Session
  BY DEF RpcTypeOK, RpcAssumption, SessionAssumption, BatchAssumption, SessionsInv, Time
<1>2. \A q \in Did : sessions[q] # NoSession =>
        /\ sessions[q] \in Session
        /\ sessions[q].created \in Time /\ sessions[q].accessed \in Time
        /\ sessions[q].created \in Nat /\ sessions[q].accessed \in Nat
        /\ sessions[q].created <= sessions[q].accessed /\ sessions[q].accessed <= rpcClock
        /\ dialect # "anp4j" => lastCleanup <= sessions[q].accessed + SessionTimeout
  BY DEF RpcTypeOK, SessionsInv, Session, Time
<1>3. \A q \in Did : Expired(q) <=>
        sessions[q] # NoSession /\ sessions[q].accessed + SessionTimeout < rpcClock
  BY <1>1, <1>2 DEF Expired
<1>4. \A q \in Did : /\ Kept[q] = sessions[q] \/ (Kept[q] = NoSession /\ Expired(q))
                     /\ Expired(q) /\ CleanupIsDue /\ dialect # "anp4j" => Kept[q] = NoSession
                     /\ dialect = "anp4j" => Kept[q] = sessions[q]
  BY DEF Kept
<1>5. \/ Current(d) = NoSession /\ (sessions[d] = NoSession \/ Expired(d))
      \/ /\ Current(d) = sessions[d] /\ sessions[d] # NoSession
         /\ rpcClock - sessions[d].accessed < SessionTimeout + CleanupInterval
  <2>1. CASE dialect = "anp4j"
    <3>0. Current(d) = IF Expired(d) THEN NoSession ELSE sessions[d]
      BY <1>1, <1>4, <2>1 DEF Current
    <3>1. CASE Expired(d) \/ sessions[d] = NoSession
      BY <3>0, <3>1
    <3>2. CASE ~Expired(d) /\ sessions[d] # NoSession
      <4>1. Current(d) = sessions[d]
        BY <3>0, <3>2
      <4>2. rpcClock - sessions[d].accessed < SessionTimeout + CleanupInterval
        BY <1>1, <1>2, <1>3, <3>2
      <4> QED BY <3>2, <4>1, <4>2
    <3> QED BY <3>1, <3>2
  <2>2. CASE dialect # "anp4j" /\ Kept[d] = NoSession
    BY <1>1, <1>4, <2>2 DEF Current
  <2>3. CASE dialect # "anp4j" /\ Kept[d] # NoSession
    <3>1. Current(d) = sessions[d] /\ sessions[d] # NoSession
      BY <1>1, <1>4, <2>3 DEF Current
    <3>2. Expired(d) => ~CleanupIsDue
      BY <1>1, <1>4, <2>3
    <3>3. CASE Expired(d)
      BY <1>1, <1>2, <2>3, <3>1, <3>2, <3>3 DEF CleanupIsDue
    <3>4. CASE ~Expired(d)
      BY <1>1, <1>2, <1>3, <3>1, <3>4
    <3> QED BY <3>1, <3>3, <3>4
  <2> QED BY <2>1, <2>2, <2>3
<1>6. /\ GetOrCreate(d) \in Session /\ GetOrCreate(d).accessed = rpcClock
      /\ \/ sessions[d] # NoSession /\ GetOrCreate(d).created = sessions[d].created
         \/ /\ sessions[d] = NoSession \/ Expired(d)
            /\ GetOrCreate(d).created = rpcClock
      /\ IdleOf(d) \in Time /\ IdleOf(d) < SessionTimeout + CleanupInterval
  <2>1. CASE Current(d) = NoSession /\ (sessions[d] = NoSession \/ Expired(d))
    <3>1. GetOrCreate(d) = [created |-> rpcClock, accessed |-> rpcClock] /\ IdleOf(d) = 0
      BY <2>1 DEF GetOrCreate, IdleOf
    <3> QED BY <1>1, <2>1, <3>1 DEF Session, Time
  <2>2. CASE /\ Current(d) = sessions[d] /\ sessions[d] # NoSession
             /\ rpcClock - sessions[d].accessed < SessionTimeout + CleanupInterval
    <3>1. GetOrCreate(d) = [sessions[d] EXCEPT !.accessed = rpcClock]
          /\ IdleOf(d) = rpcClock - sessions[d].accessed
      BY <2>2 DEF GetOrCreate, IdleOf, Touched
    <3>2. sessions[d] \in Session
      BY <1>1, <1>2, <2>2
    <3>3. /\ [sessions[d] EXCEPT !.accessed = rpcClock] \in Session
          /\ [sessions[d] EXCEPT !.accessed = rpcClock].accessed = rpcClock
          /\ [sessions[d] EXCEPT !.accessed = rpcClock].created = sessions[d].created
      BY <1>1, <3>2 DEF Session
    <3>4. rpcClock - sessions[d].accessed \in Time
      BY <1>1, <1>2, <2>2 DEF Time
    <3> QED BY <2>2, <3>1, <3>3, <3>4
  <2> QED BY <1>5, <2>1, <2>2
<1>7. /\ lastCleanup' = IF dialect # "anp4j" /\ CleanupIsDue THEN rpcClock ELSE lastCleanup
      /\ sessions' = [Kept EXCEPT ![d] = GetOrCreate(d)]
  BY DEF InjectContext
<1>8. Kept \in [Did -> Session \union {NoSession}]
  BY <1>2 DEF Kept
<1>9. /\ sessions'[d] = GetOrCreate(d) /\ \A q \in Did : q # d => sessions'[q] = Kept[q]
      /\ sessions' \in [Did -> Session \union {NoSession}]
  BY <1>1, <1>6, <1>7, <1>8
<1>10. ASSUME NEW q \in Did, q # d, sessions'[q] # NoSession, dialect # "anp4j"
       PROVE  lastCleanup' <= sessions[q].accessed + SessionTimeout
  <2>1. Kept[q] = sessions[q] /\ sessions[q] # NoSession /\ ~(Expired(q) /\ CleanupIsDue)
    BY <1>4, <1>9, <1>10
  <2>2. CASE CleanupIsDue
    BY <1>1, <1>2, <1>3, <1>7, <1>10, <2>1, <2>2
  <2>3. CASE ~CleanupIsDue
    BY <1>2, <1>7, <1>10, <2>1, <2>3
  <2> QED BY <2>2, <2>3
<1>11. \A q \in Did : q # d =>
         \/ sessions'[q] = sessions[q]
         \/ /\ sessions'[q] = NoSession
            /\ sessions[q] = NoSession \/ sessions[q].accessed + SessionTimeout < rpcClock
  BY <1>3, <1>4, <1>9
<1>12. lastCleanup' \in {lastCleanup, rpcClock}
  BY <1>7
<1> QED BY <1>1, <1>3, <1>6, <1>9, <1>10, <1>11, <1>12

\* The sessions held by one connection, and whose they are
LEMMA HeldAtIs ==
  ASSUME RpcTypeOK, LengthsInv, NEW c \in Conn
  PROVE  /\ \A h : h \in HeldAt(c) <=> \E i \in Requests(c) : h = held[c][i] /\ h # NoSession
         /\ HeldAt(c) \subseteq Held
<1>1. held[c] \in Seq(Held \union {NoSession}) /\ DOMAIN held[c] = Requests(c)
  BY DEF RpcTypeOK, LengthsInv
<1>2. \A i \in Requests(c) : held[c][i] \in Held \union {NoSession}
  BY <1>1
<1> QED BY <1>2 DEF HeldAt

\* With its context made, a request holds the session its DID has; the others hold what they did.
LEMMA HeldGrows ==
  ASSUME RpcAssumption, RpcTypeOK, LengthsInv, SessionsInv, NEW c \in Conn, NEW i \in Requests(c),
         InjectContext(c, i), batch' = batch
  PROVE  LET d == caller[c]
             new == [did |-> d, created |-> GetOrCreate(d).created, since |-> rpcClock,
                     idle |-> IdleOf(d)]
         IN
         /\ new \in Held /\ held' \in [Conn -> Seq(Held \union {NoSession})]
         /\ \A e \in Conn : DOMAIN held'[e] = DOMAIN held[e]
         /\ \A e \in Conn : \A h \in HeldAt(e)' : h \in HeldAt(e) \/ h = new
<1> DEFINE d == caller[c]
           new == [did |-> d, created |-> GetOrCreate(d).created, since |-> rpcClock,
                   idle |-> IdleOf(d)]
<1>1. /\ d \in Did /\ GetOrCreate(d).created \in Time /\ IdleOf(d) \in Time /\ rpcClock \in Time
  BY ContextMade DEF Session, RpcTypeOK
<1>2. new \in Held
  BY <1>1 DEF Held
<1>3. held' = [held EXCEPT ![c][i] = new]
  BY DEF InjectContext
<1> HIDE DEF new
<1>4. /\ held \in [Conn -> Seq(Held \union {NoSession})]
      /\ \A e \in Conn : DOMAIN held[e] = Requests(e)
  BY DEF RpcTypeOK, LengthsInv
<1>5. held[c] \in Seq(Held \union {NoSession}) /\ i \in DOMAIN held[c]
  BY <1>4
<1>6. /\ [held[c] EXCEPT ![i] = new] \in Seq(Held \union {NoSession})
      /\ DOMAIN [held[c] EXCEPT ![i] = new] = DOMAIN held[c]
      /\ [held[c] EXCEPT ![i] = new][i] = new
      /\ \A j \in DOMAIN held[c] : j # i => [held[c] EXCEPT ![i] = new][j] = held[c][j]
  BY <1>2, <1>5, Replaced
<1>7. held'[c] = [held[c] EXCEPT ![i] = new] /\ \A e \in Conn : e # c => held'[e] = held[e]
  BY <1>3, <1>4
<1>8. held' \in [Conn -> Seq(Held \union {NoSession})]
  BY <1>3, <1>4, <1>6
<1>9. \A e \in Conn : DOMAIN held'[e] = DOMAIN held[e]
  BY <1>6, <1>7
<1>10. \A e \in Conn : \A h \in HeldAt(e)' : h \in HeldAt(e) \/ h = new
  <2> SUFFICES ASSUME NEW e \in Conn, NEW h \in HeldAt(e)' PROVE h \in HeldAt(e) \/ h = new
    OBVIOUS
  <2>1. PICK j \in Requests(e) : h = held'[e][j] /\ h # NoSession
    BY DEF HeldAt, Requests
  <2>2. h = held[e][j] \/ h = new
    BY <1>4, <1>6, <1>7, <2>1
  <2> QED BY <2>1, <2>2, HeldAtIs
<1> QED BY <1>2, <1>8, <1>9, <1>10 DEF new

\* Making a context keeps what is known of sessions and of their holders.
LEMMA ContextKeeps ==
  ASSUME RpcAssumption, RpcIInv, NEW c \in Conn, NEW i \in Requests(c), InjectContext(c, i),
         UNCHANGED <<dialect, rpcClock, batch, snatched>>
  PROVE  SessionsInv' /\ HeldInv' /\ OneSession'
<1> DEFINE d == caller[c]
           G == GetOrCreate(d)
           new == [did |-> d, created |-> G.created, since |-> rpcClock, idle |-> IdleOf(d)]
           gone(q) == sessions[q] = NoSession \/ sessions[q].accessed + SessionTimeout < rpcClock
<1>0. RpcTypeOK /\ LengthsInv /\ SessionsInv /\ HeldInv /\ OneSession
  BY DEF RpcIInv
<1>1. /\ d \in Did /\ G \in Session /\ IdleOf(d) \in Time
      /\ IdleOf(d) < SessionTimeout + CleanupInterval
      /\ sessions'[d] = G /\ G.accessed = rpcClock
      /\ \/ sessions[d] # NoSession /\ G.created = sessions[d].created
         \/ gone(d) /\ G.created = rpcClock
      /\ \A q \in Did : q # d =>
           sessions'[q] = sessions[q] \/ (sessions'[q] = NoSession /\ gone(q))
      /\ lastCleanup' \in {lastCleanup, rpcClock}
      /\ \A q \in Did : q # d /\ sessions'[q] # NoSession /\ dialect # "anp4j" =>
           lastCleanup' <= sessions[q].accessed + SessionTimeout
  BY <1>0, ContextMade
<1>2. /\ new \in Held
      /\ \A e \in Conn : \A h \in HeldAt(e)' : h \in HeldAt(e) \/ h = new
  BY <1>0, HeldGrows
<1>3. /\ new.did = d /\ new.created = G.created /\ new.since = rpcClock /\ new.idle = IdleOf(d)
      /\ G.created \in Nat /\ rpcClock \in Nat /\ lastCleanup \in Nat /\ SessionTimeout \in Nat
      /\ NoSession \notin Session
  BY <1>0, <1>1 DEF Session, RpcTypeOK, Time, RpcAssumption, SessionAssumption, BatchAssumption
<1>4. \A q \in Did : sessions[q] # NoSession =>
        /\ sessions[q].created \in Nat /\ sessions[q].accessed \in Nat
        /\ sessions[q].created <= sessions[q].accessed /\ sessions[q].accessed <= rpcClock
  BY <1>0 DEF RpcTypeOK, SessionsInv, Session, Time
<1>5. \A e \in Conn : \A h \in HeldAt(e) :
        h.did \in Did /\ h.created \in Nat /\ h.since \in Nat /\ h \in Held
  <2> TAKE e \in Conn
  <2>1. HeldAt(e) \subseteq Held
    BY <1>0, HeldAtIs
  <2> QED BY <2>1 DEF Held, Time
<1> HIDE DEF d, G, new
<1>6. G.created <= rpcClock
  BY <1>1, <1>3, <1>4
<1>7. SessionsInv'
  <2>1. lastCleanup' <= rpcClock
    BY <1>0, <1>1, <1>3 DEF SessionsInv
  <2>2. ASSUME NEW q \in Did, sessions'[q] # NoSession
        PROVE  /\ sessions'[q].created <= sessions'[q].accessed /\ sessions'[q].accessed <= rpcClock
               /\ dialect # "anp4j" => lastCleanup' <= sessions'[q].accessed + SessionTimeout
    <3>1. CASE q = d
      BY <1>1, <1>3, <1>6, <2>1, <3>1
    <3>2. CASE q # d
      BY <1>1, <1>4, <2>2, <3>2
    <3> QED BY <3>1, <3>2
  <2> QED BY <2>1, <2>2 DEF SessionsInv
<1>8. ASSUME NEW e \in Conn, NEW h \in HeldAt(e)'
      PROVE  /\ h.created <= h.since /\ h.since <= rpcClock
             /\ h.idle < SessionTimeout + CleanupInterval
             /\ h.did \in Did /\ h.created \in Nat /\ h.since \in Nat
             /\ h.did \notin snatched =>
                  IF sessions'[h.did] = NoSession THEN h.since + SessionTimeout < rpcClock
                  ELSE \/ /\ h.created = sessions'[h.did].created
                          /\ h.since <= sessions'[h.did].accessed
                       \/ h.since + SessionTimeout < sessions'[h.did].created
  <2>1. CASE h = new
    BY <1>1, <1>3, <1>6, <2>1
  <2>2. CASE h \in HeldAt(e)
    <3> DEFINE q == h.did
    <3>1. /\ h.created <= h.since /\ h.since <= rpcClock
          /\ h.idle < SessionTimeout + CleanupInterval
          /\ q \in Did /\ h.created \in Nat /\ h.since \in Nat
          /\ q \notin snatched =>
               IF sessions[q] = NoSession THEN h.since + SessionTimeout < rpcClock
               ELSE \/ h.created = sessions[q].created /\ h.since <= sessions[q].accessed
                    \/ h.since + SessionTimeout < sessions[q].created
      BY <1>0, <1>5, <2>2 DEF HeldInv
    <3> HIDE DEF q
    <3>2. q \notin snatched /\ gone(q) => h.since + SessionTimeout < rpcClock
      BY <1>3, <1>4, <3>1
    <3>3. CASE q # d
      <4>1. CASE sessions'[q] = sessions[q]
        BY <3>1, <4>1 DEF q
      <4>2. CASE sessions'[q] = NoSession /\ gone(q)
        BY <3>1, <3>2, <4>2 DEF q
      <4> QED BY <1>1, <3>1, <3>3, <4>1, <4>2
    <3>4. CASE q = d
      <4>1. sessions'[q] # NoSession /\ sessions'[q] = G
        BY <1>1, <1>3, <3>4
      <4>2. CASE sessions[d] # NoSession /\ G.created = sessions[d].created
        BY <1>1, <1>3, <3>1, <3>4, <4>1, <4>2 DEF q
      <4>3. CASE gone(d) /\ G.created = rpcClock
        BY <1>1, <1>3, <3>1, <3>2, <3>4, <4>1, <4>3 DEF q
      <4> QED BY <1>1, <4>2, <4>3
    <3> QED BY <3>3, <3>4
  <2> QED BY <1>2, <2>1, <2>2
<1>9. HeldInv'
  BY <1>8 DEF HeldInv
<1>10. OneSession'
  <2> SUFFICES ASSUME NEW e \in Conn, NEW f \in Conn, NEW h \in HeldAt(e)', NEW g \in HeldAt(f)',
                      h.did = g.did, h.created < g.created, h.did \notin snatched
               PROVE  h.since + SessionTimeout < g.created
    BY <1>8 DEF OneSession
  <2>1. CASE h \in HeldAt(e) /\ g \in HeldAt(f)
    BY <1>0, <2>1 DEF OneSession
  <2>2. CASE g = new
    <3>1. sessions'[h.did] = G /\ G # NoSession
      BY <1>1, <1>3, <2>2
    <3>2. h.created # G.created /\ g.created = G.created
      BY <1>3, <1>8, <2>2
    <3> QED BY <1>8, <3>1, <3>2
  <2>3. CASE h = new
    <3>1. sessions'[g.did] = G /\ G # NoSession /\ h.created = G.created
      BY <1>1, <1>3, <2>3
    <3>2. g.created = G.created \/ g.since + SessionTimeout < G.created
      BY <1>8, <3>1
    <3> QED BY <1>3, <1>8, <3>1, <3>2
  <2> QED BY <1>2, <2>1, <2>2, <2>3
<1> QED BY <1>7, <1>9, <1>10

\* A method that was called is answered with a code.
LEMMA AnswersAreCodes == \A kind : AnswerTo(kind) \in Code
<1>1. \A kind \in DOMAIN Raised : Raised[kind] \in Code
  BY DEF Raised, Code
<1> QED BY <1>1 DEF AnswerTo, Code

\* What a request comes to without a call is its outcome; the codes are as they should be.
LEMMA Outcomes ==
  /\ \A kind \in DOMAIN Refusals : Refusals[kind] = Outcome(kind) /\ Refusals[kind] \in Code
  /\ "badParams" \notin DOMAIN Refusals => Outcome("badParams") = "-32602"
  /\ \A kind : kind \notin DOMAIN Refusals \union {"badParams"} =>
       Outcome(kind) = AnswerTo(kind)
<1>1. Refusals \in {OpenanpRefusals, FastanpRefusals, Anp4jRefusals}
  BY DEF Refusals
<1>2. \A kind \in DOMAIN Refusals : Refusals[kind] \in Code
  BY <1>1 DEF OpenanpRefusals, FastanpRefusals, Anp4jRefusals, Lacking, Code
<1>4. \A kind \in DOMAIN Refusals : Refusals[kind] = Outcome(kind)
  BY DEF Outcome
<1>5. "badParams" \notin DOMAIN Refusals => Outcome("badParams") = "-32602"
  BY DEF Outcome
<1>6. \A kind : kind \notin DOMAIN Refusals \union {"badParams"} =>
        Outcome(kind) = AnswerTo(kind)
  BY DEF Outcome
<1> QED BY <1>2, <1>4, <1>5, <1>6

\* The outcomes are those of the dialect.
LEMMA OutcomesStay ==
  ASSUME dialect' = dialect
  PROVE  Refusals' = Refusals /\ \A kind : Outcome(kind)' = Outcome(kind)
BY DEF Refusals, OpenanpRefusals, FastanpRefusals, Anp4jRefusals, Lacking, Outcome,
       AnswerTo, Raised

\* A step of an item of a batch
ItemSteps(c, i, at, code) ==
  /\ Becomes(c, i, at, code)
  /\ InjectContext(c, i) \/ UNCHANGED <<sessions, lastCleanup, held>>
  /\ progress[c][i] # "done"
  /\ at = "done" => code = Outcome(batch[c][i].kind)
  /\ at = "running" => batch[c][i].kind \notin DOMAIN Refusals \union {"badParams"}

\* What an item of a batch does is such a step.
LEMMA ItemsStep ==
  ASSUME RpcTypeOK, NEW c \in Conn, NEW i \in Requests(c),
         Refuse(c, i) \/ Call(c, i) \/ CallWrongly(c, i) \/ Return(c, i),
         progress[c][i] = "running" => batch[c][i].kind \notin DOMAIN Refusals \union {"badParams"}
  PROVE  \E at \in {"running", "done"}, code \in Code : ItemSteps(c, i, at, code)
<1>1. CASE Refuse(c, i)
  <2> DEFINE code == Refusals[batch[c][i].kind]
  <2>1. code \in Code /\ code = Outcome(batch[c][i].kind)
    BY <1>1, Outcomes DEF Refuse
  <2>2. Becomes(c, i, "done", code) /\ progress[c][i] # "done"
    BY <1>1 DEF Refuse, Starts
  <2>3. InjectContext(c, i) \/ UNCHANGED <<sessions, lastCleanup, held>>
    BY <1>1 DEF Refuse
  <2> HIDE DEF code
  <2>4. ItemSteps(c, i, "done", code)
    BY <2>1, <2>2, <2>3 DEF ItemSteps
  <2> QED BY <2>1, <2>4
<1>2. CASE Call(c, i)
  <2>1. Becomes(c, i, "running", "none") /\ progress[c][i] # "done"
        /\ batch[c][i].kind \notin DOMAIN Refusals \union {"badParams"}
    BY <1>2 DEF Call, Starts
  <2>2. InjectContext(c, i) \/ UNCHANGED <<sessions, lastCleanup, held>>
    BY <1>2 DEF Call
  <2>3. ItemSteps(c, i, "running", "none") /\ "none" \in Code
    BY <2>1, <2>2 DEF ItemSteps, Code
  <2> QED BY <2>3
<1>3. CASE CallWrongly(c, i)
  <2>1. "badParams" \notin DOMAIN Refusals
    <3>1. dialect # "anp4j" /\ dialect \in {"openanp", "fastanp", "anp4j"}
      BY <1>3 DEF CallWrongly, RpcTypeOK
    <3>2. Refusals \in {OpenanpRefusals, FastanpRefusals}
      BY <3>1 DEF Refusals
    <3> QED BY <3>2 DEF OpenanpRefusals, FastanpRefusals
  <2>2. Becomes(c, i, "done", "-32602") /\ progress[c][i] # "done" /\ InjectContext(c, i)
        /\ "-32602" = Outcome(batch[c][i].kind)
    BY <1>3, <2>1, Outcomes DEF CallWrongly, Starts
  <2>3. ItemSteps(c, i, "done", "-32602") /\ "-32602" \in Code
    BY <2>2 DEF ItemSteps, Code
  <2> QED BY <2>3
<1>4. CASE Return(c, i)
  <2> DEFINE code == AnswerTo(batch[c][i].kind)
  <2>1. progress[c][i] = "running" /\ Becomes(c, i, "done", code)
        /\ UNCHANGED <<sessions, lastCleanup, held>>
    BY <1>4 DEF Return
  <2>2. code \in Code /\ code = Outcome(batch[c][i].kind)
    BY <2>1, Outcomes, AnswersAreCodes
  <2> HIDE DEF code
  <2>3. ItemSteps(c, i, "done", code)
    BY <2>1, <2>2 DEF ItemSteps
  <2> QED BY <2>2, <2>3
<1> QED BY <1>1, <1>2, <1>3, <1>4

\* A step of an item keeps what is inductive.
LEMMA ItemKeeps ==
  ASSUME RpcAssumption, RpcIInv, NEW c \in Conn, NEW i \in Requests(c),
         NEW at \in {"running", "done"}, NEW code \in Code, ItemSteps(c, i, at, code)
  PROVE  RpcIInv'
<1>0. RpcTypeOK /\ LengthsInv /\ SessionsInv /\ HeldInv /\ AnsweredInv /\ OneSession
  BY DEF RpcIInv
<1>1. /\ progress' = [progress EXCEPT ![c][i] = at]
      /\ answers' = [answers EXCEPT ![c][i] = code]
      /\ UNCHANGED <<dialect, rpcClock, caller, batch, reply, sweepVars>>
      /\ InjectContext(c, i) \/ UNCHANGED <<sessions, lastCleanup, held>>
      /\ progress[c][i] # "done"
      /\ at = "done" => code = Outcome(batch[c][i].kind)
      /\ at = "running" => batch[c][i].kind \notin DOMAIN Refusals \union {"badParams"}
  BY DEF ItemSteps, Becomes
<1>2. UNCHANGED <<dialect, rpcClock, caller, batch, reply, toSweep, doomed, snatched>>
  BY <1>1 DEF sweepVars
<1>3. SessionsInv' /\ HeldInv' /\ OneSession'
  <2>1. CASE InjectContext(c, i)
    BY <1>2, <2>1, ContextKeeps
  <2>2. CASE UNCHANGED <<sessions, lastCleanup, held>>
    <3>1. \A e : HeldAt(e)' = HeldAt(e)
      BY <1>2, <2>2 DEF HeldAt, Requests
    <3> QED BY <1>0, <1>2, <2>2, <3>1 DEF SessionsInv, HeldInv, OneSession
  <2> QED BY <1>1, <2>1, <2>2
<1>4. /\ sessions' \in [Did -> Session \union {NoSession}] /\ lastCleanup' \in Time
      /\ held' \in [Conn -> Seq(Held \union {NoSession})]
      /\ \A e \in Conn : DOMAIN held'[e] = DOMAIN held[e]
  <2>1. CASE InjectContext(c, i)
    <3>1. sessions' \in [Did -> Session \union {NoSession}] /\ lastCleanup' \in {lastCleanup, rpcClock}
      BY <1>0, <2>1, ContextMade
    <3>2. /\ held' \in [Conn -> Seq(Held \union {NoSession})]
          /\ \A e \in Conn : DOMAIN held'[e] = DOMAIN held[e]
      BY <1>0, <1>2, <2>1, HeldGrows
    <3> QED BY <1>0, <3>1, <3>2 DEF RpcTypeOK
  <2>2. CASE UNCHANGED <<sessions, lastCleanup, held>>
    BY <1>0, <2>2 DEF RpcTypeOK
  <2> QED BY <1>1, <2>1, <2>2
<1> DEFINE St == {"waiting", "running", "done"}
<1>5. /\ progress \in [Conn -> Seq(St)] /\ answers \in [Conn -> Seq(Code)]
      /\ i \in DOMAIN progress[c] /\ i \in DOMAIN answers[c] /\ at \in St
      /\ progress[c] \in Seq(St) /\ answers[c] \in Seq(Code)
  BY <1>0 DEF RpcTypeOK, LengthsInv
<1> HIDE DEF St
<1>6. /\ [progress[c] EXCEPT ![i] = at] \in Seq(St)
      /\ DOMAIN [progress[c] EXCEPT ![i] = at] = DOMAIN progress[c]
      /\ [progress[c] EXCEPT ![i] = at][i] = at
      /\ \A j \in DOMAIN progress[c] : j # i => [progress[c] EXCEPT ![i] = at][j] = progress[c][j]
  BY <1>5, Replaced
<1>7. /\ [answers[c] EXCEPT ![i] = code] \in Seq(Code)
      /\ DOMAIN [answers[c] EXCEPT ![i] = code] = DOMAIN answers[c]
      /\ [answers[c] EXCEPT ![i] = code][i] = code
      /\ \A j \in DOMAIN answers[c] : j # i => [answers[c] EXCEPT ![i] = code][j] = answers[c][j]
  BY <1>5, Replaced
<1>8. /\ progress'[c] = [progress[c] EXCEPT ![i] = at]
      /\ answers'[c] = [answers[c] EXCEPT ![i] = code]
      /\ \A e \in Conn : e # c => progress'[e] = progress[e] /\ answers'[e] = answers[e]
  BY <1>1, <1>5
<1>9. progress' \in [Conn -> Seq(St)] /\ answers' \in [Conn -> Seq(Code)]
  BY <1>1, <1>5, <1>6, <1>7
<1>10. RpcTypeOK'
  BY <1>0, <1>2, <1>4, <1>9 DEF RpcTypeOK, St
<1>11. LengthsInv'
  BY <1>0, <1>2, <1>4, <1>6, <1>7, <1>8 DEF LengthsInv, Requests
<1>12. AnsweredInv'
  <2>1. Refusals' = Refusals /\ \A kind : Outcome(kind)' = Outcome(kind)
    BY <1>2, OutcomesStay
  <2>2. ASSUME NEW e \in Conn, NEW j \in Requests(e)
        PROVE  /\ progress'[e][j] = "done" => answers'[e][j] = Outcome(batch[e][j].kind)
               /\ progress'[e][j] = "running" =>
                    batch[e][j].kind \notin DOMAIN Refusals \union {"badParams"}
               /\ progress[e][j] = "done" => progress'[e][j] = "done"
    <3>1. j \in DOMAIN progress[e] /\ j \in DOMAIN answers[e]
      BY <1>0 DEF LengthsInv
    <3>2. CASE e = c /\ j = i
      BY <1>1, <1>6, <1>7, <1>8, <3>2
    <3>3. CASE ~(e = c /\ j = i)
      <4>1. progress'[e][j] = progress[e][j] /\ answers'[e][j] = answers[e][j]
        BY <1>6, <1>7, <1>8, <3>1, <3>3
      <4> QED BY <1>0, <4>1 DEF AnsweredInv
    <3> QED BY <3>2, <3>3
  <2>3. ASSUME NEW e \in Conn
        PROVE  /\ reply[e] # "none" => Requests(e) # {}
               /\ reply[e] = "responses" => \A j \in Requests(e) : progress'[e][j] = "done"
    BY <1>0, <2>2 DEF AnsweredInv
  <2>4. \A e : Requests(e)' = Requests(e)
    BY <1>2 DEF Requests
  <2>5. \A e \in Conn : \A j \in Requests(e) : Outcome(batch[e][j].kind)' = Outcome(batch[e][j].kind)
    BY <1>2 DEF Outcome, Refusals, OpenanpRefusals, FastanpRefusals, Anp4jRefusals, Lacking,
       AnswerTo, Raised
  <2> QED BY <1>2, <2>1, <2>2, <2>3, <2>4, <2>5 DEF AnsweredInv
<1> QED BY <1>3, <1>10, <1>11, <1>12 DEF RpcIInv

\* What time and the clean-up thread do, as long as it removes nothing
TimePasses ==
  /\ UNCHANGED <<dialect, sessions, caller, batch, progress, held, answers, reply, snatched>>
  /\ rpcClock' \in Time /\ rpcClock <= rpcClock' /\ lastCleanup' \in Time
  /\ lastCleanup' = lastCleanup \/ (dialect = "anp4j" /\ lastCleanup' <= rpcClock')
  /\ toSweep' \subseteq Did /\ doomed' \in Did \union {NoSession}

LEMMA TimeSteps ==
  ASSUME RpcAssumption, RpcTypeOK,
         UNCHANGED rpcVars \/ Tick \/ StartSweep \/ \E d \in Did : SweepLooks(d)
  PROVE  TimePasses
<1>1. rpcClock \in Nat /\ MaxRpcClock \in Nat /\ rpcClock \in Time /\ lastCleanup \in Time
      /\ toSweep \subseteq Did /\ doomed \in Did \union {NoSession}
  BY DEF RpcTypeOK, Time, RpcAssumption, SessionAssumption
<1>2. CASE UNCHANGED rpcVars
  BY <1>1, <1>2 DEF rpcVars, sweepVars, TimePasses
<1>3. CASE Tick
  <2>1. rpcClock' \in Time
    BY <1>1, <1>3 DEF Tick, Time
  <2> QED BY <1>1, <1>3, <2>1 DEF Tick, sweepVars, TimePasses
<1>4. CASE StartSweep
  BY <1>1, <1>4 DEF StartSweep, TimePasses
<1>5. CASE \E d \in Did : SweepLooks(d)
  BY <1>1, <1>5 DEF SweepLooks, TimePasses
<1> QED BY <1>2, <1>3, <1>4, <1>5

\* As long as nothing is held, started or removed, what is inductive stays.
LEMMA TimeKeeps ==
  ASSUME RpcAssumption, RpcIInv, TimePasses
  PROVE  RpcIInv'
<1>0. RpcTypeOK /\ LengthsInv /\ SessionsInv /\ HeldInv /\ AnsweredInv /\ OneSession
  BY DEF RpcIInv
<1>1. /\ UNCHANGED <<dialect, sessions, caller, batch, progress, held, answers, reply, snatched>>
      /\ rpcClock' \in Time /\ rpcClock <= rpcClock' /\ lastCleanup' \in Time
      /\ lastCleanup' = lastCleanup \/ (dialect = "anp4j" /\ lastCleanup' <= rpcClock')
      /\ toSweep' \subseteq Did /\ doomed' \in Did \union {NoSession}
      /\ rpcClock \in Nat /\ rpcClock' \in Nat /\ lastCleanup \in Nat /\ SessionTimeout \in Nat
  BY <1>0 DEF TimePasses, RpcTypeOK, Time, RpcAssumption, SessionAssumption
<1>2. (\A e : HeldAt(e)' = HeldAt(e)) /\ (\A e : Requests(e)' = Requests(e))
  BY <1>1 DEF HeldAt, Requests
<1>3. RpcTypeOK' /\ LengthsInv'
  BY <1>0, <1>1, <1>2 DEF RpcTypeOK, LengthsInv
<1>4. SessionsInv'
  <2>1. \A d \in Did : sessions[d] # NoSession => sessions[d].accessed \in Nat
    BY <1>0 DEF RpcTypeOK, Session, Time
  <2> QED BY <1>0, <1>1, <2>1 DEF SessionsInv
<1>5. HeldInv' /\ OneSession'
  <2>1. \A e \in Conn : \A h \in HeldAt(e) : h.since \in Nat
    BY <1>0, HeldAtIs DEF Held, Time
  <2>2. HeldInv'
    BY <1>0, <1>1, <1>2, <2>1 DEF HeldInv
  <2>3. OneSession'
    BY <1>0, <1>1, <1>2 DEF OneSession
  <2> QED BY <2>2, <2>3
<1>6. AnsweredInv'
  BY <1>0, <1>1, <1>2 DEF AnsweredInv, Outcome, Refusals, OpenanpRefusals, FastanpRefusals,
       Anp4jRefusals, Lacking, AnswerTo, Raised
<1> QED BY <1>3, <1>4, <1>5, <1>6 DEF RpcIInv

\* The clean-up thread removes a session that has expired, or its DID is marked.
LEMMA SweepKeeps ==
  ASSUME RpcAssumption, RpcIInv, SweepRemoves
  PROVE  RpcIInv'
<1>0. RpcTypeOK /\ LengthsInv /\ SessionsInv /\ HeldInv /\ AnsweredInv /\ OneSession
  BY DEF RpcIInv
<1>1. /\ doomed # NoSession /\ doomed' = NoSession /\ doomed \in Did
      /\ sessions' = [sessions EXCEPT ![doomed] = NoSession]
      /\ snatched' = IF Expired(doomed) THEN snatched ELSE snatched \union {doomed}
      /\ UNCHANGED <<dialect, rpcClock, lastCleanup, caller, batch, progress, held, answers, reply,
                     toSweep>>
      /\ rpcClock \in Nat /\ SessionTimeout \in Nat
  BY <1>0 DEF SweepRemoves, RpcTypeOK, Time, RpcAssumption, SessionAssumption
<1>2. (\A e : HeldAt(e)' = HeldAt(e)) /\ (\A e : Requests(e)' = Requests(e))
  BY <1>1 DEF HeldAt, Requests
<1>3. /\ sessions' \in [Did -> Session \union {NoSession}]
      /\ sessions'[doomed] = NoSession /\ \A q \in Did : q # doomed => sessions'[q] = sessions[q]
  BY <1>0, <1>1 DEF RpcTypeOK
<1>4. RpcTypeOK' /\ LengthsInv'
  BY <1>0, <1>1, <1>2, <1>3 DEF RpcTypeOK, LengthsInv
<1>5. SessionsInv'
  BY <1>0, <1>1, <1>3 DEF SessionsInv
<1>6. HeldInv'
  <2> SUFFICES ASSUME NEW e \in Conn, NEW h \in HeldAt(e)
               PROVE  /\ h.created <= h.since /\ h.since <= rpcClock
                      /\ h.idle < SessionTimeout + CleanupInterval
                      /\ h.did \notin snatched' =>
                           IF sessions'[h.did] = NoSession
                           THEN h.since + SessionTimeout < rpcClock
                           ELSE \/ /\ h.created = sessions'[h.did].created
                                   /\ h.since <= sessions'[h.did].accessed
                                \/ h.since + SessionTimeout < sessions'[h.did].created
    BY <1>1, <1>2 DEF HeldInv
  <2>1. h.did \in Did /\ h.since \in Nat /\ h.created \in Nat
    BY <1>0, HeldAtIs DEF Held, Time
  <2>2. /\ h.created <= h.since /\ h.since <= rpcClock
        /\ h.idle < SessionTimeout + CleanupInterval
        /\ h.did \notin snatched =>
             IF sessions[h.did] = NoSession THEN h.since + SessionTimeout < rpcClock
             ELSE \/ h.created = sessions[h.did].created /\ h.since <= sessions[h.did].accessed
                  \/ h.since + SessionTimeout < sessions[h.did].created
    BY <1>0 DEF HeldInv
  <2>3. CASE h.did # doomed
    BY <1>1, <1>3, <2>1, <2>2, <2>3
  <2>4. CASE h.did = doomed /\ h.did \in snatched'
    BY <2>2, <2>4
  <2>5. CASE h.did = doomed /\ h.did \notin snatched'
    <3>1. Expired(doomed) /\ doomed \notin snatched
      BY <1>1, <2>5
    <3>2. /\ sessions[doomed] # NoSession /\ rpcClock - sessions[doomed].accessed > SessionTimeout
          /\ sessions[doomed].created \in Nat /\ sessions[doomed].accessed \in Nat
          /\ sessions[doomed].created <= sessions[doomed].accessed
      BY <1>0, <1>1, <3>1 DEF Expired, SessionsInv, RpcTypeOK, Session, Time
    <3>3. h.since + SessionTimeout < rpcClock
      BY <1>1, <2>1, <2>2, <2>5, <3>1, <3>2
    <3> QED BY <1>3, <2>2, <2>5, <3>3
  <2> QED BY <2>3, <2>4, <2>5
<1>7. OneSession'
  <2>1. snatched \subseteq snatched'
    BY <1>1
  <2> QED BY <1>0, <1>2, <2>1 DEF OneSession
<1>8. AnsweredInv'
  BY <1>0, <1>1, <1>2 DEF AnsweredInv, Outcome, Refusals, OpenanpRefusals, FastanpRefusals,
       Anp4jRefusals, Lacking, AnswerTo, Raised
<1> QED BY <1>4, <1>5, <1>6, <1>7, <1>8 DEF RpcIInv

\* A connection ends with its answers, or with an error.
LEMMA ReplyKeeps ==
  ASSUME RpcAssumption, RpcIInv, NEW c \in Conn, Reply(c) \/ Fail(c)
  PROVE  RpcIInv'
<1>0. RpcTypeOK /\ LengthsInv /\ SessionsInv /\ HeldInv /\ AnsweredInv /\ OneSession
  BY DEF RpcIInv
<1>1. /\ UNCHANGED <<dialect, rpcClock, sessions, lastCleanup, caller, batch, progress, held,
                     answers, toSweep, doomed, snatched>>
      /\ reply' \in [Conn -> {"none", "responses", "failed"}]
      /\ \A e \in Conn : e # c => reply'[e] = reply[e]
      /\ reply'[c] = "responses" => \A i \in Requests(c) : progress[c][i] = "done"
      /\ Requests(c) # {}
  <2>1. CASE Reply(c)
    <3>1. batch[c] \in Seq(Item) /\ batch[c] # <<>>
      BY <1>0, <2>1 DEF Reply, RpcTypeOK
    <3>2. Len(batch[c]) > 0 /\ DOMAIN batch[c] = 1 .. Len(batch[c])
      BY <3>1
    <3>3. 1 \in Requests(c)
      BY <3>2 DEF Requests
    <3> QED BY <1>0, <2>1, <3>3 DEF Reply, RpcTypeOK, sweepVars
  <2>2. CASE Fail(c)
    BY <1>0, <2>2 DEF Fail, RpcTypeOK, sweepVars
  <2> QED BY <2>1, <2>2
<1>2. (\A e : HeldAt(e)' = HeldAt(e)) /\ (\A e : Requests(e)' = Requests(e))
  BY <1>1 DEF HeldAt, Requests
<1>3. RpcTypeOK' /\ LengthsInv'
  BY <1>0, <1>1, <1>2 DEF RpcTypeOK, LengthsInv
<1>4. SessionsInv' /\ HeldInv' /\ OneSession'
  BY <1>0, <1>1, <1>2 DEF SessionsInv, HeldInv, OneSession
<1>5. AnsweredInv'
  <2>1. ASSUME NEW e \in Conn
        PROVE  /\ reply'[e] # "none" => Requests(e) # {}
               /\ reply'[e] = "responses" => \A i \in Requests(e) : progress[e][i] = "done"
    BY <1>0, <1>1 DEF AnsweredInv
  <2> QED BY <1>0, <1>1, <1>2, <2>1 DEF AnsweredInv, Outcome, Refusals, OpenanpRefusals,
             FastanpRefusals, Anp4jRefusals, Lacking, AnswerTo, Raised
<1> QED BY <1>3, <1>4, <1>5 DEF RpcIInv

\* A connection gets a batch of which nothing has begun, or none.
Loaded(c, items) ==
  /\ items \in Seq(Item)
  /\ batch' = [batch EXCEPT ![c] = items]
  /\ progress' = [progress EXCEPT ![c] = [i \in DOMAIN items |-> "waiting"]]
  /\ held' = [held EXCEPT ![c] = [i \in DOMAIN items |-> NoSession]]
  /\ answers' = [answers EXCEPT ![c] = [i \in DOMAIN items |-> "none"]]
  /\ reply' = [reply EXCEPT ![c] = "none"]
  /\ caller' \in [Conn -> Did]
  /\ UNCHANGED <<dialect, rpcClock, sessions, lastCleanup, sweepVars>>

\* A body that arrives, and a connection that ends, are such steps.
LEMMA Loads ==
  ASSUME RpcAssumption, RpcTypeOK, LengthsInv, AnsweredInv, NEW c \in Conn,
         \/ Close(c)
         \/ \E d \in Did, n \in 1 .. MaxBatch[c] : \E items \in [1 .. n -> Item] : Submit(c, d, items)
  PROVE  \E items : Loaded(c, items)
<1>1. CASE Close(c)
  <2>1. <<>> \in Seq(Item) /\ DOMAIN <<>> = {}
    OBVIOUS
  <2>2. \A x : [i \in {} |-> x] = <<>>
    OBVIOUS
  <2>3. Loaded(c, <<>>)
    BY <1>1, <2>1, <2>2 DEF Close, Loaded, RpcTypeOK
  <2> QED BY <2>3
<1>2. ASSUME NEW d \in Did, NEW n \in 1 .. MaxBatch[c], NEW items \in [1 .. n -> Item],
             Submit(c, d, items)
      PROVE  Loaded(c, items)
  <2>1. n \in Nat
    BY DEF RpcAssumption, BatchAssumption
  <2>2. items \in Seq(Item)
    BY <2>1
  <2>3. reply[c] = "none"
    <3>1. Requests(c) = {}
      BY <1>2 DEF Submit, Requests
    <3> QED BY <3>1 DEF AnsweredInv, RpcTypeOK
  <2>4. reply' = [reply EXCEPT ![c] = "none"] /\ caller' \in [Conn -> Did]
    BY <1>2, <2>3 DEF Submit, RpcTypeOK
  <2> QED BY <1>2, <2>2, <2>4 DEF Submit, Loaded
<1> QED BY <1>1, <1>2

LEMMA LoadKeeps ==
  ASSUME RpcAssumption, RpcIInv, NEW c \in Conn, NEW items, Loaded(c, items)
  PROVE  RpcIInv'
<1>0. RpcTypeOK /\ LengthsInv /\ SessionsInv /\ HeldInv /\ AnsweredInv /\ OneSession
  BY DEF RpcIInv
<1> DEFINE St == {"waiting", "running", "done"}
           pr == [i \in DOMAIN items |-> "waiting"]
           he == [i \in DOMAIN items |-> NoSession]
           an == [i \in DOMAIN items |-> "none"]
<1>1. /\ items \in Seq(Item) /\ pr \in Seq(St) /\ he \in Seq(Held \union {NoSession})
      /\ an \in Seq(Code)
  <2>1. items \in Seq(Item) /\ Len(items) \in Nat /\ DOMAIN items = 1 .. Len(items)
    BY DEF Loaded
  <2>2. pr \in Seq(St)
    BY <2>1
  <2>3. he \in Seq(Held \union {NoSession})
    BY <2>1
  <2>4. an \in Seq(Code)
    BY <2>1 DEF Code
  <2> QED BY <2>1, <2>2, <2>3, <2>4
<1>2. /\ DOMAIN pr = DOMAIN items /\ DOMAIN he = DOMAIN items /\ DOMAIN an = DOMAIN items
      /\ \A i \in DOMAIN items : pr[i] = "waiting" /\ he[i] = NoSession
  OBVIOUS
<1>3. /\ batch' = [batch EXCEPT ![c] = items] /\ progress' = [progress EXCEPT ![c] = pr]
      /\ held' = [held EXCEPT ![c] = he] /\ answers' = [answers EXCEPT ![c] = an]
      /\ reply' = [reply EXCEPT ![c] = "none"] /\ caller' \in [Conn -> Did]
      /\ UNCHANGED <<dialect, rpcClock, sessions, lastCleanup, toSweep, doomed, snatched>>
  BY DEF Loaded, sweepVars
<1> HIDE DEF pr, he, an, St
<1>4. /\ batch \in [Conn -> Seq(Item)] /\ progress \in [Conn -> Seq(St)]
      /\ held \in [Conn -> Seq(Held \union {NoSession})] /\ answers \in [Conn -> Seq(Code)]
      /\ reply \in [Conn -> {"none", "responses", "failed"}]
  BY <1>0 DEF RpcTypeOK, St
<1>5. /\ batch' \in [Conn -> Seq(Item)] /\ progress' \in [Conn -> Seq(St)]
      /\ held' \in [Conn -> Seq(Held \union {NoSession})] /\ answers' \in [Conn -> Seq(Code)]
      /\ reply' \in [Conn -> {"none", "responses", "failed"}]
  BY <1>1, <1>3, <1>4
<1>6. /\ batch'[c] = items /\ progress'[c] = pr /\ held'[c] = he /\ answers'[c] = an
      /\ reply'[c] = "none"
      /\ \A e \in Conn : e # c =>
           /\ batch'[e] = batch[e] /\ progress'[e] = progress[e] /\ held'[e] = held[e]
           /\ answers'[e] = answers[e] /\ reply'[e] = reply[e]
  BY <1>3, <1>4
<1>7. RpcTypeOK'
  BY <1>0, <1>3, <1>5 DEF RpcTypeOK, St
<1>8. LengthsInv'
  BY <1>0, <1>2, <1>6 DEF LengthsInv, Requests
<1>9. \A e \in Conn : \A h \in HeldAt(e)' : h \in HeldAt(e)
  <2> SUFFICES ASSUME NEW e \in Conn, NEW h \in HeldAt(e)' PROVE h \in HeldAt(e)
    OBVIOUS
  <2>1. PICK i \in Requests(e)' : h = held'[e][i] /\ h # NoSession
    BY DEF HeldAt
  <2>2. e # c
    BY <1>2, <1>6, <2>1 DEF Requests
  <2>3. i \in Requests(e) /\ h = held[e][i]
    BY <1>6, <2>1, <2>2 DEF Requests
  <2> QED BY <2>1, <2>3 DEF HeldAt
<1>10. SessionsInv' /\ HeldInv' /\ OneSession'
  <2>1. SessionsInv'
    BY <1>0, <1>3 DEF SessionsInv
  <2>2. HeldInv'
    BY <1>0, <1>3, <1>9 DEF HeldInv
  <2>3. OneSession'
    BY <1>0, <1>3, <1>9 DEF OneSession
  <2> QED BY <2>1, <2>2, <2>3
<1>11. AnsweredInv'
  <2>1. Refusals' = Refusals
    BY <1>3, OutcomesStay
  <2>2. ASSUME NEW e \in Conn, e # c, NEW i \in Requests(e)'
        PROVE  /\ progress'[e][i] = "done" => answers'[e][i] = Outcome(batch[e][i].kind)'
               /\ progress'[e][i] = "running" =>
                    batch'[e][i].kind \notin DOMAIN Refusals \union {"badParams"}
    <3>1. i \in Requests(e) /\ batch'[e] = batch[e] /\ progress'[e] = progress[e]
          /\ answers'[e] = answers[e]
      BY <1>6, <2>2 DEF Requests
    <3>2. Outcome(batch[e][i].kind)' = Outcome(batch[e][i].kind)
      BY <1>3, <3>1, OutcomesStay
    <3> QED BY <1>0, <2>1, <3>1, <3>2 DEF AnsweredInv
  <2> QED BY <1>0, <1>2, <1>6, <2>1, <2>2 DEF AnsweredInv, Requests
<1> QED BY <1>7, <1>8, <1>10, <1>11 DEF RpcIInv

\* Every step keeps what is inductive.
LEMMA RpcStepKeeps ==
  ASSUME RpcAssumption, RpcIInv, [RpcNext]_rpcVars
  PROVE  RpcIInv'
<1>0. RpcTypeOK /\ LengthsInv /\ AnsweredInv
  BY DEF RpcIInv
<1>1. CASE UNCHANGED rpcVars \/ Tick \/ StartSweep \/ \E d \in Did : SweepLooks(d)
  BY <1>0, <1>1, TimeSteps, TimeKeeps
<1>2. CASE SweepRemoves
  BY <1>2, SweepKeeps
<1>3. ASSUME NEW c \in Conn, Reply(c) \/ Fail(c) PROVE RpcIInv'
  BY <1>3, ReplyKeeps
<1>4. ASSUME NEW c \in Conn,
             \/ Close(c)
             \/ \E d \in Did, n \in 1 .. MaxBatch[c] :
                  \E items \in [1 .. n -> Item] : Submit(c, d, items)
      PROVE  RpcIInv'
  BY <1>0, <1>4, Loads, LoadKeeps
<1>5. ASSUME NEW c \in Conn, NEW i \in Requests(c),
             Refuse(c, i) \/ Call(c, i) \/ CallWrongly(c, i) \/ Return(c, i)
      PROVE  RpcIInv'
  <2>1. progress[c][i] = "running" => batch[c][i].kind \notin DOMAIN Refusals \union {"badParams"}
    BY <1>0 DEF AnsweredInv
  <2>2. PICK at \in {"running", "done"}, code \in Code : ItemSteps(c, i, at, code)
    BY <1>0, <1>5, <2>1, ItemsStep
  <2> QED BY <2>2, ItemKeeps
<1> QED BY <1>1, <1>2, <1>3, <1>4, <1>5 DEF RpcNext

\* The inductive invariant of the server's batches and sessions.
THEOREM RpcInvariance == RpcAssumption /\ RpcSpec => []RpcIInv
<1> SUFFICES ASSUME RpcAssumption PROVE RpcSpec => []RpcIInv
  OBVIOUS
<1>1. RpcInit => RpcIInv
  <2> SUFFICES ASSUME RpcInit PROVE RpcIInv
    OBVIOUS
  <2>1. /\ \A c \in Conn : /\ batch[c] = <<>> /\ progress[c] = <<>> /\ held[c] = <<>>
                           /\ answers[c] = <<>> /\ reply[c] = "none"
        /\ \A d \in Did : sessions[d] = NoSession
        /\ rpcClock = 0 /\ lastCleanup = 0
    BY DEF RpcInit
  <2>2. \A c \in Conn : Requests(c) = {} /\ HeldAt(c) = {}
    <3>1. DOMAIN <<>> = {}
      OBVIOUS
    <3> QED BY <2>1, <3>1 DEF Requests, HeldAt
  <2>3. RpcTypeOK
    <3>1. 0 \in Time
      BY DEF Time, RpcAssumption, SessionAssumption
    <3>2. (CHOOSE d \in Did : TRUE) \in Did
      BY DEF RpcAssumption, BatchAssumption
    <3> QED BY <3>1, <3>2 DEF RpcInit, RpcTypeOK
  <2>4. LengthsInv
    BY <2>1 DEF LengthsInv, Requests
  <2>5. SessionsInv /\ HeldInv /\ OneSession
    BY <2>1, <2>2 DEF SessionsInv, HeldInv, OneSession
  <2>6. AnsweredInv
    BY <2>1, <2>2 DEF AnsweredInv
  <2> QED BY <2>3, <2>4, <2>5, <2>6 DEF RpcIInv
<1>2. RpcIInv /\ [RpcNext]_rpcVars => RpcIInv'
  BY RpcStepKeeps
<1> QED BY <1>1, <1>2, PTL DEF RpcSpec

\* The responses are the outcomes of the requests that want one, in their order.
LEMMA RespondsInOrder == RpcIInv => BatchAnswered
<1> SUFFICES ASSUME RpcIInv, NEW c \in Conn, reply[c] = "responses"
             PROVE  /\ {r.place : r \in ToSet(Responded(c))} = {i \in Requests(c) : Wants(c, i)}
                    /\ \A k \in DOMAIN Responded(c) :
                         /\ Responded(c)[k].code = Outcome(batch[c][Responded(c)[k].place].kind)
                         /\ k > 1 => Responded(c)[k - 1].place < Responded(c)[k].place
  BY DEF BatchAnswered
<1>0. RpcTypeOK /\ AnsweredInv
  BY DEF RpcIInv
<1> DEFINE I == {i \in Requests(c) : Wants(c, i)}
           at == InOrder(I)
<1>1. batch[c] \in Seq(Item)
  BY <1>0 DEF RpcTypeOK
<1>2. Requests(c) = 1 .. Len(batch[c]) /\ Len(batch[c]) \in Nat
  BY <1>1 DEF Requests
<1>3. IsFiniteSet(1 .. Len(batch[c]))
  BY <1>2, FS_Interval
<1>4. I \subseteq 1 .. Len(batch[c])
  BY <1>2
<1>5. IsFiniteSet(I) /\ I \subseteq Nat
  BY <1>2, <1>3, <1>4, FS_Subset
<1>6. /\ Cardinality(I) \in Nat /\ DOMAIN at = 1 .. Cardinality(I)
      /\ \A k \in DOMAIN at : at[k] \in I
      /\ \A i \in I : \E k \in DOMAIN at : at[k] = i
      /\ \A k, l \in DOMAIN at : k < l => at[k] < at[l]
  BY <1>5, InOrderLists
<1>7. Responded(c) = [k \in DOMAIN at |-> [place |-> at[k], code |-> answers[c][at[k]]]]
  BY DEF Responded
<1>8. \A i \in I : answers[c][i] = Outcome(batch[c][i].kind)
  BY <1>0 DEF AnsweredInv
<1> HIDE DEF I, at
<1>9. /\ DOMAIN Responded(c) = DOMAIN at
      /\ \A k \in DOMAIN at : /\ Responded(c)[k].place = at[k]
                              /\ Responded(c)[k].code = answers[c][at[k]]
  BY <1>7
<1>10. {r.place : r \in ToSet(Responded(c))} = I
  <2>1. ToSet(Responded(c)) = {Responded(c)[k] : k \in DOMAIN at}
    BY <1>9 DEF ToSet
  <2>2. \A p : p \in {r.place : r \in ToSet(Responded(c))} <=> \E k \in DOMAIN at : p = at[k]
    BY <1>9, <2>1
  <2>3. \A p : p \in I <=> \E k \in DOMAIN at : p = at[k]
    BY <1>6
  <2> DEFINE R == {r.place : r \in ToSet(Responded(c))}
  <2>4. \A p : p \in R <=> p \in I
    BY <2>2, <2>3
  <2> HIDE DEF R
  <2>5. R = I
    BY <2>4
  <2> QED BY <2>5 DEF R
<1>11. ASSUME NEW k \in DOMAIN Responded(c)
       PROVE  /\ Responded(c)[k].code = Outcome(batch[c][Responded(c)[k].place].kind)
              /\ k > 1 => Responded(c)[k - 1].place < Responded(c)[k].place
  <2>1. Responded(c)[k].code = Outcome(batch[c][Responded(c)[k].place].kind)
    BY <1>6, <1>8, <1>9
  <2>2. k > 1 => k - 1 \in DOMAIN at /\ k - 1 < k
    BY <1>6, <1>9
  <2> QED BY <1>6, <1>9, <2>1, <2>2
<1> QED BY <1>10, <1>11 DEF I

\* A DID has one session however its requests overlap, and a batch is answered in order
\* (context.py get_or_create, SessionManager.java getSession, autogen.py:283-334).
THEOREM RequestsServedInOrder == RpcAssumption /\ RpcSpec => []ServedInOrder
<1>1. RpcIInv => ServedInOrder
  BY RespondsInOrder DEF RpcIInv, ServedInOrder
<1> QED BY <1>1, RpcInvariance, PTL

-----------------------------------------------------------------------------
(* AgentDiscovery: documents *)

\* What the tail and the concatenation of sequences hold
LEMMA TailHolds ==
  ASSUME NEW S, NEW s \in Seq(S), s # <<>>
  PROVE  /\ Tail(s) \in Seq(S) /\ Head(s) \in S /\ ToSet(s) \subseteq S
         /\ ToSet(s) = {Head(s)} \union ToSet(Tail(s))
<1>1. Len(s) \in Nat /\ Len(s) > 0 /\ DOMAIN s = 1 .. Len(s)
  OBVIOUS
<1>2. /\ Tail(s) \in Seq(S) /\ DOMAIN Tail(s) = 1 .. Len(s) - 1
      /\ \A i \in 1 .. Len(s) - 1 : Tail(s)[i] = s[i + 1]
      /\ Head(s) = s[1]
  BY <1>1
<1>3. \A x : x \in ToSet(s) => x \in {Head(s)} \union ToSet(Tail(s))
  <2> SUFFICES ASSUME NEW i \in 1 .. Len(s), i # 1 PROVE s[i] \in ToSet(Tail(s))
    BY <1>1, <1>2 DEF ToSet
  <2>1. i - 1 \in 1 .. Len(s) - 1 /\ (i - 1) + 1 = i
    BY <1>1
  <2>2. Tail(s)[i - 1] = s[i]
    BY <1>2, <2>1
  <2> QED BY <1>2, <2>1, <2>2 DEF ToSet
<1>4. \A x : x \in {Head(s)} \union ToSet(Tail(s)) => x \in ToSet(s)
  <2>1. Head(s) \in ToSet(s)
    BY <1>1, <1>2 DEF ToSet
  <2>2. \A i \in 1 .. Len(s) - 1 : i + 1 \in 1 .. Len(s)
    BY <1>1
  <2> QED BY <1>1, <1>2, <2>1, <2>2 DEF ToSet
<1>5. Head(s) \in S /\ ToSet(s) \subseteq S
  BY <1>1, <1>2 DEF ToSet
<1> QED BY <1>2, <1>3, <1>4, <1>5

LEMMA ConcatHolds ==
  ASSUME NEW S, NEW s \in Seq(S), NEW t \in Seq(S)
  PROVE  s \o t \in Seq(S) /\ ToSet(s \o t) = ToSet(s) \union ToSet(t)
<1>1. /\ Len(s) \in Nat /\ DOMAIN s = 1 .. Len(s) /\ Len(t) \in Nat /\ DOMAIN t = 1 .. Len(t)
      /\ s \o t \in Seq(S) /\ DOMAIN (s \o t) = 1 .. Len(s) + Len(t)
      /\ \A i \in 1 .. Len(s) + Len(t) : (s \o t)[i] = IF i <= Len(s) THEN s[i] ELSE t[i - Len(s)]
  OBVIOUS
<1>2. \A x : x \in ToSet(s \o t) => x \in ToSet(s) \union ToSet(t)
  <2> SUFFICES ASSUME NEW i \in 1 .. Len(s) + Len(t)
               PROVE  (s \o t)[i] \in ToSet(s) \union ToSet(t)
    BY <1>1 DEF ToSet
  <2>1. CASE i <= Len(s)
    BY <1>1, <2>1 DEF ToSet
  <2>2. CASE ~(i <= Len(s))
    <3>1. i - Len(s) \in 1 .. Len(t)
      BY <1>1, <2>2
    <3> QED BY <1>1, <2>2, <3>1 DEF ToSet
  <2> QED BY <2>1, <2>2
<1>3. \A x : x \in ToSet(s) => x \in ToSet(s \o t)
  <2>1. \A i \in 1 .. Len(s) : i \in 1 .. Len(s) + Len(t) /\ i <= Len(s)
    BY <1>1
  <2> QED BY <1>1, <2>1 DEF ToSet
<1>4. \A x : x \in ToSet(t) => x \in ToSet(s \o t)
  <2> SUFFICES ASSUME NEW i \in 1 .. Len(t) PROVE t[i] \in ToSet(s \o t)
    BY <1>1 DEF ToSet
  <2>1. /\ i + Len(s) \in 1 .. Len(s) + Len(t) /\ ~(i + Len(s) <= Len(s))
        /\ (i + Len(s)) - Len(s) = i
    BY <1>1
  <2>2. (s \o t)[i + Len(s)] = t[i]
    BY <1>1, <2>1
  <2> QED BY <1>1, <2>1, <2>2 DEF ToSet
<1> QED BY <1>1, <1>2, <1>3, <1>4

\* What a selection holds
LEMMA ThoseHold ==
  ASSUME NEW S, NEW s \in Seq(S), NEW A
  PROVE  Those(s, A) \in Seq(S) /\ ToSet(Those(s, A)) = ToSet(s) \intersect A
<1>1. /\ Those(s, A) \in Seq(S)
      /\ \A k \in DOMAIN Those(s, A) :
           Those(s, A)[k] \in A /\ \E i \in DOMAIN s : Those(s, A)[k] = s[i]
      /\ \A i \in DOMAIN s : s[i] \in A => \E k \in DOMAIN Those(s, A) : Those(s, A)[k] = s[i]
  BY ThoseAre
<1> DEFINE t == Those(s, A)
<1> HIDE DEF t
<1>2. \A x : x \in ToSet(t) <=> x \in ToSet(s) /\ x \in A
  BY <1>1 DEF ToSet, t
<1> QED BY <1>1, <1>2 DEF t

\* The first and the last element of a sequence that is not empty
LEMMA EndsHeld ==
  ASSUME NEW S, NEW s \in Seq(S)
  PROVE  /\ s = <<>> <=> ToSet(s) = {}
         /\ s # <<>> => s[1] \in ToSet(s) /\ Last(s) \in ToSet(s) /\ <<s[1]>> \in Seq(S)
         /\ ToSet(s) \subseteq S
<1>1. Len(s) \in Nat /\ DOMAIN s = 1 .. Len(s)
  OBVIOUS
<1>2. CASE s = <<>>
  BY <1>2 DEF ToSet
<1>3. CASE s # <<>>
  <2>1. Len(s) > 0
    BY <1>3
  <2>2. 1 \in DOMAIN s /\ Len(s) \in DOMAIN s
    BY <1>1, <2>1
  <2>3. s[1] \in ToSet(s) /\ Last(s) \in ToSet(s) /\ s[1] \in S
    BY <2>2 DEF ToSet, Last
  <2>4. ToSet(s) \subseteq S
    BY DEF ToSet
  <2> QED BY <1>3, <2>3, <2>4
<1> QED BY <1>2, <1>3

\* The documents list the attributes of their kind.
LEMMA DocumentsList ==
  ASSUME AttrAssumption, NEW S, S \subseteq Attr
  PROVE  /\ Methods(S) \in Seq(Attr) /\ ToSet(Methods(S)) = S
         /\ ContentMethods(S) \in Seq(Attr)
         /\ ToSet(ContentMethods(S)) = {a \in S : InterfaceMode[a] = "content"}
         /\ LinkMethods(S) \in Seq(Attr) /\ ToSet(LinkMethods(S)) = {a \in S : InterfaceMode[a] = "link"}
<1>1. AttrOrder \in Seq(Attr) /\ ToSet(AttrOrder) = Attr
  BY DEF AttrAssumption
<1>2. Methods(S) \in Seq(Attr) /\ ToSet(Methods(S)) = S
  <2>1. ToSet(AttrOrder) \intersect S = S
    BY <1>1
  <2> QED BY <1>1, <2>1, ThoseHold DEF Methods
<1>3. ContentMethods(S) \in Seq(Attr)
      /\ ToSet(ContentMethods(S)) = {a \in S : InterfaceMode[a] = "content"}
  <2> DEFINE C == {a \in S : InterfaceMode[a] = "content"}
  <2>1. ToSet(AttrOrder) \intersect C = C
    BY <1>1
  <2> HIDE DEF C
  <2>2. Those(AttrOrder, C) \in Seq(Attr) /\ ToSet(Those(AttrOrder, C)) = C
    BY <1>1, <2>1, ThoseHold
  <2> QED BY <2>2 DEF ContentMethods, C
<1>4. LinkMethods(S) \in Seq(Attr) /\ ToSet(LinkMethods(S)) = {a \in S : InterfaceMode[a] = "link"}
  <2> DEFINE C == {a \in S : InterfaceMode[a] = "link"}
  <2>1. ToSet(AttrOrder) \intersect C = C
    BY <1>1
  <2> HIDE DEF C
  <2>2. Those(AttrOrder, C) \in Seq(Attr) /\ ToSet(Those(AttrOrder, C)) = C
    BY <1>1, <2>1, ThoseHold
  <2> QED BY <2>2 DEF LinkMethods, C
<1> QED BY <1>2, <1>3, <1>4

\* With names of their own, methods are found by name.
LEMMA HandlersFind ==
  ASSUME AttrAssumption, NEW S, S \subseteq Attr, Distinct(S), NEW a \in S
  PROVE  Handlers(S, RpcName[a]) = a
<1> DEFINE N == Named(S, RpcName[a])
           same == Those(Methods(S), N)
<1>1. N = {a}
  BY DEF Named, Distinct
<1> HIDE DEF N
<1>2. Methods(S) \in Seq(Attr) /\ ToSet(Methods(S)) = S
  BY DocumentsList
<1>3. same \in Seq(Attr) /\ ToSet(same) = S \intersect N
  BY <1>2, ThoseHold
<1> HIDE DEF same
<1>4. ToSet(same) = {a}
  BY <1>1, <1>3
<1>5. same # <<>> /\ Last(same) = a
  BY <1>3, <1>4, EndsHeld
<1> QED BY <1>5 DEF Handlers, same, N

LEMMA LinkDocumentIs ==
  ASSUME AttrAssumption, NEW S, S \subseteq Attr, Distinct(S), NEW a \in S, InterfaceMode[a] = "link"
  PROVE  LinkDocument(S, RpcName[a]) = <<a>>
<1> DEFINE N == Named(S, RpcName[a])
           same == Those(LinkMethods(S), N)
<1>1. N = {a}
  BY DEF Named, Distinct
<1> HIDE DEF N
<1>2. LinkMethods(S) \in Seq(Attr) /\ ToSet(LinkMethods(S)) = {b \in S : InterfaceMode[b] = "link"}
  BY DocumentsList
<1>3. same \in Seq(Attr) /\ ToSet(same) = {b \in S : InterfaceMode[b] = "link"} \intersect N
  BY <1>2, ThoseHold
<1> HIDE DEF same
<1>4. ToSet(same) = {a}
  BY <1>1, <1>3
<1>5. same # <<>> /\ same[1] = a
  BY <1>3, <1>4, EndsHeld
<1> QED BY <1>5 DEF LinkDocument, same, N

\* Whatever is read at a URL is a list of attributes that are served.
LEMMA InterfaceTypes ==
  ASSUME AttrAssumption, NEW S, S \subseteq Attr, NEW url
  PROVE  Interface(S, url) \in Seq(Attr)
<1>1. ContentMethods(S) \in Seq(Attr) /\ LinkMethods(S) \in Seq(Attr) /\ <<>> \in Seq(Attr)
  BY DocumentsList
<1>2. LinkDocument(S, url) \in Seq(Attr)
  <2> DEFINE same == Those(LinkMethods(S), Named(S, url))
  <2>1. same \in Seq(Attr)
    BY <1>1, ThoseHold
  <2> HIDE DEF same
  <2>2. same # <<>> => <<same[1]>> \in Seq(Attr)
    BY <2>1, EndsHeld
  <2> QED BY <1>1, <2>2 DEF LinkDocument, same
<1> QED BY <1>1, <1>2 DEF Interface, ContentDocument

\* With names of their own, the interfaces of ad.json yield all that is readable.
LEMMA AdCovers ==
  ASSUME AttrAssumption, DiscoveryTypeOK, NEW S, S \subseteq Attr, Distinct(S)
  PROVE  /\ UNION {Yields(S, u) : u \in ToSet(GenerateAd(S))} = Readable(S)
         /\ GenerateAd(S) = <<>> => Readable(S) = {}
<1> DEFINE C == {a \in S : InterfaceMode[a] = "content"}
           K == {a \in S : InterfaceMode[a] = "link"}
           listed == GenerateAd(S)
<1>1. /\ ContentMethods(S) \in Seq(Attr) /\ ToSet(ContentMethods(S)) = C
      /\ LinkMethods(S) \in Seq(Attr) /\ ToSet(LinkMethods(S)) = K
  BY DocumentsList
<1>2. \A a \in S : RpcName[a] # "interface" /\ (a \in C \/ a \in K) /\ ~(a \in C /\ a \in K)
  BY DEF AttrAssumption
<1> DEFINE first == IF ContentMethods(S) = <<>> THEN <<>> ELSE <<"interface">>
           rest == [i \in DOMAIN LinkMethods(S) |-> RpcName[LinkMethods(S)[i]]]
           N == {RpcName[a] : a \in K}
           U == {"interface"} \union N
<1>3. C = {} <=> ContentMethods(S) = <<>>
  BY <1>1, EndsHeld
<1>4. rest \in Seq(U) /\ ToSet(rest) = N
  <2>1. /\ Len(LinkMethods(S)) \in Nat /\ DOMAIN LinkMethods(S) = 1 .. Len(LinkMethods(S))
        /\ \A i \in DOMAIN LinkMethods(S) : LinkMethods(S)[i] \in K
        /\ \A a \in K : \E i \in DOMAIN LinkMethods(S) : LinkMethods(S)[i] = a
    BY <1>1 DEF ToSet
  <2>2. \A i \in DOMAIN LinkMethods(S) : rest[i] \in N
    BY <2>1
  <2>3. rest \in Seq(U)
    BY <2>1, <2>2
  <2>4. \A x : x \in ToSet(rest) => x \in N
    BY <2>2 DEF ToSet
  <2>5. \A a \in K : RpcName[a] \in ToSet(rest)
    BY <2>1 DEF ToSet
  <2> QED BY <2>3, <2>4, <2>5
<1>5. /\ first \in Seq(U)
      /\ ToSet(first) = IF C = {} THEN {} ELSE {"interface"}
  <2>1. CASE C = {}
    BY <1>3, <2>1 DEF ToSet
  <2>2. CASE C # {}
    <3>1. first = <<"interface">>
      BY <1>3, <2>2
    <3>2. <<"interface">> \in Seq(U)
      OBVIOUS
    <3> HIDE DEF first, U
    <3>3. \A x : ToSet(<<x>>) = {x}
      BY DEF ToSet
    <3> QED BY <2>2, <3>1, <3>2, <3>3
  <2> QED BY <2>1, <2>2
<1>6. listed = first \o rest
  BY DEF GenerateAd
<1> HIDE DEF first, rest, U
<1>7. ToSet(listed) = ToSet(first) \union N /\ listed \in Seq(U)
  BY <1>4, <1>5, <1>6, ConcatHolds
<1> HIDE DEF listed
<1>8. Interface(S, "interface") = ContentMethods(S)
  BY DEF Interface, ContentDocument
<1>9. \A a \in K : Interface(S, RpcName[a]) = IF port = "openanp" THEN <<a>> ELSE <<>>
  <2> TAKE a \in K
  <2>1. a \in S /\ InterfaceMode[a] = "link" /\ RpcName[a] # "interface"
    BY <1>2
  <2>2. LinkDocument(S, RpcName[a]) = <<a>>
    BY <2>1, LinkDocumentIs
  <2> QED BY <2>1, <2>2 DEF Interface
<1>10. port \in {"openanp", "anp4j"}
  BY DEF DiscoveryTypeOK
<1>11. Yields(S, "interface") =
         IF C # {} /\ (port = "openanp" => C \subseteq Documented) THEN C ELSE {}
  BY <1>1, <1>3, <1>8, <1>10 DEF Yields, Parses, OpenanpParses, Anp4jParses
<1>12. \A a \in K : Yields(S, RpcName[a]) =
         IF port = "openanp" /\ a \in Documented THEN {a} ELSE {}
  <2> TAKE a \in K
  <2>1. CASE port = "openanp"
    <3>1. Interface(S, RpcName[a]) = <<a>> /\ ToSet(<<a>>) = {a} /\ <<a>> # <<>>
      BY <1>9, <2>1 DEF ToSet
    <3> QED BY <2>1, <3>1 DEF Yields, Parses, OpenanpParses
  <2>2. CASE port # "openanp"
    <3>1. Interface(S, RpcName[a]) = <<>>
      BY <1>9, <2>2
    <3> QED BY <2>2, <3>1 DEF Yields, Parses, Anp4jParses
  <2> QED BY <2>1, <2>2
<1>13. Readable(S) = IF port = "anp4j" THEN C
                     ELSE {a \in S : \/ a \in K /\ a \in Documented
                                     \/ a \in C /\ C \subseteq Documented}
  <2>1. \A a \in S : (a \in K <=> InterfaceMode[a] = "link") /\ (a \in C <=> InterfaceMode[a] = "content")
    OBVIOUS
  <2> QED BY <1>1, <2>1 DEF Readable
<1> DEFINE Y == UNION {Yields(S, u) : u \in ToSet(listed)}
<1>14. \A x : x \in Y <=> \E u \in ToSet(listed) : x \in Yields(S, u)
  OBVIOUS
<1> HIDE DEF C, K, Y
<1>15. ASSUME NEW x \in Y PROVE x \in Readable(S)
  <2>1. PICK u \in ToSet(listed) : x \in Yields(S, u)
    BY <1>14
  <2>2. CASE u \in N
    <3>1. PICK a \in K : u = RpcName[a]
      BY <2>2
    <3>2. port = "openanp" /\ a \in Documented /\ x = a
      BY <1>12, <2>1, <3>1
    <3> QED BY <1>13, <3>1, <3>2 DEF K
  <2>3. CASE u \notin N
    <3>1. u = "interface"
      BY <1>5, <1>7, <2>1, <2>3
    <3>2. x \in C /\ (port = "openanp" => C \subseteq Documented)
      BY <1>11, <2>1, <3>1
    <3> QED BY <1>10, <1>13, <3>2 DEF C
  <2> QED BY <2>2, <2>3
<1>16. ASSUME NEW x \in Readable(S) PROVE x \in Y
  <2>1. CASE x \in C /\ (port = "openanp" => C \subseteq Documented)
    <3>1. "interface" \in ToSet(listed)
      BY <1>5, <1>7, <2>1
    <3>2. x \in Yields(S, "interface")
      BY <1>11, <2>1
    <3> QED BY <1>14, <3>1, <3>2
  <2>2. CASE port = "openanp" /\ x \in K /\ x \in Documented
    <3>1. RpcName[x] \in ToSet(listed)
      BY <1>7, <2>2
    <3>2. x \in Yields(S, RpcName[x])
      BY <1>12, <2>2
    <3> QED BY <1>14, <3>1, <3>2
  <2> QED BY <1>10, <1>13, <2>1, <2>2
<1>17. Y = Readable(S)
  BY <1>15, <1>16
<1>18. ASSUME listed = <<>> PROVE Readable(S) = {}
  <2>1. ToSet(listed) = {}
    BY <1>7, <1>18, EndsHeld
  <2>2. Y = {}
    BY <1>14, <2>1
  <2> QED BY <1>17, <2>2
<1> QED BY <1>17, <1>18 DEF Y, listed

-----------------------------------------------------------------------------
(* AgentDiscovery: the steps *)

\* A call is described by a method that was read, and handled by one that is served.
LEMMA DescribedIs ==
  ASSUME raw \in Seq(Attr), NEW name, \E i \in DOMAIN raw : RpcName[raw[i]] = name
  PROVE  Described(name) \in ToSet(raw) /\ Described(name) \in Attr
<1> DEFINE same == Those(raw, Named(Attr, name))
<1>1. same \in Seq(Attr) /\ ToSet(same) = ToSet(raw) \intersect Named(Attr, name)
  BY ThoseHold
<1> HIDE DEF same
<1>2. ToSet(same) # {}
  <2>1. PICK i \in DOMAIN raw : RpcName[raw[i]] = name
    OBVIOUS
  <2>2. raw[i] \in ToSet(raw) /\ raw[i] \in Named(Attr, name)
    BY <2>1 DEF ToSet, Named
  <2> QED BY <1>1, <2>2
<1>3. same[1] \in ToSet(same)
  BY <1>1, <1>2, EndsHeld
<1>4. same[1] \in ToSet(raw) /\ same[1] \in Attr
  BY <1>1, <1>3 DEF Named
<1> QED BY <1>4 DEF Described, same

LEMMA HandlersTypes ==
  ASSUME AttrAssumption, NEW S, S \subseteq Attr, NEW name
  PROVE  Handlers(S, name) \in Attr \union {NoAttr}
<1> DEFINE same == Those(Methods(S), Named(S, name))
<1>1. Methods(S) \in Seq(Attr)
  BY DocumentsList
<1>2. same \in Seq(Attr)
  BY <1>1, ThoseHold
<1> HIDE DEF same
<1>3. same # <<>> => Last(same) \in Attr
  BY <1>2, EndsHeld
<1> QED BY <1>3 DEF Handlers, same

\* What the description and its bounds are like
DiscoveryAssumption == AttrAssumption /\ DeployAssumption

\* The steps keep the types.
LEMMA DiscoveryTypesStep ==
  ASSUME DiscoveryAssumption, DiscoveryTypeOK, [DiscoveryNext]_discoveryVars
  PROVE  DiscoveryTypeOK'
<1> DEFINE Sent == {"no", "sent", "resent", "handled", "result", "-32601", "-32603"}
<1>0. /\ port \in {"openanp", "anp4j"} /\ deployed \subseteq Attr
      /\ deploys \in 0 .. MaxDeploys /\ lapses \in 0 .. MaxDiscoveryFaults
      /\ MaxDeploys \in Nat /\ MaxDiscoveryFaults \in Nat
      /\ discovery \in {"idle", "reading", "ready", "failed"}
      /\ toFetch \in Seq(Url) /\ raw \in Seq(Attr) /\ ran \in Seq(Attr) /\ <<>> \in Seq(Attr)
      /\ untouched \in BOOLEAN
      /\ calling \in Attr \union {NoAttr} /\ sent \in Sent
      /\ AttrAssumption /\ <<>> \in Seq(Url)
  BY DEF DiscoveryTypeOK, DiscoveryAssumption, DeployAssumption
<1>1. CASE UNCHANGED discoveryVars
  BY <1>1 DEF DiscoveryTypeOK, discoveryVars
<1>2. ASSUME NEW S \in SUBSET Attr, Deploy(S) PROVE DiscoveryTypeOK'
  <2>1. untouched' \in BOOLEAN
    BY <1>2 DEF Deploy
  <2>2. deploys' \in 0 .. MaxDeploys /\ deployed' \subseteq Attr
        /\ UNCHANGED <<port, lapses, discovery, toFetch, raw, calling, sent, ran>>
    BY <1>0, <1>2 DEF Deploy
  <2> QED BY <1>0, <2>1, <2>2 DEF DiscoveryTypeOK
<1>13. Lapse => lapses' \in 0 .. MaxDiscoveryFaults /\ untouched' \in BOOLEAN
  <2>1. Lapse => untouched' \in BOOLEAN
    BY DEF Lapse
  <2>2. Lapse => lapses' \in 0 .. MaxDiscoveryFaults
    BY <1>0 DEF Lapse
  <2> QED BY <2>1, <2>2
<1>3. CASE FetchAd
  <2>1. GenerateAd(deployed) \in Seq(Url)
    <3>1. LinkMethods(deployed) \in Seq(Attr)
      BY <1>0, DocumentsList
    <3>2. \A i \in DOMAIN LinkMethods(deployed) : RpcName[LinkMethods(deployed)[i]] \in Url
      BY <3>1 DEF Url, Name
    <3>3. [i \in DOMAIN LinkMethods(deployed) |-> RpcName[LinkMethods(deployed)[i]]] \in Seq(Url)
      <4>1. DOMAIN LinkMethods(deployed) = 1 .. Len(LinkMethods(deployed))
            /\ Len(LinkMethods(deployed)) \in Nat
        BY <3>1
      <4> QED BY <3>2, <4>1
    <3>4. <<"interface">> \in Seq(Url)
      BY DEF Url
    <3> QED BY <1>0, <3>3, <3>4 DEF GenerateAd
  <2>2. discovery' \in {"idle", "reading", "ready", "failed"} /\ toFetch' \in Seq(Url)
    BY <1>0, <1>3, <2>1 DEF FetchAd
  <2>3. lapses' \in 0 .. MaxDiscoveryFaults
    BY <1>0, <1>3, <1>13 DEF FetchAd
  <2>4. untouched' \in BOOLEAN
    BY <1>3, <1>13 DEF FetchAd
  <2> QED BY <1>0, <1>3, <2>2, <2>3, <2>4 DEF FetchAd, DiscoveryTypeOK
<1>4. CASE FetchInterface
  <2>1. toFetch' \in Seq(Url)
    BY <1>0, <1>4, TailHolds DEF FetchInterface
  <2>2. raw' \in Seq(Attr)
    <3>1. Interface(deployed, Head(toFetch)) \in Seq(Attr)
      BY <1>0, InterfaceTypes
    <3>2. raw \o Interface(deployed, Head(toFetch)) \in Seq(Attr)
      BY <1>0, <3>1, ConcatHolds
    <3> QED BY <1>0, <1>4, <3>2 DEF FetchInterface, Collected
  <2>3. lapses' \in 0 .. MaxDiscoveryFaults
    BY <1>0, <1>4, <1>13 DEF FetchInterface, NoLapse
  <2>4. untouched' \in BOOLEAN
    BY <1>0, <1>4, <1>13 DEF FetchInterface, NoLapse
  <2> QED BY <1>0, <1>4, <2>1, <2>2, <2>3, <2>4 DEF FetchInterface, DiscoveryTypeOK
<1>5. CASE EndDiscovery
  BY <1>0, <1>5 DEF EndDiscovery, DiscoveryTypeOK
<1>6. CASE Forget
  BY <1>0, <1>6 DEF Forget, DiscoveryTypeOK
<1>7. ASSUME NEW name \in Name, StartCall(name) PROVE DiscoveryTypeOK'
  <2>1. Described(name) \in Attr
    BY <1>0, <1>7, DescribedIs DEF StartCall
  <2> QED BY <1>0, <1>7, <2>1 DEF StartCall, DiscoveryTypeOK
<1>8. CASE Unauthorized
  BY <1>0, <1>8, <1>13 DEF Unauthorized, DiscoveryTypeOK
<1>9. CASE Handle
  <2> DEFINE handler == Handlers(deployed, RpcName[calling])
  <2>1. handler # NoAttr => handler \in Attr
    BY <1>0, HandlersTypes
  <2> HIDE DEF handler
  <2>2. handler # NoAttr => Append(ran, handler) \in Seq(Attr)
    BY <1>0, <2>1
  <2>3. ran' \in Seq(Attr) /\ sent' \in Sent
    BY <1>0, <1>9, <2>2 DEF Handle, handler
  <2> QED BY <1>0, <1>9, <2>3 DEF Handle, DiscoveryTypeOK
<1>10. CASE GetResult
  BY <1>0, <1>10 DEF GetResult, DiscoveryTypeOK
<1>11. CASE Break
  BY <1>0, <1>11, <1>13 DEF Break, AfterBreak, DiscoveryTypeOK
<1>12. CASE EndCall
  BY <1>0, <1>12 DEF EndCall, DiscoveryTypeOK
<1> QED BY <1>1, <1>2, <1>3, <1>4, <1>5, <1>6, <1>7, <1>8, <1>9, <1>10, <1>11, <1>12
    DEF DiscoveryNext

\* Which server it is does not change, and so what it describes does not either.
LEMMA PortStays ==
  ASSUME [DiscoveryNext]_discoveryVars
  PROVE  /\ port' = port
         /\ \A S : Readable(S)' = Readable(S)
         /\ \A S, u : Yields(S, u)' = Yields(S, u)
<1>1. port' = port
  BY DEF DiscoveryNext, Deploy, FetchAd, FetchInterface, EndDiscovery, Forget, StartCall,
         Unauthorized, Handle, GetResult, Break, EndCall, discoveryVars
<1>2. \A S : Readable(S)' = Readable(S)
  BY <1>1 DEF Readable
<1>3. \A S, u : Yields(S, u)' = Yields(S, u)
  BY <1>1 DEF Yields, Parses, OpenanpParses, Anp4jParses, Interface
<1> QED BY <1>1, <1>2, <1>3

\* What was read, and what is left to read, is all that is readable at every step.
LEMMA ReadingStep ==
  ASSUME DiscoveryAssumption, DiscoveryIInv, [DiscoveryNext]_discoveryVars
  PROVE  ReadingInv' /\ DiscoversAll'
<1>0. /\ DiscoveryTypeOK /\ ReadingInv /\ CallingInv /\ DiscoversAll /\ AttrAssumption
      /\ raw \in Seq(Attr) /\ toFetch \in Seq(Url) /\ deployed \subseteq Attr
  BY DEF DiscoveryIInv, ReadIsCalled, DiscoveryTypeOK, DiscoveryAssumption
<1>1. /\ \A S : Readable(S)' = Readable(S)
      /\ \A S, u : Yields(S, u)' = Yields(S, u)
  BY PortStays
<1>2. ASSUME UNCHANGED <<discovery, raw, toFetch>>,
             ~untouched' \/ UNCHANGED <<untouched, deployed>>
      PROVE  ReadingInv' /\ DiscoversAll'
  <2>1. CASE ~untouched'
    BY <1>0, <1>2, <2>1 DEF ReadingInv, DiscoversAll
  <2>2. CASE UNCHANGED <<untouched, deployed>>
    <3>1. Readable(deployed)' = Readable(deployed)
      BY <1>1, <2>2 DEF Readable
    <3>2. UNION {Yields(deployed, u) : u \in ToSet(toFetch)}'
            = UNION {Yields(deployed, u) : u \in ToSet(toFetch)}
      BY <1>2, <2>2, PortStays DEF Yields, Parses, OpenanpParses, Anp4jParses, Interface
    <3>3. ToSet(raw)' = ToSet(raw)
      BY <1>2
    <3> QED BY <1>0, <1>2, <2>2, <3>1, <3>2, <3>3 DEF ReadingInv, DiscoversAll
  <2> QED BY <1>2, <2>1, <2>2
<1>3. CASE UNCHANGED discoveryVars
  BY <1>2, <1>3 DEF discoveryVars
<1>4. ASSUME NEW S \in SUBSET Attr, Deploy(S) PROVE ReadingInv' /\ DiscoversAll'
  BY <1>2, <1>4 DEF Deploy
<1>5. CASE \/ \E name \in Name : StartCall(name)
           \/ Unauthorized \/ Handle \/ GetResult \/ Break \/ EndCall
  BY <1>2, <1>5 DEF StartCall, Unauthorized, Handle, GetResult, Break, EndCall, Lapse
<1>6. CASE FetchAd
  <2>1. discovery = "idle" /\ raw = <<>> /\ raw' = <<>> /\ deployed' = deployed
        /\ discovery' # "idle" /\ discovery' # "ready"
    BY <1>0, <1>6 DEF FetchAd, ReadingInv
  <2>2. CASE ~untouched'
    BY <2>1, <2>2 DEF ReadingInv, DiscoversAll
  <2>3. CASE untouched'
    <3>1. /\ toFetch' = GenerateAd(deployed)
          /\ discovery' = IF GenerateAd(deployed) # <<>> THEN "reading" ELSE "failed"
      BY <1>6, <2>3 DEF FetchAd, Lapse, HasInterfaces
    <3>2. ASSUME Distinct(deployed)
          PROVE  /\ UNION {Yields(deployed, u) : u \in ToSet(GenerateAd(deployed))}
                      = Readable(deployed)
                 /\ GenerateAd(deployed) = <<>> => Readable(deployed) = {}
      BY <1>0, <3>2, AdCovers
    <3>3. ToSet(raw') = {}
      BY <2>1 DEF ToSet
    <3>4. Readable(deployed)' = Readable(deployed)
      BY <2>1, PortStays DEF Readable
    <3>5. UNION {Yields(deployed, u) : u \in ToSet(toFetch)}'
            = UNION {Yields(deployed, u) : u \in ToSet(GenerateAd(deployed))}
      BY <2>1, <3>1, PortStays DEF Yields, Parses, OpenanpParses, Anp4jParses, Interface
    <3>6. ReadingInv'
      BY <2>1, <3>2, <3>3, <3>4, <3>5 DEF ReadingInv
    <3>7. DiscoversAll'
      BY <2>1, <3>1, <3>2, <3>4 DEF DiscoversAll
    <3> QED BY <3>6, <3>7
  <2> QED BY <2>2, <2>3
<1>7. CASE FetchInterface
  <2>1. /\ discovery = "reading" /\ toFetch # <<>> /\ toFetch' = Tail(toFetch)
        /\ discovery' = discovery /\ deployed' = deployed
    BY <1>7 DEF FetchInterface
  <2>2. CASE ~untouched'
    BY <2>1, <2>2 DEF ReadingInv, DiscoversAll
  <2>3. CASE untouched'
    <3> DEFINE doc == Interface(deployed, Head(toFetch))
               U == ToSet(toFetch)
               V == ToSet(Tail(toFetch))
    <3>1. untouched /\ raw' = IF Parses(doc) THEN raw \o doc ELSE raw
      BY <1>7, <2>3 DEF FetchInterface, Lapse, NoLapse, Collected
    <3>2. doc \in Seq(Attr)
      BY <1>0, InterfaceTypes
    <3>3. ToSet(raw') = ToSet(raw) \union Yields(deployed, Head(toFetch))
      <4>1. ToSet(raw \o doc) = ToSet(raw) \union ToSet(doc)
        BY <1>0, <3>2, ConcatHolds
      <4> QED BY <3>1, <4>1 DEF Yields
    <3>4. U = {Head(toFetch)} \union V
      BY <1>0, <2>1, TailHolds
    <3> HIDE DEF U, V
    <3>5. UNION {Yields(deployed, u) : u \in U}
            = Yields(deployed, Head(toFetch)) \union UNION {Yields(deployed, u) : u \in V}
      BY <3>4
    <3>6. ToSet(raw') \union UNION {Yields(deployed, u) : u \in V}
            = ToSet(raw) \union UNION {Yields(deployed, u) : u \in U}
      BY <3>3, <3>5
    <3>7. Readable(deployed)' = Readable(deployed)
      BY <2>1, PortStays DEF Readable
    <3>8. UNION {Yields(deployed, u) : u \in ToSet(toFetch)}'
            = UNION {Yields(deployed, u) : u \in V}
      BY <2>1, PortStays DEF V, Yields, Parses, OpenanpParses, Anp4jParses, Interface
    <3>9. Distinct(deployed) =>
            ToSet(raw) \union UNION {Yields(deployed, u) : u \in U} = Readable(deployed)
      BY <1>0, <2>1, <3>1 DEF ReadingInv, U
    <3>10. ReadingInv'
      BY <2>1, <3>6, <3>7, <3>8, <3>9 DEF ReadingInv
    <3>11. DiscoversAll'
      BY <2>1 DEF DiscoversAll
    <3> QED BY <3>10, <3>11
  <2> QED BY <2>2, <2>3
<1>8. CASE EndDiscovery
  <2>1. /\ discovery = "reading" /\ toFetch = <<>>
        /\ discovery' = IF raw = <<>> THEN "failed" ELSE "ready"
        /\ UNCHANGED <<raw, untouched, deployed>>
    BY <1>8 DEF EndDiscovery
  <2>2. Readable(deployed)' = Readable(deployed)
    BY <2>1, PortStays DEF Readable
  <2>3. untouched /\ Distinct(deployed) => ToSet(raw) = Readable(deployed)
    <3>1. ToSet(toFetch) = {}
      BY <2>1 DEF ToSet
    <3>2. UNION {Yields(deployed, u) : u \in ToSet(toFetch)} = {}
      BY <3>1
    <3> QED BY <1>0, <2>1, <3>2 DEF ReadingInv
  <2>4. raw = <<>> => ToSet(raw) = {}
    BY DEF ToSet
  <2> QED BY <2>1, <2>2, <2>3, <2>4 DEF ReadingInv, DiscoversAll
<1>9. CASE Forget
  BY <1>9 DEF Forget, ReadingInv, DiscoversAll
<1> QED BY <1>3, <1>4, <1>5, <1>6, <1>7, <1>8, <1>9 DEF DiscoveryNext

\* A call runs at most one handler, and the one it means as long as nothing was replaced.
LEMMA CallingStep ==
  ASSUME DiscoveryAssumption, DiscoveryIInv, [DiscoveryNext]_discoveryVars
  PROVE  CallingInv' /\ CallsOnce'
<1>0. /\ DiscoveryTypeOK /\ ReadingInv /\ CallingInv /\ DiscoversAll /\ CallsOnce /\ AttrAssumption
      /\ raw \in Seq(Attr) /\ deployed \subseteq Attr /\ ran \in Seq(Attr)
  BY DEF DiscoveryIInv, ReadIsCalled, DiscoveryTypeOK, DiscoveryAssumption
<1>1. ASSUME UNCHANGED <<calling, sent, ran>>, ~untouched' \/ UNCHANGED <<untouched, deployed>>,
             calling # NoAttr => UNCHANGED <<discovery, raw>>
      PROVE  CallingInv' /\ CallsOnce'
  BY <1>0, <1>1 DEF CallingInv, CallsOnce
<1>2. CASE UNCHANGED discoveryVars
  BY <1>1, <1>2 DEF discoveryVars
<1>3. ASSUME NEW S \in SUBSET Attr, Deploy(S) PROVE CallingInv' /\ CallsOnce'
  BY <1>1, <1>3 DEF Deploy
<1>4. CASE FetchAd \/ FetchInterface \/ EndDiscovery \/ Forget
  <2>1. calling = NoAttr /\ UNCHANGED <<calling, sent, ran>>
    BY <1>0, <1>4 DEF FetchAd, FetchInterface, EndDiscovery, Forget, CallingInv
  <2>2. sent = "no"
    BY <1>0, <2>1 DEF CallingInv
  <2> QED BY <1>0, <2>1, <2>2 DEF CallingInv, CallsOnce
<1>5. ASSUME NEW name \in Name, StartCall(name) PROVE CallingInv' /\ CallsOnce'
  <2>1. /\ discovery = "ready" /\ calling' = Described(name) /\ sent' = "sent" /\ ran' = <<>>
        /\ UNCHANGED <<discovery, raw>>
    BY <1>5 DEF StartCall
  <2>2. Described(name) \in ToSet(raw) /\ Described(name) # NoAttr
    BY <1>0, <1>5, DescribedIs DEF StartCall, AttrAssumption
  <2>3. Len(<<>>) <= 1
    OBVIOUS
  <2> QED BY <2>1, <2>2, <2>3 DEF CallingInv, CallsOnce
<1>6. CASE Unauthorized
  <2>1. /\ ~untouched' /\ sent # "no" /\ ran = <<>> /\ sent' \in {"resent", "-32603"}
        /\ UNCHANGED <<discovery, raw, calling, ran>>
    BY <1>0, <1>6 DEF Unauthorized, InFlight, Lapse, CallingInv
  <2> QED BY <1>0, <2>1 DEF CallingInv, CallsOnce
<1>7. CASE Handle
  <2> DEFINE handler == Handlers(deployed, RpcName[calling])
  <2>1. /\ sent \in {"sent", "resent"} /\ ran = <<>>
        /\ UNCHANGED <<deployed, discovery, raw, untouched, calling>>
        /\ IF handler = NoAttr THEN sent' = "-32601" /\ ran' = ran
           ELSE sent' = "handled" /\ ran' = Append(ran, handler)
    BY <1>0, <1>7 DEF Handle, InFlight, CallingInv
  <2>2. calling # NoAttr /\ discovery = "ready" /\ calling \in ToSet(raw)
    BY <1>0, <2>1 DEF CallingInv
  <2>3. ASSUME untouched, Distinct(deployed) PROVE handler = calling
    <3>1. calling \in Readable(deployed)
      BY <1>0, <2>2, <2>3 DEF DiscoversAll
    <3>2. ToSet(ContentMethods(deployed)) \subseteq deployed
      BY <1>0, DocumentsList
    <3>3. calling \in deployed
      BY <3>1, <3>2 DEF Readable
    <3> QED BY <1>0, <2>3, <3>3, HandlersFind
  <2>4. handler # NoAttr => Append(ran, handler) = <<handler>>
    BY <2>1
  <2> HIDE DEF handler
  <2>5. CASE handler = NoAttr
    BY <1>0, <2>1, <2>2, <2>3, <2>5 DEF CallingInv, CallsOnce
  <2>6. CASE handler # NoAttr
    <3>1. ran' = <<handler>> /\ Len(<<handler>>) = 1 /\ sent' = "handled"
      BY <2>1, <2>4, <2>6
    <3> QED BY <1>0, <2>1, <2>2, <2>3, <3>1 DEF CallingInv, CallsOnce
  <2> QED BY <2>5, <2>6
<1>8. CASE GetResult
  <2>1. /\ sent = "handled" /\ sent' = "result"
        /\ UNCHANGED <<deployed, discovery, raw, untouched, calling, ran>>
    BY <1>8 DEF GetResult
  <2> QED BY <1>0, <2>1 DEF CallingInv, CallsOnce
<1>9. CASE Break
  <2>1. /\ ~untouched' /\ sent # "no" /\ sent' = "-32603"
        /\ UNCHANGED <<discovery, raw, calling, ran>>
    BY <1>0, <1>9 DEF Break, InFlight, AfterBreak, Lapse
  <2> QED BY <1>0, <2>1 DEF CallingInv, CallsOnce
<1>10. CASE EndCall
  <2>1. calling' = NoAttr /\ sent' = "no" /\ ran' = <<>> /\ Len(<<>>) <= 1
    BY <1>10 DEF EndCall
  <2> QED BY <2>1 DEF CallingInv, CallsOnce
<1> QED BY <1>2, <1>3, <1>4, <1>5, <1>6, <1>7, <1>8, <1>9, <1>10 DEF DiscoveryNext

\* The inductive invariant of discovery and of the calls after it.
THEOREM DiscoveryInvariance == DiscoveryAssumption /\ DiscoverySpec => []DiscoveryIInv
<1> SUFFICES ASSUME DiscoveryAssumption PROVE DiscoverySpec => []DiscoveryIInv
  OBVIOUS
<1>1. DiscoveryInit => DiscoveryIInv
  <2> SUFFICES ASSUME DiscoveryInit PROVE DiscoveryIInv
    OBVIOUS
  <2>1. DiscoveryTypeOK
    <3>1. <<>> \in Seq(Url) /\ <<>> \in Seq(Attr) /\ untouched \in BOOLEAN
      BY DEF DiscoveryInit
    <3> QED BY <3>1 DEF DiscoveryInit, DiscoveryTypeOK, DiscoveryAssumption, DeployAssumption
  <2>2. ReadingInv /\ CallingInv
    BY DEF DiscoveryInit, ReadingInv, CallingInv
  <2>3. ReadIsCalled
    <3>1. Len(<<>>) <= 1
      OBVIOUS
    <3> QED BY <3>1 DEF DiscoveryInit, ReadIsCalled, DiscoversAll, CallsOnce
  <2> QED BY <2>1, <2>2, <2>3 DEF DiscoveryIInv
<1>2. DiscoveryIInv /\ [DiscoveryNext]_discoveryVars => DiscoveryIInv'
  <2> SUFFICES ASSUME DiscoveryIInv, [DiscoveryNext]_discoveryVars PROVE DiscoveryIInv'
    OBVIOUS
  <2>1. DiscoveryTypeOK'
    BY DiscoveryTypesStep DEF DiscoveryIInv
  <2>2. ReadingInv' /\ DiscoversAll'
    BY ReadingStep
  <2>3. CallingInv' /\ CallsOnce'
    BY CallingStep
  <2> QED BY <2>1, <2>2, <2>3 DEF DiscoveryIInv, ReadIsCalled
<1> QED BY <1>1, <1>2, PTL DEF DiscoverySpec

\* What was read is what is called (client/agent.py:90-182, RemoteAgent.java:69-119).
THEOREM WhatIsReadIsCalled == DiscoveryAssumption /\ DiscoverySpec => []ReadIsCalled
<1>1. DiscoveryIInv => ReadIsCalled
  BY DEF DiscoveryIInv
<1> QED BY <1>1, DiscoveryInvariance, PTL

-----------------------------------------------------------------------------
(* AnpCrawler: pages and the tables *)

\* Of the constants
CrawlerAssumption == PageAssumption

\* Versions are numbers, from 1, and the first is there.
LEMMA VersionsAre ==
  ASSUME CrawlerAssumption
  PROVE  /\ Version \subseteq Nat
         /\ \A u \in CrawlUrl : 1 \in DOMAIN Page[u] /\ DOMAIN Page[u] \subseteq Version /\ 1 \in Version
         /\ \A u \in CrawlUrl : Len(Page[u]) \in Nat /\ DOMAIN Page[u] = 1 .. Len(Page[u])
<1> DEFINE P == [form : {"openrpc", "description", "jsonrpc", "other"},
                 methods : Seq(Method), server : Server \union {NoServer},
                 global : Server \union {NoServer}, links : Seq(CrawlUrl)]
<1>1. \A u \in CrawlUrl : Page[u] \in Seq(P) /\ Page[u] # <<>>
  BY DEF CrawlerAssumption, PageAssumption
<1> HIDE DEF P
<1>2. \A u \in CrawlUrl : Len(Page[u]) \in Nat /\ DOMAIN Page[u] = 1 .. Len(Page[u]) /\ Len(Page[u]) > 0
  BY <1>1
<1>3. \A u \in CrawlUrl : 1 \in DOMAIN Page[u]
  BY <1>2
<1>4. \A u \in CrawlUrl : DOMAIN Page[u] \subseteq Version
  BY DEF Version
<1>5. \A v \in Version : \E u \in CrawlUrl : v \in DOMAIN Page[u]
  BY DEF Version
<1>6. Version \subseteq Nat
  BY <1>2, <1>5
<1> QED BY <1>2, <1>3, <1>4, <1>6

\* Of a page
LEMMA PageIs ==
  ASSUME CrawlerAssumption, NEW u \in CrawlUrl, NEW v \in DOMAIN Page[u]
  PROVE  /\ v \in Version /\ Page[u][v].methods \in Seq(Method) /\ Page[u][v].links \in Seq(CrawlUrl)
         /\ Page[u][v].server \in Server \union {NoServer} /\ Page[u][v].global \in Server \union {NoServer}
<1> DEFINE P == [form : {"openrpc", "description", "jsonrpc", "other"},
                 methods : Seq(Method), server : Server \union {NoServer},
                 global : Server \union {NoServer}, links : Seq(CrawlUrl)]
<1>1. Page[u] \in Seq(P)
  BY DEF CrawlerAssumption, PageAssumption
<1>2. Page[u][v] \in P
  <2> HIDE DEF P
  <2> QED BY <1>1
<1>3. v \in Version
  BY VersionsAre
<1> QED BY <1>2, <1>3

\* What a page lists is of that page and that version.
LEMMA ListedIs ==
  ASSUME CrawlerAssumption, NEW u \in CrawlUrl, NEW v \in Version, NEW methods \in Seq(Method),
         NEW server \in Server \union {NoServer}
  PROVE  /\ Listed(methods, server, u, v) \in Seq(ToolInterface)
         /\ \A e \in ToSet(Listed(methods, server, u, v)) : e.from = u /\ e.version = v
<1> DEFINE E(i) == [tool |-> IF crawlDialect = "python" THEN Sanitized[methods[i]] ELSE methods[i],
                    method |-> methods[i], server |-> server, from |-> u, version |-> v]
           n == Len(methods)
<1>1. n \in Nat /\ DOMAIN methods = 1 .. n /\ \A i \in 1 .. n : methods[i] \in Method
  OBVIOUS
<1>2. \A m \in Method : Sanitized[m] \in Method
  BY DEF CrawlerAssumption, PageAssumption
<1>3. \A i \in 1 .. n : E(i) \in ToolInterface /\ E(i).from = u /\ E(i).version = v
  BY <1>1, <1>2 DEF ToolInterface
<1>4. Listed(methods, server, u, v) = [i \in 1 .. n |-> E(i)]
  BY <1>1 DEF Listed
<1> HIDE DEF E, n
<1>5. [i \in 1 .. n |-> E(i)] \in Seq(ToolInterface)
  BY <1>1, <1>3
<1>6. \A e \in ToSet([i \in 1 .. n |-> E(i)]) : \E i \in 1 .. n : e = E(i)
  BY DEF ToSet
<1>7. \A i \in 1 .. n : E(i).from = u /\ E(i).version = v
  BY <1>3
<1> DEFINE L == [i \in 1 .. n |-> E(i)]
<1> HIDE DEF L
<1>8. L \in Seq(ToolInterface) /\ \A e \in ToSet(L) : e.from = u /\ e.version = v
  BY <1>5, <1>6, <1>7 DEF L
<1> QED BY <1>4, <1>8 DEF L

LEMMA ParsedIs ==
  ASSUME CrawlerAssumption, NEW u \in CrawlUrl, NEW v \in DOMAIN Page[u]
  PROVE  /\ PythonParses(u, v) \in Seq(ToolInterface) /\ JavaParses(u, v) \in Seq(ToolInterface)
         /\ \A e \in ToSet(PythonParses(u, v)) : e.from = u /\ e.version = v
         /\ \A e \in ToSet(JavaParses(u, v)) : e.from = u /\ e.version = v
<1> DEFINE p == Page[u][v]
           server == IF p.form = "description" /\ p.server = NoServer THEN p.global ELSE p.server
           Fine(L) == L \in Seq(ToolInterface) /\ \A e \in ToSet(L) : e.from = u /\ e.version = v
<1>1. /\ v \in Version /\ p.methods \in Seq(Method) /\ p.server \in Server \union {NoServer}
      /\ p.global \in Server \union {NoServer}
  BY PageIs
<1>2. server \in Server \union {NoServer}
  BY <1>1
<1>3. FirstOf(p.methods) \in Seq(Method)
  <2>1. CASE p.methods = <<>>
    BY <2>1 DEF FirstOf
  <2>2. CASE p.methods # <<>>
    <3>1. Len(p.methods) \in Nat /\ Len(p.methods) > 0
      BY <1>1, <2>2
    <3>2. Head(p.methods) \in Method
      BY <1>1, <3>1
    <3> QED BY <2>2, <3>2 DEF FirstOf
  <2> QED BY <2>1, <2>2
<1>4. Fine(<<>>)
  BY DEF ToSet
<1>5. ASSUME NEW ms \in Seq(Method), NEW s \in Server \union {NoServer}
      PROVE  Fine(Listed(ms, s, u, v))
  <2> HIDE DEF p, server, Fine
  <2> DEFINE L == Listed(ms, s, u, v)
  <2>1. L \in Seq(ToolInterface) /\ \A e \in ToSet(L) : e.from = u /\ e.version = v
    BY <1>1, <1>5, ListedIs
  <2> HIDE DEF L
  <2>2. Fine(L)
    BY <2>1 DEF Fine
  <2> QED BY <2>2 DEF L
<1>6. PythonParses(u, v) = CASE p.form \in {"openrpc", "description"} -> Listed(p.methods, server, u, v)
                             [] p.form = "jsonrpc" -> Listed(FirstOf(p.methods), NoServer, u, v)
                             [] OTHER -> <<>>
  BY DEF PythonParses
<1>7. JavaParses(u, v) = IF p.server = NoServer THEN <<>> ELSE Listed(p.methods, p.server, u, v)
  BY DEF JavaParses
<1> HIDE DEF p, server, Fine
<1>8. Fine(PythonParses(u, v))
  <2>1. CASE p.form \in {"openrpc", "description"}
    <3>1. p.form # "jsonrpc"
      BY <2>1
    <3>2. Fine(Listed(p.methods, server, u, v))
      BY <1>1, <1>2, <1>5
    <3> QED BY <1>6, <2>1, <3>1, <3>2
  <2>2. CASE p.form = "jsonrpc"
    <3>1. ~(p.form \in {"openrpc", "description"})
      BY <2>2
    <3>2. Fine(Listed(FirstOf(p.methods), NoServer, u, v))
      BY <1>3, <1>5
    <3> QED BY <1>6, <2>2, <3>1, <3>2
  <2>3. CASE ~(p.form \in {"openrpc", "description"}) /\ p.form # "jsonrpc"
    BY <1>4, <1>6, <2>3
  <2> QED BY <2>1, <2>2, <2>3
<1>9. Fine(JavaParses(u, v))
  <2>1. Fine(Listed(p.methods, p.server, u, v))
    BY <1>1, <1>5
  <2> QED BY <1>4, <1>7, <2>1
<1> QED BY <1>8, <1>9 DEF Fine

\* The table has of each listed name one of the listing's tools, and of the others what it had.
LEMMA RegisteredIs ==
  ASSUME CrawlerAssumption, NEW table \in [Method -> ToolInterface \union {Blank}],
         NEW listing \in Seq(ToolInterface)
  PROVE  LET tools == {e.tool : e \in ToSet(listing)} IN
         /\ tools \subseteq Method
         /\ Registered(table, listing) \in [Method -> ToolInterface \union {Blank}]
         /\ \A m \in Method \ tools : Registered(table, listing)[m] = table[m]
         /\ \A m \in tools : /\ Registered(table, listing)[m] \in ToSet(listing)
                             /\ Registered(table, listing)[m].tool = m
<1> DEFINE n == Len(listing)
           tools == {e.tool : e \in ToSet(listing)}
           At(m) == {i \in DOMAIN listing : listing[i].tool = m}
           R == Registered(table, listing)
<1>1. /\ n \in Nat /\ DOMAIN listing = 1 .. n
      /\ \A i \in 1 .. n : listing[i] \in ToolInterface /\ listing[i].tool \in Method
  <2>1. n \in Nat /\ DOMAIN listing = 1 .. n /\ \A i \in 1 .. n : listing[i] \in ToolInterface
    OBVIOUS
  <2>2. \A e \in ToolInterface : e.tool \in Method
    BY DEF ToolInterface
  <2> HIDE DEF n
  <2> QED BY <2>1, <2>2
<1>2. \A e \in ToSet(listing) : \E i \in 1 .. n : e = listing[i]
  BY <1>1 DEF ToSet
<1>3. \A i \in 1 .. n : listing[i] \in ToSet(listing)
  BY <1>1 DEF ToSet
<1>4. \A m : m \in tools <=> \E i \in 1 .. n : listing[i].tool = m
  BY <1>2, <1>3
<1>5. \A m \in Method : R[m] = IF \A i \in 1 .. n : listing[i].tool # m THEN table[m]
                               ELSE listing[Max(At(m))]
  BY <1>1 DEF Registered
<1>6. IsFiniteSet(1 .. n)
  BY <1>1, FS_Interval
<1>7. ASSUME NEW m \in tools
      PROVE  Max(At(m)) \in 1 .. n /\ listing[Max(At(m))].tool = m
  <2> DEFINE I == At(m)
  <2>2. \A i : i \in I <=> i \in 1 .. n /\ listing[i].tool = m
    BY <1>1
  <2>0. \E i \in 1 .. n : listing[i].tool = m
    BY <1>4, <1>7
  <2> HIDE DEF I, n
  <2>1. I \subseteq 1 .. n /\ I \subseteq Nat /\ I # {}
    BY <2>0, <2>2
  <2>3. IsFiniteSet(I)
    BY <1>6, <2>1, FS_Subset
  <2>4. \E i \in I : \A j \in I : i >= j
    BY <2>1, <2>3, HasGreatest
  <2>5. Max(I) \in I
    BY <2>4 DEF Max
  <2> QED BY <2>2, <2>5 DEF I
<1>8. R = [m \in Method |-> R[m]]
  BY DEF Registered
<1> HIDE DEF R, At, n, tools
<1>9. \A m \in Method \ tools : R[m] = table[m]
  BY <1>4, <1>5
<1>10. tools \subseteq Method
  BY <1>1, <1>4
<1>11. \A m \in tools : R[m] = listing[Max(At(m))]
  BY <1>4, <1>5, <1>10
<1>12. \A m \in tools : R[m] \in ToSet(listing) /\ R[m].tool = m /\ R[m] \in ToolInterface
  BY <1>1, <1>3, <1>7, <1>11
<1>13. \A m \in Method : R[m] \in ToolInterface \union {Blank}
  BY <1>9, <1>12
<1>14. R \in [Method -> ToolInterface \union {Blank}]
  BY <1>8, <1>13
<1> QED BY <1>9, <1>10, <1>12, <1>14 DEF R, tools

\* What is known of the state by its types
LEMMA CrawlTypes ==
  ASSUME CrawlerAssumption, CrawlIInv
  PROVE  /\ CrawlTypeOK /\ VersionsInv /\ ListingsInv /\ CrawlsInv /\ CachedIsCurrent
         /\ \A u \in CrawlUrl : /\ version[u] \in DOMAIN Page[u] /\ version[u] \in Nat /\ cleared[u] \in Nat
                               /\ cleared[u] <= version[u]
         /\ \A u \in CrawlUrl : cache[u] # Blank => cache[u] \in Result
         /\ \A c \in Crawler : crawl[c] # Blank =>
              /\ crawl[c] \in Crawl /\ UnderWay(crawl[c])
              /\ crawl[c].stage = "served" => AnsweredPage(crawl[c])
<1>1. CrawlTypeOK /\ VersionsInv /\ ListingsInv /\ CrawlsInv /\ CachedIsCurrent
  BY DEF CrawlIInv
<1>2. \A u \in CrawlUrl : /\ version[u] \in DOMAIN Page[u] /\ version[u] \in Version
                          /\ cleared[u] \in Version /\ cleared[u] <= version[u]
  BY <1>1 DEF CrawlTypeOK, VersionsInv
<1>3. \A v \in Version : v \in Nat
  BY VersionsAre
<1>4. \A u \in CrawlUrl : cache[u] # Blank => cache[u] \in Result
  BY <1>1 DEF CrawlTypeOK
<1>5. \A c \in Crawler : crawl[c] # Blank => crawl[c] \in Crawl
  BY <1>1 DEF CrawlTypeOK
<1>6. \A c \in Crawler : crawl[c] # Blank =>
        UnderWay(crawl[c]) /\ (crawl[c].stage = "served" => AnsweredPage(crawl[c]))
  BY <1>1 DEF CrawlsInv
<1> QED BY <1>1, <1>2, <1>3, <1>4, <1>5, <1>6

\* The fields of a crawl
LEMMA CrawlFields ==
  ASSUME NEW x \in Crawl
  PROVE  /\ x.url \in CrawlUrl /\ x.stage \in {"asking", "served", "read"} /\ x.page \in BOOLEAN
         /\ x.links \in Seq(CrawlUrl) /\ x.at \in Version /\ x.result \in Result
         /\ x.result.listing \in Seq(ToolInterface) /\ x.result.version \in Version
         /\ x.result.missing \in BOOLEAN /\ x.result.early \in BOOLEAN
BY DEF Crawl, Result

\* An entry of a listing
LEMMA EntryFields ==
  ASSUME NEW L \in Seq(ToolInterface), NEW e \in ToSet(L)
  PROVE  e \in ToolInterface /\ e.from \in CrawlUrl /\ e.version \in Version /\ e.tool \in Method
<1>1. e \in ToolInterface
  <2>1. PICK i \in DOMAIN L : e = L[i]
    BY DEF ToSet
  <2> QED BY <2>1
<1> QED BY <1>1 DEF ToolInterface

\* What is known of a crawl and of a result stays so while versions grow and more is visited.
LEMMA CrawlsStay ==
  ASSUME CrawlerAssumption, CrawlIInv, crawlDialect' = crawlDialect, cleared' = cleared,
         visited \subseteq visited', CrawlTypeOK',
         \A u \in CrawlUrl : version[u] <= version'[u]
  PROVE  /\ \A u, v : PythonParses(u, v)' = PythonParses(u, v)
         /\ \A x \in Crawl : UnderWay(x) => UnderWay(x)'
         /\ \A x \in Crawl : (x.page \/ x.links # <<>>) /\ AnsweredPage(x) => AnsweredPage(x)'
         /\ \A u, r : CurrentResult(u, r) => CurrentResult(u, r)'
<1>1. \A u, v : PythonParses(u, v)' = PythonParses(u, v) /\ JavaParses(u, v)' = JavaParses(u, v)
  BY DEF PythonParses, JavaParses, Listed
<1>2. \A l, L : LinkRead(l, L)' <=> LinkRead(l, L)
  BY <1>1 DEF LinkRead
<1>3. \A x \in Crawl : UnderWay(x) => UnderWay(x)'
  BY <1>2 DEF UnderWay
<1>4. \A u, r : CurrentResult(u, r) => CurrentResult(u, r)'
  BY <1>1, <1>2 DEF CurrentResult
<1>5. ASSUME NEW x \in Crawl, x.page \/ x.links # <<>>, AnsweredPage(x) PROVE AnsweredPage(x)'
  <2> DEFINE u == IF x.page THEN x.url ELSE x.links[1]
  <2>1. u \in CrawlUrl
    <3>1. x.url \in CrawlUrl /\ x.links \in Seq(CrawlUrl)
      BY CrawlFields
    <3>2. CASE x.page
      BY <3>1, <3>2
    <3>3. CASE ~x.page
      <4>1. Len(x.links) \in Nat /\ Len(x.links) > 0
        BY <1>5, <3>1, <3>3
      <4>2. x.links[1] \in CrawlUrl
        BY <3>1, <4>1
      <4> QED BY <3>3, <4>2
    <3> QED BY <3>2, <3>3
  <2>2. x.at \in DOMAIN Page[u] /\ x.at <= version[u] /\ (~x.result.early => x.at >= cleared[u])
    BY <1>5 DEF AnsweredPage
  <2>3. version[u] \in Nat /\ version'[u] \in Nat /\ version[u] <= version'[u] /\ x.at \in Nat
    <3>1. version[u] \in Version /\ version'[u] \in Version
      BY <2>1 DEF CrawlIInv, CrawlTypeOK
    <3>2. x.at \in Version
      BY CrawlFields
    <3> QED BY <2>1, <3>1, <3>2, VersionsAre
  <2> HIDE DEF u
  <2>4. x.at <= version'[u]
    BY <2>2, <2>3
  <2> QED BY <2>2, <2>4 DEF AnsweredPage, u
<1> QED BY <1>1, <1>3, <1>4, <1>5

\* Tools that are registered can be called by the versions they were listed in, and the ones
\* that were listed before still can.
LEMMA RegisterKeeps ==
  ASSUME CrawlerAssumption, CrawlIInv, NEW c \in Crawler, NEW u \in CrawlUrl, NEW L \in Seq(ToolInterface),
         Register(c, u, L), version' = version, crawl[c].at \in Nat, crawl[c].at <= version[u],
         \A e \in ToSet(L) : e.from = u /\ e.version = crawl[c].at
  PROVE  /\ interfaces' \in [Method -> ToolInterface \union {Blank}]
         /\ emptied' \subseteq Method /\ outdated' \subseteq Method
         /\ \A e \in ToolInterface : Callable(e) => Callable(e)'
         /\ \A e \in ToSet(L) : Callable(e)'
<1> DEFINE tools == {e.tool : e \in ToSet(L)}
           R == Registered(interfaces, L)
           at == crawl[c].at
<1>0. /\ interfaces \in [Method -> ToolInterface \union {Blank}]
      /\ emptied \subseteq Method /\ outdated \subseteq Method
  BY DEF CrawlIInv, CrawlTypeOK
<1>1. /\ tools \subseteq Method /\ R \in [Method -> ToolInterface \union {Blank}]
      /\ \A m \in Method \ tools : R[m] = interfaces[m]
      /\ \A m \in tools : R[m] \in ToSet(L) /\ R[m].tool = m
  BY <1>0, RegisteredIs
<1>2. /\ interfaces' = R /\ emptied' = emptied \ tools
      /\ outdated' = IF at < version[u] THEN outdated \union tools ELSE outdated \ tools
  BY DEF Register
<1>3. \A e \in ToSet(L) : e.tool \in tools
  OBVIOUS
<1>4. \A e \in ToolInterface : e.tool \in Method /\ e.from \in CrawlUrl /\ e.version \in Nat
  <2>1. \A e \in ToolInterface : e.tool \in Method /\ e.from \in CrawlUrl /\ e.version \in Version
    BY DEF ToolInterface
  <2> QED BY <2>1, VersionsAre
<1>5. \A l \in CrawlUrl : version[l] \in Nat
  BY CrawlTypes
<1>6. \A e \in ToSet(L) : e \in ToolInterface
  BY EntryFields
<1>7. Blank \notin ToolInterface
  BY DEF CrawlerAssumption, PageAssumption
<1> HIDE DEF tools, R, at
<1>8. \A m \in tools : R[m] \in ToolInterface /\ R[m] # Blank /\ R[m].from = u /\ R[m].version = at
  BY <1>1, <1>6, <1>7 DEF at
<1>9. ASSUME NEW e \in ToolInterface, e.version <= version[e.from], e.tool \in tools
      PROVE  Callable(e)'
  <2>1. at < version[u] => e.tool \in outdated'
    BY <1>2, <1>9
  <2>2. ~(at < version[u]) /\ e.from = u => at >= e.version
    BY <1>4, <1>5, <1>9 DEF at
  <2>3. R[e.tool] # Blank /\ R[e.tool].from = u /\ R[e.tool].version = at
    BY <1>8, <1>9
  <2> QED BY <1>2, <1>9, <2>1, <2>2, <2>3 DEF Callable
<1>10. ASSUME NEW e \in ToolInterface, Callable(e) PROVE Callable(e)'
  <2>1. e.version <= version[e.from]
    BY <1>10 DEF Callable
  <2>2. CASE e.tool \in tools
    BY <1>9, <2>1, <2>2
  <2>3. CASE e.tool \notin tools
    <3>1. R[e.tool] = interfaces[e.tool]
      BY <1>1, <1>4, <2>3
    <3>2. (e.tool \in emptied' <=> e.tool \in emptied) /\ (e.tool \in outdated' <=> e.tool \in outdated)
      BY <1>2, <2>3
    <3> QED BY <1>2, <1>10, <3>1, <3>2 DEF Callable
  <2> QED BY <2>2, <2>3
<1>11. \A e \in ToSet(L) : Callable(e)'
  <2> TAKE e \in ToSet(L)
  <2>1. e.version = at /\ e.from = u /\ at <= version[u] /\ e \in ToolInterface
    BY <1>6 DEF at
  <2> QED BY <1>3, <1>9, <2>1
<1> QED BY <1>0, <1>1, <1>2, <1>10, <1>11

-----------------------------------------------------------------------------
(* AnpCrawler: the steps *)

\* A step of the crawls keeps what is inductive when it does so of the results and the crawls
\* that it changes.
LEMMA CrawlStep ==
  ASSUME CrawlerAssumption, CrawlIInv, CrawlTypeOK', VersionsInv',
         crawlDialect' = crawlDialect, cleared' = cleared, visited \subseteq visited',
         \A u \in CrawlUrl : version[u] <= version'[u],
         \A e \in ToolInterface : Callable(e) => Callable(e)',
         \A u \in CrawlUrl : \A r \in Result : cache'[u] = r => r = cache[u] \/
           (CurrentResult(u, r)' /\ \A e \in ToSet(r.listing) : Callable(e)'),
         \A c \in Crawler : \A x \in Crawl : crawl'[c] = x => x = crawl[c] \/
           (/\ UnderWay(x)' /\ (x.stage = "served" => AnsweredPage(x)')
            /\ \A e \in ToSet(x.result.listing) : Callable(e)')
  PROVE  CrawlIInv'
<1>0. Blank \notin Result /\ Blank \notin Crawl
  BY DEF CrawlerAssumption, PageAssumption
<1>1. \A u \in CrawlUrl : \A r \in Result : cache'[u] = r =>
        CurrentResult(u, r)' /\ \A e \in ToSet(r.listing) : Callable(e)'
  <2> SUFFICES ASSUME NEW u \in CrawlUrl, NEW r \in Result, r = cache'[u], r = cache[u]
               PROVE  CurrentResult(u, r)' /\ \A e \in ToSet(r.listing) : Callable(e)'
    OBVIOUS
  <2>1. cache[u] # Blank
    BY <1>0
  <2>2. CurrentResult(u, r) /\ \A e \in ToSet(r.listing) : Callable(e)
    BY <2>1 DEF CrawlIInv, CachedIsCurrent, ListingsInv
  <2>3. CurrentResult(u, r)'
    BY <2>2, CrawlsStay
  <2>4. \A e \in ToSet(r.listing) : e \in ToolInterface
    <3>1. r.listing \in Seq(ToolInterface)
      BY DEF Result
    <3> QED BY <3>1, EntryFields
  <2> QED BY <2>2, <2>3, <2>4
<1>2. \A c \in Crawler : \A x \in Crawl : crawl'[c] = x =>
        /\ UnderWay(x)' /\ (x.stage = "served" => AnsweredPage(x)')
        /\ \A e \in ToSet(x.result.listing) : Callable(e)'
  <2> SUFFICES ASSUME NEW c \in Crawler, NEW x \in Crawl, x = crawl'[c], x = crawl[c]
               PROVE  /\ UnderWay(x)' /\ (x.stage = "served" => AnsweredPage(x)')
                      /\ \A e \in ToSet(x.result.listing) : Callable(e)'
    OBVIOUS
  <2>1. crawl[c] # Blank
    BY <1>0
  <2>2. UnderWay(x) /\ (x.stage = "served" => AnsweredPage(x)) /\ \A e \in ToSet(x.result.listing) : Callable(e)
    BY <2>1 DEF CrawlIInv, CrawlsInv, ListingsInv
  <2>3. UnderWay(x)'
    BY <2>2, CrawlsStay
  <2>4. x.stage = "served" => AnsweredPage(x)'
    <3>1. x.stage = "served" => x.page \/ x.links # <<>>
      BY <2>2, CrawlFields DEF UnderWay
    <3> QED BY <2>2, <3>1, CrawlsStay
  <2>5. \A e \in ToSet(x.result.listing) : e \in ToolInterface
    BY CrawlFields, EntryFields
  <2> QED BY <2>2, <2>3, <2>4, <2>5
<1>3. /\ \A u \in CrawlUrl : cache'[u] # Blank => cache'[u] \in Result
      /\ \A c \in Crawler : crawl'[c] # Blank => crawl'[c] \in Crawl
  BY DEF CrawlTypeOK
<1>4. CachedIsCurrent'
  <2> SUFFICES ASSUME NEW u \in CrawlUrl, cache'[u] # Blank PROVE CurrentResult(u, cache[u])'
    BY DEF CachedIsCurrent
  <2>1. PICK r \in Result : r = cache'[u]
    BY <1>3
  <2>2. CurrentResult(u, r)'
    BY <1>1, <2>1
  <2> QED BY <2>1, <2>2 DEF CurrentResult
<1>5. ListingsInv'
  <2>1. ASSUME NEW u \in CrawlUrl, cache'[u] # Blank
        PROVE  \A e \in ToSet(cache'[u].listing) : Callable(e)'
    BY <1>1, <1>3, <2>1
  <2>2. ASSUME NEW c \in Crawler, crawl'[c] # Blank
        PROVE  \A e \in ToSet(crawl'[c].result.listing) : Callable(e)'
    BY <1>2, <1>3, <2>2
  <2> QED BY <2>1, <2>2 DEF ListingsInv
<1>6. CrawlsInv'
  <2> SUFFICES ASSUME NEW c \in Crawler, crawl'[c] # Blank
               PROVE  UnderWay(crawl[c])' /\ (crawl'[c].stage = "served" => AnsweredPage(crawl[c])')
    BY DEF CrawlsInv
  <2>1. PICK x \in Crawl : x = crawl'[c]
    BY <1>3
  <2>2. UnderWay(x)' /\ (x.stage = "served" => AnsweredPage(x)')
    BY <1>2, <2>1
  <2>3. UnderWay(crawl[c])'
    BY <2>1, <2>2 DEF UnderWay
  <2>4. crawl'[c].stage = "served" => AnsweredPage(crawl[c])'
    BY <2>1, <2>2 DEF AnsweredPage
  <2> QED BY <2>3, <2>4
<1> QED BY <1>4, <1>5, <1>6 DEF CrawlIInv

\* A page is replaced by its next version.
LEMMA PublishKeeps ==
  ASSUME CrawlerAssumption, CrawlIInv, NEW u \in CrawlUrl, PublishPage(u)
  PROVE  CrawlIInv'
<1>0. /\ CrawlTypeOK /\ VersionsInv /\ version \in [CrawlUrl -> Version]
      /\ \A l \in CrawlUrl : version[l] \in Nat /\ cleared[l] \in Nat /\ version[l] \in DOMAIN Page[l]
                           /\ cleared[l] <= version[l]
  BY CrawlTypes DEF CrawlTypeOK
<1>1. /\ version[u] < Len(Page[u]) /\ version' = [version EXCEPT ![u] = @ + 1]
      /\ crawlDialect' = crawlDialect /\ faults' = faults /\ visited' = visited /\ cache' = cache
      /\ interfaces' = interfaces /\ crawl' = crawl
      /\ cleared' = cleared /\ emptied' = emptied /\ outdated' = outdated
  BY DEF PublishPage, crawlHistory
<1>2. version[u] + 1 \in DOMAIN Page[u] /\ version[u] + 1 \in Version
  BY <1>0, <1>1, VersionsAre
<1>3. /\ version' \in [CrawlUrl -> Version]
      /\ \A l \in CrawlUrl : version'[l] \in DOMAIN Page[l] /\ version[l] <= version'[l]
                           /\ cleared[l] <= version'[l] /\ version'[l] \in Nat
  BY <1>0, <1>1, <1>2
<1>4. CrawlTypeOK' /\ VersionsInv'
  BY <1>0, <1>1, <1>3 DEF CrawlTypeOK, VersionsInv
<1>5. \A e \in ToolInterface : Callable(e) => Callable(e)'
  <2> SUFFICES ASSUME NEW e \in ToolInterface, Callable(e) PROVE Callable(e)'
    OBVIOUS
  <2>1. e.from \in CrawlUrl /\ e.version \in Nat
    <3>1. e.from \in CrawlUrl /\ e.version \in Version
      BY DEF ToolInterface
    <3> QED BY <3>1, VersionsAre
  <2>2. e.version <= version'[e.from]
    <3>1. e.version <= version[e.from]
      BY DEF Callable
    <3> QED BY <1>0, <1>3, <2>1, <3>1
  <2> QED BY <1>1, <2>2 DEF Callable
<1> QED BY <1>1, <1>3, <1>4, <1>5, CrawlStep

\* The server answers with the version that it has.
LEMMA ServeKeeps ==
  ASSUME CrawlerAssumption, CrawlIInv, NEW c \in Crawler, ServePage(c)
  PROVE  CrawlIInv'
<1>0. /\ CrawlTypeOK /\ VersionsInv
      /\ \A l \in CrawlUrl : version[l] \in Nat /\ version[l] \in DOMAIN Page[l] /\ cleared[l] \in Nat
                           /\ cleared[l] <= version[l]
  BY CrawlTypes
<1>a. PICK x : x = crawl[c]
  OBVIOUS
<1>b. PICK y : y = [x EXCEPT !.stage = "served", !.at = version[Target(c)]]
  OBVIOUS
<1>1. /\ x # Blank /\ x.stage = "asking" /\ crawl' = [crawl EXCEPT ![c] = y]
      /\ crawlDialect' = crawlDialect /\ faults' = faults /\ visited' = visited /\ cache' = cache
      /\ version' = version /\ interfaces' = interfaces
      /\ cleared' = cleared /\ emptied' = emptied /\ outdated' = outdated
  BY <1>a, <1>b DEF ServePage, crawlHistory
<1>2. x \in Crawl /\ UnderWay(x)
  BY <1>1, <1>a, CrawlTypes
<1>3. x.url \in CrawlUrl /\ x.links \in Seq(CrawlUrl) /\ x.page \in BOOLEAN
  BY <1>2, CrawlFields
<1>4. Target(c) \in CrawlUrl
  <2>1. CASE x.page
    BY <1>3, <1>a, <2>1 DEF Target
  <2>2. CASE ~x.page
    <3>1. x.links # <<>>
      BY <1>1, <1>2, <2>2 DEF UnderWay
    <3>2. Len(x.links) \in Nat /\ Len(x.links) > 0
      BY <1>3, <3>1
    <3>3. x.links[1] \in CrawlUrl
      BY <1>3, <3>2
    <3> QED BY <1>a, <2>2, <3>3 DEF Target
  <2> QED BY <2>1, <2>2
<1>5. version[Target(c)] \in Version
  BY <1>0, <1>4 DEF CrawlTypeOK
<1>6. /\ y \in Crawl /\ y.stage = "served" /\ y.at = version[Target(c)] /\ y.url = x.url /\ y.page = x.page
      /\ y.links = x.links /\ y.result = x.result
  BY <1>2, <1>5, <1>b DEF Crawl
<1>7. CrawlTypeOK'
  <2>1. crawl' \in [Crawler -> Crawl \union {Blank}]
    BY <1>0, <1>1, <1>6 DEF CrawlTypeOK
  <2> QED BY <1>0, <1>1, <2>1 DEF CrawlTypeOK
<1>8. VersionsInv'
  BY <1>0, <1>1 DEF VersionsInv
<1>9. \A e : Callable(e)' <=> Callable(e)
  BY <1>1 DEF Callable
<1>10. UnderWay(y)'
  <2>1. UnderWay(x)'
    BY <1>0, <1>1, <1>2, <1>7, CrawlsStay
  <2>2. ~x.page => x.links # <<>>
    BY <1>1, <1>2 DEF UnderWay
  <2> QED BY <1>6, <2>1, <2>2 DEF UnderWay
<1>11. AnsweredPage(y)'
  <2>0. PICK u : u = Target(c)
    OBVIOUS
  <2>1. u = IF y.page THEN y.url ELSE y.links[1]
    BY <1>6, <1>a, <2>0 DEF Target
  <2>2. version[u] \in DOMAIN Page[u] /\ version[u] \in Nat /\ cleared[u] \in Nat /\ cleared[u] <= version[u]
    BY <1>0, <1>4, <2>0
  <2>3. y.at = version[u]
    BY <1>6, <2>0
  <2>4. version'[u] = version[u] /\ cleared'[u] = cleared[u]
    BY <1>1
  <2> QED BY <1>1, <2>1, <2>2, <2>3, <2>4 DEF AnsweredPage
<1>12. \A e \in ToSet(y.result.listing) : Callable(e)
  BY <1>1, <1>6, <1>a DEF CrawlIInv, ListingsInv
<1>13. \A d \in Crawler : crawl'[d] = crawl[d] \/ (d = c /\ crawl'[d] = y)
  BY <1>0, <1>1 DEF CrawlTypeOK
<1>14. \A u \in CrawlUrl : version[u] <= version'[u]
  BY <1>0, <1>1
<1>15. \A d \in Crawler : \A z \in Crawl : crawl'[d] = z => z = crawl[d] \/
         (/\ UnderWay(z)' /\ (z.stage = "served" => AnsweredPage(z)')
          /\ \A e \in ToSet(z.result.listing) : Callable(e)')
  BY <1>9, <1>10, <1>11, <1>12, <1>13
<1> QED BY <1>1, <1>7, <1>8, <1>9, <1>14, <1>15, CrawlStep

\* fetch_text, fetchText of a URL that is not cached
LEMMA FetchKeeps ==
  ASSUME CrawlerAssumption, CrawlIInv, NEW c \in Crawler, NEW u \in CrawlUrl, Fetch(c, u)
  PROVE  CrawlIInv'
<1>0. /\ CrawlTypeOK /\ VersionsInv /\ \A l \in CrawlUrl : version[l] \in Nat
  BY CrawlTypes
<1>1. PICK y : y = NewCrawl(u)
  OBVIOUS
<1>2. /\ crawl' = [crawl EXCEPT ![c] = y] /\ visited' = visited \union {u}
      /\ crawlDialect' = crawlDialect /\ faults' = faults /\ cache' = cache
      /\ version' = version /\ interfaces' = interfaces
      /\ cleared' = cleared /\ emptied' = emptied /\ outdated' = outdated
  BY <1>1 DEF Fetch, crawlHistory
<1>3. 1 \in Version
  BY VersionsAre
<1>4. /\ y \in Crawl /\ y.url = u /\ y.page = TRUE /\ y.stage = "asking"
      /\ y.result.early = FALSE /\ y.result.listing = <<>>
  BY <1>1, <1>3 DEF NewCrawl, Crawl, Result
<1>5. CrawlTypeOK'
  <2>1. crawl' \in [Crawler -> Crawl \union {Blank}] /\ visited' \subseteq CrawlUrl
    BY <1>0, <1>2, <1>4 DEF CrawlTypeOK
  <2> QED BY <1>0, <1>2, <2>1 DEF CrawlTypeOK
<1>6. VersionsInv'
  BY <1>0, <1>2 DEF VersionsInv
<1>7. \A e : Callable(e)' <=> Callable(e)
  BY <1>2 DEF Callable
<1>8. ToSet(y.result.listing) = {}
  BY <1>4 DEF ToSet
<1>9. UnderWay(y)'
  BY <1>2, <1>4, <1>8 DEF UnderWay
<1>10. \A d \in Crawler : crawl'[d] = crawl[d] \/ (d = c /\ crawl'[d] = y)
  BY <1>0, <1>2 DEF CrawlTypeOK
<1>11. \A l \in CrawlUrl : version[l] <= version'[l]
  BY <1>0, <1>2
<1>12. \A d \in Crawler : \A z \in Crawl : crawl'[d] = z => z = crawl[d] \/
         (/\ UnderWay(z)' /\ (z.stage = "served" => AnsweredPage(z)')
          /\ \A e \in ToSet(z.result.listing) : Callable(e)')
  BY <1>4, <1>8, <1>9, <1>10
<1>13. visited \subseteq visited'
  BY <1>2
<1> QED BY <1>2, <1>5, <1>6, <1>7, <1>11, <1>12, <1>13, CrawlStep

\* The rest of the links
LEMMA RestIs ==
  ASSUME NEW s \in Seq(CrawlUrl), s # <<>>
  PROVE  /\ Tail(s) \in Seq(CrawlUrl) /\ s[1] \in CrawlUrl /\ Onward(s) \in {"asking", "read"}
         /\ (Onward(s) = "read" <=> Tail(s) = <<>>)
         /\ \A l \in ToSet(s) : l = s[1] \/ l \in ToSet(Tail(s))
<1>1. Len(s) \in Nat /\ Len(s) > 0 /\ DOMAIN s = 1 .. Len(s)
  OBVIOUS
<1>2. Tail(s) \in Seq(CrawlUrl) /\ Len(Tail(s)) = Len(s) - 1 /\ s[1] \in CrawlUrl
  BY <1>1
<1>3. Head(s) = s[1]
  BY <1>1
<1>4. Tail(s) = <<>> <=> Len(s) = 1
  BY <1>1, <1>2
<1>5. ToSet(s) = {Head(s)} \union ToSet(Tail(s))
  BY TailHolds
<1> QED BY <1>1, <1>2, <1>3, <1>4, <1>5 DEF Onward

\* A failed page ends the crawl, a failed link is passed over.
LEMMA FailureKeeps ==
  ASSUME CrawlerAssumption, CrawlIInv, NEW c \in Crawler, FetchFails(c)
  PROVE  CrawlIInv'
<1>0. /\ CrawlTypeOK /\ VersionsInv /\ \A l \in CrawlUrl : version[l] \in Nat
  BY CrawlTypes
<1>a. PICK x : x = crawl[c]
  OBVIOUS
<1>b. PICK y : y = IF x.page THEN Blank
                   ELSE [x EXCEPT !.links = Tail(x.links), !.stage = Onward(x.links),
                                  !.result = [x.result EXCEPT !.missing = TRUE]]
  OBVIOUS
<1>1. /\ x # Blank /\ x.stage = "asking" /\ faults < MaxCrawlFaults /\ faults' = faults + 1
      /\ crawl' = [crawl EXCEPT ![c] = y]
      /\ crawlDialect' = crawlDialect /\ visited' = visited /\ cache' = cache
      /\ version' = version /\ interfaces' = interfaces
      /\ cleared' = cleared /\ emptied' = emptied /\ outdated' = outdated
  <2>1. crawl' = [crawl EXCEPT ![c] = y]
    <3>1. CASE x.page
      BY <1>a, <1>b, <3>1 DEF FetchFails
    <3>2. CASE ~x.page
      BY <1>a, <1>b, <3>2, <1>0 DEF FetchFails, CrawlTypeOK
    <3> QED BY <3>1, <3>2
  <2> QED BY <2>1, <1>a DEF FetchFails, crawlHistory
<1>2. x \in Crawl /\ UnderWay(x) /\ \A e \in ToSet(x.result.listing) : Callable(e)
  <2>1. ListingsInv
    BY CrawlTypes
  <2> QED BY <1>1, <1>a, <2>1, CrawlTypes DEF ListingsInv
<1>3. x.links \in Seq(CrawlUrl) /\ x.page \in BOOLEAN /\ x.result \in Result
  BY <1>2, CrawlFields
<1>4. faults' \in 0 .. MaxCrawlFaults
  <2>1. faults \in 0 .. MaxCrawlFaults /\ MaxCrawlFaults \in Nat
    BY <1>0 DEF CrawlTypeOK, CrawlerAssumption, PageAssumption
  <2> QED BY <1>1, <2>1
<1>5. \A e : Callable(e)' <=> Callable(e)
  BY <1>1 DEF Callable
<1>6. y # Blank =>
        /\ y \in Crawl /\ UnderWay(y)' /\ y.stage # "served"
        /\ \A e \in ToSet(y.result.listing) : Callable(e)
  <2> SUFFICES ASSUME ~x.page
               PROVE  /\ y \in Crawl /\ UnderWay(y)' /\ y.stage # "served"
                      /\ \A e \in ToSet(y.result.listing) : Callable(e)
    BY <1>b, <1>3
  <2>1. x.links # <<>>
    BY <1>1, <1>2 DEF UnderWay
  <2>2. /\ Tail(x.links) \in Seq(CrawlUrl) /\ Onward(x.links) \in {"asking", "read"}
        /\ (Onward(x.links) = "read" <=> Tail(x.links) = <<>>)
    BY <1>3, <2>1, RestIs
  <2>3. PICK r : r = [x.result EXCEPT !.missing = TRUE]
    OBVIOUS
  <2>4. /\ r \in Result /\ r.missing = TRUE /\ r.listing = x.result.listing
        /\ r.version = x.result.version /\ r.early = x.result.early
    BY <1>3, <2>3 DEF Result
  <2>5. y = [x EXCEPT !.links = Tail(x.links), !.stage = Onward(x.links), !.result = r]
    BY <1>b, <2>3
  <2>6. /\ y \in Crawl /\ y.links = Tail(x.links) /\ y.stage = Onward(x.links) /\ y.result = r
        /\ y.page = x.page /\ y.url = x.url
    BY <1>2, <2>2, <2>4, <2>5 DEF Crawl
  <2>7. UnderWay(y)'
    BY <1>1, <1>2, <2>2, <2>4, <2>6 DEF UnderWay
  <2> QED BY <1>2, <2>2, <2>4, <2>6, <2>7
<1>7. CrawlTypeOK'
  <2>1. crawl' \in [Crawler -> Crawl \union {Blank}]
    BY <1>0, <1>1, <1>6 DEF CrawlTypeOK
  <2> QED BY <1>0, <1>1, <1>4, <2>1 DEF CrawlTypeOK
<1>8. VersionsInv'
  BY <1>0, <1>1 DEF VersionsInv
<1>9. \A d \in Crawler : crawl'[d] = crawl[d] \/ (d = c /\ crawl'[d] = y)
  BY <1>0, <1>1 DEF CrawlTypeOK
<1>10. \A l \in CrawlUrl : version[l] <= version'[l]
  BY <1>0, <1>1
<1>11. Blank \notin Crawl
  BY DEF CrawlerAssumption, PageAssumption
<1>12. \A d \in Crawler : \A z \in Crawl : crawl'[d] = z => z = crawl[d] \/
         (/\ UnderWay(z)' /\ (z.stage = "served" => AnsweredPage(z)')
          /\ \A e \in ToSet(z.result.listing) : Callable(e)')
  BY <1>5, <1>6, <1>9, <1>11
<1> QED BY <1>1, <1>5, <1>7, <1>8, <1>10, <1>12, CrawlStep

\* A page that Java read leaves its links to be read.
LEMMA PageKeeps ==
  ASSUME CrawlerAssumption, CrawlIInv, NEW c \in Crawler, ReadPage(c)
  PROVE  CrawlIInv'
<1>0. /\ CrawlTypeOK /\ VersionsInv /\ \A l \in CrawlUrl : version[l] \in Nat
  BY CrawlTypes
<1>a. PICK x : x = crawl[c]
  OBVIOUS
<1>b. PICK r : r = [x.result EXCEPT !.version = x.at]
  OBVIOUS
<1>c. PICK links : links = Page[x.url][x.at].links
  OBVIOUS
<1>d. PICK y : y = [x EXCEPT !.page = FALSE, !.links = links, !.at = 1,
                             !.stage = IF links = <<>> THEN "read" ELSE "asking", !.result = r]
  OBVIOUS
<1>1. /\ x # Blank /\ x.stage = "served" /\ x.page /\ crawlDialect = "java"
      /\ crawl' = [crawl EXCEPT ![c] = y]
      /\ crawlDialect' = crawlDialect /\ faults' = faults /\ visited' = visited /\ cache' = cache
      /\ version' = version /\ interfaces' = interfaces
      /\ cleared' = cleared /\ emptied' = emptied /\ outdated' = outdated
  BY <1>a, <1>b, <1>c, <1>d DEF ReadPage, crawlHistory
<1>2. x \in Crawl /\ UnderWay(x) /\ AnsweredPage(x)
  BY <1>1, <1>a, CrawlTypes
<1>3. x.url \in CrawlUrl /\ x.at \in DOMAIN Page[x.url] /\ (~x.result.early => x.at >= cleared[x.url])
  <2>1. x.url \in CrawlUrl
    BY <1>2, CrawlFields
  <2> QED BY <1>1, <1>2, <2>1 DEF AnsweredPage
<1>4. links \in Seq(CrawlUrl) /\ x.at \in Version /\ 1 \in Version
  BY <1>3, <1>c, PageIs, VersionsAre
<1>5. /\ r \in Result /\ r.version = x.at /\ r.listing = <<>> /\ r.early = x.result.early
      /\ r.missing = x.result.missing
  <2>1. x.result \in Result /\ x.result.listing = <<>>
    BY <1>1, <1>2, CrawlFields DEF UnderWay
  <2> QED BY <1>4, <1>b, <2>1 DEF Result
<1>6. /\ y \in Crawl /\ y.page = FALSE /\ y.links = links /\ y.url = x.url /\ y.result = r
      /\ y.stage \in {"asking", "read"} /\ (y.stage = "read" <=> links = <<>>)
  BY <1>2, <1>4, <1>5, <1>d DEF Crawl
<1>7. CrawlTypeOK'
  <2>1. crawl' \in [Crawler -> Crawl \union {Blank}]
    BY <1>0, <1>1, <1>6 DEF CrawlTypeOK
  <2> QED BY <1>0, <1>1, <2>1 DEF CrawlTypeOK
<1>8. VersionsInv'
  BY <1>0, <1>1 DEF VersionsInv
<1>9. \A e : Callable(e)' <=> Callable(e)
  BY <1>1 DEF Callable
<1>10. ToSet(r.listing) = {}
  BY <1>5 DEF ToSet
<1>11. UnderWay(y)'
  <2>1. ~x.result.early => x.url \in visited'
    BY <1>1, <1>2 DEF UnderWay
  <2>2. y.result.version \in DOMAIN Page[y.url] /\ Page[y.url][y.result.version].links = y.links
    BY <1>3, <1>5, <1>6, <1>c
  <2> QED BY <1>1, <1>3, <1>5, <1>6, <1>10, <2>1, <2>2 DEF UnderWay
<1>12. \A d \in Crawler : crawl'[d] = crawl[d] \/ (d = c /\ crawl'[d] = y)
  BY <1>0, <1>1 DEF CrawlTypeOK
<1>13. \A l \in CrawlUrl : version[l] <= version'[l]
  BY <1>0, <1>1
<1>14. \A d \in Crawler : \A z \in Crawl : crawl'[d] = z => z = crawl[d] \/
         (/\ UnderWay(z)' /\ (z.stage = "served" => AnsweredPage(z)')
          /\ \A e \in ToSet(z.result.listing) : Callable(e)')
  BY <1>6, <1>10, <1>11, <1>12
<1> QED BY <1>1, <1>7, <1>8, <1>9, <1>13, <1>14, CrawlStep

\* A page that Python read is registered and cached in one step.
LEMMA PythonKeeps ==
  ASSUME CrawlerAssumption, CrawlIInv, NEW c \in Crawler, ReadPython(c)
  PROVE  CrawlIInv'
<1>0. /\ CrawlTypeOK /\ VersionsInv /\ \A l \in CrawlUrl : version[l] \in Nat
  BY CrawlTypes
<1>a. PICK x : x = crawl[c]
  OBVIOUS
<1>b. PICK L : L = PythonParses(x.url, x.at)
  OBVIOUS
<1>c. PICK r : r = [x.result EXCEPT !.listing = L, !.version = x.at]
  OBVIOUS
<1>1. /\ x # Blank /\ x.stage = "served" /\ crawlDialect = "python"
      /\ Register(c, x.url, L) /\ cache' = [cache EXCEPT ![x.url] = r]
      /\ crawl' = [crawl EXCEPT ![c] = Blank]
      /\ crawlDialect' = crawlDialect /\ faults' = faults /\ visited' = visited
      /\ version' = version /\ cleared' = cleared
  BY <1>a, <1>b, <1>c DEF ReadPython
<1>2. x \in Crawl /\ UnderWay(x) /\ AnsweredPage(x)
  BY <1>1, <1>a, CrawlTypes
<1>3. x.url \in CrawlUrl /\ x.page \in BOOLEAN /\ x.result \in Result
  BY <1>2, CrawlFields
<1>4. x.page /\ x.result.listing = <<>>
  BY <1>1, <1>2, <1>3 DEF UnderWay
<1>5. x.at \in DOMAIN Page[x.url] /\ x.at <= version[x.url] /\ (~x.result.early => x.at >= cleared[x.url])
  BY <1>2, <1>4 DEF AnsweredPage
<1>6. /\ L \in Seq(ToolInterface) /\ x.at \in Version /\ x.at \in Nat
      /\ \A e \in ToSet(L) : e.from = x.url /\ e.version = x.at
  <2>1. x.at \in Version
    BY <1>3, <1>5, PageIs
  <2> QED BY <1>3, <1>5, <1>b, <2>1, ParsedIs, VersionsAre
<1>7. /\ r \in Result /\ r.listing = L /\ r.version = x.at /\ r.early = x.result.early
  BY <1>3, <1>6, <1>c DEF Result
<1>8. /\ interfaces' \in [Method -> ToolInterface \union {Blank}]
      /\ emptied' \subseteq Method /\ outdated' \subseteq Method
      /\ \A e \in ToolInterface : Callable(e) => Callable(e)'
      /\ \A e \in ToSet(L) : Callable(e)'
  BY <1>1, <1>3, <1>5, <1>6, <1>a, RegisterKeeps
<1>9. CrawlTypeOK'
  <2>1. cache' \in [CrawlUrl -> Result \union {Blank}]
    BY <1>0, <1>1, <1>3, <1>7 DEF CrawlTypeOK
  <2>2. crawl' \in [Crawler -> Crawl \union {Blank}]
    BY <1>0, <1>1 DEF CrawlTypeOK
  <2> QED BY <1>0, <1>1, <1>8, <2>1, <2>2 DEF CrawlTypeOK
<1>10. VersionsInv'
  BY <1>0, <1>1 DEF VersionsInv
<1>11. \A l \in CrawlUrl : version[l] <= version'[l]
  BY <1>0, <1>1
<1>12. CurrentResult(x.url, r)'
  <2>1. \A u, v : PythonParses(u, v)' = PythonParses(u, v)
    BY <1>1, <1>9, <1>11, CrawlsStay
  <2>2. L = PythonParses(x.url, x.at)'
    BY <1>b, <2>1
  <2>3. ~r.early => x.url \in visited'
    BY <1>1, <1>2, <1>7 DEF UnderWay
  <2>4. ~r.early => \A e \in ToSet(L) : e.version >= cleared'[e.from]
    BY <1>1, <1>5, <1>6, <1>7
  <2>5. crawlDialect' # "java"
    BY <1>1
  <2> QED BY <1>1, <1>5, <1>7, <2>2, <2>3, <2>4, <2>5 DEF CurrentResult
<1>13. \A u \in CrawlUrl : cache'[u] = cache[u] \/ (u = x.url /\ cache'[u] = r)
  BY <1>0, <1>1 DEF CrawlTypeOK
<1>14. \A d \in Crawler : crawl'[d] = crawl[d] \/ crawl'[d] = Blank
  BY <1>0, <1>1 DEF CrawlTypeOK
<1>15. Blank \notin Crawl
  BY DEF CrawlerAssumption, PageAssumption
<1>16. \A u \in CrawlUrl : \A q \in Result : cache'[u] = q => q = cache[u] \/
         (CurrentResult(u, q)' /\ \A e \in ToSet(q.listing) : Callable(e)')
  <2> SUFFICES ASSUME NEW u \in CrawlUrl, NEW q \in Result, cache'[u] = q, q # cache[u]
               PROVE  CurrentResult(u, q)' /\ \A e \in ToSet(q.listing) : Callable(e)'
    OBVIOUS
  <2>1. u = x.url /\ q = r
    BY <1>13
  <2>2. CurrentResult(u, q)'
    BY <1>12, <2>1 DEF CurrentResult
  <2> QED BY <1>7, <1>8, <2>1, <2>2
<1>17. \A d \in Crawler : \A z \in Crawl : crawl'[d] = z => z = crawl[d]
  BY <1>14, <1>15
<1> QED BY <1>1, <1>8, <1>9, <1>10, <1>11, <1>16, <1>17, CrawlStep

\* A link that Java read is registered, and its tools are added to the result.
LEMMA LinkKeeps ==
  ASSUME CrawlerAssumption, CrawlIInv, NEW c \in Crawler, ReadLink(c)
  PROVE  CrawlIInv'
<1>0. /\ CrawlTypeOK /\ VersionsInv /\ ListingsInv /\ \A l \in CrawlUrl : version[l] \in Nat
  BY CrawlTypes
<1>a. PICK x : x = crawl[c]
  OBVIOUS
<1>b. PICK u : u = x.links[1]
  OBVIOUS
<1>c. PICK L : L = JavaParses(u, x.at)
  OBVIOUS
<1>d. PICK r : r = [x.result EXCEPT !.listing = x.result.listing \o L]
  OBVIOUS
<1>e. PICK y : y = [x EXCEPT !.links = Tail(x.links), !.at = 1, !.stage = Onward(x.links), !.result = r]
  OBVIOUS
<1>1. /\ x # Blank /\ x.stage = "served" /\ crawlDialect = "java" /\ ~x.page
      /\ Register(c, u, L) /\ crawl' = [crawl EXCEPT ![c] = y]
      /\ crawlDialect' = crawlDialect /\ faults' = faults /\ visited' = visited
      /\ version' = version /\ cleared' = cleared /\ cache' = cache
  <2>1. crawlDialect = "java" /\ x # Blank /\ x.stage = "served" /\ ~x.page
    BY <1>a DEF ReadLink
  <2>2. Target(c) = u
    BY <1>a, <1>b, <2>1 DEF Target
  <2> QED BY <1>a, <1>c, <1>d, <1>e, <2>1, <2>2 DEF ReadLink
<1>2. x \in Crawl /\ UnderWay(x) /\ AnsweredPage(x) /\ \A e \in ToSet(x.result.listing) : Callable(e)
  BY <1>0, <1>1, <1>a, CrawlTypes DEF ListingsInv
<1>3. /\ x.url \in CrawlUrl /\ x.page \in BOOLEAN /\ x.result \in Result /\ x.links \in Seq(CrawlUrl)
      /\ x.result.listing \in Seq(ToolInterface)
  BY <1>2, CrawlFields
<1>4. x.links # <<>>
  BY <1>1, <1>2 DEF UnderWay
<1>5. /\ Tail(x.links) \in Seq(CrawlUrl) /\ u \in CrawlUrl /\ Onward(x.links) \in {"asking", "read"}
      /\ (Onward(x.links) = "read" <=> Tail(x.links) = <<>>)
      /\ \A l \in ToSet(x.links) : l = u \/ l \in ToSet(Tail(x.links))
  BY <1>3, <1>4, <1>b, RestIs
<1>6. x.at \in DOMAIN Page[u] /\ x.at <= version[u] /\ (~x.result.early => x.at >= cleared[u])
  BY <1>1, <1>2, <1>b DEF AnsweredPage
<1>7. /\ L \in Seq(ToolInterface) /\ x.at \in Version /\ x.at \in Nat /\ 1 \in Version
      /\ \A e \in ToSet(L) : e.from = u /\ e.version = x.at
  <2>1. x.at \in Version
    BY <1>5, <1>6, PageIs
  <2> QED BY <1>5, <1>6, <1>c, <2>1, ParsedIs, VersionsAre
<1>8. /\ x.result.listing \o L \in Seq(ToolInterface)
      /\ ToSet(x.result.listing \o L) = ToSet(x.result.listing) \union ToSet(L)
  BY <1>3, <1>7, ConcatHolds
<1>9. /\ r \in Result /\ r.listing = x.result.listing \o L /\ r.version = x.result.version
      /\ r.early = x.result.early /\ r.missing = x.result.missing
  BY <1>3, <1>8, <1>d DEF Result
<1>10. /\ y \in Crawl /\ y.page = x.page /\ y.links = Tail(x.links) /\ y.url = x.url /\ y.result = r
       /\ y.stage = Onward(x.links)
  BY <1>2, <1>5, <1>7, <1>9, <1>e DEF Crawl
<1>11. /\ interfaces' \in [Method -> ToolInterface \union {Blank}]
       /\ emptied' \subseteq Method /\ outdated' \subseteq Method
       /\ \A e \in ToolInterface : Callable(e) => Callable(e)'
       /\ \A e \in ToSet(L) : Callable(e)'
  BY <1>1, <1>5, <1>6, <1>7, <1>a, RegisterKeeps
<1>12. CrawlTypeOK'
  <2>1. crawl' \in [Crawler -> Crawl \union {Blank}]
    BY <1>0, <1>1, <1>10 DEF CrawlTypeOK
  <2> QED BY <1>0, <1>1, <1>11, <2>1 DEF CrawlTypeOK
<1>13. VersionsInv'
  BY <1>0, <1>1 DEF VersionsInv
<1>14. \A l \in CrawlUrl : version[l] <= version'[l]
  BY <1>0, <1>1
<1>15. ToSet(r.listing) = ToSet(x.result.listing) \union ToSet(L)
  BY <1>8, <1>9
<1>16. \A e \in ToSet(r.listing) : Callable(e)'
  <2>1. \A e \in ToSet(x.result.listing) : e \in ToolInterface
    BY <1>3, EntryFields
  <2> QED BY <1>2, <1>11, <1>15, <2>1
<1>17. UnderWay(y)'
  <2>1. \A l, v : JavaParses(l, v)' = JavaParses(l, v)
    BY <1>1 DEF JavaParses, Listed
  <2>2. \A l : l \in ToSet(x.links) \/ LinkRead(l, x.result.listing) =>
          (l \in ToSet(y.links) \/ LinkRead(l, r.listing))'
    <3> SUFFICES ASSUME NEW l, l \in ToSet(x.links) \/ LinkRead(l, x.result.listing), l \notin ToSet(Tail(x.links))
                 PROVE  LinkRead(l, r.listing)'
      BY <1>10
    <3>1. CASE l = u
      <4>1. ToSet(JavaParses(u, x.at)) \subseteq ToSet(r.listing)
        BY <1>15, <1>c
      <4>2. ToSet(JavaParses(u, x.at)') \subseteq ToSet(r.listing)
        BY <2>1, <4>1
      <4> QED BY <1>6, <3>1, <4>2 DEF LinkRead
    <3>2. CASE LinkRead(l, x.result.listing)
      <4>1. PICK v \in DOMAIN Page[l] : ToSet(JavaParses(l, v)) \subseteq ToSet(x.result.listing)
        BY <3>2 DEF LinkRead
      <4>2. ToSet(JavaParses(l, v)') \subseteq ToSet(r.listing)
        BY <1>15, <2>1, <4>1
      <4> QED BY <4>2 DEF LinkRead
    <3> QED BY <1>5, <3>1, <3>2
  <2>3. ~x.result.missing => \A l \in ToSet(Page[x.url][x.result.version].links) :
          l \in ToSet(x.links) \/ LinkRead(l, x.result.listing)
    BY <1>1, <1>2 DEF UnderWay
  <2>4. ~x.result.missing => \A l \in ToSet(Page[x.url][x.result.version].links) :
          (l \in ToSet(y.links) \/ LinkRead(l, r.listing))'
    BY <2>2, <2>3
  <2>5. ~x.result.early => \A e \in ToSet(r.listing) : e.version >= cleared'[e.from]
    <3>1. ~x.result.early => \A e \in ToSet(x.result.listing) : e.version >= cleared[e.from]
      BY <1>2 DEF UnderWay
    <3>2. ~x.result.early => \A e \in ToSet(L) : e.version >= cleared[e.from]
      BY <1>6, <1>7
    <3> QED BY <1>1, <1>15, <3>1, <3>2
  <2>6. /\ x.result.version \in DOMAIN Page[x.url]
        /\ ~x.result.early => x.url \in visited /\ x.result.version >= cleared[x.url]
    BY <1>1, <1>2 DEF UnderWay
  <2> QED BY <1>1, <1>5, <1>9, <1>10, <2>4, <2>5, <2>6 DEF UnderWay
<1>18. \A d \in Crawler : crawl'[d] = crawl[d] \/ (d = c /\ crawl'[d] = y)
  BY <1>0, <1>1 DEF CrawlTypeOK
<1>19. y.stage # "served"
  BY <1>5, <1>10
<1>20. \A d \in Crawler : \A z \in Crawl : crawl'[d] = z => z = crawl[d] \/
         (/\ UnderWay(z)' /\ (z.stage = "served" => AnsweredPage(z)')
          /\ \A e \in ToSet(z.result.listing) : Callable(e)')
  BY <1>10, <1>16, <1>17, <1>18, <1>19
<1>21. \A l \in CrawlUrl : \A q \in Result : cache'[l] = q => q = cache[l]
  BY <1>1
<1> QED BY <1>1, <1>11, <1>12, <1>13, <1>14, <1>20, <1>21, CrawlStep

\* After its last link a result is cached.
LEMMA CacheKeeps ==
  ASSUME CrawlerAssumption, CrawlIInv, NEW c \in Crawler, CacheResult(c)
  PROVE  CrawlIInv'
<1>0. /\ CrawlTypeOK /\ VersionsInv /\ ListingsInv /\ \A l \in CrawlUrl : version[l] \in Nat
  BY CrawlTypes
<1>a. PICK x : x = crawl[c]
  OBVIOUS
<1>b. PICK r : r = x.result
  OBVIOUS
<1>1. /\ x # Blank /\ x.stage = "read" /\ cache' = [cache EXCEPT ![x.url] = r]
      /\ crawl' = [crawl EXCEPT ![c] = Blank]
      /\ crawlDialect' = crawlDialect /\ faults' = faults /\ visited' = visited
      /\ version' = version /\ interfaces' = interfaces
      /\ cleared' = cleared /\ emptied' = emptied /\ outdated' = outdated
  BY <1>a, <1>b DEF CacheResult, crawlHistory
<1>2. x \in Crawl /\ UnderWay(x) /\ \A e \in ToSet(r.listing) : Callable(e)
  BY <1>0, <1>1, <1>a, <1>b, CrawlTypes DEF ListingsInv
<1>3. x.url \in CrawlUrl /\ x.page \in BOOLEAN /\ r \in Result
  BY <1>2, <1>b, CrawlFields
<1>4. ~x.page /\ x.links = <<>> /\ crawlDialect = "java"
  BY <1>1, <1>2, <1>3 DEF UnderWay
<1>5. ToSet(x.links) = {}
  BY <1>4 DEF ToSet
<1>6. CurrentResult(x.url, r)
  <2>1. ~r.missing => \A l \in ToSet(Page[x.url][r.version].links) : LinkRead(l, r.listing)
    BY <1>2, <1>4, <1>5, <1>b DEF UnderWay
  <2>2. ~r.early => /\ x.url \in visited /\ r.version >= cleared[x.url]
                    /\ \A e \in ToSet(r.listing) : e.version >= cleared[e.from]
    BY <1>2, <1>4, <1>b DEF UnderWay
  <2>3. crawlDialect # "python"
    BY <1>4
  <2> QED BY <2>1, <2>2, <2>3 DEF CurrentResult
<1>7. CrawlTypeOK'
  <2>1. cache' \in [CrawlUrl -> Result \union {Blank}]
    BY <1>0, <1>1, <1>3 DEF CrawlTypeOK
  <2>2. crawl' \in [Crawler -> Crawl \union {Blank}]
    BY <1>0, <1>1 DEF CrawlTypeOK
  <2> QED BY <1>0, <1>1, <2>1, <2>2 DEF CrawlTypeOK
<1>8. VersionsInv'
  BY <1>0, <1>1 DEF VersionsInv
<1>9. \A l \in CrawlUrl : version[l] <= version'[l]
  BY <1>0, <1>1
<1>10. \A e : Callable(e)' <=> Callable(e)
  BY <1>1 DEF Callable
<1>11. CurrentResult(x.url, r)'
  BY <1>1, <1>6, <1>7, <1>9, CrawlsStay
<1>12. \A u \in CrawlUrl : cache'[u] = cache[u] \/ (u = x.url /\ cache'[u] = r)
  BY <1>0, <1>1 DEF CrawlTypeOK
<1>13. \A d \in Crawler : crawl'[d] = crawl[d] \/ crawl'[d] = Blank
  BY <1>0, <1>1 DEF CrawlTypeOK
<1>14. Blank \notin Crawl
  BY DEF CrawlerAssumption, PageAssumption
<1>15. \A u \in CrawlUrl : \A q \in Result : cache'[u] = q => q = cache[u] \/
         (CurrentResult(u, q)' /\ \A e \in ToSet(q.listing) : Callable(e)')
  <2> SUFFICES ASSUME NEW u \in CrawlUrl, NEW q \in Result, cache'[u] = q, q # cache[u]
               PROVE  CurrentResult(u, q)' /\ \A e \in ToSet(q.listing) : Callable(e)'
    OBVIOUS
  <2>1. u = x.url /\ q = r
    BY <1>12
  <2>2. CurrentResult(u, q)'
    BY <1>11, <2>1 DEF CurrentResult
  <2> QED BY <1>2, <1>10, <2>1, <2>2
<1>16. \A d \in Crawler : \A z \in Crawl : crawl'[d] = z => z = crawl[d]
  BY <1>13, <1>14
<1> QED BY <1>1, <1>7, <1>8, <1>9, <1>10, <1>15, <1>16, CrawlStep

\* clear_cache: nothing is cached, and what is under way began before it.
LEMMA ClearKeeps ==
  ASSUME CrawlerAssumption, CrawlIInv, ClearCache
  PROVE  CrawlIInv'
<1>0. /\ CrawlTypeOK /\ VersionsInv /\ ListingsInv
      /\ \A l \in CrawlUrl : version[l] \in Nat /\ version[l] \in DOMAIN Page[l]
  BY CrawlTypes
<1> DEFINE Early(x) == [x EXCEPT !.result = [x.result EXCEPT !.early = TRUE]]
<1>1. /\ cache' = [u \in CrawlUrl |-> Blank] /\ visited' = {} /\ cleared' = version
      /\ crawl' = [c \in Crawler |-> IF crawl[c] = Blank THEN Blank ELSE Early(crawl[c])]
      /\ crawlDialect' = crawlDialect /\ faults' = faults /\ version' = version
      /\ interfaces' = interfaces /\ emptied' = emptied /\ outdated' = outdated
  BY DEF ClearCache, Forgotten
<1>2. ASSUME NEW x \in Crawl
      PROVE  /\ Early(x) \in Crawl /\ Early(x).url = x.url /\ Early(x).stage = x.stage /\ Early(x).page = x.page
             /\ Early(x).links = x.links /\ Early(x).at = x.at /\ Early(x).result.early = TRUE
             /\ Early(x).result.listing = x.result.listing /\ Early(x).result.version = x.result.version
             /\ Early(x).result.missing = x.result.missing
  <2>1. x.result \in Result
    BY CrawlFields
  <2>2. PICK r : r = [x.result EXCEPT !.early = TRUE]
    OBVIOUS
  <2>3. /\ r \in Result /\ r.early = TRUE /\ r.listing = x.result.listing
        /\ r.version = x.result.version /\ r.missing = x.result.missing
    BY <2>1, <2>2 DEF Result
  <2>4. Early(x) = [x EXCEPT !.result = r]
    BY <2>2
  <2> HIDE DEF Early
  <2> QED BY <2>3, <2>4 DEF Crawl
<1> HIDE DEF Early
<1>3. CrawlTypeOK'
  <2>1. cache' \in [CrawlUrl -> Result \union {Blank}]
    BY <1>1
  <2>2. crawl' \in [Crawler -> Crawl \union {Blank}]
    BY <1>0, <1>1, <1>2 DEF CrawlTypeOK
  <2> QED BY <1>0, <1>1, <2>1, <2>2 DEF CrawlTypeOK
<1>4. VersionsInv'
  BY <1>0, <1>1 DEF VersionsInv
<1>5. \A e : Callable(e)' <=> Callable(e)
  BY <1>1 DEF Callable
<1>6. \A l, L : LinkRead(l, L)' <=> LinkRead(l, L)
  <2>1. \A l, v : JavaParses(l, v)' = JavaParses(l, v)
    BY <1>1 DEF JavaParses, Listed
  <2> QED BY <2>1 DEF LinkRead
<1>7. ASSUME NEW c \in Crawler, crawl'[c] # Blank
      PROVE  /\ UnderWay(crawl[c])' /\ (crawl'[c].stage = "served" => AnsweredPage(crawl[c])')
             /\ \A e \in ToSet(crawl'[c].result.listing) : Callable(e)'
  <2>1. PICK x : x = crawl[c]
    OBVIOUS
  <2>2. PICK y : y = Early(x)
    OBVIOUS
  <2>3. x # Blank /\ crawl'[c] = y
    BY <1>1, <1>7, <2>1, <2>2
  <2>4. /\ x \in Crawl /\ UnderWay(x) /\ (x.stage = "served" => AnsweredPage(x))
        /\ \A e \in ToSet(x.result.listing) : Callable(e)
    BY <1>0, <2>1, <2>3, CrawlTypes DEF ListingsInv
  <2>5. /\ y \in Crawl /\ y.url = x.url /\ y.stage = x.stage /\ y.page = x.page /\ y.links = x.links
        /\ y.at = x.at /\ y.result.early = TRUE /\ y.result.listing = x.result.listing
        /\ y.result.version = x.result.version /\ y.result.missing = x.result.missing
    BY <1>2, <2>2, <2>4
  <2>6. UnderWay(y)'
    BY <1>1, <1>6, <2>4, <2>5 DEF UnderWay
  <2>7. y.stage = "served" => AnsweredPage(y)'
    BY <1>1, <2>4, <2>5 DEF AnsweredPage
  <2>8. \A e \in ToSet(y.result.listing) : Callable(e)'
    BY <1>5, <2>4, <2>5
  <2>9. UnderWay(crawl[c])'
    BY <2>3, <2>6 DEF UnderWay
  <2>10. crawl'[c].stage = "served" => AnsweredPage(crawl[c])'
    BY <2>3, <2>7 DEF AnsweredPage
  <2> QED BY <2>3, <2>8, <2>9, <2>10
<1>8. \A u \in CrawlUrl : cache'[u] = Blank
  BY <1>1
<1>9. CachedIsCurrent' /\ ListingsInv'
  BY <1>7, <1>8 DEF CachedIsCurrent, ListingsInv
<1>10. CrawlsInv'
  BY <1>7 DEF CrawlsInv
<1> QED BY <1>3, <1>4, <1>9, <1>10 DEF CrawlIInv

\* clear_tool_interfaces: what was in the table was emptied.
LEMMA EmptyKeeps ==
  ASSUME CrawlerAssumption, CrawlIInv, ClearToolInterfaces
  PROVE  CrawlIInv'
<1>0. /\ CrawlTypeOK /\ VersionsInv /\ \A l \in CrawlUrl : version[l] \in Nat
  BY CrawlTypes
<1>1. /\ interfaces' = [m \in Method |-> Blank]
      /\ emptied' = {m \in Method : interfaces[m] # Blank} \union emptied
      /\ crawl' = crawl /\ crawlDialect' = crawlDialect /\ faults' = faults /\ visited' = visited
      /\ cache' = cache /\ version' = version /\ cleared' = cleared /\ outdated' = outdated
  BY DEF ClearToolInterfaces
<1>2. CrawlTypeOK' /\ VersionsInv'
  BY <1>0, <1>1 DEF CrawlTypeOK, VersionsInv
<1>3. \A e \in ToolInterface : Callable(e) => Callable(e)'
  <2> SUFFICES ASSUME NEW e \in ToolInterface, Callable(e) PROVE Callable(e)'
    OBVIOUS
  <2>1. e.tool \in Method
    BY DEF ToolInterface
  <2>2. interfaces'[e.tool] = Blank /\ e.tool \in emptied'
    BY <1>1, <2>1 DEF Callable
  <2> QED BY <1>1, <2>2 DEF Callable
<1>4. \A l \in CrawlUrl : version[l] <= version'[l]
  BY <1>0, <1>1
<1> QED BY <1>1, <1>2, <1>3, <1>4, CrawlStep

LEMMA CrawlNextKeeps ==
  ASSUME CrawlerAssumption, CrawlIInv, [CrawlNext]_crawlVars
  PROVE  CrawlIInv'
<1>1. CASE CrawlNext
  BY <1>1, ClearKeeps, EmptyKeeps, PublishKeeps, FetchKeeps, ServeKeeps, FailureKeeps, PythonKeeps,
     PageKeeps, LinkKeeps, CacheKeeps DEF CrawlNext
<1>2. CASE UNCHANGED crawlVars
  <2>0. /\ CrawlTypeOK /\ VersionsInv /\ \A l \in CrawlUrl : version[l] \in Nat
    BY CrawlTypes
  <2>1. /\ interfaces' = interfaces /\ emptied' = emptied
        /\ crawl' = crawl /\ crawlDialect' = crawlDialect /\ faults' = faults /\ visited' = visited
        /\ cache' = cache /\ version' = version /\ cleared' = cleared /\ outdated' = outdated
    BY <1>2 DEF crawlVars, crawlHistory
  <2>2. CrawlTypeOK' /\ VersionsInv'
    BY <2>0, <2>1 DEF CrawlTypeOK, VersionsInv
  <2>3. \A e : Callable(e)' <=> Callable(e)
    BY <2>1 DEF Callable
  <2>4. \A l \in CrawlUrl : version[l] <= version'[l]
    BY <2>0, <2>1
  <2> QED BY <2>1, <2>2, <2>3, <2>4, CrawlStep
<1> QED BY <1>1, <1>2

-----------------------------------------------------------------------------
(* AnpCrawler: theorems *)

\* What the tables and the crawls hold while callers of one crawler overlap, pages are replaced
\* and both tables are cleared (anp_crawler.py, ANPCrawler.java).
THEOREM CrawlInvariance == CrawlerAssumption /\ CrawlSpec => []CrawlIInv
<1> SUFFICES ASSUME CrawlerAssumption PROVE CrawlSpec => []CrawlIInv
  OBVIOUS
<1>1. CrawlInit => CrawlIInv
  <2> SUFFICES ASSUME CrawlInit PROVE CrawlIInv
    OBVIOUS
  <2>1. /\ crawlDialect \in {"python", "java"} /\ version = [u \in CrawlUrl |-> 1] /\ faults = 0
        /\ visited = {} /\ cache = [u \in CrawlUrl |-> Blank] /\ interfaces = [m \in Method |-> Blank]
        /\ crawl = [c \in Crawler |-> Blank] /\ cleared = [u \in CrawlUrl |-> 1]
        /\ emptied = {} /\ outdated = {} /\ MaxCrawlFaults \in Nat
    BY DEF CrawlInit, CrawlerAssumption, PageAssumption
  <2>2. \A u \in CrawlUrl : 1 \in DOMAIN Page[u] /\ 1 \in Version
    BY VersionsAre
  <2>3. CrawlTypeOK
    BY <2>1, <2>2 DEF CrawlTypeOK
  <2>4. VersionsInv /\ ListingsInv /\ CrawlsInv /\ CachedIsCurrent
    BY <2>1, <2>2 DEF VersionsInv, ListingsInv, CrawlsInv, CachedIsCurrent
  <2> QED BY <2>3, <2>4 DEF CrawlIInv
<1>2. CrawlIInv /\ [CrawlNext]_crawlVars => CrawlIInv'
  BY CrawlNextKeeps
<1> QED BY <1>1, <1>2, PTL DEF CrawlSpec

\* The table of tools and the cached results agree with each other and with the pages, for any
\* number of callers, pages and versions (anp_crawler.py:104-157, :339; ANPCrawler.java:158-190,
\* :389-446).
THEOREM CrawlerTablesAgree == CrawlerAssumption /\ CrawlSpec => []TablesAgree
<1> SUFFICES ASSUME CrawlerAssumption PROVE CrawlSpec => []TablesAgree
  OBVIOUS
<1>1. CrawlIInv => TablesAgree
  <2> SUFFICES ASSUME CrawlIInv PROVE TablesAgree
    OBVIOUS
  <2>1. ASSUME NEW u \in CrawlUrl, cache[u] # Blank, NEW e \in ToSet(cache[u].listing)
        PROVE  /\ ExecuteToolCall(e.tool) = Blank => e.tool \in emptied
               /\ interfaces[e.tool] # Blank /\ interfaces[e.tool].from = e.from =>
                    interfaces[e.tool].version >= e.version \/ e.tool \in outdated
    <3>1. Callable(e)
      BY <2>1 DEF CrawlIInv, ListingsInv
    <3>2. e.tool \in Method
      <4>1. cache[u] \in Result
        BY <2>1, CrawlTypes
      <4>2. cache[u].listing \in Seq(ToolInterface)
        BY <4>1 DEF Result
      <4> QED BY <4>2, EntryFields
    <3>3. interfaces[e.tool] # Blank => ExecuteToolCall(e.tool) # Blank
      <4> SUFFICES ASSUME interfaces[e.tool] # Blank PROVE interfaces[e.tool].server # Blank
        BY DEF ExecuteToolCall
      <4>1. interfaces[e.tool] \in ToolInterface
        BY <3>2 DEF CrawlIInv, CrawlTypeOK
      <4>2. interfaces[e.tool].server \in Server \union {NoServer}
        BY <4>1 DEF ToolInterface
      <4>3. Blank \notin Server \union {NoServer}
        BY DEF CrawlerAssumption, PageAssumption
      <4> QED BY <4>2, <4>3
    <3> QED BY <3>1, <3>3 DEF Callable
  <2>2. ListedIsCalled
    BY <2>1 DEF ListedIsCalled
  <2> QED BY <2>2 DEF CrawlIInv, TablesAgree
<1> QED BY <1>1, CrawlInvariance, PTL

-----------------------------------------------------------------------------
(* MCAnpAgents: the parts together *)

\* What the theorems about the parts assume of the constants, together
AgentsAssumption ==
  /\ RpcAssumption /\ DiscoveryAssumption /\ Ap2Assumption /\ CrawlerAssumption
  /\ TsAssumption /\ TsMetaAssumption /\ ChatAssumption

\* A behaviour of the composed specification is one of each part's, which stands still when
\* another runs.
LEMMA AgentsAreTheirParts ==
  AgentsSpec => /\ RpcSpec /\ DiscoverySpec /\ Ap2Spec /\ CrawlSpec
                /\ TsSpec /\ TsMetaSpec /\ ChatSpec
<1>1. AgentsInit => /\ RpcInit /\ DiscoveryInit /\ Ap2Init /\ CrawlInit
                    /\ TsInit /\ TsMetaInit /\ ChatInit
  BY DEF AgentsInit
<1>2. [AgentsNext]_allVars =>
        /\ [RpcNext]_rpcVars /\ [DiscoveryNext]_discoveryVars /\ [Ap2Next]_ap2Vars
        /\ [CrawlNext]_crawlVars /\ [TsNext]_tsVars /\ [TsMetaNext]_negotiationVars
        /\ [ChatNext]_chatVars
  <2>1. CASE UNCHANGED allVars
    BY <2>1 DEF allVars
  <2>2. ASSUME AgentsNext
        PROVE  /\ [RpcNext]_rpcVars /\ [DiscoveryNext]_discoveryVars /\ [Ap2Next]_ap2Vars
               /\ [CrawlNext]_crawlVars /\ [TsNext]_tsVars /\ [TsMetaNext]_negotiationVars
               /\ [ChatNext]_chatVars
    BY <2>2 DEF AgentsNext
  <2> QED BY <2>1, <2>2
<1> QED BY <1>1, <1>2, PTL
  DEF AgentsSpec, RpcSpec, DiscoverySpec, Ap2Spec, CrawlSpec, TsSpec, TsMetaSpec, ChatSpec

\* The part that runs is one of the seven.
OnePartRuns ==
  part \in {"rpc", "discovery", "payment", "crawl", "requests", "negotiation", "chat"}

\* The values that the part which runs can have, in any behaviour of the seven parts.
THEOREM AgentsTypeCorrect == AgentsAssumption /\ AgentsSpec => []AgentsTypeOK
<1> SUFFICES ASSUME AgentsAssumption PROVE AgentsSpec => []AgentsTypeOK
  OBVIOUS
<1>0. AgentsSpec => []OnePartRuns
  <2>1. AgentsInit => OnePartRuns
    BY DEF AgentsInit, OnePartRuns
  <2>2. OnePartRuns /\ [AgentsNext]_allVars => OnePartRuns'
    BY DEF AgentsNext, allVars, OnePartRuns
  <2> QED BY <2>1, <2>2, PTL DEF AgentsSpec
<1>1. OnePartRuns /\ RpcIInv /\ DiscoveryIInv /\ Ap2IInv /\ CrawlIInv /\ TsIInv /\ TsMetaIInv
        /\ ChatIInv => AgentsTypeOK
  <2> SUFFICES ASSUME OnePartRuns, RpcIInv, DiscoveryIInv, Ap2IInv, CrawlIInv, TsIInv, TsMetaIInv,
                      ChatIInv
               PROVE  AgentsTypeOK
    OBVIOUS
  <2>1. /\ RpcTypeOK /\ DiscoveryTypeOK /\ Ap2TypeOK /\ CrawlTypeOK /\ TsTypeOK /\ TsMetaTypeOK
        /\ ChatTypeOK
    BY HandledAtMost
      DEF RpcIInv, DiscoveryIInv, Ap2IInv, CrawlIInv, TsMetaIInv, ChatIInv, AgentsAssumption
  <2> QED BY <2>1 DEF AgentsTypeOK, OnePartRuns
<1>2. /\ RpcAssumption /\ DiscoveryAssumption /\ Ap2Assumption /\ CrawlerAssumption
      /\ TsAssumption /\ TsMetaAssumption /\ ChatAssumption
  BY DEF AgentsAssumption
<1>3. /\ RpcSpec => []RpcIInv
      /\ DiscoverySpec => []DiscoveryIInv
      /\ Ap2Spec => []Ap2IInv
      /\ CrawlSpec => []CrawlIInv
      /\ TsSpec => []TsIInv
      /\ TsMetaSpec => []TsMetaIInv
      /\ ChatSpec => []ChatIInv
  BY <1>2, RpcInvariance, DiscoveryInvariance, Ap2Invariance, CrawlInvariance, TsInvariance,
     TsMetaInvariance, ChatInvariance
<1> QED BY <1>0, <1>1, <1>3, AgentsAreTheirParts, PTL
=============================================================================
