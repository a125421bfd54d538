----------------------------- MODULE Ap2Payment -----------------------------
(***************************************************************************)
(* The AP2 payment flow: the mandates of src/anp/anp/ap2 and the merchant  *)
(* and shoppers of src/anp/examples/python/ap2_examples/                   *)
(* ap2_complete_flow.py.  The merchant keeps the last cart mandate of      *)
(* every cart id; a payment mandate names the cart it pays by its hash.    *)
(* A hash stands for the contents it is taken of, which are unique by      *)
(* their timestamp (the number of a cart).                                 *)
(***************************************************************************)
EXTENDS Naturals, FiniteSets

CONSTANTS
  Shopper,
  CartId,         \* the cart ids shoppers choose; the merchant puts "order_" before one and takes
                  \* it off again (:163, :253), which gives the id back if it holds no "order_"
  Basket,         \* quantities they ask for
  Nothing,        \* no mandate
  CartTtl,        \* the 15 minutes a cart mandate is valid
  MaxClock, MaxPurchases                      \* bounds on the clock and on purchases

VARIABLES
  clock,
  cartMandates,   \* MerchantServer.cart_mandates
  buying,         \* where ShopperAgent.run is
  purchase,       \* the number of the run, which its connections belong to
  wanted,         \* the cart it verified
  requests,       \* POSTs the merchant has not handled
  replies,        \* responses their shopper has not read
  purchases,      \* the number of runs so far
  receipts,       \* history: what _issue_receipts signed
  replaced        \* history: carts whose mandate was overwritten

ap2Vars == <<clock, cartMandates, buying, purchase, wanted, requests, replies, purchases,
             receipts, replaced>>

Cart == [id : CartId, quantity : Basket, no : 1 .. MaxPurchases]
CartMandate == [contents : Cart, aud : Shopper, exp : 0 .. MaxClock + CartTtl]
Number == 0 .. MaxPurchases
\* A cart request, or a payment mandate when it names the hash of a cart
Request == [from : Shopper, run : Number, id : CartId, quantity : Basket,
            cartHash : Cart \union {Nothing}]

Ap2TypeOK ==
  /\ clock \in 0 .. MaxClock
  /\ cartMandates \in [CartId -> CartMandate \union {Nothing}]
  /\ buying \in [Shopper -> {"idle", "cart", "payment", "accepted", "refused", "failed"}]
  /\ purchase \in [Shopper -> Number]
  /\ wanted \in [Shopper -> CartMandate \union {Nothing}]
  /\ requests \subseteq Request
  /\ replies \subseteq
       [to : Shopper, run : Number, ok : BOOLEAN, cart : CartMandate \union {Nothing}]
  /\ purchases \in Number
  /\ receipts \subseteq
       [shopper : Shopper, paid : Basket, shipped : Basket,
        cart : CartMandate, at : 0 .. MaxClock]
  /\ replaced \subseteq Cart

Ap2Init ==
  /\ clock = 0
  /\ cartMandates = [i \in CartId |-> Nothing]
  /\ buying = [s \in Shopper |-> "idle"]
  /\ purchase = [s \in Shopper |-> 0]
  /\ wanted = [s \in Shopper |-> Nothing]
  /\ requests = {} /\ replies = {}
  /\ purchases = 0
  /\ receipts = {} /\ replaced = {}

Pass ==
  /\ clock < MaxClock /\ clock' = clock + 1
  /\ UNCHANGED <<cartMandates, buying, purchase, wanted, requests, replies, purchases,
                 receipts, replaced>>

BuildMandate(contents, audience) ==
  [contents |-> contents, aud |-> audience, exp |-> clock + CartTtl]
BuildCartMandate(r) == BuildMandate([id |-> r.id, quantity |-> r.quantity, no |-> r.run], r.from)

\* The keys are right and the contents are those hashed; what is left is who and when.
ValidateMandate(m, audience) == m.aud = audience /\ clock < m.exp
ValidateCartMandate(m, shopper) == ValidateMandate(m, shopper)
\* Signed this very moment for 180 days; its hash must be that of the stored cart.
ValidatePaymentMandate(r, expected) == r.cartHash = expected

\* A response finds its shopper only while the run that asked still waits for it.
Respond(request, ok, cart) ==
  replies' = IF purchase[request.from] = request.run
                /\ buying[request.from] \in {"cart", "payment"}
             THEN replies \union
                    {[to |-> request.from, run |-> request.run, ok |-> ok, cart |-> cart]}
             ELSE replies

-----------------------------------------------------------------------------
(* ShopperAgent.run *)

RequestCart(s, id, quantity) ==
  /\ buying[s] \notin {"cart", "payment"} /\ purchases < MaxPurchases
  /\ purchases' = purchases + 1
  /\ buying' = [buying EXCEPT ![s] = "cart"]
  /\ purchase' = [purchase EXCEPT ![s] = purchases']
  /\ wanted' = [wanted EXCEPT ![s] = Nothing]
  /\ requests' = requests \union
       {[from |-> s, run |-> purchases', id |-> id, quantity |-> quantity,
          cartHash |-> Nothing]}
  /\ UNCHANGED <<clock, cartMandates, replies, receipts, replaced>>

\* The cart's total is in the mandate, so the amount is what the cart says.
Pay(s, reply) ==
  /\ reply \in replies /\ reply.to = s /\ buying[s] = "cart"
  /\ ValidateCartMandate(reply.cart, s)
  /\ wanted' = [wanted EXCEPT ![s] = reply.cart]
  /\ buying' = [buying EXCEPT ![s] = "payment"]
  /\ requests' = requests \union
       {[from |-> s, run |-> reply.run, id |-> reply.cart.contents.id,
         quantity |-> reply.cart.contents.quantity, cartHash |-> reply.cart.contents]}
  /\ replies' = replies \ {reply}
  /\ UNCHANGED <<clock, cartMandates, purchase, purchases, receipts, replaced>>

\* An expired cart raises ValueError.
RejectCart(s, reply) ==
  /\ reply \in replies /\ reply.to = s /\ buying[s] = "cart"
  /\ ~ValidateCartMandate(reply.cart, s)
  /\ buying' = [buying EXCEPT ![s] = "failed"]
  /\ replies' = replies \ {reply}
  /\ UNCHANGED <<clock, cartMandates, purchase, wanted, requests, purchases, receipts, replaced>>

Finish(s, reply) ==
  /\ reply \in replies /\ reply.to = s /\ buying[s] = "payment"
  /\ buying' = [buying EXCEPT ![s] = IF reply.ok THEN "accepted" ELSE "refused"]
  /\ replies' = replies \ {reply}
  /\ UNCHANGED <<clock, cartMandates, purchase, wanted, requests, purchases, receipts, replaced>>

\* The connection breaks or times out; what was sent may be handled all the same, or never.
GiveUp(s) ==
  /\ buying[s] \in {"cart", "payment"}
  /\ buying' = [buying EXCEPT ![s] = "failed"]
  /\ replies' = {r \in replies : r.to # s}
  /\ UNCHANGED <<clock, cartMandates, purchase, wanted, requests, purchases, receipts, replaced>>

-----------------------------------------------------------------------------
(* MerchantServer; each handler runs without an await once it has read its request *)

Stores(id, mandate) == mandate

HandleCreateCartMandate(r) ==
  /\ r \in requests /\ r.cartHash = Nothing
  /\ LET mandate == BuildCartMandate(r)
         before == cartMandates[r.id]
     IN /\ cartMandates' = [cartMandates EXCEPT ![r.id] = Stores(r.id, mandate)]
        /\ replaced' = IF before = Nothing THEN replaced ELSE replaced \union {before.contents}
        /\ Respond(r, TRUE, mandate)
  /\ requests' = requests \ {r}
  /\ UNCHANGED <<clock, buying, purchase, wanted, purchases, receipts>>

\* Mutation: any valid cart of this id will do.
AcceptsById(stored, r) == stored # Nothing /\ ValidateCartMandate(stored, r.from)

\* The stored cart is still valid for the shopper who pays, and is the one he pays.
Accepts(stored, r) ==
  /\ stored # Nothing /\ ValidateCartMandate(stored, r.from)
  /\ ValidatePaymentMandate(r, stored.contents)

\* One receipt for what was paid, one for what is shipped
IssueReceipts(r, stored) ==
  [shopper |-> r.from, paid |-> r.quantity, shipped |-> stored.contents.quantity,
   cart |-> stored, at |-> clock]

HandleSendPaymentMandate(r) ==
  /\ r \in requests /\ r.cartHash # Nothing
  /\ LET stored == cartMandates[r.id] IN
       /\ Accepts(stored, r)
       /\ receipts' = receipts \union {IssueReceipts(r, stored)}
  /\ Respond(r, TRUE, Nothing)
  /\ requests' = requests \ {r}
  /\ UNCHANGED <<clock, cartMandates, buying, purchase, wanted, purchases, replaced>>

RefusePaymentMandate(r) ==
  /\ r \in requests /\ r.cartHash # Nothing
  /\ ~Accepts(cartMandates[r.id], r)
  /\ Respond(r, FALSE, Nothing)
  /\ requests' = requests \ {r}
  /\ UNCHANGED <<clock, cartMandates, buying, purchase, wanted, purchases, receipts, replaced>>

Ap2Next ==
  \/ Pass
  \/ \E s \in Shopper :
       \/ GiveUp(s)
       \/ \E id \in CartId, quantity \in Basket : RequestCart(s, id, quantity)
       \/ \E reply \in replies : Pay(s, reply) \/ RejectCart(s, reply) \/ Finish(s, reply)
  \/ \E r \in requests :
       HandleCreateCartMandate(r) \/ HandleSendPaymentMandate(r) \/ RefusePaymentMandate(r)

Ap2Spec == Ap2Init /\ [][Ap2Next]_ap2Vars

-----------------------------------------------------------------------------
(* Properties *)

Lapsed(m) == m.contents \in replaced \/ clock >= m.exp

\* The chain of hashes ties what is shipped to what was paid, although the cart of
\* an id changes under the shopper: receipts are only signed for a shopper's own,
\* unexpired cart and ship what that shopper paid for; and a shopper is refused only
\* when the cart was replaced by another request with its id or has expired
\* (ap2_complete_flow.py:208-254).
OrdersHonoured ==
  /\ \A e \in receipts :
       /\ e.shipped = e.paid
       /\ e.cart.aud = e.shopper /\ e.at < e.cart.exp
  /\ \A s \in Shopper : buying[s] = "refused" => Lapsed(wanted[s])

\* What a run waits for: its request, or the response to it; a cart is the merchant's last
\* one of its id, or was replaced.
Awaited(s) == {r \in requests : r.from = s /\ r.run = purchase[s]}
Unread(s) == {p \in replies : p.to = s}
IsStored(m) == m.contents \in replaced \/ cartMandates[m.contents.id] = m

\* A run has one request or one response under way; a payment names a cart as it is.
RunsInv ==
  /\ \A r \in requests :
       /\ r.run \in 1 .. purchases
       /\ r.cartHash # Nothing => r.id = r.cartHash.id /\ r.quantity = r.cartHash.quantity
  /\ \A p \in replies : p.run \in 1 .. purchases
  /\ \A s \in Shopper :
       /\ purchase[s] <= purchases
       /\ \A x, y \in Awaited(s) : x = y
       /\ \A x, y \in Unread(s) : x = y
       /\ Awaited(s) = {} \/ Unread(s) = {}
       /\ Unread(s) # {} => buying[s] \in {"cart", "payment"}

\* What is under way is of the step that the run is at.
StepInv(s) ==
  /\ \A p \in Unread(s) : p.run = purchase[s]
  /\ buying[s] \in {"payment", "refused"} => wanted[s] # Nothing
  /\ buying[s] = "cart" =>
       /\ \A r \in Awaited(s) : r.cartHash = Nothing
       /\ \A p \in Unread(s) : p.cart # Nothing /\ IsStored(p.cart)
  /\ buying[s] = "payment" =>
       /\ wanted[s].aud = s /\ IsStored(wanted[s])
       /\ \A r \in Awaited(s) : r.cartHash = wanted[s].contents
       /\ \A p \in Unread(s) : p.ok \/ Lapsed(wanted[s])

StepsInv == \A s \in Shopper : StepInv(s)

Ap2IInv == Ap2TypeOK /\ RunsInv /\ StepsInv /\ OrdersHonoured
=============================================================================
