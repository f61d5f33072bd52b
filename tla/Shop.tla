-------------------------------- MODULE Shop --------------------------------
(***************************************************************************)
(* A farmer's shop: the devices of several customers and the farmer's own  *)
(* device over the product and cart documents.                             *)
(***************************************************************************)
EXTENDS CartPage, Inventory

vars == <<storeVars, cartPageVars, inventoryVars>>

Init == StoreInit /\ CartPageInit /\ InventoryInit

\* What a customer's device does of itself and what the customer does.
CustomerStep(c) ==
  \/ ReadCart(c) \/ FindNothing(c) \/ Land(c) \/ LandEmpty(c)
  \/ \E i \in list[c] \cup late[c] : Validate(c, i)
  \/ Refresh(c)
  \/ \E p \in Products, n \in 1 .. MaxAdd : AddNew(c, p, n)
  \/ \E i \in list[c], n \in 1 .. MaxAdd : AddMore(c, i, n)
  \/ AddWrite(c) \/ ReloadLast(c)
  \/ \E i \in list[c] : SetQty(c, i, i.qty - 1) \/ SetQty(c, i, i.qty + 1)
  \/ SetAnswered(c) \/ DropAgain(c) \/ Sweep(c)
  \/ Complete(c) \/ Placed(c) \/ EmptyCart(c)
  \/ \E i \in todo[c] : TakeNext(c, i)
  \/ TakeRead(c) \/ TakeWrite(c) \/ Finish(c)

FarmerStep(p) ==
  \/ Select(p)
  \/ WritePromotion(p)
  \/ \E n \in 1 .. MaxQty : PostProduct(p, n)
  \/ RemoveProduct(p)

\* The farmer's edit makes the copies that updateProductQty calls hold old.
FarmerSaves(p, n) ==
  /\ UpdateProduct(p, n)
  /\ taking' = [c \in Customers |->
         IF taking[c].on /\ taking[c].read /\ taking[c].prod = p
         THEN [taking[c] EXCEPT !.old = TRUE]
         ELSE taking[c]]
  /\ UNCHANGED <<pageVars, stage, owed, placed, moved, todo, tied, crossed>>

Next ==
  \/ \E c \in Customers : CustomerStep(c) /\ UNCHANGED inventoryVars
  \/ FetchInventory /\ UNCHANGED cartPageVars
  \/ \E p \in Products : FarmerStep(p) /\ UNCHANGED cartPageVars
  \/ \E p \in Products, n \in 1 .. MaxQty : FarmerSaves(p, n)

Spec == Init /\ [][Next]_vars

----------------------------------------------------------------------------
\* Every variable has its type: no stock below zero (updateProductQty clamps
\* it), no cart quantity below -1, whatever reads fail.
TypeOK == StoreTypeOK /\ CartPageTypeOK /\ InventoryTypeOK

\* Stock never disappears unsold: however the read-then-write updates of
\* concurrent checkouts and the promotions' write-back of whole products
\* interleave, what is left and what checkouts took make up what the farmer
\* put on sale, unless a copy older than his last edit was written after it.
StockAccounted ==
  \A p \in Products :
    Listed(p) /\ ~raced[p] => product[p].qty + taken[p] >= supply[p]

\* A product that is sold out is hidden from the customers' product lists,
\* also when a promotion has written an older copy of it.
SoldOutHidden ==
  \A p \in Products : Listed(p) /\ product[p].qty = 0 => product[p].hidden

\* A checkout takes from the stock at most what its order lists, although
\* updateProduct runs unawaited over the live list, whose quantities pending
\* validations still change and which is emptied under it; provided that the
\* order was placed and the list not reloaded while it was.
TakesOnlyWhatItOrdered ==
  \A c \in Customers : placed[c] /\ ~moved[c] =>
    \A p \in Products : owed[c][p] >= 0

\* Hiding is for good: no edit, promotion or checkout makes a hidden product
\* visible again, not even the edit that restocks it.
HiddenForGood ==
  [][\A p \in Products :
       Listed(p) /\ product[p].hidden /\ Listed(p)' => product'[p].hidden]_vars

\* After a checkout's cartDelete the cart stays empty to the customer's eyes
\* until he adds something, although the documents of its items are still
\* there, validations still write some, and fetches still arrive; provided
\* that no fetch had found the cart before it was deleted: one that had reads
\* the items after the deletion and shows what was ordered once more.
EmptiedCartShowsNothing ==
  \A c \in Customers :
    stage[c] = "idle" /\ ~parent[c] /\ ~crossed[c] => list[c] = {}

\* postOrderComplete says "Something went wrong" about an order that has been
\* placed only if the list was reloaded while it was being placed.
FailureOnlyAfterReload ==
  [][\A c \in Customers :
       stage[c] = "placing" /\ stage'[c] = "idle" /\ placed'[c] => moved[c]]_vars

----------------------------------------------------------------------------
\* The inductive invariants behind these properties, for ShopProofs.

\* A copy that no later edit has made old still accounts for the stock if it
\* is written back, and shows a sold-out product as hidden.
CopyAccounted(copy, p) ==
  copy # NoCopy =>
    /\ copy.qty = 0 => copy.hidden
    /\ Listed(p) /\ ~copy.old /\ ~raced[p] => copy.qty + taken[p] >= supply[p]

ReadAccounted(t) ==
  t.on /\ t.read =>
    /\ product[t.prod].status # "none"
    /\ Listed(t.prod) /\ ~t.old /\ ~raced[t.prod]
         => t.left + taken[t.prod] >= supply[t.prod]

StockInv ==
  /\ StockAccounted
  /\ SoldOutHidden
  /\ \A p \in Products :
       /\ CopyAccounted(rows[p], p)
       /\ CopyAccounted(selected[p], p)
       /\ product[p].status = "none" => rows[p] = NoCopy /\ selected[p] = NoCopy
  /\ \A c \in Customers : ReadAccounted(taking[c])

OnePerProduct(items) == \A i, j \in items : i.prod = j.prod => i = j

\* What is still to be taken for these items is owed.
Covered(items, owes) == \A i \in items : AtLeast0(i.qty) <= owes[i.prod]

\* While an order is being placed.
PlacingInv(c) ==
  stage[c] = "placing" =>
    /\ todo[c] = {} /\ taking[c] = NoTaking /\ ~placed[c]
    /\ \A p \in Products : owed[c][p] >= 0
    /\ ~moved[c] => list[c] # {} /\ Covered(list[c], owed[c])

\* While the stock is taken for a placed order.
TakingInv(c) ==
  placed[c] /\ ~moved[c] =>
    /\ \A p \in Products : owed[c][p] >= 0
    /\ Covered(todo[c], owed[c])
    /\ taking[c].on => AtLeast0(taking[c].qty) <= owed[c][taking[c].prod]

CheckoutOf(c) ==
  /\ OnePerProduct(list[c])
  /\ OnePerProduct(todo[c])
  /\ op[c].kind \in {"none", "set", "drop", "sweep"} => \A i \in list[c] : i.id # 0
  /\ taking[c].on => \A i \in todo[c] : i.prod # taking[c].prod
  /\ PlacingInv(c)
  /\ TakingInv(c)

CheckoutInv == \A c \in Customers : CheckoutOf(c)

\* The page of a customer whose cart is deleted: nothing is shown, and no
\* fetch is about to read what lies below the cart.
EmptiedOf(c) ==
  ~parent[c] /\ ~crossed[c] =>
    /\ fetches[c]["items"] = 0
    /\ stage[c] = "idle" => list[c] = {}

EmptiedInv == \A c \in Customers : EmptiedOf(c)

=============================================================================
