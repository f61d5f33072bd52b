------------------------------ MODULE Inventory ------------------------------
(***************************************************************************)
(* The farmer's device: InventoryController (the list of his products),    *)
(* AddProdController (the product form) and PromotionsController (which    *)
(* writes a listed product back together with its discount).               *)
(*                                                                         *)
(* The list is fetched when the inventory is opened and grows old: the     *)
(* product form refreshes an InventoryController of its own.  Prices and   *)
(* discounts are left out.                                                 *)
(***************************************************************************)
EXTENDS ProductStore

VARIABLES
  rows,      \* [Products -> Copy], farmerProducts
  selected   \* [Products -> Copy], selectedProduct: a copy of one product

inventoryVars == <<rows, selected>>

\* old (history): the farmer has edited the product since it was copied.
Copy ==
  [kind : {"none"}]
    \cup [kind : {"copy"}, qty : Nat, hidden : BOOLEAN, old : BOOLEAN]

NoCopy == [kind |-> "none"]

CopyOf(p) ==
  [kind |-> "copy", qty |-> product[p].qty, hidden |-> product[p].hidden,
   old |-> FALSE]

InventoryTypeOK ==
  /\ rows \in [Products -> Copy]
  /\ selected \in [Products -> Copy]

InventoryInit ==
  /\ rows = [p \in Products |-> NoCopy]
  /\ selected = [p \in Products |-> NoCopy]

\* getInventoryProducts.  An empty collection or a failed fetch answers null,
\* which leaves the list as it was.
FetchInventory ==
  /\ \E p \in Products : Listed(p)
  /\ rows' = [p \in Products |-> IF Listed(p) THEN CopyOf(p) ELSE NoCopy]
  /\ UNCHANGED <<storeVars, selected>>

\* A tap on a listed product makes it the promotions' selectedProduct.
Select(p) ==
  /\ rows[p] # NoCopy
  /\ selected' = [q \in Products |-> IF q = p THEN rows[p] ELSE NoCopy]
  /\ UNCHANGED <<storeVars, rows>>

\* createPromotion and updatePromotions: after the promotion itself, the
\* whole selected product is written.
WritePromotion(p) ==
  /\ Upset
  /\ selected[p] # NoCopy
  /\ WriteCopy(p, selected[p])
  /\ UNCHANGED <<cartVars, rows, selected>>

\* postProducts.
PostProduct(p, n) ==
  /\ Upset
  /\ AddProduct(p, n)
  /\ UNCHANGED <<cartVars, rows, selected>>

Older(copy) == IF copy = NoCopy THEN copy ELSE [copy EXCEPT !.old = TRUE]

\* updateProduct of the product form.
UpdateProduct(p, n) ==
  /\ Upset
  /\ SaveProduct(p, n)
  /\ rows' = [rows EXCEPT ![p] = Older(@)]
  /\ selected' = [selected EXCEPT ![p] = Older(@)]
  /\ UNCHANGED <<cartVars>>

\* deleteProduct.  The inventory strikes the product off the list shown; the
\* product form calls a controller of its own, which leaves that list alone.
RemoveProduct(p) ==
  /\ Upset
  /\ DeleteProduct(p)
  /\ rows' \in {rows, [rows EXCEPT ![p] = NoCopy]}
  /\ UNCHANGED <<cartVars, selected>>

=============================================================================
