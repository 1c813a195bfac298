---------------------------- MODULE MCMasterData ----------------------------
(* Two requests at a time over some small sets of records. *)
EXTENDS MasterData

LOCAL T == INSTANCE TLC

CONSTANTS c1, c2, k1, k2

MCClients == {c1, c2}
MCCodes == {k1, k2}

At(code) == [code |-> code]

All == {"name", "isDefault", "parent", "code", "category", "trackLots", "trackExpiry", "barcodes"}

(* The default warehouse, and another one to be added. *)
Places ==
    [kind |-> "main" :> "warehouse" @@ "north" :> "warehouse",
     seeded |-> "main" :> [code |-> k1, isDefault |-> TRUE],
     edits |-> All]

(* Two warehouses of which none is the default yet. *)
NoDefault ==
    [kind |-> "main" :> "warehouse" @@ "north" :> "warehouse",
     seeded |-> "main" :> At(k1) @@ "north" :> At(k2),
     edits |-> All]

Shelves ==
    [kind |-> "main" :> "warehouse" @@ "shelf" :> "location" @@ "bin" :> "location",
     seeded |-> "main" :> At(k1),
     edits |-> All]

(* A category without products, one of which may be added. *)
Goods ==
    [kind |-> "food" :> "category" @@ "milk" :> "product", seeded |-> "food" :> At(k1),
     edits |-> All]

(* Two products whose barcodes are edited. *)
Twins ==
    [kind |-> "milk" :> "product" @@ "rice" :> "product",
     seeded |-> "milk" :> At(k1) @@ "rice" :> At(k2),
     edits |-> {"name", "barcodes"}]

Tree ==
    [kind |-> "food" :> "category" @@ "drinks" :> "category" @@ "other" :> "category",
     seeded |-> "food" :> At(k1) @@ "drinks" :> At(k2),
     edits |-> All]

Roles ==
    [kind |-> "admin" :> "role" @@ "clerk" :> "role" @@ "night" :> "role",
     seeded |-> "admin" :> [code |-> k1, isSystem |-> TRUE] @@ "clerk" :> At(k2),
     edits |-> All]

Pair(kind) ==
    [kind |-> "first" :> kind @@ "second" :> kind, seeded |-> "first" :> At(k1),
     edits |-> All]

MCScenarios ==
    {Places, NoDefault, Shelves, Goods, Twins, Tree, Roles}
        \cup {Pair(kind) : kind \in {"supplier", "department", "unit"}}

Requests == T!Permutations(MCClients)
=============================================================================
