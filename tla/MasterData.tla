----------------------------- MODULE MasterData -----------------------------
(***************************************************************************)
(* The records the documents refer to, and the administrators who create,  *)
(* edit and archive them at the same time: suppliers, departments, storage *)
(* locations, units, categories with their parents, warehouses of which    *)
(* one is the default, roles, and products with their barcodes             *)
(* (apps/api/src/modules/{suppliers,organization,catalog,access}).         *)
(*                                                                         *)
(* A service reads a record, checks it and saves it later: a save writes   *)
(* the paths that differ from what was read.  Only products are updated in *)
(* a transaction, which reads the product again, is retried when what it   *)
(* writes was written meanwhile, and may not see what was added.  Unique   *)
(* indexes are the database's.  Texts, prices and the audit are left out:  *)
(* `name' stands for every path without a rule.                            *)
(***************************************************************************)
EXTENDS Integers, FiniteSets

CONSTANTS Clients,      \* administrators' requests being served at the same time
          Scenarios,    \* what there is: the kind of each identifier, the records that are
                        \* there from the start, and the paths that edits are about
          Codes, Barcodes, None

ASSUME MasterDataAssumption ==
    /\ None \notin UNION {DOMAIN s.kind : s \in Scenarios}
    /\ \A s \in Scenarios : DOMAIN s.seeded \subseteq DOMAIN s.kind

VARIABLES scenario,     \* the scenario, which never changes
          records,      \* records[id]: the record with that id
          barcodes,     \* the productBarcodes collection
          client,       \* client[c]: the call of c, between two steps
          cutOff        \* history: a request was cut off before it had cleared the other
                        \* defaults, and none has cleared them since

vars == <<scenario, records, barcodes, client, cutOff>>

Ids == DOMAIN scenario.kind
OfKind(kind) == {id \in DOMAIN records : records[id].kind = kind}

(* The operators of module TLC, which a proof could not expand: f, and g   *)
(* where f says nothing; the function that maps d to e.                    *)
f @@ g == [x \in DOMAIN f \cup DOMAIN g |-> IF x \in DOMAIN f THEN f[x] ELSE g[x]]
d :> e == [x \in {d} |-> e]

Idle == [op |-> "idle"]
Go(c, step) == client' = [client EXCEPT ![c] = step]
Done(c)     == Go(c, Idle)

-----------------------------------------------------------------------------
(* The paths of each kind's update that a rule speaks of, with values.     *)

Plain == {[name |-> 1]}

WarehouseInput == Plain \cup {[isDefault |-> b] : b \in BOOLEAN}
CategoryInput  == Plain \cup {[parent |-> p] : p \in OfKind("category") \cup {None}}
RoleInput      == Plain \cup {[code |-> code] : code \in Codes}
ProductInput   ==
    Plain \cup {[trackLots |-> b] : b \in BOOLEAN} \cup {[trackExpiry |-> b] : b \in BOOLEAN}
          \cup {[category |-> k] : k \in OfKind("category")}
          \cup {[barcodes |-> <<b>>] : b \in Barcodes}

Input(kind) ==
    {input \in CASE kind = "warehouse" -> WarehouseInput
                 [] kind = "category"  -> CategoryInput
                 [] kind = "role"      -> RoleInput
                 [] kind = "product"   -> ProductInput
                 [] OTHER              -> Plain
        : DOMAIN input \subseteq scenario.edits}

(* What a record is created with; a product's category stands for its unit *)
(* too.                                                                    *)
Fresh(kind) ==
    [kind |-> kind, code |-> None, name |-> 0, status |-> "active"]
    @@ CASE kind = "warehouse" -> [isDefault |-> FALSE]
         [] kind = "location"  -> [warehouse |-> None]
         [] kind = "category"  -> [parent |-> None]
         [] kind = "role"      -> [isSystem |-> FALSE]
         [] kind = "product"   -> [trackLots |-> FALSE, trackExpiry |-> FALSE, category |-> None]
         [] OTHER              -> [f \in {} |-> None]

Seeds(s) == [id \in DOMAIN s.seeded |-> s.seeded[id] @@ Fresh(s.kind[id])]

Init ==
    /\ scenario \in Scenarios
    /\ records = Seeds(scenario)
    /\ barcodes = {}
    /\ client = [c \in Clients |-> Idle]
    /\ cutOff = FALSE

(* What is asked for, applied to the record that was read; barcodes are    *)
(* documents of their own.                                                 *)
Applied(input, doc) == [f \in DOMAIN doc |-> IF f \in DOMAIN input THEN input[f] ELSE doc[f]]

(* save writes the paths that differ from what was read. *)
Written(id, copy, changed) ==
    [f \in DOMAIN copy |-> IF changed[f] # copy[f] THEN changed[f] ELSE records[id][f]]

(* The unique indexes: a code once per kind (of a location: per warehouse),*)
(* a barcode once.                                                         *)
SameKey(doc, other) ==
    /\ doc.kind = other.kind /\ doc.code = other.code
    /\ doc.kind = "location" => doc.warehouse = other.warehouse
Taken(doc, id) == \E other \in DOMAIN records \ {id} : SameKey(doc, records[other])

Living(kind) == {id \in OfKind(kind) : records[id].status # "archived"}

-----------------------------------------------------------------------------
(* create *)

(* What a new record may refer to when the service looks. *)
Choice(kind) ==
    CASE kind = "location" -> {[warehouse |-> w] : w \in OfKind("warehouse")}
      [] kind = "category" -> {[parent |-> p] : p \in OfKind("category") \cup {None}}
      [] kind = "product"  -> {[category |-> k] : k \in Living("category")}
      [] kind = "warehouse" -> {[isDefault |-> b] : b \in BOOLEAN}
      [] OTHER -> {[name |-> 0]}

ReadCreate(c, kind) ==
    /\ client[c] = Idle
    /\ \E id \in Ids \ DOMAIN records, code \in Codes, choice \in Choice(kind) :
        LET doc == choice @@ [Fresh(kind) EXCEPT !.code = code]
        IN  /\ scenario.kind[id] = kind /\ ~Taken(doc, id)
            /\ Go(c, [op |-> "create", id |-> id, doc |-> doc])
    /\ UNCHANGED <<scenario, cutOff, records, barcodes>>

(* Faulty create: no unique index behind the check. *)
SaveCreateUnindexed(c) ==
    /\ client[c].op = "create"
    /\ LET id == client[c].id
           doc == client[c].doc
       IN  IF id \in DOMAIN records THEN Done(c) /\ UNCHANGED records
           ELSE /\ records' = (id :> doc) @@ records
                /\ IF doc.kind = "warehouse" /\ doc.isDefault
                   THEN Go(c, [op |-> "clear", keep |-> id]) ELSE Done(c)
    /\ UNCHANGED <<scenario, cutOff, barcodes>>

(* Two creates never have the same id; one that lost the identifier of the *)
(* instance to another is dropped.                                         *)
SaveCreate(c) ==
    /\ client[c].op = "create"
    /\ LET id == client[c].id
           doc == client[c].doc
       IN  IF id \in DOMAIN records \/ Taken(doc, id) THEN Done(c) /\ UNCHANGED records
           ELSE /\ records' = (id :> doc) @@ records
                /\ IF doc.kind = "warehouse" /\ doc.isDefault
                   THEN Go(c, [op |-> "clear", keep |-> id]) ELSE Done(c)
    /\ UNCHANGED <<scenario, cutOff, barcodes>>

(* Warehouses, after the save and in an operation of its own. *)
ClearOtherDefaults(c) ==
    /\ client[c].op = "clear"
    /\ records' = [id \in DOMAIN records |->
            IF id \in OfKind("warehouse") \ {client[c].keep}
            THEN [records[id] EXCEPT !.isDefault = FALSE] ELSE records[id]]
    /\ Done(c) /\ cutOff' = FALSE
    /\ UNCHANGED <<scenario, barcodes>>

-----------------------------------------------------------------------------
(* update *)

BarcodesOf(id) == {b \in barcodes : b.product = id}

(* An archived record is refused, and a category as its own parent; what   *)
(* is referred to must exist, and of a product be living.  System roles    *)
(* are never edited.  Barcodes of another product are refused.             *)
MayUpdate(id, input) ==
    LET doc == records[id]
    IN  /\ doc.status # "archived"
        /\ doc.kind = "role" => ~doc.isSystem
        /\ "parent" \in DOMAIN input => input.parent # id
        /\ "category" \in DOMAIN input => input.category \in Living("category")
        /\ "barcodes" \in DOMAIN input =>
            \A b \in barcodes \ BarcodesOf(id) : b.barcode # input.barcodes[1]

ReadUpdate(c, id) ==
    /\ client[c] = Idle
    /\ \E input \in Input(records[id].kind) :
        /\ MayUpdate(id, input)
        /\ Go(c, [op |-> IF records[id].kind = "product" THEN "start" ELSE "update",
                  id |-> id, input |-> input, copy |-> records[id]])
    /\ UNCHANGED <<scenario, cutOff, records, barcodes>>

(* Faulty save: the record is written as it was read. *)
SaveUpdateWhole(c) ==
    /\ client[c].op = "update"
    /\ LET id == client[c].id
           changed == Applied(client[c].input, client[c].copy)
       IN  IF Taken(changed, id) THEN Done(c) /\ UNCHANGED records
           ELSE /\ records' = [records EXCEPT ![id] = changed]
                /\ IF changed.kind = "warehouse" /\ changed.isDefault
                   THEN Go(c, [op |-> "clear", keep |-> id]) ELSE Done(c)
    /\ UNCHANGED <<scenario, cutOff, barcodes>>

(* Faulty save: a warehouse that becomes the default leaves the others so. *)
SaveUpdateKeepingDefaults(c) ==
    /\ client[c].op = "update"
    /\ LET id == client[c].id
           changed == Applied(client[c].input, client[c].copy)
       IN  IF Taken(Written(id, client[c].copy, changed), id) THEN UNCHANGED records
           ELSE records' = [records EXCEPT ![id] = Written(id, client[c].copy, changed)]
    /\ Done(c)
    /\ UNCHANGED <<scenario, cutOff, barcodes>>

SaveUpdate(c) ==
    /\ client[c].op = "update"
    /\ LET id == client[c].id
           changed == Applied(client[c].input, client[c].copy)
           written == Written(id, client[c].copy, changed)
       IN  IF Taken(written, id) THEN Done(c) /\ UNCHANGED records
           ELSE /\ records' = [records EXCEPT ![id] = written]
                /\ IF changed.kind = "warehouse" /\ changed.isDefault
                   THEN Go(c, [op |-> "clear", keep |-> id]) ELSE Done(c)
    /\ UNCHANGED <<scenario, cutOff, barcodes>>

(* Products: the transaction's reads, also of the barcodes it will delete. *)
StartUpdateProduct(c) ==
    /\ client[c].op = "start"
    /\ Go(c, [op |-> "transaction", id |-> client[c].id, input |-> client[c].input,
              copy |-> records[client[c].id], old |-> BarcodesOf(client[c].id)])
    /\ UNCHANGED <<scenario, cutOff, records, barcodes>>

Again(c) == Go(c, [op |-> "start", id |-> client[c].id, input |-> client[c].input])

NewBarcodes(id, input) == {[barcode |-> input.barcodes[1], product |-> id, isPrimary |-> TRUE]}

(* Faulty commit: the rule is tested on what the request itself asks for. *)
CommitUpdateProductUntested(c) ==
    /\ client[c].op = "transaction"
    /\ LET id == client[c].id
           copy == client[c].copy
           changed == Applied(client[c].input, copy)
       IN  IF changed # copy /\ records[id] # copy THEN Again(c) /\ UNCHANGED records
           ELSE records' = [records EXCEPT ![id] = Written(id, copy, changed)] /\ Done(c)
    /\ UNCHANGED <<scenario, cutOff, barcodes>>

(* A write conflict, on the product if it is written or on a barcode that  *)
(* somebody else deleted, starts the transaction again.                    *)
CommitUpdateProduct(c) ==
    /\ client[c].op = "transaction"
    /\ LET id == client[c].id
           input == client[c].input
           copy == client[c].copy
           old == client[c].old
           changed == Applied(input, copy)
           replaces == "barcodes" \in DOMAIN input
           conflict == \/ changed # copy /\ records[id] # copy
                       \/ replaces /\ ~(old \subseteq barcodes)
           kept == barcodes \ old
           taken == replaces /\ \E b \in kept : b.barcode = input.barcodes[1]
       IN  IF changed.trackExpiry /\ ~changed.trackLots
           THEN Done(c) /\ UNCHANGED <<records, barcodes>>
           ELSE IF conflict THEN Again(c) /\ UNCHANGED <<records, barcodes>>
           ELSE IF taken THEN Done(c) /\ UNCHANGED <<records, barcodes>>
           ELSE /\ records' = [records EXCEPT ![id] = Written(id, copy, changed)]
                /\ barcodes' = IF replaces THEN kept \cup NewBarcodes(id, input) ELSE barcodes
                /\ Done(c)
    /\ UNCHANGED <<scenario, cutOff>>

-----------------------------------------------------------------------------
(* archive *)

ReadArchive(c, id) ==
    /\ client[c] = Idle
    /\ records[id].status # "archived" /\ records[id].kind # "role"
    /\ Go(c, [op |-> "archive", id |-> id, copy |-> records[id]])
    /\ UNCHANGED <<scenario, cutOff, records, barcodes>>

ArchivedWarehouse(doc) == [doc EXCEPT !.status = "archived", !.isDefault = FALSE]

SaveArchive(c) ==
    /\ client[c].op = "archive"
    /\ LET id == client[c].id
           copy == client[c].copy
           archived == IF copy.kind = "warehouse" THEN ArchivedWarehouse(copy)
                       ELSE [copy EXCEPT !.status = "archived"]
       IN  records' = [records EXCEPT ![id] = Written(id, copy, archived)]
    /\ Done(c)
    /\ UNCHANGED <<scenario, cutOff, barcodes>>

-----------------------------------------------------------------------------
(* The process stops while it serves c, or the database fails it: what was *)
(* saved stays, what was still to be done is never done.                   *)
Stop(c) ==
    /\ client[c] # Idle
    /\ cutOff' = (cutOff \/ client[c].op = "clear")
    /\ Done(c)
    /\ UNCHANGED <<scenario, records, barcodes>>

-----------------------------------------------------------------------------
(* The services *)

Steps(c, kind) ==
    \/ ReadCreate(c, kind)
    \/ \E id \in OfKind(kind) : ReadUpdate(c, id) \/ ReadArchive(c, id)

SupplierService(c)        == Steps(c, "supplier")
DepartmentService(c)      == Steps(c, "department")
StorageLocationService(c) == Steps(c, "location")
WarehouseService(c)       == Steps(c, "warehouse") \/ ClearOtherDefaults(c)
CategoryService(c)        == Steps(c, "category")
UnitService(c)            == Steps(c, "unit")
RoleService(c)            == Steps(c, "role")
ProductService(c) ==
    Steps(c, "product") \/ StartUpdateProduct(c) \/ CommitUpdateProduct(c)

Next ==
    \E c \in Clients :
        \/ SupplierService(c) \/ DepartmentService(c) \/ StorageLocationService(c)
        \/ WarehouseService(c) \/ CategoryService(c) \/ UnitService(c) \/ RoleService(c)
        \/ ProductService(c)
        \/ SaveCreate(c) \/ SaveUpdate(c) \/ SaveArchive(c) \/ Stop(c)

Spec == Init /\ [][Next]_vars

-----------------------------------------------------------------------------
(* Records are what their kind says, and refer to records that exist. *)
TypeOK ==
    /\ DOMAIN records \subseteq Ids
    /\ \A id \in DOMAIN records :
        /\ records[id].kind = scenario.kind[id]
        /\ records[id].code \in Codes /\ records[id].name \in {0, 1}
        /\ records[id].status \in {"active", "archived"}
    /\ \A id \in OfKind("category") : records[id].parent \in OfKind("category") \cup {None}
    /\ \A id \in OfKind("product") : records[id].category \in OfKind("category") \cup {None}
    /\ \A b \in barcodes : b.barcode \in Barcodes /\ b.product \in OfKind("product")

(* However the checks and the saves of two requests interleave, no code is *)
(* given twice, and no barcode to two products.                            *)
KeysUnique ==
    /\ \A id \in DOMAIN records : ~Taken(records[id], id)
    /\ \A b, d \in barcodes : b.barcode = d.barcode => b.product = d.product

(* Whenever no request is in the middle of it, and none was cut off there  *)
(* since the defaults were last cleared, at most one warehouse is the      *)
(* default: two requests that make two warehouses the default at the same  *)
(* time leave one of them, or none.                                        *)
Defaults == {id \in OfKind("warehouse") : records[id].isDefault}
Clearing == \E c \in Clients : client[c].op = "clear"
OneDefault == ~Clearing /\ ~cutOff => Cardinality(Defaults) <= 1

(* A request that is cut off may also leave two of them.                   *)
OneDefaultAnyway == ~Clearing => Cardinality(Defaults) <= 1

(* A product that tracks expiry tracks lots, whichever of two edits of the *)
(* two flags comes first.                                                  *)
ExpiryNeedsLots ==
    \A id \in OfKind("product") : records[id].trackExpiry => records[id].trackLots

(* What was archived is never active again: an edit that read the record   *)
(* before does not bring it back.                                          *)
ArchivedIsFinal ==
    [][\A id \in DOMAIN records :
            records[id].status = "archived" => records'[id].status = "archived"]_vars

(* "Archived ... cannot be modified." *)
ArchivedNotModified ==
    [][\A id \in DOMAIN records :
            records[id].status = "archived" => records'[id] = records[id]]_vars

(* A request that clears the other defaults does not clear the one that    *)
(* another request is just making: else both are cleared in the end.       *)
DefaultRemains ==
    [][\A c, d \in Clients :
            (c # d /\ client[c].op = "clear" /\ client[d].op = "clear"
                /\ records[client[d].keep].isDefault /\ client'[c] = Idle)
            => records'[client[d].keep].isDefault]_vars

(* A product has one primary barcode. *)
OnePrimary ==
    \A id \in OfKind("product") : Cardinality({b \in BarcodesOf(id) : b.isPrimary}) <= 1

(* A category is not its own ancestor: "A category cannot be its own       *)
(* parent."                                                                *)
Ancestors[id \in Ids \cup {None}, n \in 0..Cardinality(Ids)] ==
    IF id = None \/ n = 0 THEN {}
    ELSE {records[id].parent} \cup Ancestors[records[id].parent, n - 1]
NoCycles == \A id \in OfKind("category") : id \notin Ancestors[id, Cardinality(Ids)]
-----------------------------------------------------------------------------
(* The inductive invariant *)

FieldsOf(kind) ==
    {"kind", "code", "name", "status"}
    \cup CASE kind = "warehouse" -> {"isDefault"}
           [] kind = "location"  -> {"warehouse"}
           [] kind = "category"  -> {"parent"}
           [] kind = "role"      -> {"isSystem"}
           [] kind = "product"   -> {"trackLots", "trackExpiry", "category"}
           [] OTHER              -> {}

(* A document of that kind, which may refer to those categories. *)
Doc(doc, kind, categories) ==
    /\ DOMAIN doc = FieldsOf(kind)
    /\ doc.kind = kind /\ doc.code \in Codes /\ doc.name \in {0, 1}
    /\ doc.status \in {"active", "archived"}
    /\ kind = "category" => doc.parent \in categories \cup {None}
    /\ kind = "product" => doc.category \in categories \cup {None}

TracksLots(doc) == doc.kind = "product" /\ doc.trackExpiry => doc.trackLots

(* What is there from the start follows the rules that the services keep. *)
ASSUME SeedAssumption ==
    \A s \in Scenarios :
        LET seeds == Seeds(s)
        IN  /\ \A id \in DOMAIN seeds :
                  /\ Doc(seeds[id], s.kind[id], {k \in DOMAIN seeds : s.kind[k] = "category"})
                  /\ TracksLots(seeds[id])
            /\ \A id, other \in DOMAIN seeds :
                  id # other => /\ ~SameKey(seeds[id], seeds[other])
                                /\ s.kind[id] = "warehouse" /\ s.kind[other] = "warehouse"
                                      => ~(seeds[id].isDefault /\ seeds[other].isDefault)

Categories == {id \in DOMAIN records : scenario.kind[id] = "category"}

(* What an edit of that kind may ask for: never another kind or status, of *)
(* a product no code, of a location no warehouse.                          *)
Asks(input, kind) ==
    /\ DOMAIN input \cap {"kind", "status", "warehouse"} = {}
    /\ kind = "product" => "code" \notin DOMAIN input
    /\ "code" \in DOMAIN input => input.code \in Codes
    /\ "name" \in DOMAIN input => input.name \in {0, 1}
    /\ "parent" \in DOMAIN input => input.parent \in Categories \cup {None}
    /\ "category" \in DOMAIN input => input.category \in Categories
    /\ "barcodes" \in DOMAIN input => input.barcodes[1] \in Barcodes

(* What a call knows between two of its steps: its copy is a document of   *)
(* the record's kind, however old.                                         *)
CallInv(call) ==
    /\ call.op = "create" => /\ call.id \in Ids
                             /\ Doc(call.doc, scenario.kind[call.id], Categories)
                             /\ TracksLots(call.doc)
    /\ call.op \in {"update", "start", "transaction", "archive"} => call.id \in DOMAIN records
    /\ call.op \in {"update", "transaction", "archive"} =>
            Doc(call.copy, scenario.kind[call.id], Categories)
    /\ call.op \in {"update", "start", "transaction"} =>
            /\ Asks(call.input, scenario.kind[call.id])
            /\ call.op = "update" <=> scenario.kind[call.id] # "product"

RecordsInv ==
    /\ scenario \in Scenarios
    /\ DOMAIN records \subseteq Ids
    /\ \A id \in DOMAIN records : Doc(records[id], scenario.kind[id], Categories)
    /\ \A b \in barcodes : b.barcode \in Barcodes /\ b.product \in OfKind("product")

DefaultInv ==
    /\ cutOff \in BOOLEAN
    /\ ~Clearing /\ ~cutOff => \A id, other \in Defaults : id = other

IInv ==
    /\ RecordsInv /\ KeysUnique /\ ExpiryNeedsLots /\ DefaultInv
    /\ DOMAIN client = Clients /\ \A c \in Clients : CallInv(client[c])
=============================================================================
