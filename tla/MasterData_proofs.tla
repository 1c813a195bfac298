------------------------- MODULE MasterData_proofs -------------------------
(***************************************************************************)
(* Theorems about MasterData: any number of requests, of records of every  *)
(* kind, of codes and barcodes; and, from "Pages and services" on, about   *)
(* Access, the people who work on records and documents: any number of     *)
(* them, with any system roles.                                            *)
(***************************************************************************)
EXTENDS MasterData, Access, FiniteSetTheorems, TLAPS

-----------------------------------------------------------------------------
(* Documents *)

(* The functions a record is put together from. *)
LEMMA Merged ==
  ASSUME NEW f, NEW g
  PROVE  /\ DOMAIN (f @@ g) = DOMAIN f \cup DOMAIN g
         /\ \A x \in DOMAIN f : (f @@ g)[x] = f[x]
         /\ \A x \in DOMAIN g \ DOMAIN f : (f @@ g)[x] = g[x]
BY DEF @@

LEMMA FreshDoc ==
  ASSUME NEW kind
  PROVE  /\ DOMAIN Fresh(kind) = FieldsOf(kind)
         /\ Fresh(kind).kind = kind /\ Fresh(kind).name = 0 /\ Fresh(kind).status = "active"
         /\ kind = "category" => Fresh(kind).parent = None
         /\ kind = "product" => Fresh(kind).category = None /\ Fresh(kind).trackExpiry = FALSE
<1> DEFINE base == [kind |-> kind, code |-> None, name |-> 0, status |-> "active"]
           more == CASE kind = "warehouse" -> [isDefault |-> FALSE]
                     [] kind = "location"  -> [warehouse |-> None]
                     [] kind = "category"  -> [parent |-> None]
                     [] kind = "role"      -> [isSystem |-> FALSE]
                     [] kind = "product"   ->
                            [trackLots |-> FALSE, trackExpiry |-> FALSE, category |-> None]
                     [] OTHER              -> [f \in {} |-> None]
<1>1. /\ DOMAIN base = {"kind", "code", "name", "status"}
      /\ base.kind = kind /\ base.name = 0 /\ base.status = "active"
  OBVIOUS
<1>2. /\ FieldsOf(kind) = {"kind", "code", "name", "status"} \cup DOMAIN more
      /\ kind = "category" => "parent" \in DOMAIN more /\ more.parent = None
      /\ kind = "product" => /\ "category" \in DOMAIN more /\ more.category = None
                             /\ "trackExpiry" \in DOMAIN more /\ more.trackExpiry = FALSE
  BY DEF FieldsOf
<1>3. Fresh(kind) = base @@ more
  BY DEF Fresh
<1>. HIDE DEF base, more
<1>4. /\ DOMAIN Fresh(kind) = DOMAIN base \cup DOMAIN more
      /\ \A x \in DOMAIN base : Fresh(kind)[x] = base[x]
      /\ \A x \in DOMAIN more \ DOMAIN base : Fresh(kind)[x] = more[x]
  <2>1. /\ DOMAIN (base @@ more) = DOMAIN base \cup DOMAIN more
        /\ \A x \in DOMAIN base : (base @@ more)[x] = base[x]
        /\ \A x \in DOMAIN more \ DOMAIN base : (base @@ more)[x] = more[x]
    BY Merged
  <2>. QED
    BY <1>3, <2>1
<1>5. /\ DOMAIN Fresh(kind) = FieldsOf(kind)
      /\ Fresh(kind).kind = kind /\ Fresh(kind).name = 0 /\ Fresh(kind).status = "active"
  BY <1>1, <1>2, <1>4
<1>6. /\ kind = "category" => Fresh(kind).parent = None
      /\ kind = "product" => Fresh(kind).category = None /\ Fresh(kind).trackExpiry = FALSE
  BY <1>1, <1>2, <1>4
<1>. QED
  BY <1>5, <1>6

LEMMA Kinds ==
  ASSUME RecordsInv
  PROVE  \A kind : OfKind(kind) = {id \in DOMAIN records : scenario.kind[id] = kind}
BY DEF RecordsInv, Doc, OfKind

LEMMA ChoiceFields ==
  ASSUME RecordsInv, NEW kind, NEW choice \in Choice(kind)
  PROVE  /\ DOMAIN choice \subseteq FieldsOf(kind) \ {"kind", "code", "status", "trackExpiry"}
         /\ "name" \in DOMAIN choice => choice.name = 0
         /\ "parent" \in DOMAIN choice => choice.parent \in Categories \cup {None}
         /\ "category" \in DOMAIN choice => choice.category \in Categories
<1>1. OfKind("category") = Categories
  BY Kinds DEF Categories
<1>2. Living("category") \subseteq Categories
  BY <1>1 DEF Living
<1>3. CASE kind \in {"location", "warehouse"}
  BY <1>3 DEF Choice, FieldsOf
<1>4. CASE kind = "category"
  BY <1>1, <1>4 DEF Choice, FieldsOf
<1>5. CASE kind = "product"
  BY <1>2, <1>5 DEF Choice, FieldsOf
<1>6. CASE kind \notin {"location", "warehouse", "category", "product"}
  BY <1>6 DEF Choice, FieldsOf
<1>. QED
  BY <1>3, <1>4, <1>5, <1>6

LEMMA NewDoc ==
  ASSUME RecordsInv, NEW kind, NEW code \in Codes, NEW choice \in Choice(kind),
         NEW rec, rec = choice @@ [Fresh(kind) EXCEPT !.code = code]
  PROVE  Doc(rec, kind, Categories) /\ TracksLots(rec)
<1>1. PICK fresh : fresh = [Fresh(kind) EXCEPT !.code = code]
  OBVIOUS
<1>2. /\ DOMAIN fresh = FieldsOf(kind)
      /\ fresh.kind = kind /\ fresh.code = code /\ fresh.name = 0
      /\ fresh.status = "active"
      /\ kind = "category" => fresh.parent = None
      /\ kind = "product" => fresh.category = None /\ fresh.trackExpiry = FALSE
  <2>1. PICK base : base = Fresh(kind)
    OBVIOUS
  <2>2. /\ DOMAIN base = FieldsOf(kind)
        /\ base.kind = kind /\ base.name = 0 /\ base.status = "active"
        /\ kind = "category" => base.parent = None
        /\ kind = "product" => base.category = None /\ base.trackExpiry = FALSE
    BY <2>1, FreshDoc
  <2>3. fresh = [base EXCEPT !.code = code]
    BY <1>1, <2>1
  <2>. QED
    BY <2>2, <2>3 DEF FieldsOf
<1>3. /\ DOMAIN choice \subseteq FieldsOf(kind) \ {"kind", "code", "status", "trackExpiry"}
      /\ "name" \in DOMAIN choice => choice.name = 0
      /\ "parent" \in DOMAIN choice => choice.parent \in Categories \cup {None}
      /\ "category" \in DOMAIN choice => choice.category \in Categories
  BY ChoiceFields
<1>4. /\ DOMAIN rec = DOMAIN choice \cup DOMAIN fresh
      /\ \A x \in DOMAIN choice : rec[x] = choice[x]
      /\ \A x \in DOMAIN fresh \ DOMAIN choice : rec[x] = fresh[x]
  <2>1. rec = choice @@ fresh
    BY <1>1
  <2>2. /\ DOMAIN (choice @@ fresh) = DOMAIN choice \cup DOMAIN fresh
        /\ \A x \in DOMAIN choice : (choice @@ fresh)[x] = choice[x]
        /\ \A x \in DOMAIN fresh \ DOMAIN choice : (choice @@ fresh)[x] = fresh[x]
    BY Merged
  <2>. QED
    BY <2>1, <2>2
<1>5. DOMAIN rec = FieldsOf(kind)
  BY <1>2, <1>3, <1>4
<1>6. {"kind", "code", "name", "status"} \subseteq FieldsOf(kind)
  BY DEF FieldsOf
<1>7. /\ rec.kind = kind /\ rec.code = code /\ rec.status = "active" /\ rec.name = 0
  BY <1>2, <1>3, <1>4, <1>6
<1>8. kind = "category" => rec.parent \in Categories \cup {None}
  BY <1>2, <1>3, <1>4 DEF FieldsOf
<1>9. kind = "product" => rec.category \in Categories \cup {None} /\ rec.trackExpiry = FALSE
  BY <1>2, <1>3, <1>4 DEF FieldsOf
<1>. QED
  BY <1>5, <1>7, <1>8, <1>9 DEF Doc, TracksLots

(* An edit applied to a copy keeps the kind and the status. *)
LEMMA AppliedDoc ==
  ASSUME NEW kind, NEW copy, Doc(copy, kind, Categories), NEW input, Asks(input, kind)
  PROVE  /\ Doc(Applied(input, copy), kind, Categories)
         /\ Applied(input, copy).status = copy.status
         /\ kind = "product" => Applied(input, copy).code = copy.code
<1>1. PICK rec : rec = Applied(input, copy)
  OBVIOUS
<1>2. /\ DOMAIN rec = DOMAIN copy
      /\ \A f \in DOMAIN copy : rec[f] = IF f \in DOMAIN input THEN input[f] ELSE copy[f]
  BY <1>1 DEF Applied
<1>3. DOMAIN copy = FieldsOf(kind) /\ {"kind", "code", "name", "status"} \subseteq FieldsOf(kind)
  BY DEF Doc, FieldsOf
<1>4. /\ rec.kind = kind /\ rec.status = copy.status /\ rec.code \in Codes
      /\ rec.name \in {0, 1}
      /\ kind = "product" => rec.code = copy.code
  BY <1>2, <1>3 DEF Doc, Asks
<1>5. kind = "category" => rec.parent \in Categories \cup {None}
  BY <1>2, <1>3 DEF Doc, Asks, FieldsOf
<1>6. kind = "product" => rec.category \in Categories \cup {None}
  BY <1>2, <1>3 DEF Doc, Asks, FieldsOf
<1>. QED
  BY <1>1, <1>2, <1>3, <1>4, <1>5, <1>6 DEF Doc

(* What a save writes is a document if what was there, what was read and   *)
(* what is asked for are.                                                  *)
LEMMA WrittenDoc ==
  ASSUME NEW id \in DOMAIN records, NEW kind, NEW copy, NEW changed,
         Doc(records[id], kind, Categories), Doc(copy, kind, Categories),
         Doc(changed, kind, Categories),
         NEW rec, rec = Written(id, copy, changed)
  PROVE  /\ Doc(rec, kind, Categories)
         /\ \A f \in FieldsOf(kind) :
               rec[f] = IF changed[f] # copy[f] THEN changed[f] ELSE records[id][f]
<1>1. /\ DOMAIN rec = FieldsOf(kind)
      /\ \A f \in FieldsOf(kind) :
            rec[f] = IF changed[f] # copy[f] THEN changed[f] ELSE records[id][f]
  BY DEF Written, Doc
<1>2. {"kind", "code", "name", "status"} \subseteq FieldsOf(kind)
  BY DEF FieldsOf
<1>3. /\ rec.kind = kind /\ rec.code \in Codes /\ rec.name \in {0, 1}
      /\ rec.status \in {"active", "archived"}
  BY <1>1, <1>2 DEF Doc
<1>4. /\ kind = "category" => rec.parent \in Categories \cup {None}
      /\ kind = "product" => rec.category \in Categories \cup {None}
  BY <1>1 DEF Doc, FieldsOf
<1>. QED
  BY <1>1, <1>3, <1>4 DEF Doc

LEMMA InputAsks ==
  ASSUME RecordsInv, NEW kind, NEW input \in Input(kind)
  PROVE  Asks(input, kind)
<1>1. OfKind("category") = Categories
  BY Kinds DEF Categories
<1>2. CASE kind = "warehouse"
  BY <1>2 DEF Input, WarehouseInput, Plain, Asks
<1>3. CASE kind = "category"
  BY <1>1, <1>3 DEF Input, CategoryInput, Plain, Asks
<1>4. CASE kind = "role"
  BY <1>4 DEF Input, RoleInput, Plain, Asks
<1>5. CASE kind = "product"
  <2>1. Living("category") \subseteq Categories
    BY <1>1 DEF Living
  <2>2. input \in ProductInput
    BY <1>5 DEF Input
  <2>3. CASE \E b \in Barcodes : input = [barcodes |-> <<b>>]
    BY <2>3 DEF Asks
  <2>. QED
    BY <1>1, <1>5, <2>1, <2>2, <2>3 DEF ProductInput, Plain, Asks
<1>6. CASE kind \notin {"warehouse", "category", "role", "product"}
  BY <1>6 DEF Input, Plain, Asks
<1>. QED
  BY <1>2, <1>3, <1>4, <1>5, <1>6

-----------------------------------------------------------------------------
(* The parts of the invariant, when one record is written *)

CodesUnique == \A id \in DOMAIN records : ~Taken(records[id], id)

BarcodesUnique == \A b, d \in barcodes : b.barcode = d.barcode => b.product = d.product

(* A record stays, and stays archived. *)
RecordsMove ==
    \A id \in DOMAIN records :
        /\ id \in DOMAIN records'
        /\ records[id].status = "archived" => records'[id].status = "archived"

LEMMA RecordsKept ==
  ASSUME RecordsInv, UNCHANGED <<scenario, barcodes>>, DOMAIN records \subseteq DOMAIN records',
         DOMAIN records' \subseteq Ids,
         \A id \in DOMAIN records' : Doc(records'[id], scenario.kind[id], Categories')
  PROVE  RecordsInv'
<1>1. \A id \in DOMAIN records' : records'[id].kind = scenario.kind[id]
  BY DEF Doc
<1>2. \A id \in DOMAIN records : records[id].kind = scenario.kind[id]
  BY DEF RecordsInv, Doc
<1>3. OfKind("product") \subseteq OfKind("product")'
  BY <1>1, <1>2 DEF OfKind
<1>4. (\A id \in DOMAIN records : Doc(records[id], scenario.kind[id], Categories))'
  OBVIOUS
<1>5. Ids' = Ids /\ scenario' \in Scenarios
  BY DEF RecordsInv, Ids
<1>. QED
  BY <1>3, <1>4, <1>5 DEF RecordsInv

LEMMA DocMoves ==
  ASSUME UNCHANGED scenario, DOMAIN records \subseteq DOMAIN records',
         NEW rec, NEW kind, Doc(rec, kind, Categories)
  PROVE  Doc(rec, kind, Categories')
<1>1. Categories \subseteq Categories'
  BY DEF Categories
<1>. QED
  BY <1>1 DEF Doc

(* One record is written, and keeps its kind. *)
LEMMA OneRecord ==
  ASSUME RecordsInv, NEW id \in DOMAIN records, NEW rec,
         Doc(rec, scenario.kind[id], Categories),
         records' = [records EXCEPT ![id] = rec], UNCHANGED scenario
  PROVE  /\ DOMAIN records' = DOMAIN records
         /\ \A other \in DOMAIN records :
               records'[other] = IF other = id THEN rec ELSE records[other]
         /\ Categories' = Categories
         /\ \A kind : OfKind(kind)' = OfKind(kind)
         /\ UNCHANGED barcodes => RecordsInv'
<1>1. /\ DOMAIN records' = DOMAIN records
      /\ \A other \in DOMAIN records :
            records'[other] = IF other = id THEN rec ELSE records[other]
  OBVIOUS
<1>2. Categories' = Categories
  BY <1>1 DEF Categories
<1>3. \A kind : OfKind(kind)' = OfKind(kind)
  BY <1>1 DEF RecordsInv, Doc, OfKind
<1>4. \A other \in DOMAIN records' : Doc(records'[other], scenario.kind[other], Categories')
  BY <1>1, <1>2 DEF RecordsInv
<1>5. UNCHANGED barcodes => RecordsInv'
  BY <1>1, <1>4, RecordsKept DEF RecordsInv
<1>. QED
  BY <1>1, <1>2, <1>3, <1>5

LEMMA CodesKept ==
  ASSUME CodesUnique, NEW id \in DOMAIN records, NEW rec, ~Taken(rec, id),
         records' = [records EXCEPT ![id] = rec]
  PROVE  CodesUnique'
<1>1. ASSUME NEW this \in DOMAIN records, NEW other \in DOMAIN records, this # other
      PROVE  ~SameKey(records'[this], records'[other])
  BY <1>1 DEF CodesUnique, Taken, SameKey
<1>. QED
  BY <1>1 DEF CodesUnique, Taken

(* A save that keeps code and place is not refused by the index. *)
LEMMA SameKeyFree ==
  ASSUME CodesUnique, NEW id \in DOMAIN records, NEW rec,
         rec.kind = records[id].kind, rec.code = records[id].code,
         rec.kind = "location" => rec.warehouse = records[id].warehouse
  PROVE  ~Taken(rec, id)
BY DEF CodesUnique, Taken, SameKey

LEMMA DefaultsShrink ==
  ASSUME DefaultInv, UNCHANGED cutOff,
         (\A c \in Clients : client'[c].op # "clear") => \A c \in Clients : client[c].op # "clear",
         \A id \in OfKind("warehouse")' :
            records'[id].isDefault => id \in OfKind("warehouse") /\ records[id].isDefault
  PROVE  DefaultInv'
BY DEF DefaultInv, Clearing, Defaults

-----------------------------------------------------------------------------
(* What the calls know *)

LEMMA StillKnown ==
  ASSUME UNCHANGED scenario, DOMAIN records \subseteq DOMAIN records', NEW call, CallInv(call)
  PROVE  CallInv(call)'
<1>1. Categories \subseteq Categories' /\ Ids' = Ids /\ scenario' = scenario
  BY DEF Categories, Ids
<1>2. \A rec, kind : Doc(rec, kind, Categories) => Doc(rec, kind, Categories')
  BY DocMoves
<1>3. \A input, kind : Asks(input, kind) => Asks(input, kind)'
  BY <1>1 DEF Asks
<1>. QED
  BY <1>1, <1>2, <1>3 DEF CallInv

CallsOK == DOMAIN client = Clients /\ \A c \in Clients : CallInv(client[c])

LEMMA CallStep ==
  ASSUME CallsOK, UNCHANGED scenario, DOMAIN records \subseteq DOMAIN records',
         NEW c \in Clients, NEW step, Go(c, step), CallInv(step)
  PROVE  CallsOK'
<1>1. DOMAIN client' = Clients /\ client'[c] = step
      /\ \A d \in Clients \ {c} : client'[d] = client[d]
  BY DEF CallsOK, Go
<1>2. ASSUME NEW d \in Clients
      PROVE  CallInv(client[d])'
  <2>1. PICK call : call = client'[d] /\ CallInv(call)
    BY <1>1 DEF CallsOK
  <2>2. CallInv(call)'
    BY <2>1, StillKnown
  <2>. QED
    BY <2>1, <2>2
<1>. QED
  BY <1>1, <1>2 DEF CallsOK

LEMMA Idles == CallInv(Idle)
BY DEF CallInv, Idle

LEMMA NotClearing ==
  ASSUME CallsOK, NEW c \in Clients, client[c].op # "clear", NEW step, Go(c, step),
         \A d \in Clients : client'[d].op # "clear"
  PROVE  \A d \in Clients : client[d].op # "clear"
BY DEF CallsOK, Go

LEMMA Parts ==
  IInv <=> /\ RecordsInv /\ CodesUnique /\ BarcodesUnique /\ ExpiryNeedsLots /\ DefaultInv
           /\ CallsOK
BY DEF IInv, KeysUnique, CodesUnique, BarcodesUnique, CallsOK

-----------------------------------------------------------------------------
(* The steps *)

(* A step that writes nothing: a read, a refusal, a transaction begun or   *)
(* begun again.                                                            *)
LEMMA NothingWritten ==
  ASSUME IInv, UNCHANGED <<scenario, records, barcodes>>, NEW c \in Clients,
         NEW step, Go(c, step), CallInv(step), DefaultInv'
  PROVE  IInv' /\ RecordsMove
<1>1. RecordsInv /\ CodesUnique /\ BarcodesUnique /\ ExpiryNeedsLots /\ CallsOK
  BY Parts
<1>2. RecordsInv' /\ CodesUnique' /\ BarcodesUnique' /\ ExpiryNeedsLots'
  BY <1>1
     DEF RecordsInv, Ids, OfKind, Doc, Categories, CodesUnique, Taken, SameKey, BarcodesUnique,
         ExpiryNeedsLots
<1>3. CallsOK'
  BY <1>1, CallStep
<1>4. RecordsMove
  BY DEF RecordsMove
<1>. QED
  BY <1>2, <1>3, <1>4, Parts, PTL

LEMMA CallOnly ==
  ASSUME IInv, UNCHANGED <<scenario, records, barcodes, cutOff>>, NEW c \in Clients,
         client[c].op # "clear", NEW step, Go(c, step), CallInv(step)
  PROVE  IInv' /\ RecordsMove
<1>1. DefaultInv'
  BY Parts, NotClearing, DefaultsShrink DEF OfKind
<1>. QED
  BY <1>1, NothingWritten

(* A call that ends before its time. *)
LEMMA StopStep ==
  ASSUME IInv, NEW c \in Clients, Stop(c)
  PROVE  IInv' /\ RecordsMove
<1>1. UNCHANGED <<scenario, records, barcodes>> /\ Go(c, Idle) /\ CallInv(Idle)
  BY Idles DEF Stop, Done
<1>2. CASE client[c].op = "clear"
  <2>1. cutOff' = TRUE
    BY <1>2, Zenon DEF Stop
  <2>2. DefaultInv'
    BY <2>1 DEF DefaultInv
  <2>. QED
    BY <1>1, <2>2, NothingWritten
<1>3. CASE client[c].op # "clear"
  <2>1. cutOff \in BOOLEAN
    BY Parts DEF DefaultInv
  <2>2. UNCHANGED cutOff
    BY <1>3, <2>1, Zenon DEF Stop
  <2>. QED
    BY <1>1, <1>3, <2>2, CallOnly
<1>. QED
  BY <1>2, <1>3

LEMMA ReadCreateStep ==
  ASSUME IInv, NEW c \in Clients, NEW kind, ReadCreate(c, kind)
  PROVE  IInv' /\ RecordsMove
<1>1. PICK id \in Ids \ DOMAIN records, code \in Codes, choice \in Choice(kind) :
         LET rec == choice @@ [Fresh(kind) EXCEPT !.code = code]
         IN  /\ scenario.kind[id] = kind /\ ~Taken(rec, id)
             /\ Go(c, [op |-> "create", id |-> id, doc |-> rec])
  BY Zenon DEF ReadCreate
<1>2. PICK rec : rec = choice @@ [Fresh(kind) EXCEPT !.code = code]
  OBVIOUS
<1>3. RecordsInv
  BY Parts
<1>4. Doc(rec, kind, Categories) /\ TracksLots(rec)
  BY <1>2, <1>3, NewDoc
<1>5. scenario.kind[id] = kind /\ Go(c, [op |-> "create", id |-> id, doc |-> rec])
  BY <1>1, <1>2
<1>6. CallInv([op |-> "create", id |-> id, doc |-> rec])
  BY <1>4, <1>5 DEF CallInv
<1>7. client[c].op # "clear" /\ UNCHANGED <<scenario, records, barcodes, cutOff>>
  BY DEF ReadCreate, Idle
<1>. QED
  BY <1>5, <1>6, <1>7, CallOnly

LEMMA ReadUpdateStep ==
  ASSUME IInv, NEW c \in Clients, NEW id \in DOMAIN records, ReadUpdate(c, id)
  PROVE  IInv' /\ RecordsMove
<1>1. PICK input \in Input(records[id].kind) :
         Go(c, [op |-> IF records[id].kind = "product" THEN "start" ELSE "update",
                id |-> id, input |-> input, copy |-> records[id]])
  BY DEF ReadUpdate
<1>2. RecordsInv
  BY Parts
<1>3. PICK kind, copy : kind = scenario.kind[id] /\ copy = records[id]
  OBVIOUS
<1>4. records[id].kind = kind /\ Doc(copy, kind, Categories)
  BY <1>2, <1>3 DEF RecordsInv, Doc
<1>5. Asks(input, kind)
  BY <1>1, <1>2, <1>4, InputAsks
<1>6. PICK op : op = IF kind = "product" THEN "start" ELSE "update"
  OBVIOUS
<1>7. Go(c, [op |-> op, id |-> id, input |-> input, copy |-> copy])
  BY <1>1, <1>3, <1>4, <1>6
<1>8. CallInv([op |-> op, id |-> id, input |-> input, copy |-> copy])
  BY <1>3, <1>4, <1>5, <1>6 DEF CallInv
<1>9. client[c].op # "clear" /\ UNCHANGED <<scenario, records, barcodes, cutOff>>
  BY DEF ReadUpdate, Idle
<1>. QED
  BY <1>7, <1>8, <1>9, CallOnly

LEMMA ReadArchiveStep ==
  ASSUME IInv, NEW c \in Clients, NEW id \in DOMAIN records, ReadArchive(c, id)
  PROVE  IInv' /\ RecordsMove
<1>1. PICK copy : copy = records[id]
  OBVIOUS
<1>2. Doc(copy, scenario.kind[id], Categories)
  BY <1>1, Parts DEF RecordsInv
<1>3. CallInv([op |-> "archive", id |-> id, copy |-> copy])
  BY <1>2 DEF CallInv
<1>4. /\ Go(c, [op |-> "archive", id |-> id, copy |-> copy])
      /\ client[c].op # "clear" /\ UNCHANGED <<scenario, records, barcodes, cutOff>>
  BY <1>1 DEF ReadArchive, Idle
<1>. QED
  BY <1>3, <1>4, CallOnly

LEMMA StartUpdateProductStep ==
  ASSUME IInv, NEW c \in Clients, StartUpdateProduct(c)
  PROVE  IInv' /\ RecordsMove
<1>1. CallInv(client[c]) /\ RecordsInv
  BY Parts DEF CallsOK
<1>2. PICK id, input : id = client[c].id /\ input = client[c].input
  OBVIOUS
<1>3. PICK copy, old : copy = records[id] /\ old = BarcodesOf(id)
  OBVIOUS
<1>4. /\ id \in DOMAIN records /\ Asks(input, scenario.kind[id])
      /\ scenario.kind[id] = "product"
  BY <1>1, <1>2 DEF CallInv, StartUpdateProduct
<1>5. Doc(copy, scenario.kind[id], Categories)
  BY <1>1, <1>3, <1>4 DEF RecordsInv
<1>6. CallInv([op |-> "transaction", id |-> id, input |-> input, copy |-> copy, old |-> old])
  BY <1>4, <1>5 DEF CallInv
<1>7. /\ Go(c, [op |-> "transaction", id |-> id, input |-> input, copy |-> copy, old |-> old])
      /\ client[c].op # "clear" /\ UNCHANGED <<scenario, records, barcodes, cutOff>>
  BY <1>2, <1>3 DEF StartUpdateProduct
<1>. QED
  BY <1>6, <1>7, CallOnly

LEMMA SaveCreateStep ==
  ASSUME IInv, NEW c \in Clients, SaveCreate(c)
  PROVE  IInv' /\ RecordsMove
<1>1. /\ RecordsInv /\ CodesUnique /\ BarcodesUnique /\ ExpiryNeedsLots /\ DefaultInv
      /\ CallsOK /\ CallInv(client[c])
  BY Parts DEF CallsOK
<1>2. PICK id, rec : id = client[c].id /\ rec = client[c].doc
  OBVIOUS
<1>3. PICK kind : kind = scenario.kind[id]
  OBVIOUS
<1>4. id \in Ids /\ Doc(rec, kind, Categories) /\ TracksLots(rec)
  BY <1>1, <1>2, <1>3 DEF CallInv, SaveCreate
<1>5. client[c].op # "clear" /\ UNCHANGED <<scenario, barcodes, cutOff>>
  BY DEF SaveCreate
<1>6. CASE Done(c) /\ UNCHANGED records
  BY <1>5, <1>6, Idles, CallOnly DEF Done
<1>7. CASE /\ id \notin DOMAIN records /\ ~Taken(rec, id)
           /\ records' = (id :> rec) @@ records
           /\ IF rec.kind = "warehouse" /\ rec.isDefault
              THEN Go(c, [op |-> "clear", keep |-> id]) ELSE Done(c)
  <2>1. /\ DOMAIN records' = DOMAIN records \cup {id}
        /\ records'[id] = rec
        /\ \A other \in DOMAIN records : records'[other] = records[other]
    BY <1>7 DEF @@, :>
  <2>2. Categories \subseteq Categories'
    BY <1>5, <2>1 DEF Categories
  <2>3. RecordsInv'
    <3>1. ASSUME NEW other \in DOMAIN records'
          PROVE  Doc(records'[other], scenario.kind[other], Categories')
      <4>1. Doc(records'[other], scenario.kind[other], Categories)
        BY <1>1, <1>3, <1>4, <2>1 DEF RecordsInv
      <4>. QED
        BY <1>5, <2>1, <4>1, DocMoves
    <3>2. DOMAIN records' \subseteq Ids
      BY <1>1, <1>4, <2>1 DEF RecordsInv
    <3>. QED
      BY <1>1, <1>5, <2>1, <3>1, <3>2, RecordsKept
  <2>4. CodesUnique'
    <3>1. ASSUME NEW this \in DOMAIN records', NEW other \in DOMAIN records', this # other
          PROVE  ~SameKey(records'[this], records'[other])
      BY <1>1, <1>7, <2>1, <3>1 DEF CodesUnique, Taken, SameKey
    <3>. QED
      BY <3>1 DEF CodesUnique, Taken
  <2>5. BarcodesUnique'
    BY <1>1, <1>5 DEF BarcodesUnique
  <2>6. ExpiryNeedsLots'
    BY <1>1, <1>4, <2>1 DEF ExpiryNeedsLots, TracksLots, OfKind
  <2>7. \E step : Go(c, step) /\ CallInv(step)
    BY <1>7, Idles DEF CallInv, Done
  <2>8. CallsOK'
    BY <1>1, <1>5, <2>1, <2>7, CallStep
  <2>9. DefaultInv'
    <3>1. CASE rec.kind = "warehouse" /\ rec.isDefault
      <4>1. client'[c].op = "clear"
        BY <1>1, <1>7, <3>1 DEF Go, CallsOK
      <4>. QED
        BY <1>1, <1>5, <4>1 DEF DefaultInv, Clearing
    <3>2. CASE ~(rec.kind = "warehouse" /\ rec.isDefault)
      <4>1. \A other \in OfKind("warehouse")' :
               records'[other].isDefault
                  => other \in OfKind("warehouse") /\ records[other].isDefault
        BY <2>1, <3>2 DEF OfKind
      <4>. QED
        BY <1>1, <1>5, <2>7, <4>1, NotClearing, DefaultsShrink
    <3>. QED
      BY <3>1, <3>2
  <2>10. RecordsMove
    BY <2>1 DEF RecordsMove
  <2>. QED
    BY <2>3, <2>4, <2>5, <2>6, <2>8, <2>9, <2>10, Parts, PTL
<1>. QED
  BY <1>2, <1>6, <1>7, Zenon DEF SaveCreate

LEMMA ClearOtherDefaultsStep ==
  ASSUME IInv, NEW c \in Clients, ClearOtherDefaults(c)
  PROVE  IInv' /\ RecordsMove
<1>1. /\ RecordsInv /\ CodesUnique /\ BarcodesUnique /\ ExpiryNeedsLots
      /\ CallsOK
  BY Parts
<1>2. UNCHANGED <<scenario, barcodes>> /\ Go(c, Idle)
  BY DEF ClearOtherDefaults, Done
<1>3. PICK keep : keep = client[c].keep
  OBVIOUS
<1>4. /\ DOMAIN records' = DOMAIN records
      /\ \A id \in DOMAIN records :
            records'[id] = IF id \in OfKind("warehouse") \ {keep}
                           THEN [records[id] EXCEPT !.isDefault = FALSE] ELSE records[id]
  BY <1>3 DEF ClearOtherDefaults
<1>5. ASSUME NEW id \in DOMAIN records
      PROVE  /\ DOMAIN records'[id] = DOMAIN records[id]
             /\ \A f \in DOMAIN records[id] \ {"isDefault"} : records'[id][f] = records[id][f]
             /\ id \in OfKind("warehouse") \ {keep} => ~records'[id].isDefault
  <2>1. PICK rec : rec = records[id]
    OBVIOUS
  <2>2. DOMAIN rec = FieldsOf(rec.kind)
    BY <1>1, <2>1 DEF RecordsInv, Doc
  <2>3. CASE id \in OfKind("warehouse") \ {keep}
    <3>1. records'[id] = [rec EXCEPT !.isDefault = FALSE]
      BY <1>4, <2>1, <2>3
    <3>2. "isDefault" \in DOMAIN rec
      BY <2>1, <2>2, <2>3 DEF OfKind, FieldsOf
    <3>. QED
      BY <2>1, <3>1, <3>2
  <2>4. CASE id \notin OfKind("warehouse") \ {keep}
    BY <1>4, <2>1, <2>4
  <2>. QED
    BY <2>3, <2>4
<1>6. ASSUME NEW id \in DOMAIN records
      PROVE  /\ records'[id].kind = records[id].kind /\ records'[id].code = records[id].code
             /\ records'[id].name = records[id].name /\ records'[id].status = records[id].status
             /\ records[id].kind = "location" => records'[id].warehouse = records[id].warehouse
             /\ records[id].kind = "category" => records'[id].parent = records[id].parent
             /\ records[id].kind = "product" =>
                   /\ records'[id].category = records[id].category
                   /\ records'[id].trackLots = records[id].trackLots
                   /\ records'[id].trackExpiry = records[id].trackExpiry
  <2>1. DOMAIN records[id] = FieldsOf(records[id].kind)
    BY <1>1 DEF RecordsInv, Doc
  <2>. QED
    BY <1>5, <2>1 DEF FieldsOf
<1>7. Categories' = Categories /\ \A kind : OfKind(kind)' = OfKind(kind)
  BY <1>2, <1>4, <1>6 DEF Categories, OfKind
<1>8. RecordsInv'
  <2>1. ASSUME NEW id \in DOMAIN records'
        PROVE  Doc(records'[id], scenario.kind[id], Categories')
    <3>1. PICK kind : kind = scenario.kind[id]
      OBVIOUS
    <3>2. Doc(records[id], kind, Categories) /\ records[id].kind = kind
      BY <1>1, <1>4, <3>1 DEF RecordsInv, Doc
    <3>. QED
      BY <1>4, <1>5, <1>6, <1>7, <3>1, <3>2 DEF Doc
  <2>. QED
    BY <1>1, <1>2, <1>4, <2>1, RecordsKept DEF RecordsInv
<1>9. CodesUnique'
  <2>1. ASSUME NEW this \in DOMAIN records, NEW other \in DOMAIN records, this # other
        PROVE  ~SameKey(records'[this], records'[other])
    BY <1>1, <1>6, <2>1 DEF CodesUnique, Taken, SameKey
  <2>. QED
    BY <1>4, <2>1 DEF CodesUnique, Taken
<1>10. BarcodesUnique' /\ ExpiryNeedsLots'
  BY <1>1, <1>2, <1>6, <1>7 DEF BarcodesUnique, ExpiryNeedsLots, OfKind
<1>11. DefaultInv'
  <2>1. cutOff' = FALSE
    BY DEF ClearOtherDefaults
  <2>. QED
    BY <1>4, <1>5, <1>7, <2>1 DEF DefaultInv, Defaults, OfKind
<1>12. CallsOK'
  BY <1>1, <1>2, <1>4, Idles, CallStep
<1>13. RecordsMove
  BY <1>4, <1>6 DEF RecordsMove
<1>. QED
  BY <1>8, <1>9, <1>10, <1>11, <1>12, <1>13, Parts, PTL

LEMMA SaveUpdateStep ==
  ASSUME IInv, NEW c \in Clients, SaveUpdate(c)
  PROVE  IInv' /\ RecordsMove
<1>1. /\ RecordsInv /\ CodesUnique /\ BarcodesUnique /\ ExpiryNeedsLots /\ DefaultInv
      /\ CallsOK /\ CallInv(client[c])
  BY Parts DEF CallsOK
<1>2. PICK id, copy, changed : /\ id = client[c].id /\ copy = client[c].copy
                               /\ changed = Applied(client[c].input, copy)
  OBVIOUS
<1>3. PICK kind, rec : kind = scenario.kind[id] /\ rec = Written(id, copy, changed)
  OBVIOUS
<1>4. id \in DOMAIN records /\ Doc(copy, kind, Categories) /\ kind # "product"
      /\ Asks(client[c].input, kind)
  BY <1>1, <1>2, <1>3 DEF CallInv, SaveUpdate
<1>5. PICK input : input = client[c].input
  OBVIOUS
<1>6. Doc(changed, kind, Categories) /\ changed.status = copy.status
  BY <1>2, <1>4, <1>5, AppliedDoc
<1>7. Doc(records[id], kind, Categories)
  BY <1>1, <1>3, <1>4 DEF RecordsInv
<1>8. /\ Doc(rec, kind, Categories)
      /\ \A f \in FieldsOf(kind) :
            rec[f] = IF changed[f] # copy[f] THEN changed[f] ELSE records[id][f]
  BY <1>3, <1>4, <1>6, <1>7, WrittenDoc
<1>9. client[c].op # "clear" /\ UNCHANGED <<scenario, barcodes, cutOff>>
  BY DEF SaveUpdate
<1>10. CASE Done(c) /\ UNCHANGED records
  BY <1>9, <1>10, Idles, CallOnly DEF Done
<1>11. CASE /\ ~Taken(rec, id) /\ records' = [records EXCEPT ![id] = rec]
            /\ IF changed.kind = "warehouse" /\ changed.isDefault
               THEN Go(c, [op |-> "clear", keep |-> id]) ELSE Done(c)
  <2>1. /\ DOMAIN records' = DOMAIN records
        /\ \A other \in DOMAIN records :
              records'[other] = IF other = id THEN rec ELSE records[other]
        /\ \A k : OfKind(k)' = OfKind(k)
        /\ RecordsInv'
    BY <1>1, <1>3, <1>4, <1>8, <1>9, <1>11, OneRecord
  <2>2. CodesUnique'
    BY <1>1, <1>4, <1>11, CodesKept
  <2>3. BarcodesUnique'
    BY <1>1, <1>9 DEF BarcodesUnique
  <2>4. id \notin OfKind("product")
    BY <1>4, <1>7 DEF OfKind, Doc
  <2>5. ExpiryNeedsLots'
    BY <1>1, <2>1, <2>4 DEF ExpiryNeedsLots, OfKind
  <2>6. \E step : Go(c, step) /\ CallInv(step)
    BY <1>11, Idles DEF CallInv, Done
  <2>7. CallsOK'
    BY <1>1, <1>9, <2>1, <2>6, CallStep
  <2>8. DefaultInv'
    <3>1. CASE changed.kind = "warehouse" /\ changed.isDefault
      <4>1. client'[c].op = "clear"
        BY <1>1, <1>11, <3>1 DEF Go, CallsOK
      <4>. QED
        BY <1>1, <1>9, <4>1 DEF DefaultInv, Clearing
    <3>2. CASE ~(changed.kind = "warehouse" /\ changed.isDefault)
      <4>1. id \in OfKind("warehouse") /\ rec.isDefault => records[id].isDefault
        BY <1>6, <1>7, <1>8, <3>2 DEF OfKind, Doc, FieldsOf
      <4>2. \A other \in OfKind("warehouse")' :
               records'[other].isDefault
                  => other \in OfKind("warehouse") /\ records[other].isDefault
        BY <2>1, <4>1 DEF OfKind
      <4>. QED
        BY <1>1, <1>9, <2>6, <4>2, NotClearing, DefaultsShrink
    <3>. QED
      BY <3>1, <3>2
  <2>9. RecordsMove
    <3>1. rec.status = records[id].status
      BY <1>6, <1>8 DEF FieldsOf
    <3>. QED
      BY <2>1, <3>1 DEF RecordsMove
  <2>. QED
    BY <2>1, <2>2, <2>3, <2>5, <2>7, <2>8, <2>9, Parts, PTL
<1>. QED
  BY <1>2, <1>3, <1>10, <1>11, Zenon DEF SaveUpdate

LEMMA SaveArchiveStep ==
  ASSUME IInv, NEW c \in Clients, SaveArchive(c)
  PROVE  IInv' /\ RecordsMove
<1>1. /\ RecordsInv /\ CodesUnique /\ BarcodesUnique /\ ExpiryNeedsLots /\ DefaultInv
      /\ CallsOK /\ CallInv(client[c])
  BY Parts DEF CallsOK
<1>2. PICK id, copy : id = client[c].id /\ copy = client[c].copy
  OBVIOUS
<1>3. PICK kind : kind = scenario.kind[id]
  OBVIOUS
<1>4. id \in DOMAIN records /\ Doc(copy, kind, Categories)
  BY <1>1, <1>2, <1>3 DEF CallInv, SaveArchive
<1>5. PICK changed : changed = IF copy.kind = "warehouse" THEN ArchivedWarehouse(copy)
                               ELSE [copy EXCEPT !.status = "archived"]
  OBVIOUS
<1>6. /\ DOMAIN changed = DOMAIN copy
      /\ \A f \in DOMAIN copy :
            changed[f] = CASE f = "status" -> "archived"
                           [] f = "isDefault" /\ kind = "warehouse" -> FALSE
                           [] OTHER -> copy[f]
  <2>1. copy.kind = kind /\ "status" \in DOMAIN copy
        /\ (kind = "warehouse" => "isDefault" \in DOMAIN copy)
    BY <1>4 DEF Doc, FieldsOf
  <2>. QED
    BY <1>5, <2>1 DEF ArchivedWarehouse
<1>7. DOMAIN copy = FieldsOf(kind) /\ {"kind", "code", "name", "status"} \subseteq FieldsOf(kind)
  BY <1>4 DEF Doc, FieldsOf
<1>8. Doc(changed, kind, Categories)
  BY <1>4, <1>6, <1>7 DEF Doc, FieldsOf
<1>9. PICK rec : rec = Written(id, copy, changed)
  OBVIOUS
<1>10. Doc(records[id], kind, Categories)
  BY <1>1, <1>3, <1>4 DEF RecordsInv
<1>11. /\ Doc(rec, kind, Categories)
       /\ \A f \in FieldsOf(kind) :
             rec[f] = IF changed[f] # copy[f] THEN changed[f] ELSE records[id][f]
  BY <1>4, <1>8, <1>9, <1>10, WrittenDoc
<1>12. /\ client[c].op # "clear" /\ UNCHANGED <<scenario, barcodes, cutOff>> /\ Go(c, Idle)
       /\ records' = [records EXCEPT ![id] = rec]
  BY <1>2, <1>5, <1>9 DEF SaveArchive, Done
<1>13. /\ DOMAIN records' = DOMAIN records
       /\ \A other \in DOMAIN records :
             records'[other] = IF other = id THEN rec ELSE records[other]
       /\ \A k : OfKind(k)' = OfKind(k)
       /\ RecordsInv'
  BY <1>1, <1>3, <1>4, <1>11, <1>12, OneRecord
<1>14. \A f \in FieldsOf(kind) \ {"status", "isDefault"} : rec[f] = records[id][f]
  BY <1>6, <1>7, <1>11
<1>15. CodesUnique'
  <2>1. /\ rec.kind = records[id].kind /\ rec.code = records[id].code
        /\ rec.kind = "location" => rec.warehouse = records[id].warehouse
    BY <1>7, <1>10, <1>11, <1>14 DEF Doc, FieldsOf
  <2>2. ~Taken(rec, id)
    BY <1>1, <1>4, <2>1, SameKeyFree
  <2>. QED
    BY <1>1, <1>4, <1>12, <2>2, CodesKept
<1>16. BarcodesUnique'
  BY <1>1, <1>12 DEF BarcodesUnique
<1>17. ExpiryNeedsLots'
  <2>1. id \in OfKind("product") =>
           rec.trackExpiry = records[id].trackExpiry /\ rec.trackLots = records[id].trackLots
    BY <1>10, <1>14 DEF OfKind, Doc, FieldsOf
  <2>. QED
    BY <1>1, <1>13, <2>1 DEF ExpiryNeedsLots, OfKind
<1>18. CallsOK'
  BY <1>1, <1>12, <1>13, Idles, CallStep
<1>19. DefaultInv'
  <2>1. id \in OfKind("warehouse") /\ rec.isDefault => records[id].isDefault
    BY <1>6, <1>7, <1>10, <1>11 DEF OfKind, Doc, FieldsOf
  <2>2. \A other \in OfKind("warehouse")' :
           records'[other].isDefault => other \in OfKind("warehouse") /\ records[other].isDefault
    BY <1>13, <2>1 DEF OfKind
  <2>. QED
    BY <1>1, <1>12, <2>2, NotClearing, DefaultsShrink
<1>20. RecordsMove
  <2>1. records[id].status = "archived" => rec.status = "archived"
    BY <1>6, <1>7, <1>11
  <2>. QED
    BY <1>13, <2>1 DEF RecordsMove
<1>. QED
  BY <1>13, <1>15, <1>16, <1>17, <1>18, <1>19, <1>20, Parts, PTL

(* The barcodes a transaction leaves: those it did not read, and its own.  *)
LEMMA BarcodesReplaced ==
  ASSUME RecordsInv, BarcodesUnique, NEW id \in OfKind("product"), NEW barcode \in Barcodes,
         NEW kept, kept \subseteq barcodes, \A b \in kept : b.barcode # barcode,
         barcodes' = kept \cup {[barcode |-> barcode, product |-> id, isPrimary |-> TRUE]}
  PROVE  /\ BarcodesUnique'
         /\ \A b \in barcodes' : b.barcode \in Barcodes /\ b.product \in OfKind("product")
BY DEF RecordsInv, BarcodesUnique

LEMMA CommitUpdateProductStep ==
  ASSUME IInv, NEW c \in Clients, CommitUpdateProduct(c)
  PROVE  IInv' /\ RecordsMove
<1>1. /\ RecordsInv /\ CodesUnique /\ BarcodesUnique /\ ExpiryNeedsLots /\ DefaultInv
      /\ CallsOK /\ CallInv(client[c])
  BY Parts DEF CallsOK
<1>2. PICK id, input, copy, old : /\ id = client[c].id /\ input = client[c].input
                                  /\ copy = client[c].copy /\ old = client[c].old
  OBVIOUS
<1>3. PICK changed : changed = Applied(input, copy)
  OBVIOUS
<1>4. /\ id \in DOMAIN records /\ scenario.kind[id] = "product"
      /\ Doc(copy, "product", Categories) /\ Asks(input, "product")
  BY <1>1, <1>2 DEF CallInv, CommitUpdateProduct
<1>5. /\ Doc(changed, "product", Categories) /\ changed.status = copy.status
      /\ changed.code = copy.code
  BY <1>3, <1>4, AppliedDoc
<1>6. Doc(records[id], "product", Categories)
  BY <1>1, <1>4 DEF RecordsInv
<1>7. PICK rec : rec = Written(id, copy, changed)
  OBVIOUS
<1>8. /\ Doc(rec, "product", Categories)
      /\ \A f \in FieldsOf("product") :
            rec[f] = IF changed[f] # copy[f] THEN changed[f] ELSE records[id][f]
  BY <1>4, <1>5, <1>6, <1>7, WrittenDoc
<1>9. client[c].op # "clear" /\ UNCHANGED <<scenario, cutOff>>
  BY DEF CommitUpdateProduct
<1>10. CASE Done(c) /\ UNCHANGED <<records, barcodes>>
  BY <1>9, <1>10, Idles, CallOnly DEF Done
<1>11. CASE Again(c) /\ UNCHANGED <<records, barcodes>>
  <2>1. CallInv([op |-> "start", id |-> id, input |-> input])
    BY <1>4 DEF CallInv
  <2>2. Go(c, [op |-> "start", id |-> id, input |-> input])
    BY <1>2, <1>11 DEF Again
  <2>. QED
    BY <1>9, <1>11, <2>1, <2>2, CallOnly
<1>12. CASE /\ ~(changed.trackExpiry /\ ~changed.trackLots)
            /\ ~(changed # copy /\ records[id] # copy)
            /\ ~("barcodes" \in DOMAIN input /\ \E b \in barcodes \ old :
                                                    b.barcode = input.barcodes[1])
            /\ records' = [records EXCEPT ![id] = rec]
            /\ barcodes' = IF "barcodes" \in DOMAIN input
                           THEN (barcodes \ old) \cup NewBarcodes(id, input) ELSE barcodes
            /\ Done(c)
  <2>1. /\ DOMAIN records' = DOMAIN records
        /\ \A other \in DOMAIN records :
              records'[other] = IF other = id THEN rec ELSE records[other]
        /\ Categories' = Categories
        /\ \A k : OfKind(k)' = OfKind(k)
    <3>1. Doc(rec, scenario.kind[id], Categories)
      BY <1>4, <1>8
    <3>. QED
      BY <1>1, <1>4, <1>9, <1>12, <3>1, OneRecord
  <2>2. id \in OfKind("product")
    BY <1>4, <1>6 DEF OfKind, Doc
  <2>3. /\ BarcodesUnique'
        /\ \A b \in barcodes' : b.barcode \in Barcodes /\ b.product \in OfKind("product")
    <3>1. CASE "barcodes" \notin DOMAIN input
      <4>1. UNCHANGED barcodes
        BY <1>12, <3>1
      <4>. QED
        BY <1>1, <4>1 DEF RecordsInv, BarcodesUnique
    <3>2. CASE "barcodes" \in DOMAIN input
      <4>1. PICK barcode \in Barcodes : barcode = input.barcodes[1]
        BY <1>4, <3>2 DEF Asks
      <4>2. PICK kept : kept = barcodes \ old
        OBVIOUS
      <4>3. /\ kept \subseteq barcodes /\ \A b \in kept : b.barcode # barcode
            /\ barcodes' = kept \cup {[barcode |-> barcode, product |-> id, isPrimary |-> TRUE]}
        BY <1>12, <3>2, <4>1, <4>2 DEF NewBarcodes
      <4>. QED
        BY <1>1, <2>2, <4>3, BarcodesReplaced
    <3>. QED
      BY <3>1, <3>2
  <2>4. RecordsInv'
    <3>1. ASSUME NEW other \in DOMAIN records
          PROVE  Doc(records'[other], scenario.kind[other], Categories)
      BY <1>1, <1>4, <1>8, <2>1 DEF RecordsInv
    <3>. QED
      BY <1>1, <1>9, <2>1, <2>3, <3>1 DEF RecordsInv, Ids
  <2>5. CodesUnique'
    <3>1. /\ rec.kind = records[id].kind /\ rec.code = records[id].code
          /\ rec.kind # "location"
      BY <1>5, <1>6, <1>8 DEF Doc, FieldsOf
    <3>2. ~Taken(rec, id)
      BY <1>1, <1>4, <3>1, SameKeyFree
    <3>. QED
      BY <1>1, <1>4, <1>12, <3>2, CodesKept
  <2>6. ExpiryNeedsLots'
    <3>1. rec.trackExpiry => rec.trackLots
      <4>1. CASE changed = copy
        BY <1>1, <1>8, <2>2, <4>1 DEF ExpiryNeedsLots, FieldsOf
      <4>2. CASE records[id] = copy
        BY <1>8, <1>12, <4>2 DEF FieldsOf
      <4>. QED
        BY <1>12, <4>1, <4>2
    <3>. QED
      BY <1>1, <2>1, <3>1 DEF ExpiryNeedsLots, OfKind
  <2>7. CallsOK'
    BY <1>1, <1>9, <1>12, <2>1, Idles, CallStep DEF Done
  <2>8. DefaultInv'
    <3>1. \A other \in OfKind("warehouse")' :
             records'[other].isDefault
                => other \in OfKind("warehouse") /\ records[other].isDefault
      BY <2>1, <2>2 DEF OfKind
    <3>. QED
      BY <1>1, <1>9, <1>12, <3>1, NotClearing, DefaultsShrink DEF Done
  <2>9. RecordsMove
    <3>1. rec.status = records[id].status
      BY <1>5, <1>8 DEF FieldsOf
    <3>. QED
      BY <2>1, <3>1 DEF RecordsMove
  <2>. QED
    BY <2>3, <2>4, <2>5, <2>6, <2>7, <2>8, <2>9, Parts, PTL
<1>. QED
  BY <1>2, <1>3, <1>7, <1>10, <1>11, <1>12, Zenon DEF CommitUpdateProduct

LEMMA NextInv ==
  ASSUME IInv, [Next]_vars
  PROVE  IInv' /\ RecordsMove
<1>1. CASE UNCHANGED vars
  <2>1. IInv'
    BY <1>1
       DEF vars, IInv, RecordsInv, Ids, OfKind, Doc, Categories, KeysUnique, Taken, SameKey,
           ExpiryNeedsLots, DefaultInv, Clearing, Defaults, CallInv, Asks, TracksLots
  <2>2. RecordsMove
    BY <1>1 DEF vars, RecordsMove
  <2>. QED
    BY <2>1, <2>2
<1>2. ASSUME NEW c \in Clients, NEW kind, Steps(c, kind)
      PROVE  IInv' /\ RecordsMove
  BY <1>2, ReadCreateStep, ReadUpdateStep, ReadArchiveStep DEF Steps, OfKind
<1>. QED
  BY <1>1, <1>2, StartUpdateProductStep, CommitUpdateProductStep, ClearOtherDefaultsStep,
     SaveCreateStep, SaveUpdateStep, SaveArchiveStep, StopStep
     DEF Next, SupplierService, DepartmentService, StorageLocationService, WarehouseService,
         CategoryService, UnitService, RoleService, ProductService

-----------------------------------------------------------------------------
(* The theorems *)

LEMMA InitInv ==
  ASSUME Init
  PROVE  IInv
<1>1. PICK s \in Scenarios : s = scenario
  BY DEF Init
<1>2. records = Seeds(s) /\ DOMAIN records = DOMAIN s.seeded
  BY <1>1 DEF Init, Seeds
<1>3. /\ \A id \in DOMAIN records : Doc(records[id], s.kind[id], Categories)
                                    /\ TracksLots(records[id])
      /\ \A id, other \in DOMAIN records :
            id # other => /\ ~SameKey(records[id], records[other])
                          /\ s.kind[id] = "warehouse" /\ s.kind[other] = "warehouse"
                                => ~(records[id].isDefault /\ records[other].isDefault)
  <2>1. Categories = {k \in DOMAIN records : s.kind[k] = "category"}
    BY <1>1 DEF Categories
  <2>. QED
    BY <1>2, <2>1, SeedAssumption, Zenon
<1>4. RecordsInv
  BY <1>1, <1>2, <1>3, MasterDataAssumption DEF Init, RecordsInv, Ids
<1>5. CodesUnique /\ BarcodesUnique
  BY <1>3 DEF Init, CodesUnique, BarcodesUnique, Taken
<1>6. ExpiryNeedsLots
  BY <1>3 DEF ExpiryNeedsLots, TracksLots, OfKind
<1>7. DefaultInv
  BY <1>1, <1>3, <1>4, Kinds DEF Init, DefaultInv, Defaults
<1>8. CallsOK
  BY Idles DEF Init, CallsOK
<1>. QED
  BY <1>4, <1>5, <1>6, <1>7, <1>8, Parts

(* Between its steps a request knows a document of the record's kind,      *)
(* however old, and asks for nothing that moves a record to another kind,  *)
(* place or status.                                                        *)
THEOREM MasterDataInvariant == Spec => []IInv
<1>1. IInv /\ [Next]_vars => IInv'
  BY NextInv
<1>. QED
  BY <1>1, InitInv, PTL DEF Spec

(* Records are what their kind says, and refer to records that exist: no   *)
(* record is deleted.                                                      *)
THEOREM MasterDataTypes == Spec => []TypeOK
<1>1. IInv => TypeOK
  BY Kinds DEF IInv, RecordsInv, Doc, TypeOK, Categories
<1>. QED
  BY <1>1, MasterDataInvariant, PTL

(* No code is given twice and no barcode to two products: a save that      *)
(* changes a key asks the index, and every other save keeps the key that   *)
(* is there, not the one that was read.                                    *)
THEOREM KeysAreUnique == Spec => []KeysUnique
<1>1. IInv => KeysUnique
  BY DEF IInv
<1>. QED
  BY <1>1, MasterDataInvariant, PTL

(* At most one warehouse is the default while no request is between its    *)
(* save and the clearing of the others, unless one was cut off there and   *)
(* none has cleared them since: every save that makes a default is followed*)
(* by a clearing or by such an end, and no other write makes one.          *)
THEOREM OneDefaultWarehouse == Spec => []OneDefault
<1>1. ASSUME IInv
      PROVE  OneDefault
  <2>1. ASSUME ~Clearing, ~cutOff
        PROVE  Cardinality(Defaults) <= 1
    <3>1. \A id, other \in Defaults : id = other
      BY <1>1, <2>1 DEF IInv, DefaultInv
    <3>2. CASE Defaults = {}
      BY <3>2, FS_EmptySet
    <3>3. ASSUME NEW id \in Defaults
          PROVE  Cardinality(Defaults) <= 1
      <4>1. Defaults = {id}
        BY <3>1
      <4>2. Cardinality({id}) = 1
        BY FS_Singleton
      <4>. QED
        BY <4>1, <4>2
    <3>. QED
      BY <3>2, <3>3
  <2>. QED
    BY <2>1 DEF OneDefault
<1>. QED
  BY <1>1, MasterDataInvariant, PTL

(* A product that tracks expiry tracks lots: the transaction tests the     *)
(* flags as they will be, and starts again when somebody changed them      *)
(* after it read them.                                                     *)
THEOREM ExpiryTracksLots == Spec => []ExpiryNeedsLots
<1>1. IInv => ExpiryNeedsLots
  BY DEF IInv
<1>. QED
  BY <1>1, MasterDataInvariant, PTL

(* What was archived is never active again: no save writes a status that   *)
(* its request did not change.                                             *)
THEOREM ArchivedStays == Spec => ArchivedIsFinal
<1>1. IInv /\ [Next]_vars
         => [\A id \in DOMAIN records :
                records[id].status = "archived" => records'[id].status = "archived"]_vars
  BY NextInv DEF RecordsMove
<1>. QED
  BY <1>1, MasterDataInvariant, PTL DEF Spec, ArchivedIsFinal

-----------------------------------------------------------------------------
(* Pages and services *)

(* The service accepts what button b of a kind's page offers: in each of   *)
(* the button's statuses, for the permission the button asks for, and with *)
(* a key wherever the route demands one.                                   *)
Honoured(kind, b) ==
  /\ b.op \in DOMAIN Services[kind] /\ b.in \subseteq Services[kind][b.op].from
  /\ RouteOf(kind, b.op).permission = b.permission
  /\ RouteOf(kind, b.op).keyed => SendsKey(b.op)

(* Kind by kind, what the page offers against what service and route take. *)
LEMMA ReceiptButtons == \A b \in DetailPages["receipt"] : Honoured("receipt", b)
<1>1. /\ DetailPages["receipt"] = GoodsReceiptDetailPage /\ Services["receipt"] = ReceiptService
      /\ Routes["receipt"] = ReceiptRoutes
  BY DEF DetailPages, Services, RecordKinds, Routes, ++
<1>2. /\ ReceiptRoutes["edit"] = Needs("receipts", "update")
      /\ ReceiptRoutes["verify"] = Needs("receipts", "verify")
      /\ ReceiptRoutes["post"] = Keyed("receipts", "post")
      /\ ReceiptRoutes["reverse"] = Keyed("receipts", "reverse")
  BY DEF ReceiptRoutes, ++
<1>. QED
  BY <1>1, <1>2 DEF GoodsReceiptDetailPage, ReceiptService, Honoured, RouteOf, FollowUp, Needs,
                   Keyed, SendsKey, Button, ReverseButton, Step, Stay

LEMMA RequestButtons == \A b \in DetailPages["request"] : Honoured("request", b)
<1>1. /\ DetailPages["request"] = StockRequestDetailPage /\ Services["request"] = RequestService
      /\ Routes["request"] = RequestRoutes
  BY DEF DetailPages, Services, RecordKinds, Routes, ++
<1>2. /\ RequestRoutes["edit"] = Needs("stock_requests", "update")
      /\ RequestRoutes["submit"] = Needs("stock_requests", "submit")
      /\ RequestRoutes["approve"] = Needs("stock_requests", "approve")
      /\ RequestRoutes["reject"] = Needs("stock_requests", "reject")
      /\ RequestRoutes["cancel"] = Needs("stock_requests", "cancel")
  BY DEF RequestRoutes, ++
<1>3. Routes["issue"] = IssueRoutes /\ IssueRoutes["create"] = Needs("issues", "create")
  BY DEF Routes, IssueRoutes, ++
<1>. QED
  BY <1>1, <1>2, <1>3 DEF StockRequestDetailPage, RequestService, Honoured, RouteOf, FollowUp,
                          Needs, Button, Step, Stay

LEMMA IssueButtons == \A b \in DetailPages["issue"] : Honoured("issue", b)
<1>1. /\ DetailPages["issue"] = StockIssueDetailPage /\ Services["issue"] = IssueService
      /\ Routes["issue"] = IssueRoutes
  BY DEF DetailPages, Services, RecordKinds, Routes, ++
<1>2. /\ IssueRoutes["pick"] = Needs("issues", "pick")
      /\ IssueRoutes["cancel"] = Needs("issues", "update")
      /\ IssueRoutes["post"] = Keyed("issues", "post")
      /\ IssueRoutes["reverse"] = Keyed("issues", "reverse")
  BY DEF IssueRoutes, ++
<1>3. Routes["return"] = ReturnRoutes /\ ReturnRoutes["create"] = Needs("returns", "create")
  BY DEF Routes, ReturnRoutes, ++
<1>. QED
  BY <1>1, <1>2, <1>3 DEF StockIssueDetailPage, IssueService, Honoured, RouteOf, FollowUp, Needs,
                   Keyed, SendsKey, Button, ReverseButton, Step, Stay

LEMMA ReturnButtons == \A b \in DetailPages["return"] : Honoured("return", b)
<1>1. /\ DetailPages["return"] = StockReturnDetailPage /\ Services["return"] = ReturnService
      /\ Routes["return"] = ReturnRoutes
  BY DEF DetailPages, Services, RecordKinds, Routes, ++
<1>2. /\ ReturnRoutes["post"] = Keyed("returns", "post")
  BY DEF ReturnRoutes, ++
<1>. QED
  BY <1>1, <1>2 DEF StockReturnDetailPage, ReturnService, Honoured, RouteOf, FollowUp, Needs,
                   Keyed, SendsKey, Button, Step, Stay

LEMMA TransferButtons == \A b \in DetailPages["transfer"] : Honoured("transfer", b)
<1>1. /\ DetailPages["transfer"] = StockTransferDetailPage /\ Services["transfer"] = TransferService
      /\ Routes["transfer"] = TransferRoutes
  BY DEF DetailPages, Services, RecordKinds, Routes, ++
<1>2. /\ TransferRoutes["submit"] = Needs("transfers", "submit")
      /\ TransferRoutes["approve"] = Needs("transfers", "approve")
      /\ TransferRoutes["post"] = Keyed("transfers", "post")
      /\ TransferRoutes["receive"] = Keyed("transfers", "post")
      /\ TransferRoutes["reverse"] = Keyed("transfers", "reverse")
  BY DEF TransferRoutes, ++
<1>. QED
  BY <1>1, <1>2 DEF StockTransferDetailPage, TransferService, Honoured, RouteOf, FollowUp, Needs,
                   Keyed, SendsKey, Button, ReverseButton, Step, Stay

LEMMA AdjustmentButtons == \A b \in DetailPages["adjustment"] : Honoured("adjustment", b)
<1>1. /\ DetailPages["adjustment"] = StockAdjustmentDetailPage
      /\ Services["adjustment"] = AdjustmentService
      /\ Routes["adjustment"] = AdjustmentRoutes
  BY DEF DetailPages, Services, RecordKinds, Routes, ++
<1>2. /\ AdjustmentRoutes["edit"] = Needs("adjustments", "create")
      /\ AdjustmentRoutes["submit"] = Needs("adjustments", "submit")
      /\ AdjustmentRoutes["approve"] = Needs("adjustments", "approve")
      /\ AdjustmentRoutes["reject"] = Needs("adjustments", "reject")
      /\ AdjustmentRoutes["post"] = Keyed("adjustments", "post")
      /\ AdjustmentRoutes["reverse"] = Keyed("adjustments", "reverse")
  BY DEF AdjustmentRoutes, ++
<1>. QED
  BY <1>1, <1>2 DEF StockAdjustmentDetailPage, AdjustmentService, Honoured, RouteOf, FollowUp,
                   Needs, Keyed, SendsKey, Button, ReverseButton, Step, Stay

LEMMA CountButtons == \A b \in DetailPages["count"] : Honoured("count", b)
<1>1. /\ DetailPages["count"] = StockCountDetailPage /\ Services["count"] = CountService
      /\ Routes["count"] = CountRoutes
  BY DEF DetailPages, Services, RecordKinds, Routes, ++
<1>2. /\ CountRoutes["edit"] = Needs("stock_counts", "create")
      /\ CountRoutes["submit"] = Needs("stock_counts", "submit")
      /\ CountRoutes["approve"] = Needs("stock_counts", "approve")
      /\ CountRoutes["reject"] = Needs("stock_counts", "reject")
      /\ CountRoutes["post"] = Keyed("stock_counts", "post")
      /\ CountRoutes["reverse"] = Keyed("stock_counts", "reverse")
  BY DEF CountRoutes, ++
<1>. QED
  BY <1>1, <1>2 DEF StockCountDetailPage, CountService, Honoured, RouteOf, FollowUp, Needs,
                   Keyed, SendsKey, Button, ReverseButton, Step, Stay

LEMMA UserButtons == \A b \in DetailPages["user"] : Honoured("user", b)
<1>1. /\ DetailPages["user"] = UsersPage /\ Services["user"] = UserService
      /\ Routes["user"] = UserRoutes
  BY DEF DetailPages, Services, RecordKinds, Routes, ++
<1>2. /\ UserRoutes["edit"] = Needs("users", "update")
      /\ UserRoutes["activate"] = Needs("users", "activate")
      /\ UserRoutes["deactivate"] = Needs("users", "deactivate")
      /\ UserRoutes["archive"] = Needs("users", "deactivate")
  BY DEF UserRoutes, ++
<1>. QED
  BY <1>1, <1>2 DEF UsersPage, UserService, Honoured, RouteOf, FollowUp, Needs,
                   Button, Step, Stay

LEMMA ProductButtons == \A b \in DetailPages["product"] : Honoured("product", b)
<1>1. /\ DetailPages["product"] = ProductsPage /\ Services["product"] = RecordService
      /\ Routes["product"] = ProductRoutes
  BY DEF DetailPages, Services, RecordKinds, Routes, ++
<1>2. /\ ProductRoutes["edit"] = Needs("products", "update")
      /\ ProductRoutes["archive"] = Needs("products", "archive")
  BY DEF ProductRoutes, ++
<1>. QED
  BY <1>1, <1>2 DEF ProductsPage, RecordService, Honoured, RouteOf, FollowUp, Needs,
                   Button, Step, Stay

(* The records that one pair of permissions keeps. *)
LEMMA ManagedButtons ==
  ASSUME NEW kind \in {"supplier", "category", "unit", "department", "warehouse", "location"},
         NEW seenWith, NEW managedWith,
         DetailPages[kind] = ManagedRows(managedWith),
         Routes[kind] = Managed(seenWith, managedWith)
  PROVE  \A b \in DetailPages[kind] : Honoured(kind, b)
<1>1. Services[kind] = RecordService
  BY DEF Services, RecordKinds, ++
<1>2. /\ Managed(seenWith, managedWith)["edit"] = Needs(managedWith, "manage")
      /\ Managed(seenWith, managedWith)["archive"] = Needs(managedWith, "manage")
  BY DEF Managed, ++
<1>. QED
  BY <1>1, <1>2 DEF ManagedRows, RecordService, Honoured, RouteOf, FollowUp, Needs, Button,
                   Step, Stay

(* All pages but the order's.                                              *)
LEMMA EveryButton ==
  ASSUME NEW kind \in DOMAIN Services, kind # "order", NEW b \in DetailPages[kind]
  PROVE  Honoured(kind, b)
<1>1. kind \in {"receipt", "request", "issue", "return", "transfer", "adjustment", "count", "user",
                "product", "supplier", "category", "unit", "department", "warehouse", "location"}
  BY DEF Services, RecordKinds, ++
<1>2. CASE kind = "supplier"
  <2>1. DetailPages[kind] = ManagedRows("suppliers")
    BY <1>2 DEF DetailPages, SuppliersPage
  <2>2. Routes[kind] = Managed("suppliers", "suppliers")
    BY <1>2 DEF Routes, SupplierRoutes
  <2>. QED
    BY <1>2, <2>1, <2>2, ManagedButtons
<1>3. CASE kind = "category"
  <2>1. DetailPages[kind] = ManagedRows("categories")
    BY <1>3 DEF DetailPages, CategoriesPage
  <2>2. Routes[kind] = Managed("categories", "categories")
    BY <1>3 DEF Routes, CategoryRoutes
  <2>. QED
    BY <1>3, <2>1, <2>2, ManagedButtons
<1>4. CASE kind = "unit"
  <2>1. DetailPages[kind] = ManagedRows("units")
    BY <1>4 DEF DetailPages, UnitsPage
  <2>2. Routes[kind] = Managed("categories", "units")
    BY <1>4 DEF Routes, UnitRoutes
  <2>. QED
    BY <1>4, <2>1, <2>2, ManagedButtons
<1>5. CASE kind = "department"
  <2>1. DetailPages[kind] = ManagedRows("departments")
    BY <1>5 DEF DetailPages, DepartmentsPage
  <2>2. Routes[kind] = Managed("departments", "departments")
    BY <1>5 DEF Routes, DepartmentRoutes
  <2>. QED
    BY <1>5, <2>1, <2>2, ManagedButtons
<1>6. CASE kind = "warehouse"
  <2>1. DetailPages[kind] = ManagedRows("warehouses")
    BY <1>6 DEF DetailPages, WarehousesPage
  <2>2. Routes[kind] = Managed("warehouses", "warehouses")
    BY <1>6 DEF Routes, WarehouseRoutes
  <2>. QED
    BY <1>6, <2>1, <2>2, ManagedButtons
<1>7. CASE kind = "location"
  <2>1. DetailPages[kind] = ManagedRows("locations")
    BY <1>7 DEF DetailPages, WarehouseLocationsDialog
  <2>2. Routes[kind] = Managed("warehouses", "locations")
    BY <1>7 DEF Routes, LocationRoutes
  <2>. QED
    BY <1>7, <2>1, <2>2, ManagedButtons
<1>. QED
  BY <1>1, <1>2, <1>3, <1>4, <1>5, <1>6, <1>7, ReceiptButtons, RequestButtons, IssueButtons,
     ReturnButtons, TransferButtons, AdjustmentButtons, CountButtons, UserButtons, ProductButtons

(* What a tile or a New button is shown for is what its route asks.        *)
LEMMA Tiles == \A kind \in DOMAIN AppModules : Routes[kind].view.permission = AppModules[kind]
<1>1. /\ DOMAIN AppModules = DOMAIN RecordModules \cup DOMAIN DocumentModules
      /\ \A kind \in DOMAIN RecordModules : AppModules[kind] = RecordModules[kind]
      /\ \A kind \in DOMAIN DocumentModules : AppModules[kind] = DocumentModules[kind]
  BY DEF AppModules, RecordModules, DocumentModules, ++
<1>2. /\ UserRoutes["view"] = Needs("users", "view")
      /\ RoleRoutes["view"] = Needs("roles", "view")
      /\ PermissionRoutes["view"] = Needs("permissions", "view")
      /\ OrganizationRoutes["view"] = Needs("organizations", "view")
      /\ DepartmentRoutes["view"] = Needs("departments", "view")
  BY DEF UserRoutes, RoleRoutes, PermissionRoutes, OrganizationRoutes, DepartmentRoutes, Managed,
         ++
<1>3. /\ WarehouseRoutes["view"] = Needs("warehouses", "view")
      /\ CategoryRoutes["view"] = Needs("categories", "view")
      /\ UnitRoutes["view"] = Needs("categories", "view")
      /\ ProductRoutes["view"] = Needs("products", "view")
      /\ SupplierRoutes["view"] = Needs("suppliers", "view")
  BY DEF WarehouseRoutes, CategoryRoutes, UnitRoutes, ProductRoutes, SupplierRoutes, Managed, ++
<1>4. /\ Routes["user"] = UserRoutes
      /\ Routes["role"] = RoleRoutes
      /\ Routes["permission"] = PermissionRoutes
      /\ Routes["organization"] = OrganizationRoutes
      /\ Routes["department"] = DepartmentRoutes
      /\ Routes["warehouse"] = WarehouseRoutes
      /\ Routes["category"] = CategoryRoutes
      /\ Routes["unit"] = UnitRoutes
      /\ Routes["product"] = ProductRoutes
      /\ Routes["supplier"] = SupplierRoutes
  BY DEF Routes
<1>5. /\ Routes["user"].view.permission = <<"users", "view">>
      /\ Routes["role"].view.permission = <<"roles", "view">>
      /\ Routes["permission"].view.permission = <<"permissions", "view">>
      /\ Routes["organization"].view.permission = <<"organizations", "view">>
      /\ Routes["department"].view.permission = <<"departments", "view">>
      /\ Routes["warehouse"].view.permission = <<"warehouses", "view">>
      /\ Routes["category"].view.permission = <<"categories", "view">>
      /\ Routes["unit"].view.permission = <<"categories", "view">>
      /\ Routes["product"].view.permission = <<"products", "view">>
      /\ Routes["supplier"].view.permission = <<"suppliers", "view">>
  BY <1>2, <1>3, <1>4 DEF Needs
<1>6. /\ RecordModules["user"] = <<"users", "view">>
      /\ RecordModules["role"] = <<"roles", "view">>
      /\ RecordModules["permission"] = <<"permissions", "view">>
      /\ RecordModules["organization"] = <<"organizations", "view">>
      /\ RecordModules["department"] = <<"departments", "view">>
      /\ RecordModules["warehouse"] = <<"warehouses", "view">>
      /\ RecordModules["category"] = <<"categories", "view">>
      /\ RecordModules["unit"] = <<"categories", "view">>
      /\ RecordModules["product"] = <<"products", "view">>
      /\ RecordModules["supplier"] = <<"suppliers", "view">>
  BY DEF RecordModules
<1>7. \A kind \in DOMAIN RecordModules : Routes[kind].view.permission = RecordModules[kind]
  <2>1. DOMAIN RecordModules =
          {"user", "role", "permission", "organization", "department", "warehouse", "category",
           "unit", "product", "supplier"}
    BY DEF RecordModules
  <2>. QED
    BY <1>5, <1>6, <2>1
<1>8. /\ OrderRoutes["view"] = Needs("purchase_orders", "view")
      /\ ReceiptRoutes["view"] = Needs("receipts", "view")
      /\ RequestRoutes["view"] = Needs("stock_requests", "view")
      /\ IssueRoutes["view"] = Needs("issues", "view")
      /\ ReturnRoutes["view"] = Needs("returns", "view")
  BY DEF OrderRoutes, ReceiptRoutes, RequestRoutes, IssueRoutes, ReturnRoutes, ++
<1>9. /\ AdjustmentRoutes["view"] = Needs("adjustments", "view")
      /\ CountRoutes["view"] = Needs("stock_counts", "view")
      /\ TransferRoutes["view"] = Needs("transfers", "view")
      /\ ReportRoutes["view"] = Needs("reports", "view")
      /\ AuditRoutes["view"] = Needs("audit", "view")
  BY DEF AdjustmentRoutes, CountRoutes, TransferRoutes, ReportRoutes, AuditRoutes, ++
<1>10. /\ Routes["order"] = OrderRoutes
      /\ Routes["receipt"] = ReceiptRoutes
      /\ Routes["request"] = RequestRoutes
      /\ Routes["issue"] = IssueRoutes
      /\ Routes["return"] = ReturnRoutes
      /\ Routes["adjustment"] = AdjustmentRoutes
      /\ Routes["count"] = CountRoutes
      /\ Routes["transfer"] = TransferRoutes
      /\ Routes["report"] = ReportRoutes
      /\ Routes["audit"] = AuditRoutes
  BY DEF Routes
<1>11. /\ Routes["order"].view.permission = <<"purchase_orders", "view">>
      /\ Routes["receipt"].view.permission = <<"receipts", "view">>
      /\ Routes["request"].view.permission = <<"stock_requests", "view">>
      /\ Routes["issue"].view.permission = <<"issues", "view">>
      /\ Routes["return"].view.permission = <<"returns", "view">>
      /\ Routes["adjustment"].view.permission = <<"adjustments", "view">>
      /\ Routes["count"].view.permission = <<"stock_counts", "view">>
      /\ Routes["transfer"].view.permission = <<"transfers", "view">>
      /\ Routes["report"].view.permission = <<"reports", "view">>
      /\ Routes["audit"].view.permission = <<"audit", "view">>
  BY <1>8, <1>9, <1>10 DEF Needs
<1>12. /\ DocumentModules["order"] = <<"purchase_orders", "view">>
      /\ DocumentModules["receipt"] = <<"receipts", "view">>
      /\ DocumentModules["request"] = <<"stock_requests", "view">>
      /\ DocumentModules["issue"] = <<"issues", "view">>
      /\ DocumentModules["return"] = <<"returns", "view">>
      /\ DocumentModules["adjustment"] = <<"adjustments", "view">>
      /\ DocumentModules["count"] = <<"stock_counts", "view">>
      /\ DocumentModules["transfer"] = <<"transfers", "view">>
      /\ DocumentModules["report"] = <<"reports", "view">>
      /\ DocumentModules["audit"] = <<"audit", "view">>
  BY DEF DocumentModules
<1>13. \A kind \in DOMAIN DocumentModules : Routes[kind].view.permission = DocumentModules[kind]
  <2>1. DOMAIN DocumentModules = {"order", "receipt", "request", "issue", "return", "adjustment",
                                  "count", "transfer", "report", "audit"}
    BY DEF DocumentModules
  <2>. QED
    BY <1>11, <1>12, <2>1
<1>. QED
  BY <1>1, <1>7, <1>13

(* A New button stands where the route to create asks for the same. *)
LEMMA NewOnes == \A kind \in DOMAIN NewButtons : Routes[kind].create.permission = NewButtons[kind]
<1>1. /\ OrderRoutes["create"] = Needs("purchase_orders", "create")
      /\ ReceiptRoutes["create"] = Needs("receipts", "create")
      /\ RequestRoutes["create"] = Needs("stock_requests", "create")
      /\ AdjustmentRoutes["create"] = Needs("adjustments", "create")
      /\ CountRoutes["create"] = Needs("stock_counts", "create")
  BY DEF OrderRoutes, ReceiptRoutes, RequestRoutes, AdjustmentRoutes, CountRoutes, ++
<1>2. /\ TransferRoutes["create"] = Needs("transfers", "create")
      /\ UserRoutes["create"] = Needs("users", "create")
      /\ ProductRoutes["create"] = Needs("products", "create")
      /\ RoleRoutes["create"] = Needs("roles", "manage")
      /\ SupplierRoutes["create"] = Needs("suppliers", "manage")
  BY DEF TransferRoutes, UserRoutes, ProductRoutes, RoleRoutes, SupplierRoutes, Managed, ++
<1>3. /\ CategoryRoutes["create"] = Needs("categories", "manage")
      /\ UnitRoutes["create"] = Needs("units", "manage")
      /\ DepartmentRoutes["create"] = Needs("departments", "manage")
      /\ WarehouseRoutes["create"] = Needs("warehouses", "manage")
  BY DEF CategoryRoutes, UnitRoutes, DepartmentRoutes, WarehouseRoutes, Managed, ++
<1>4. /\ Routes["order"] = OrderRoutes
      /\ Routes["receipt"] = ReceiptRoutes
      /\ Routes["request"] = RequestRoutes
      /\ Routes["adjustment"] = AdjustmentRoutes
      /\ Routes["count"] = CountRoutes
      /\ Routes["transfer"] = TransferRoutes
      /\ Routes["user"] = UserRoutes
      /\ Routes["product"] = ProductRoutes
      /\ Routes["role"] = RoleRoutes
      /\ Routes["supplier"] = SupplierRoutes
      /\ Routes["category"] = CategoryRoutes
      /\ Routes["unit"] = UnitRoutes
      /\ Routes["department"] = DepartmentRoutes
      /\ Routes["warehouse"] = WarehouseRoutes
  BY DEF Routes
<1>5. /\ Routes["order"].create.permission = <<"purchase_orders", "create">>
      /\ Routes["receipt"].create.permission = <<"receipts", "create">>
      /\ Routes["request"].create.permission = <<"stock_requests", "create">>
      /\ Routes["adjustment"].create.permission = <<"adjustments", "create">>
      /\ Routes["count"].create.permission = <<"stock_counts", "create">>
      /\ Routes["transfer"].create.permission = <<"transfers", "create">>
      /\ Routes["user"].create.permission = <<"users", "create">>
      /\ Routes["product"].create.permission = <<"products", "create">>
      /\ Routes["role"].create.permission = <<"roles", "manage">>
      /\ Routes["supplier"].create.permission = <<"suppliers", "manage">>
      /\ Routes["category"].create.permission = <<"categories", "manage">>
      /\ Routes["unit"].create.permission = <<"units", "manage">>
      /\ Routes["department"].create.permission = <<"departments", "manage">>
      /\ Routes["warehouse"].create.permission = <<"warehouses", "manage">>
  BY <1>1, <1>2, <1>3, <1>4 DEF Needs
<1>6. /\ NewButtons["order"] = <<"purchase_orders", "create">>
      /\ NewButtons["receipt"] = <<"receipts", "create">>
      /\ NewButtons["request"] = <<"stock_requests", "create">>
      /\ NewButtons["adjustment"] = <<"adjustments", "create">>
      /\ NewButtons["count"] = <<"stock_counts", "create">>
      /\ NewButtons["transfer"] = <<"transfers", "create">>
      /\ NewButtons["user"] = <<"users", "create">>
      /\ NewButtons["product"] = <<"products", "create">>
      /\ NewButtons["role"] = <<"roles", "manage">>
      /\ NewButtons["supplier"] = <<"suppliers", "manage">>
      /\ NewButtons["category"] = <<"categories", "manage">>
      /\ NewButtons["unit"] = <<"units", "manage">>
      /\ NewButtons["department"] = <<"departments", "manage">>
      /\ NewButtons["warehouse"] = <<"warehouses", "manage">>
  BY DEF NewButtons, PurchaseOrdersPage, GoodsReceiptsPage, StockRequestsPage,
         StockAdjustmentsPage, StockCountsPage, StockTransfersPage, RolesPage
<1>7. \A kind \in DOMAIN NewButtons : Routes[kind].create.permission = NewButtons[kind]
  <2>1. DOMAIN NewButtons =
          {"order", "receipt", "request", "adjustment", "count", "transfer", "user", "product",
           "role", "supplier", "category", "unit", "department", "warehouse"}
    BY DEF NewButtons
  <2>. QED
    BY <1>5, <1>6, <2>1
<1>. QED
  BY <1>7

-----------------------------------------------------------------------------
(* Ways out *)

(* The statuses from which a document or record is moved on, not just      *)
(* edited or undone.                                                       *)
Unfinished(kind, status) ==
  \E op \in DOMAIN Services[kind] \ {"edit", "reverse", "returnStock"} : Accepts(kind, op, status)

(* A button moves it on that an administrator is shown and may press; only *)
(* on a transfer it may be that of the approval.                           *)
MovesOn(kind, status) ==
  \E b \in DetailPages[kind] :
     /\ Honoured(kind, b) /\ status \in b.in /\ b.unless = {} /\ b.op # "edit"
     /\ b.permission \in Permission
     /\ b.op = "approve" => kind = "transfer"

(* The page of an order offers to cancel what is partially received, which *)
(* the service refuses; its other buttons are honoured.                    *)
LEMMA OrderButtons == \A b \in DetailPages["order"] : b.op # "cancel" => Honoured("order", b)
<1>1. /\ DetailPages["order"] = PurchaseOrderDetailPage /\ Services["order"] = OrderService
      /\ Routes["order"] = OrderRoutes
  BY DEF DetailPages, Services, RecordKinds, Routes, ++
<1>2. /\ OrderRoutes["edit"] = Needs("purchase_orders", "update")
      /\ OrderRoutes["submit"] = Needs("purchase_orders", "submit")
      /\ OrderRoutes["approve"] = Needs("purchase_orders", "approve")
      /\ OrderRoutes["reject"] = Needs("purchase_orders", "reject")
      /\ OrderRoutes["close"] = Needs("purchase_orders", "close")
  BY DEF OrderRoutes, ++
<1>3. Routes["receipt"] = ReceiptRoutes /\ ReceiptRoutes["create"] = Needs("receipts", "create")
  BY DEF Routes, ReceiptRoutes, ++
<1>. QED
  BY <1>1, <1>2, <1>3 DEF PurchaseOrderDetailPage, OrderService, Honoured, RouteOf, FollowUp, Needs,
                          Button, Step, Stay

(* Kind by kind, a button for each status that is not the last.            *)
LEMMA OrderMovesOn == \A status : Unfinished("order", status) => MovesOn("order", status)
<1>1. DetailPages["order"] = PurchaseOrderDetailPage /\ Services["order"] = OrderService
  BY DEF DetailPages, Services, RecordKinds, ++
<1>2. \A status : Unfinished("order", status)
                      => status \in {"draft", "submitted", "approved", "partially_received",
                                     "fully_received"}
  BY <1>1 DEF Unfinished, Accepts, OrderService, Step, Stay
<1>3. MovesOn("order", "draft")
  <2>1. Button("submit", {"draft"}, "purchase_orders", "submit") \in PurchaseOrderDetailPage
    BY DEF PurchaseOrderDetailPage
  <2>2. <<"purchase_orders", "submit">> \in Permission
    BY DEF Permission, P, View
  <2>. QED
    BY <1>1, <2>1, <2>2, OrderButtons DEF MovesOn, Button
<1>4. MovesOn("order", "submitted")
  <2>1. Button("reject", {"submitted"}, "purchase_orders", "reject") \in PurchaseOrderDetailPage
    BY DEF PurchaseOrderDetailPage
  <2>2. <<"purchase_orders", "reject">> \in Permission
    BY DEF Permission, P, View
  <2>. QED
    BY <1>1, <2>1, <2>2, OrderButtons DEF MovesOn, Button
<1>5. \A status \in {"approved", "partially_received"} : MovesOn("order", status)
  <2>1. Button("receiveGoods", {"approved", "partially_received"}, "receipts", "create")
          \in PurchaseOrderDetailPage
    BY DEF PurchaseOrderDetailPage
  <2>2. <<"receipts", "create">> \in Permission
    BY DEF Permission, P, View
  <2>. QED
    BY <1>1, <2>1, <2>2, OrderButtons DEF MovesOn, Button
<1>6. MovesOn("order", "fully_received")
  <2>1. Button("close", {"fully_received"}, "purchase_orders", "close") \in PurchaseOrderDetailPage
    BY DEF PurchaseOrderDetailPage
  <2>2. <<"purchase_orders", "close">> \in Permission
    BY DEF Permission, P, View
  <2>. QED
    BY <1>1, <2>1, <2>2, OrderButtons DEF MovesOn, Button
<1>. QED
  BY <1>2, <1>3, <1>4, <1>5, <1>6

LEMMA ReceiptMovesOn == \A status : Unfinished("receipt", status) => MovesOn("receipt", status)
<1>1. DetailPages["receipt"] = GoodsReceiptDetailPage /\ Services["receipt"] = ReceiptService
  BY DEF DetailPages, Services, RecordKinds, ++
<1>2. \A status : Unfinished("receipt", status) => status \in {"draft", "verified"}
  BY <1>1 DEF Unfinished, Accepts, ReceiptService, Step, Stay
<1>3. MovesOn("receipt", "draft")
  <2>1. Button("verify", {"draft"}, "receipts", "verify") \in GoodsReceiptDetailPage
    BY DEF GoodsReceiptDetailPage
  <2>2. <<"receipts", "verify">> \in Permission
    BY DEF Permission, P, View
  <2>. QED
    BY <1>1, <2>1, <2>2, ReceiptButtons DEF MovesOn, Button
<1>4. MovesOn("receipt", "verified")
  <2>1. Button("post", {"verified"}, "receipts", "post") \in GoodsReceiptDetailPage
    BY DEF GoodsReceiptDetailPage
  <2>2. <<"receipts", "post">> \in Permission
    BY DEF Permission, P, View
  <2>. QED
    BY <1>1, <2>1, <2>2, ReceiptButtons DEF MovesOn, Button
<1>. QED
  BY <1>2, <1>3, <1>4

LEMMA RequestMovesOn == \A status : Unfinished("request", status) => MovesOn("request", status)
<1>1. DetailPages["request"] = StockRequestDetailPage /\ Services["request"] = RequestService
  BY DEF DetailPages, Services, RecordKinds, ++
<1>2. \A status : Unfinished("request", status)
                      => status \in {"draft", "submitted", "approved", "partially_fulfilled"}
  BY <1>1 DEF Unfinished, Accepts, RequestService, Step, Stay
<1>3. MovesOn("request", "draft")
  <2>1. Button("submit", {"draft"}, "stock_requests", "submit") \in StockRequestDetailPage
    BY DEF StockRequestDetailPage
  <2>2. <<"stock_requests", "submit">> \in Permission
    BY DEF Permission, P, View
  <2>. QED
    BY <1>1, <2>1, <2>2, RequestButtons DEF MovesOn, Button
<1>4. MovesOn("request", "submitted")
  <2>1. Button("reject", {"submitted"}, "stock_requests", "reject") \in StockRequestDetailPage
    BY DEF StockRequestDetailPage
  <2>2. <<"stock_requests", "reject">> \in Permission
    BY DEF Permission, P, View
  <2>. QED
    BY <1>1, <2>1, <2>2, RequestButtons DEF MovesOn, Button
<1>5. \A status \in {"approved", "partially_fulfilled"} : MovesOn("request", status)
  <2>1. Button("issueStock", {"approved", "partially_fulfilled"}, "issues", "create")
          \in StockRequestDetailPage
    BY DEF StockRequestDetailPage
  <2>2. <<"issues", "create">> \in Permission
    BY DEF Permission, P, View
  <2>. QED
    BY <1>1, <2>1, <2>2, RequestButtons DEF MovesOn, Button
<1>. QED
  BY <1>2, <1>3, <1>4, <1>5

LEMMA IssueMovesOn == \A status : Unfinished("issue", status) => MovesOn("issue", status)
<1>1. DetailPages["issue"] = StockIssueDetailPage /\ Services["issue"] = IssueService
  BY DEF DetailPages, Services, RecordKinds, ++
<1>2. \A status : Unfinished("issue", status) => status \in {"draft", "picked"}
  BY <1>1 DEF Unfinished, Accepts, IssueService, Step, Stay
<1>3. MovesOn("issue", "draft")
  <2>1. Button("pick", {"draft"}, "issues", "pick") \in StockIssueDetailPage
    BY DEF StockIssueDetailPage
  <2>2. <<"issues", "pick">> \in Permission
    BY DEF Permission, P, View
  <2>. QED
    BY <1>1, <2>1, <2>2, IssueButtons DEF MovesOn, Button
<1>4. MovesOn("issue", "picked")
  <2>1. Button("post", {"picked"}, "issues", "post") \in StockIssueDetailPage
    BY DEF StockIssueDetailPage
  <2>2. <<"issues", "post">> \in Permission
    BY DEF Permission, P, View
  <2>. QED
    BY <1>1, <2>1, <2>2, IssueButtons DEF MovesOn, Button
<1>. QED
  BY <1>2, <1>3, <1>4

LEMMA ReturnMovesOn == \A status : Unfinished("return", status) => MovesOn("return", status)
<1>1. DetailPages["return"] = StockReturnDetailPage /\ Services["return"] = ReturnService
  BY DEF DetailPages, Services, RecordKinds, ++
<1>2. \A status : Unfinished("return", status) => status \in {"draft"}
  BY <1>1 DEF Unfinished, Accepts, ReturnService, Step, Stay
<1>3. MovesOn("return", "draft")
  <2>1. Button("post", {"draft"}, "returns", "post") \in StockReturnDetailPage
    BY DEF StockReturnDetailPage
  <2>2. <<"returns", "post">> \in Permission
    BY DEF Permission, P, View
  <2>. QED
    BY <1>1, <2>1, <2>2, ReturnButtons DEF MovesOn, Button
<1>. QED
  BY <1>2, <1>3

LEMMA TransferMovesOn == \A status : Unfinished("transfer", status) => MovesOn("transfer", status)
<1>1. DetailPages["transfer"] = StockTransferDetailPage /\ Services["transfer"] = TransferService
  BY DEF DetailPages, Services, RecordKinds, ++
<1>2. \A status : Unfinished("transfer", status)
                      => status \in {"draft", "submitted", "approved", "in_transit"}
  BY <1>1 DEF Unfinished, Accepts, TransferService, Step, Stay
<1>3. MovesOn("transfer", "draft")
  <2>1. Button("submit", {"draft"}, "transfers", "submit") \in StockTransferDetailPage
    BY DEF StockTransferDetailPage
  <2>2. <<"transfers", "submit">> \in Permission
    BY DEF Permission, P, View
  <2>. QED
    BY <1>1, <2>1, <2>2, TransferButtons DEF MovesOn, Button
<1>4. MovesOn("transfer", "submitted")
  <2>1. Button("approve", {"submitted"}, "transfers", "approve") \in StockTransferDetailPage
    BY DEF StockTransferDetailPage
  <2>2. <<"transfers", "approve">> \in Permission
    BY DEF Permission, P, View
  <2>. QED
    BY <1>1, <2>1, <2>2, TransferButtons DEF MovesOn, Button
<1>5. MovesOn("transfer", "approved")
  <2>1. Button("post", {"approved"}, "transfers", "post") \in StockTransferDetailPage
    BY DEF StockTransferDetailPage
  <2>2. <<"transfers", "post">> \in Permission
    BY DEF Permission, P, View
  <2>. QED
    BY <1>1, <2>1, <2>2, TransferButtons DEF MovesOn, Button
<1>6. MovesOn("transfer", "in_transit")
  <2>1. Button("receive", {"in_transit"}, "transfers", "post") \in StockTransferDetailPage
    BY DEF StockTransferDetailPage
  <2>2. <<"transfers", "post">> \in Permission
    BY DEF Permission, P, View
  <2>. QED
    BY <1>1, <2>1, <2>2, TransferButtons DEF MovesOn, Button
<1>. QED
  BY <1>2, <1>3, <1>4, <1>5, <1>6

LEMMA AdjustmentMovesOn ==
  \A status : Unfinished("adjustment", status) => MovesOn("adjustment", status)
<1>1. /\ DetailPages["adjustment"] = StockAdjustmentDetailPage
      /\ Services["adjustment"] = AdjustmentService
  BY DEF DetailPages, Services, RecordKinds, ++
<1>2. \A status : Unfinished("adjustment", status) => status \in {"draft", "submitted", "approved"}
  BY <1>1 DEF Unfinished, Accepts, AdjustmentService, Step, Stay
<1>3. MovesOn("adjustment", "draft")
  <2>1. Button("submit", {"draft"}, "adjustments", "submit") \in StockAdjustmentDetailPage
    BY DEF StockAdjustmentDetailPage
  <2>2. <<"adjustments", "submit">> \in Permission
    BY DEF Permission, P, View
  <2>. QED
    BY <1>1, <2>1, <2>2, AdjustmentButtons DEF MovesOn, Button
<1>4. MovesOn("adjustment", "submitted")
  <2>1. Button("reject", {"submitted"}, "adjustments", "reject") \in StockAdjustmentDetailPage
    BY DEF StockAdjustmentDetailPage
  <2>2. <<"adjustments", "reject">> \in Permission
    BY DEF Permission, P, View
  <2>. QED
    BY <1>1, <2>1, <2>2, AdjustmentButtons DEF MovesOn, Button
<1>5. MovesOn("adjustment", "approved")
  <2>1. Button("post", {"approved"}, "adjustments", "post") \in StockAdjustmentDetailPage
    BY DEF StockAdjustmentDetailPage
  <2>2. <<"adjustments", "post">> \in Permission
    BY DEF Permission, P, View
  <2>. QED
    BY <1>1, <2>1, <2>2, AdjustmentButtons DEF MovesOn, Button
<1>. QED
  BY <1>2, <1>3, <1>4, <1>5

LEMMA CountMovesOn == \A status : Unfinished("count", status) => MovesOn("count", status)
<1>1. DetailPages["count"] = StockCountDetailPage /\ Services["count"] = CountService
  BY DEF DetailPages, Services, RecordKinds, ++
<1>2. \A status : Unfinished("count", status) => status \in {"draft", "submitted", "approved"}
  BY <1>1 DEF Unfinished, Accepts, CountService, Step, Stay
<1>3. MovesOn("count", "draft")
  <2>1. Button("submit", {"draft"}, "stock_counts", "submit") \in StockCountDetailPage
    BY DEF StockCountDetailPage
  <2>2. <<"stock_counts", "submit">> \in Permission
    BY DEF Permission, P, View
  <2>. QED
    BY <1>1, <2>1, <2>2, CountButtons DEF MovesOn, Button
<1>4. MovesOn("count", "submitted")
  <2>1. Button("reject", {"submitted"}, "stock_counts", "reject") \in StockCountDetailPage
    BY DEF StockCountDetailPage
  <2>2. <<"stock_counts", "reject">> \in Permission
    BY DEF Permission, P, View
  <2>. QED
    BY <1>1, <2>1, <2>2, CountButtons DEF MovesOn, Button
<1>5. MovesOn("count", "approved")
  <2>1. Button("post", {"approved"}, "stock_counts", "post") \in StockCountDetailPage
    BY DEF StockCountDetailPage
  <2>2. <<"stock_counts", "post">> \in Permission
    BY DEF Permission, P, View
  <2>. QED
    BY <1>1, <2>1, <2>2, CountButtons DEF MovesOn, Button
<1>. QED
  BY <1>2, <1>3, <1>4, <1>5

LEMMA UserMovesOn == \A status : Unfinished("user", status) => MovesOn("user", status)
<1>1. DetailPages["user"] = UsersPage /\ Services["user"] = UserService
  BY DEF DetailPages, Services, RecordKinds, ++
<1>2. \A status : Unfinished("user", status)
                      => status \in {"invited", "active", "locked", "inactive"}
  BY <1>1 DEF Unfinished, Accepts, UserService, Step, Stay
<1>3. \A status \in {"invited", "active", "locked", "inactive"} : MovesOn("user", status)
  <2>1. Button("archive", {"invited", "active", "locked", "inactive"}, "users", "deactivate")
          \in UsersPage
    BY DEF UsersPage
  <2>2. <<"users", "deactivate">> \in Permission
    BY DEF Permission, P, View
  <2>. QED
    BY <1>1, <2>1, <2>2, UserButtons DEF MovesOn, Button
<1>. QED
  BY <1>2, <1>3

LEMMA ProductMovesOn == \A status : Unfinished("product", status) => MovesOn("product", status)
<1>1. DetailPages["product"] = ProductsPage /\ Services["product"] = RecordService
  BY DEF DetailPages, Services, RecordKinds, ++
<1>2. \A status : Unfinished("product", status) => status \in {"active"}
  BY <1>1 DEF Unfinished, Accepts, RecordService, Step, Stay
<1>3. MovesOn("product", "active")
  <2>1. Button("archive", {"active"}, "products", "archive") \in ProductsPage
    BY DEF ProductsPage
  <2>2. <<"products", "archive">> \in Permission
    BY DEF Permission, P, View
  <2>. QED
    BY <1>1, <2>1, <2>2, ProductButtons DEF MovesOn, Button
<1>. QED
  BY <1>2, <1>3

LEMMA RecordMovesOn ==
  ASSUME NEW kind \in {"supplier", "category", "unit", "department", "warehouse", "location"},
         NEW module, DetailPages[kind] = ManagedRows(module), <<module, "manage">> \in Permission,
         NEW status, Unfinished(kind, status)
  PROVE  MovesOn(kind, status)
<1>1. Services[kind] = RecordService
  BY DEF Services, RecordKinds, ++
<1>2. status = "active"
  BY <1>1 DEF Unfinished, Accepts, RecordService, Step, Stay
<1>3. Button("archive", {"active"}, module, "manage") \in DetailPages[kind]
  BY DEF ManagedRows
<1>4. kind \in DOMAIN Services /\ kind # "order"
  BY DEF Services, RecordKinds, ++
<1>5. Honoured(kind, Button("archive", {"active"}, module, "manage"))
  BY <1>3, <1>4, EveryButton
<1>. QED
  BY <1>2, <1>3, <1>5 DEF MovesOn, Button

(* Whatever is unfinished, its page has a button that moves it on.         *)
LEMMA EveryKindMovesOn ==
  ASSUME NEW kind \in DOMAIN Services, NEW status, Unfinished(kind, status)
  PROVE  MovesOn(kind, status)
<1>1. kind \in {"order", "receipt", "request", "issue", "return", "transfer", "adjustment", "count",
                "user", "product", "supplier", "category", "unit", "department", "warehouse",
                "location"}
  BY DEF Services, RecordKinds, ++
<1>2. CASE kind = "supplier"
  <2>1. DetailPages[kind] = ManagedRows("suppliers")
    BY <1>2 DEF DetailPages, SuppliersPage
  <2>2. <<"suppliers", "manage">> \in Permission
    BY DEF Permission, P
  <2>. QED
    BY <1>2, <2>1, <2>2, RecordMovesOn
<1>3. CASE kind = "category"
  <2>1. DetailPages[kind] = ManagedRows("categories")
    BY <1>3 DEF DetailPages, CategoriesPage
  <2>2. <<"categories", "manage">> \in Permission
    BY DEF Permission, P
  <2>. QED
    BY <1>3, <2>1, <2>2, RecordMovesOn
<1>4. CASE kind = "unit"
  <2>1. DetailPages[kind] = ManagedRows("units")
    BY <1>4 DEF DetailPages, UnitsPage
  <2>2. <<"units", "manage">> \in Permission
    BY DEF Permission, P
  <2>. QED
    BY <1>4, <2>1, <2>2, RecordMovesOn
<1>5. CASE kind = "department"
  <2>1. DetailPages[kind] = ManagedRows("departments")
    BY <1>5 DEF DetailPages, DepartmentsPage
  <2>2. <<"departments", "manage">> \in Permission
    BY DEF Permission, P
  <2>. QED
    BY <1>5, <2>1, <2>2, RecordMovesOn
<1>6. CASE kind = "warehouse"
  <2>1. DetailPages[kind] = ManagedRows("warehouses")
    BY <1>6 DEF DetailPages, WarehousesPage
  <2>2. <<"warehouses", "manage">> \in Permission
    BY DEF Permission, P
  <2>. QED
    BY <1>6, <2>1, <2>2, RecordMovesOn
<1>7. CASE kind = "location"
  <2>1. DetailPages[kind] = ManagedRows("locations")
    BY <1>7 DEF DetailPages, WarehouseLocationsDialog
  <2>2. <<"locations", "manage">> \in Permission
    BY DEF Permission, P
  <2>. QED
    BY <1>7, <2>1, <2>2, RecordMovesOn
<1>. QED
  BY <1>1, <1>2, <1>3, <1>4, <1>5, <1>6, <1>7, OrderMovesOn, ReceiptMovesOn, RequestMovesOn,
     IssueMovesOn, ReturnMovesOn, TransferMovesOn, AdjustmentMovesOn, CountMovesOn, UserMovesOn,
     ProductMovesOn

(* Everything that is looked at can be looked at by an administrator.      *)
LEMMA EveryKindIsSeen ==
  ASSUME NEW kind \in DOMAIN Services
  PROVE  Routes[kind].view.permission \in Permission
<1>1. kind \in {"order", "receipt", "request", "issue", "return", "transfer", "adjustment", "count",
                "user", "product", "supplier", "category", "unit", "department", "warehouse",
                "location"}
  BY DEF Services, RecordKinds, ++
<1>2. CASE kind = "location"
  <2>1. LocationRoutes["view"] = Needs("warehouses", "view") /\ Routes["location"] = LocationRoutes
    BY DEF Routes, LocationRoutes, Managed, ++
  <2>2. <<"warehouses", "view">> \in Permission
    BY DEF Permission, P
  <2>. QED
    BY <1>2, <2>1, <2>2 DEF Needs
<1>3. CASE kind # "location"
  <2>1. kind \in DOMAIN AppModules
    BY <1>1, <1>3 DEF AppModules, RecordModules, DocumentModules, ++
  <2>2. AppModules[kind] \in Permission
    <3>1. \A module \in {"users", "departments", "warehouses", "categories", "products",
                         "suppliers", "purchase_orders", "receipts", "stock_requests", "issues",
                         "returns", "adjustments", "stock_counts", "transfers"} :
             <<module, "view">> \in Permission
      BY DEF Permission, P
    <3>2. /\ AppModules["user"] = <<"users", "view">>
          /\ AppModules["department"] = <<"departments", "view">>
          /\ AppModules["warehouse"] = <<"warehouses", "view">>
          /\ AppModules["category"] = <<"categories", "view">>
          /\ AppModules["unit"] = <<"categories", "view">>
          /\ AppModules["product"] = <<"products", "view">>
          /\ AppModules["supplier"] = <<"suppliers", "view">>
      BY DEF AppModules, RecordModules, ++
    <3>3. /\ AppModules["order"] = <<"purchase_orders", "view">>
          /\ AppModules["receipt"] = <<"receipts", "view">>
          /\ AppModules["request"] = <<"stock_requests", "view">>
          /\ AppModules["issue"] = <<"issues", "view">>
          /\ AppModules["return"] = <<"returns", "view">>
          /\ AppModules["adjustment"] = <<"adjustments", "view">>
          /\ AppModules["count"] = <<"stock_counts", "view">>
          /\ AppModules["transfer"] = <<"transfers", "view">>
      BY DEF AppModules, RecordModules, DocumentModules, ++
    <3>. QED
      BY <1>1, <1>3, <3>1, <3>2, <3>3
  <2>. QED
    BY <2>1, <2>2, Tiles
<1>. QED
  BY <1>2, <1>3

-----------------------------------------------------------------------------
(* People at work *)

(* No role grants what the catalogue does not have.                        *)
LEMMA RolesGrantPermissions ==
  ASSUME NEW r \in DOMAIN SystemRolePermissions
  PROVE  SystemRolePermissions[r] \subseteq Permission
<1>1. StoreManager \subseteq Permission
  BY DEF StoreManager, Permission, P, View
<1>2. InventoryClerk \subseteq Permission
  BY DEF InventoryClerk, Permission, P, View
<1>3. Requester \subseteq Permission
  BY DEF Requester, Permission, P, View
<1>4. Auditor \subseteq Permission
  BY DEF Auditor, Permission, P, View
<1>. QED
  BY <1>1, <1>2, <1>3, <1>4 DEF SystemRolePermissions

LEMMA Granted ==
  ASSUME AccessTypeOK, NEW u \in Users
  PROVE  EffectivePermissions(u) \subseteq Permission
BY RolesGrantPermissions DEF AccessTypeOK, EffectivePermissions

LEMMA StartsRight == AccessInit => AccessInv
<1> SUFFICES ASSUME AccessInit PROVE AccessInv
  OBVIOUS
<1>1. PICK kind \in PageKinds, u \in Users :
         doc = [kind |-> kind, status |-> FirstStatus(kind), marks |-> {}, creator |-> u]
  BY DEF AccessInit
<1>2. doc \in Documents(kind)
  BY <1>1 DEF Documents, Statuses
<1>3. AccessTypeOK
  BY <1>2, AccessAssumption DEF AccessInit, AccessTypeOK
<1>4. RolesKept
  BY DEF AccessInit, RolesKept, Keeps
<1>. QED
  BY <1>3, <1>4 DEF AccessInv

LEMMA StepsRight == AccessInv /\ [AccessNext]_accessVars => AccessInv'
<1> SUFFICES ASSUME AccessInv, [AccessNext]_accessVars PROVE AccessInv'
  OBVIOUS
<1>1. AccessTypeOK /\ RolesKept
  BY DEF AccessInv
<1>2. PICK kind \in PageKinds : /\ doc \in Documents(kind)
                                /\ page \in [Users -> Documents(kind) \cup {Closed}]
  BY <1>1 DEF AccessTypeOK
<1>3. doc.kind = kind
  BY <1>2 DEF Documents
<1>4. CASE \E u \in Users : SignIn(u)
  <2>1. PICK u \in Users : SignIn(u)
    BY <1>4
  <2>2. EffectivePermissions(u) \subseteq Permission
    BY <1>1, Granted
  <2>3. AccessTypeOK'
    BY <1>1, <2>1, <2>2 DEF AccessTypeOK, SignIn
  <2>. QED
    BY <1>1, <2>1, <2>3 DEF AccessInv, RolesKept, SignIn
<1>5. CASE \E u \in Users : UpdateUserRoles(u)
  <2>1. PICK u \in Users : \E r \in Reassigned[u] : /\ roles' = [roles EXCEPT ![u] = r]
                                                   /\ UNCHANGED <<doc, me, page>>
    BY <1>5 DEF UpdateUserRoles
  <2>2. PICK r \in Reassigned[u] : /\ roles' = [roles EXCEPT ![u] = r]
                                   /\ UNCHANGED <<doc, me, page>>
    BY <2>1
  <2>3. r \subseteq DOMAIN SystemRolePermissions
    BY AccessAssumption
  <2>4. AccessTypeOK'
    BY <1>1, <2>2, <2>3 DEF AccessTypeOK
  <2>5. RolesKept'
    BY <1>1, <2>2 DEF AccessTypeOK, RolesKept, Keeps
  <2>. QED
    BY <2>4, <2>5 DEF AccessInv
<1>6. CASE \E u \in Users : Open(u)
  <2>1. AccessTypeOK'
    BY <1>1, <1>2, <1>6 DEF AccessTypeOK, Open
  <2>. QED
    BY <1>1, <1>6, <2>1 DEF AccessInv, RolesKept, Open
<1>7. CASE \E u \in Users : \E b \in DetailPages[doc.kind] : Press(u, b)
  <2>1. PICK u \in Users, b \in DetailPages[doc.kind] : Press(u, b)
    BY <1>7
  <2>2. b.op \in DOMAIN Services[kind]
    BY <1>3, <2>1 DEF Press, Admits, Accepts
  <2>3. doc' \in Documents(kind)
    <3>1. CASE \E s \in Services[kind][b.op].to : doc' = [doc EXCEPT !.status = s]
      <4>1. Services[kind][b.op].to \subseteq Statuses(kind)
        <5>1. Services[kind][b.op].to \subseteq
                  UNION {Services[kind][op].from \cup Services[kind][op].to :
                             op \in DOMAIN Services[kind]}
          BY <2>2
        <5>. QED
          BY <5>1 DEF Statuses
      <4>. QED
        BY <1>2, <3>1, <4>1 DEF Documents
    <3>2. CASE doc' = [doc EXCEPT !.marks = IF b.op = "reverse" THEN @ \cup {"reversed"} ELSE @]
      BY <1>2, <3>2 DEF Documents, Marks
    <3>. QED
      BY <1>3, <2>1, <3>1, <3>2 DEF Press
  <2>4. page' = [page EXCEPT ![u] = doc'] /\ UNCHANGED <<roles, me>>
    BY <2>1 DEF Press
  <2>5. AccessTypeOK'
    BY <1>1, <1>2, <2>3, <2>4 DEF AccessTypeOK
  <2>. QED
    BY <1>1, <2>4, <2>5 DEF AccessInv, RolesKept
<1>8. CASE Advance
  <2>1. PICK s \in Statuses(kind) : doc' = [doc EXCEPT !.status = s]
    BY <1>3, <1>8 DEF Advance
  <2>2. doc' \in Documents(kind)
    BY <1>2, <2>1 DEF Documents
  <2>3. AccessTypeOK'
    BY <1>1, <1>2, <1>8, <2>2 DEF AccessTypeOK, Advance
  <2>. QED
    BY <1>1, <1>8, <2>3 DEF AccessInv, RolesKept, Advance
<1>9. CASE LookAtReversal
  <2>1. doc' \in Documents(kind)
    BY <1>2, <1>9 DEF LookAtReversal, Documents, Marks
  <2>2. AccessTypeOK'
    BY <1>1, <1>2, <1>9, <2>1 DEF AccessTypeOK, LookAtReversal
  <2>. QED
    BY <1>1, <1>9, <2>2 DEF AccessInv, RolesKept, LookAtReversal
<1>10. CASE UNCHANGED accessVars
  <2>1. AccessTypeOK'
    BY <1>1, <1>10 DEF AccessTypeOK, accessVars
  <2>. QED
    BY <1>1, <1>10, <2>1 DEF AccessInv, RolesKept, accessVars
<1>. QED
  BY <1>4, <1>5, <1>6, <1>7, <1>8, <1>9, <1>10 DEF AccessNext

(* The document, the roles, what each client was told and the open pages   *)
(* keep their types, and who always has a role always has it.              *)
THEOREM AccessInvariant == AccessSpec => []AccessInv
<1>. QED
  BY StartsRight, StepsRight, PTL DEF AccessSpec

(* Whatever people there are and whatever roles they have by now, an       *)
(* up-to-date page of any kind but the order's shows no button the server  *)
(* then refuses, own approvals aside, and no tile or New button leads to a *)
(* route its user may not call.                                            *)
THEOREM ButtonsAreHonoured ==
  ASSUME "order" \notin PageKinds
  PROVE  AccessSpec => []OfferedIsAccepted
<1>1. ASSUME AccessInv PROVE OfferedIsAccepted
  <2>1. ASSUME NEW u \in Users, UpToDate(u), NEW b \in Offered(page[u], me[u]),
               ~OwnApproval(u, b.op)
        PROVE  Admits(u, b.op)
    <3>1. /\ b \in DetailPages[doc.kind] /\ doc.status \in b.in
          /\ b.permission \in EffectivePermissions(u)
      BY <2>1 DEF UpToDate, Offered
    <3>2. doc.kind \in DOMAIN Services /\ doc.kind # "order"
      BY <1>1, AccessAssumption DEF AccessInv, AccessTypeOK, Documents
    <3>3. Honoured(doc.kind, b)
      BY <3>1, <3>2, EveryButton
    <3>. QED
      BY <2>1, <3>1, <3>3 DEF Honoured, Admits, Accepts, Permits
  <2>2. ASSUME NEW u \in Users, NEW kind \in DOMAIN AppModules, AppModules[kind] \in me[u]
        PROVE  Permits(me[u], Routes[kind].view)
    BY <2>2, Tiles DEF Permits
  <2>3. ASSUME NEW u \in Users, NEW kind \in DOMAIN NewButtons, NewButtons[kind] \in me[u]
        PROVE  Permits(me[u], Routes[kind].create)
    BY <2>3, NewOnes DEF Permits
  <2>. QED
    BY <2>1, <2>2, <2>3 DEF OfferedIsAccepted
<1>. QED
  BY <1>1, AccessInvariant, PTL

LEMMA AdministratorMay ==
  ASSUME AccessInv, NEW u \in Users, Keeps(u, "administrator")
  PROVE  Permission \subseteq EffectivePermissions(u)
<1>1. "administrator" \in roles[u] /\ SystemRolePermissions["administrator"] = Permission
  BY DEF AccessInv, RolesKept, SystemRolePermissions
<1>. QED
  BY <1>1 DEF EffectivePermissions

LEMMA ManagerMay ==
  ASSUME AccessInv, NEW u \in Users, Keeps(u, "manager")
  PROVE  StoreManager \subseteq EffectivePermissions(u)
<1>1. "manager" \in roles[u] /\ SystemRolePermissions["manager"] = StoreManager
  BY DEF AccessInv, RolesKept, SystemRolePermissions
<1>. QED
  BY <1>1 DEF EffectivePermissions

(* Where two people keep roles that may approve, no document or record, of *)
(* whatever kind and however far it has come, is left in a status that     *)
(* nobody is shown a working way out of.                                   *)
THEOREM NobodyIsStuck ==
  ASSUME Staffed
  PROVE  AccessSpec => []NothingStuck
<1>1. ASSUME AccessInv, Unfinished(doc.kind, doc.status)
      PROVE  \E u \in Users :
                /\ Permits(EffectivePermissions(u), Routes[doc.kind].view)
                /\ \E b \in Offered(doc, EffectivePermissions(u)) : b.op # "edit" /\ Admits(u, b.op)
  <2>1. PICK u \in Users, v \in Users : /\ u # v /\ Keeps(u, "administrator")
                                        /\ Keeps(v, "administrator") \/ Keeps(v, "manager")
    BY DEF Staffed
  <2>2. doc.kind \in DOMAIN Services
    BY <1>1, AccessAssumption DEF AccessInv, AccessTypeOK, Documents
  <2>3. PICK b \in DetailPages[doc.kind] :
           /\ Honoured(doc.kind, b) /\ doc.status \in b.in /\ b.unless = {} /\ b.op # "edit"
           /\ b.permission \in Permission
           /\ b.op = "approve" => doc.kind = "transfer"
    BY <1>1, <2>2, EveryKindMovesOn DEF MovesOn
  <2>4. ASSUME NEW w \in Users, b.permission \in EffectivePermissions(w), ~OwnApproval(w, b.op)
        PROVE  b \in Offered(doc, EffectivePermissions(w)) /\ Admits(w, b.op)
    BY <2>3, <2>4 DEF Offered, Honoured, Admits, Accepts, Permits
  <2>5. /\ Permission \subseteq EffectivePermissions(u)
        /\ Routes[doc.kind].view.permission \in Permission
    BY <1>1, <2>1, <2>2, AdministratorMay, EveryKindIsSeen
  <2>6. CASE ~OwnApproval(u, b.op)
    <3>1. b \in Offered(doc, EffectivePermissions(u)) /\ Admits(u, b.op)
      BY <2>3, <2>4, <2>5, <2>6
    <3>2. Permits(EffectivePermissions(u), Routes[doc.kind].view)
      BY <2>5 DEF Permits
    <3>. QED
      BY <2>1, <2>3, <3>1, <3>2
  <2>7. CASE OwnApproval(u, b.op)
    <3>1. b.op = "approve" /\ doc.kind = "transfer" /\ ~OwnApproval(v, b.op)
      BY <2>1, <2>3, <2>7 DEF OwnApproval
    <3>2. /\ TransferRoutes["view"] = Needs("transfers", "view")
          /\ TransferRoutes["approve"] = Needs("transfers", "approve")
          /\ Routes["transfer"] = TransferRoutes
      BY DEF Routes, TransferRoutes, ++
    <3>3. /\ b.permission = <<"transfers", "approve">>
          /\ Routes[doc.kind].view.permission = <<"transfers", "view">>
      BY <2>3, <3>1, <3>2 DEF Honoured, RouteOf, FollowUp, Needs
    <3>4. {<<"transfers", "approve">>, <<"transfers", "view">>}
            \subseteq StoreManager \cap Permission
      BY DEF StoreManager, Permission, P, View
    <3>5. {<<"transfers", "approve">>, <<"transfers", "view">>} \subseteq EffectivePermissions(v)
      BY <1>1, <2>1, <3>4, AdministratorMay, ManagerMay
    <3>. QED
      BY <2>3, <2>4, <3>1, <3>3, <3>5 DEF Permits
  <2>. QED
    BY <2>6, <2>7
<1>2. AccessInv => NothingStuck
  BY <1>1 DEF NothingStuck, Unfinished
<1>. QED
  BY <1>2, AccessInvariant, PTL
=============================================================================
