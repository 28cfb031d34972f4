-------------------------- MODULE CatalogueProofs --------------------------
(***************************************************************************)
(* Proofs about the book catalogue, for any number of gateway workers,     *)
(* readers, books, requests and faults: what the service refuses never     *)
(* gets into the tables, and the two stocks of a book drift apart only as  *)
(* StocksInStep and PartialKeepsStock say.  They hold with and without the *)
(* readers of Recommender, which change neither the tables nor what the    *)
(* writers do.                                                             *)
(***************************************************************************)
EXTENDS Recommender, FiniteSetTheorems, TLAPS

(* The rows the service lets into the table books, the books that a        *)
(* request describes in full, and those it describes in part.              *)
Stored == [price : Nat \ {0}, stock : Nat, status : {"active", "inactive"}]
Filled == [price : Nat, stock : {-1} \cup Nat, status : Statuses]
Partial == [price : {Absent} \cup Nat, stock : {Absent, -1} \cup Nat,
            status : {Absent} \cup Statuses]

(* What validation, merging and the wire make of them. *)
LEMMA RowFacts ==
  /\ \A r \in Filled : ValidBook(r) /\ r.status # "" => r \in Stored
  /\ \A r \in Stored : r \in Filled /\ ValidBook(r) /\ ValidUpdate(r) /\ r.status # "" /\ r # NoRow
  /\ \A r \in Filled : r \in Partial
  /\ \A r \in Stored, u \in Partial : ValidUpdate(u) => Merged(r, u) \in Stored
  /\ \A r \in Stored, u \in Partial : Merged(r, u) \in Filled
  /\ \A r \in Filled : ThroughProto(r) \in Filled /\ ThroughProto(r).stock = r.stock
  /\ \A r \in Filled : ValidUpdate(ThroughProto(r)) => ThroughProto(r) \in Stored
  /\ NoFields \in Partial /\ Row(1, 1, "active") \in Stored
<1> USE DEF Stored, Filled, Partial, Row
<1>1. \A r \in Filled : ValidBook(r) /\ r.status # "" => r \in Stored
  BY DEF ValidBook, Statuses
<1>2. \A r \in Stored : r \in Filled /\ ValidBook(r) /\ ValidUpdate(r) /\ r.status # ""
  <2> SUFFICES ASSUME NEW r \in Stored
               PROVE  r \in Filled /\ ValidBook(r) /\ ValidUpdate(r) /\ r.status # ""
    OBVIOUS
  <2>1. /\ r = [price |-> r.price, stock |-> r.stock, status |-> r.status]
        /\ r.price \in Nat \ {0} /\ r.stock \in Nat /\ r.status \in {"active", "inactive"}
    OBVIOUS
  <2>2. r \in Filled
    BY <2>1 DEF Statuses
  <2>3. r.stock # -1
    BY <2>1
  <2>4. ValidBook(r) /\ ValidUpdate(r) /\ r.status # ""
    BY <2>1, <2>3 DEF ValidBook, ValidUpdate
  <2> QED
    BY <2>2, <2>4
<1>3. \A r \in Stored : r # NoRow
  <2>1. NoRow \notin [price : Nat, stock : Nat, status : Statuses]
    BY CatalogueAssumption
  <2>2. \A r \in Stored : r \in [price : Nat, stock : Nat, status : Statuses]
    BY DEF Statuses
  <2> QED
    BY <2>1, <2>2
<1>4. \A r \in Filled : r \in Partial
  OBVIOUS
<1>5. \A r \in Stored, u \in Partial : ValidUpdate(u) => Merged(r, u) \in Stored
  BY DEF Merged, ValidUpdate
<1>6. \A r \in Stored, u \in Partial : Merged(r, u) \in Filled
  BY DEF Merged, Statuses
<1>7. \A r \in Filled : ThroughProto(r) \in Filled /\ ThroughProto(r).stock = r.stock
  BY DEF ThroughProto, StatusFromProto, StatusToProto, Statuses
<1>8. \A r \in Filled : ValidUpdate(ThroughProto(r)) => ThroughProto(r) \in Stored
  BY DEF ThroughProto, StatusFromProto, StatusToProto, ValidUpdate
<1>9. NoFields \in Partial /\ Row(1, 1, "active") \in Stored
  BY DEF NoFields
<1> QED
  BY <1>1, <1>2, <1>3, <1>4, <1>5, <1>6, <1>7, <1>8, <1>9

(* A book that is created without a status is stored as active. *)
LEMMA DefaultStatus ==
  ASSUME NEW r \in Filled, ValidBook(r)
  PROVE  [r EXCEPT !.status = IF @ = "" THEN "active" ELSE @] \in Stored
<1>1. /\ r.price \in Nat \ {0} /\ r.stock \in Nat
      /\ r.status \in {"active", "inactive", ""}
  BY DEF Filled, ValidBook
<1>2. CASE r.status = ""
  BY <1>1, <1>2 DEF Filled, Stored
<1>3. CASE r.status # ""
  BY <1>1, <1>3 DEF Filled, Stored
<1> QED
  BY <1>2, <1>3

-----------------------------------------------------------------------------
(* The inductive invariant *)

Exists(b) == books[b] # NoRow

Labels == {"idle", "insert", "insert_inventory", "commit", "find", "call", "update_books",
           "update_inventory"}

(* The workers' variables have their types. *)
Locals == /\ pc \in [Clients -> Labels]
          /\ at \in [Clients -> Books]
          /\ body \in [Clients -> Partial]
          /\ fields \in [Clients -> Partial]

(* The tables, and the history about them, have their types. *)
Tables == /\ books \in [Books -> {NoRow} \cup Stored]
          /\ inventory \in [Books -> {NoRow} \cup Nat]
          /\ nextId \in 1 .. (MaxBook + 1)
          /\ sold \subseteq Books
          /\ taken \in [Books -> Int]
          /\ ledger \in [Books -> Int]

Marks == /\ via \in [Clients -> {"local", "grpc"}]
         /\ crossed \subseteq Clients /\ stale \subseteq Clients
         /\ torn \subseteq Books /\ revived \subseteq Books

(* A book has both rows or none, none before its id was handed out, and no *)
(* orders before it has them.                                              *)
BookOK(b) == /\ Exists(b) <=> inventory[b] # NoRow
             /\ Exists(b) => b < nextId
             /\ ~ Exists(b) => taken[b] = 0 /\ b \notin sold

(* An INSERT that is not committed has an id of its own. *)
Inserting(c) == pc[c] \in {"insert_inventory", "commit"}
InsertOK(c) == Inserting(c) =>
                 /\ at[c] < nextId /\ ~ Exists(at[c])
                 /\ \A d \in Clients : Inserting(d) /\ at[d] = at[c] => d = c

(* Worker c has read its book to fill in the stock of an update. *)
Carries(c) == pc[c] \in {"call", "update_books", "update_inventory"} /\ via[c] = "grpc"

(* What a worker is about to write has passed the validation there is. *)
Place(c) ==
  /\ pc[c] \in {"insert", "insert_inventory", "commit"} => fields[c] \in Stored
  /\ pc[c] = "find" => fields[c] = body[c] /\ via[c] = "grpc"
  /\ pc[c] = "call" => fields[c] \in Filled /\ via[c] = "grpc"
  /\ pc[c] = "update_books" => ValidUpdate(fields[c])
  /\ pc[c] \in {"update_books", "update_inventory"} /\ via[c] = "grpc" => fields[c] \in Stored
  /\ pc[c] = "update_inventory" => fields[c].stock \in Nat /\ Exists(at[c])
  /\ Carries(c) => Exists(at[c])

(* A worker between its two UPDATEs is about to write what the book's row  *)
(* says, and one that carries a reading has the current availability,      *)
(* unless somebody else wrote in between.                                  *)
InStep(c) ==
  /\ pc[c] = "update_inventory" /\ c \notin crossed => books[at[c]].stock = fields[c].stock
  /\ Carries(c) /\ body[c].stock = Absent /\ c \notin stale =>
       fields[c].stock = inventory[at[c]]

(* The two properties, book by book. *)
StockOK(b) == Exists(b) => \/ inventory[b] + taken[b] = books[b].stock
                           \/ b \in torn \/ Halfway(b) # {}
KeptOK(b) == inventory[b] # NoRow => inventory[b] = ledger[b] \/ b \in revived

CatInv == /\ Locals /\ Tables /\ Marks
          /\ \A c \in Clients : InsertOK(c) /\ Place(c) /\ InStep(c)
          /\ \A b \in Books : BookOK(b) /\ StockOK(b) /\ KeptOK(b)

(* What the invariant says of the properties the runs check. *)
LEMMA CatInvImplies == CatInv => TypeOK /\ StocksInStep /\ PartialKeepsStock
<1> SUFFICES ASSUME CatInv PROVE TypeOK /\ StocksInStep /\ PartialKeepsStock
  OBVIOUS
<1>1. TypeOK
  <2>1. \A b \in Books : books[b] # NoRow =>
          ValidBook(books[b]) /\ books[b].status # "" /\ books[b].stock \in Nat
    <3>1. \A b \in Books : books[b] # NoRow => books[b] \in Stored
      BY DEF CatInv, Tables
    <3>2. \A r \in Stored : r.stock \in Nat
      BY DEF Stored
    <3> QED
      BY <3>1, <3>2, RowFacts
  <2> QED
    BY <2>1 DEF CatInv, Tables, Locals, Marks, Labels, TypeOK, BookOK
<1>2. StocksInStep
  BY DEF CatInv, StocksInStep, StockOK, BookOK, Exists
<1>3. PartialKeepsStock
  BY DEF CatInv, PartialKeepsStock, KeptOK
<1> QED
  BY <1>1, <1>2, <1>3

(* The seed data satisfies it. *)
LEMMA CatInit == Init => CatInv
<1> SUFFICES ASSUME Init PROVE CatInv
  OBVIOUS
<1>1. 1 \in Books /\ Stocked \in Nat /\ Stocked <= MaxBook /\ MaxBook \in Nat
  BY CatalogueAssumption DEF Books
<1>2. Locals
  BY <1>1, RowFacts DEF Init, Locals, Labels
<1>3. Tables
  <2>1. books \in [Books -> {NoRow} \cup Stored]
    BY RowFacts DEF Init
  <2>2. nextId \in 1 .. (MaxBook + 1)
    BY <1>1 DEF Init
  <2>3. inventory \in [Books -> {NoRow} \cup Nat] /\ taken \in [Books -> Int] /\ ledger \in [Books -> Int]
    BY DEF Init
  <2> QED
    BY <2>1, <2>2, <2>3 DEF Init, Tables
<1>4. Marks
  <2>1. via \in [Clients -> {"local", "grpc"}]
    BY CatalogueAssumption DEF Init
  <2> QED
    BY <2>1 DEF Init, Marks
<1>5. \A c \in Clients : InsertOK(c) /\ Place(c) /\ InStep(c)
  BY DEF Init, InsertOK, Inserting, Place, InStep, Carries
<1>6. ASSUME NEW b \in Books PROVE BookOK(b) /\ StockOK(b) /\ KeptOK(b)
  <2>1. b \in Nat /\ 1 # NoRow /\ Row(1, 1, "active") # NoRow /\ Row(1, 1, "active").stock = 1
    <3>1. 1 # NoRow
      BY CatalogueAssumption
    <3>2. Row(1, 1, "active") # NoRow
      BY RowFacts
    <3>3. Row(1, 1, "active").stock = 1
      BY DEF Row
    <3>4. b \in Nat
      BY <1>1 DEF Books
    <3> QED
      BY <3>1, <3>2, <3>3, <3>4
  <2>2. /\ books[b] = IF b <= Stocked THEN Row(1, 1, "active") ELSE NoRow
        /\ inventory[b] = IF b <= Stocked THEN 1 ELSE NoRow
        /\ taken[b] = 0 /\ ledger[b] = IF b <= Stocked THEN 1 ELSE 0
        /\ nextId = Stocked + 1 /\ sold = {}
    BY DEF Init
  <2> QED
    BY <1>1, <2>1, <2>2 DEF BookOK, StockOK, KeptOK, Exists
<1> QED
  BY <1>2, <1>3, <1>4, <1>5, <1>6 DEF CatInv

-----------------------------------------------------------------------------
(* Steps *)

(* Worker d is where it was. *)
Unmoved(d) == /\ pc'[d] = pc[d] /\ at'[d] = at[d]
              /\ body'[d] = body[d] /\ fields'[d] = fields[d]

(* A worker that has answered is at rest. *)
LEMMA DoneFacts ==
  ASSUME Locals, NEW c \in Clients, Done(c)
  PROVE  Locals' /\ pc'[c] = "idle" /\ \A d \in Clients \ {c} : Unmoved(d)
<1>1. 1 \in Books
  BY CatalogueAssumption DEF Books
<1>2. NoFields \in Partial
  BY RowFacts
<1> QED
  BY <1>1, <1>2 DEF Locals, Done, Goto, Labels, Unmoved

(* A worker at rest has no part in the invariant. *)
LEMMA IdleFacts ==
  ASSUME NEW c, pc'[c] = "idle"
  PROVE  InsertOK(c)' /\ Place(c)' /\ InStep(c)'
  BY DEF InsertOK, Inserting, Place, InStep, Carries

(* A step of worker c that writes no table, and reports the book whose two *)
(* UPDATEs it gives up.                                                    *)
LEMMA QuietStep ==
  ASSUME CatInv, NEW c \in Clients,
         UNCHANGED <<books, inventory, nextId, sold, taken, ledger, revived, via>>,
         \A d \in Clients \ {c} : Unmoved(d), Locals', Marks',
         crossed \ {c} \subseteq crossed', stale \ {c} \subseteq stale', torn \subseteq torn',
         pc[c] = "update_inventory" => at[c] \in torn',
         Inserting(c)' => Inserting(c) /\ at'[c] = at[c],
         Place(c)', InStep(c)'
  PROVE  CatInv'
<1>1. Tables'
  BY DEF CatInv, Tables
<1>2. \A d \in Clients : Inserting(d)' => Inserting(d) /\ at'[d] = at[d]
  BY DEF Unmoved, Inserting
<1>3. ASSUME NEW d \in Clients PROVE InsertOK(d)'
  <2>1. InsertOK(d)
    BY DEF CatInv
  <2> QED
    BY <1>2, <2>1 DEF InsertOK, Exists
<1>4. ASSUME NEW d \in Clients \ {c} PROVE Place(d)' /\ InStep(d)'
  <2>1. Place(d) /\ InStep(d) /\ Unmoved(d)
    BY DEF CatInv
  <2>2. Place(d)'
    BY <2>1 DEF Place, Unmoved, Carries, Exists
  <2>3. InStep(d)'
    BY <2>1 DEF InStep, Unmoved, Carries
  <2> QED
    BY <2>2, <2>3
<1>5. ASSUME NEW b \in Books PROVE BookOK(b)' /\ StockOK(b)' /\ KeptOK(b)'
  <2>1. BookOK(b) /\ StockOK(b) /\ KeptOK(b)
    BY DEF CatInv
  <2>2. BookOK(b)' /\ KeptOK(b)'
    BY <2>1 DEF BookOK, KeptOK, Exists
  <2>3. ASSUME NEW d \in Halfway(b), d # c PROVE d \in Halfway(b)'
    BY <2>3 DEF Halfway, Unmoved
  <2>4. c \in Halfway(b) => b \in torn'
    BY DEF Halfway
  <2>5. StockOK(b)'
    BY <2>1, <2>3, <2>4 DEF StockOK, Exists
  <2> QED
    BY <2>2, <2>5
<1> QED
  BY <1>1, <1>3, <1>4, <1>5 DEF CatInv

(* A worker that comes back to rest without having written. *)
LEMMA QuietDone ==
  ASSUME CatInv, NEW c \in Clients, Done(c),
         UNCHANGED <<books, inventory, nextId, sold, taken, ledger, revived, via>>, Marks',
         crossed \ {c} \subseteq crossed', stale \ {c} \subseteq stale', torn \subseteq torn',
         pc[c] = "update_inventory" => at[c] \in torn'
  PROVE  CatInv'
<1>1. Locals' /\ pc'[c] = "idle" /\ \A d \in Clients \ {c} : Unmoved(d)
  BY DoneFacts DEF CatInv
<1>2. ~ Inserting(c)' /\ Place(c)' /\ InStep(c)'
  BY <1>1, IdleFacts DEF Inserting
<1> QED
  BY <1>1, <1>2, QuietStep

(* handle_create_book *)
LEMMA CreateStep ==
  ASSUME CatInv, NEW c \in Clients, NEW r \in Creations, Create(c, r)
  PROVE  CatInv'
<1> DEFINE sent == Reaches(c, r)
           row == [sent EXCEPT !.status = IF @ = "" THEN "active" ELSE @]
<1>1. Locals /\ Marks /\ pc[c] = "idle"
  BY DEF CatInv, Create
<1>2. sent \in Filled
  <2>1. r \in Filled
    BY CatalogueAssumption DEF Filled
  <2> QED
    BY <2>1, RowFacts DEF Reaches
<1>3. UNCHANGED <<books, inventory, nextId, sold, taken, ledger, revived, via, torn, crossed, stale>>
  BY DEF Create, tables, history
<1>4. Marks'
  BY <1>1, <1>3 DEF Marks
<1>5. CASE ValidBook(sent)
  <2>1. row \in Stored
    BY <1>2, <1>5, DefaultStatus
  <2>2. pc' = [pc EXCEPT ![c] = "insert"] /\ fields' = [fields EXCEPT ![c] = row] /\ at' = at /\ body' = body
    BY <1>5 DEF Create, Goto
  <2> HIDE DEF row, sent
  <2>3. row \in Partial
    BY <2>1, RowFacts
  <2>4. Locals' /\ pc'[c] = "insert" /\ fields'[c] = row /\ \A d \in Clients \ {c} : Unmoved(d)
    BY <1>1, <2>2, <2>3 DEF Locals, Labels, Unmoved
  <2>5. ~ Inserting(c)' /\ Place(c)' /\ InStep(c)'
    BY <2>1, <2>4 DEF Inserting, Place, InStep, Carries
  <2> QED
    BY <1>1, <1>3, <1>4, <2>4, <2>5, QuietStep
<1>6. CASE ~ ValidBook(sent)
  <2>1. pc' = pc /\ fields' = fields /\ at' = at /\ body' = body
    BY <1>6 DEF Create
  <2>2. Locals' /\ pc'[c] = "idle" /\ \A d \in Clients \ {c} : Unmoved(d)
    BY <1>1, <2>1 DEF Locals, Unmoved
  <2>3. ~ Inserting(c)' /\ Place(c)' /\ InStep(c)'
    BY <2>2, IdleFacts DEF Inserting
  <2> QED
    BY <1>1, <1>3, <1>4, <2>2, <2>3, QuietStep
<1> QED
  BY <1>5, <1>6

(* handle_update_book, up to the repository or to the first call. *)
LEMMA UpdateStep ==
  ASSUME CatInv, NEW c \in Clients, NEW b \in Books, NEW u \in Updates, Update(c, b, u)
  PROVE  CatInv'
<1>1. Locals /\ Marks /\ pc[c] = "idle"
  BY DEF CatInv, Update
<1>2. UNCHANGED <<books, inventory, nextId, sold, taken, ledger, revived, via, torn, crossed, stale>>
  BY DEF Update, tables, history
<1>3. Marks' /\ via[c] \in {"local", "grpc"}
  BY <1>1, <1>2 DEF Marks
<1>4. u \in Partial
  BY CatalogueAssumption DEF Partial
<1>5. CASE via[c] = "local" /\ (~ ValidUpdate(u) \/ u = NoFields)
  <2>1. pc' = pc /\ fields' = fields /\ at' = at /\ body' = body
    BY <1>5 DEF Update
  <2>2. Locals' /\ pc'[c] = "idle" /\ \A d \in Clients \ {c} : Unmoved(d)
    BY <1>1, <2>1 DEF Locals, Unmoved
  <2>3. ~ Inserting(c)' /\ Place(c)' /\ InStep(c)'
    BY <2>2, IdleFacts DEF Inserting
  <2> QED
    BY <1>1, <1>2, <1>3, <2>2, <2>3, QuietStep
<1>6. CASE ~ (via[c] = "local" /\ (~ ValidUpdate(u) \/ u = NoFields))
  <2>1. /\ pc' = [pc EXCEPT ![c] = IF via[c] = "local" THEN "update_books" ELSE "find"]
        /\ at' = [at EXCEPT ![c] = b] /\ body' = [body EXCEPT ![c] = u]
        /\ fields' = [fields EXCEPT ![c] = u]
    BY <1>6 DEF Update, Goto
  <2>2. /\ Locals' /\ \A d \in Clients \ {c} : Unmoved(d)
        /\ pc'[c] = IF via[c] = "local" THEN "update_books" ELSE "find"
        /\ body'[c] = u /\ fields'[c] = u
    BY <1>1, <1>4, <2>1 DEF Locals, Labels, Unmoved
  <2>3. ~ Inserting(c)' /\ Place(c)' /\ InStep(c)'
    BY <1>2, <1>3, <1>6, <2>2 DEF Inserting, Place, InStep, Carries
  <2> QED
    BY <1>1, <1>2, <1>3, <2>2, <2>3, QuietStep
<1> QED
  BY <1>5, <1>6

(* The two halves of GrpcBookClient::update_book: what is read is the      *)
(* availability, and what is sent is what was read.                        *)
LEMMA FindStep ==
  ASSUME CatInv, NEW c \in Clients, Find(c)
  PROVE  CatInv'
<1> DEFINE b == at[c]
<1>1. Locals /\ Tables /\ Marks /\ pc[c] = "find" /\ b \in Books
  BY DEF CatInv, Find, Locals
<1>2. UNCHANGED <<books, inventory, nextId, sold, taken, ledger, revived, via, torn, crossed, stale>>
  BY DEF Find, tables, history
<1>3. Marks'
  BY <1>1, <1>2 DEF Marks
<1>4. fields[c] = body[c] /\ via[c] = "grpc" /\ fields[c] \in Partial
  BY <1>1 DEF CatInv, Place, Locals
<1>5. CASE FindBook(b) = NoRow
  <2>1. Done(c)
    BY <1>5 DEF Find
  <2> QED
    BY <1>1, <1>2, <1>3, <2>1, QuietDone
<1>6. CASE FindBook(b) # NoRow
  <2> DEFINE row == FindBook(b)
             merged == Merged(row, fields[c])
  <2>1. Exists(b) /\ books[b] \in Stored
    BY <1>1, <1>6 DEF FindBook, Exists, Tables
  <2>2. inventory[b] \in Nat /\ inventory[b] # NoRow
    BY <1>1, <2>1 DEF CatInv, BookOK, Tables
  <2>3. row \in Stored /\ row.stock = inventory[b]
    BY <2>1, <2>2 DEF FindBook, Exists, Stored
  <2>4. /\ pc' = [pc EXCEPT ![c] = "call"] /\ fields' = [fields EXCEPT ![c] = merged]
        /\ at' = at /\ body' = body
    BY <1>6 DEF Find, Goto
  <2>5. merged \in Filled /\ merged \in Partial
    BY <1>4, <2>3, RowFacts
  <2>6. body[c].stock = Absent => merged.stock = inventory[b]
    BY <1>4, <2>3 DEF Merged, Row
  <2> HIDE DEF merged
  <2>7. /\ Locals' /\ \A d \in Clients \ {c} : Unmoved(d)
        /\ pc'[c] = "call" /\ fields'[c] = merged /\ at'[c] = b /\ body'[c] = body[c]
    BY <1>1, <2>4, <2>5 DEF Locals, Labels, Unmoved
  <2>8. ~ Inserting(c)' /\ Place(c)'
    BY <1>2, <1>4, <2>1, <2>5, <2>7 DEF Inserting, Place, Carries, Exists
  <2>9. InStep(c)'
    BY <1>2, <2>6, <2>7 DEF InStep
  <2> QED
    BY <1>1, <1>2, <1>3, <2>7, <2>8, <2>9, QuietStep
<1> QED
  BY <1>5, <1>6

(* BookGrpcServiceImpl::UpdateBook up to the repository. *)
LEMMA CallStep ==
  ASSUME CatInv, NEW c \in Clients, Call(c)
  PROVE  CatInv'
<1> DEFINE sent == ThroughProto(fields[c])
<1>1. Locals /\ Marks /\ pc[c] = "call" /\ Place(c) /\ InStep(c)
  BY DEF CatInv, Call
<1>2. UNCHANGED <<books, inventory, nextId, sold, taken, ledger, revived, via, torn, crossed>>
  BY DEF Call, tables
<1>3. fields[c] \in Filled /\ via[c] = "grpc" /\ Exists(at[c])
  BY <1>1 DEF Place, Carries
<1>4. CASE ValidUpdate(sent)
  <2>1. /\ pc' = [pc EXCEPT ![c] = "update_books"] /\ fields' = [fields EXCEPT ![c] = sent]
        /\ at' = at /\ body' = body
    BY <1>4 DEF Call, Goto
  <2>2. sent \in Stored /\ sent \in Partial /\ sent.stock = fields[c].stock
    BY <1>3, <1>4, RowFacts
  <2> HIDE DEF sent
  <2>3. /\ Locals' /\ \A d \in Clients \ {c} : Unmoved(d)
        /\ pc'[c] = "update_books" /\ fields'[c] = sent /\ at'[c] = at[c] /\ body'[c] = body[c]
    BY <1>1, <2>1, <2>2 DEF Locals, Labels, Unmoved
  <2>4. stale' = stale
    BY <2>3 DEF Call
  <2>5. Marks'
    BY <1>1, <1>2, <2>4 DEF Marks
  <2>6. ~ Inserting(c)' /\ Place(c)'
    BY <1>2, <1>3, <1>4, <2>2, <2>3 DEF Inserting, Place, Carries, Exists
  <2>7. InStep(c)'
    BY <1>1, <1>2, <1>3, <2>2, <2>3, <2>4 DEF InStep, Carries
  <2> QED
    BY <1>1, <1>2, <2>3, <2>4, <2>5, <2>6, <2>7, QuietStep
<1>5. CASE ~ ValidUpdate(sent)
  <2>1. Done(c) /\ stale \ {c} \subseteq stale' /\ stale' \subseteq stale
    BY <1>5 DEF Call
  <2>2. Marks'
    BY <1>1, <1>2, <2>1 DEF Marks
  <2> QED
    BY <1>1, <1>2, <2>1, <2>2, QuietDone
<1> QED
  BY <1>4, <1>5

(* INSERT INTO inventory, and failures. *)
LEMMA InsertInventoryStep ==
  ASSUME CatInv, NEW c \in Clients, InsertInventory(c)
  PROVE  CatInv'
<1>1. Locals /\ Marks /\ pc[c] = "insert_inventory" /\ Place(c)
  BY DEF CatInv, InsertInventory
<1>2. UNCHANGED <<books, inventory, nextId, sold, taken, ledger, revived, via, torn, crossed, stale, at, body, fields>>
  BY DEF InsertInventory, tables, history
<1>3. Locals' /\ Marks' /\ pc'[c] = "commit" /\ \A d \in Clients \ {c} : Unmoved(d)
  BY <1>1, <1>2 DEF InsertInventory, Goto, Locals, Marks, Labels, Unmoved
<1>4. Inserting(c) /\ Place(c)' /\ InStep(c)'
  BY <1>1, <1>2, <1>3 DEF Inserting, Place, InStep, Carries
<1> QED
  BY <1>1, <1>2, <1>3, <1>4, QuietStep

(* What a failed update has written of the two stocks stays, and is torn. *)
LEMMA FailStep ==
  ASSUME CatInv, NEW c \in Clients, Fail(c)
  PROVE  CatInv'
<1>1. Locals /\ Marks /\ Done(c)
  BY DEF CatInv, Fail
<1>2. UNCHANGED <<books, inventory, nextId, sold, taken, ledger, revived, via>>
  BY DEF Fail, tables
<1>3. /\ crossed' = crossed \ {c} /\ stale' = stale \ {c}
      /\ torn' = IF c \in Halfway(at[c]) THEN torn \cup {at[c]} ELSE torn
  BY DEF Fail
<1>4. pc[c] = "update_inventory" => at[c] \in torn'
  BY <1>3 DEF Halfway
<1>5. Marks'
  BY <1>1, <1>2, <1>3 DEF Marks, Locals
<1>6. torn \subseteq torn'
  BY <1>3
<1> QED
  BY <1>1, <1>2, <1>3, <1>4, <1>5, <1>6, QuietDone

(* INSERT INTO books: the id is one that no row and no other INSERT has. *)
LEMMA InsertBookStep ==
  ASSUME CatInv, NEW c \in Clients, InsertBook(c)
  PROVE  CatInv'
<1>1. Locals /\ Tables /\ Marks /\ pc[c] = "insert" /\ Place(c)
  BY DEF CatInv, InsertBook
<1>2. UNCHANGED <<books, inventory, sold, taken, ledger, revived, via, torn, crossed, stale, body, fields>>
  BY DEF InsertBook, history
<1>3. MaxBook \in Nat /\ nextId \in Nat /\ nextId \in Books /\ nextId' = nextId + 1
  BY <1>1, CatalogueAssumption DEF InsertBook, Tables, Books
<1>4. /\ Locals' /\ pc'[c] = "insert_inventory" /\ at'[c] = nextId
      /\ \A d \in Clients \ {c} : Unmoved(d)
  BY <1>1, <1>2, <1>3 DEF InsertBook, Goto, Locals, Labels, Unmoved
<1>5. Tables'
  <2>1. nextId' \in 1 .. (MaxBook + 1)
    BY <1>3 DEF Books
  <2> QED
    BY <1>1, <1>2, <2>1 DEF Tables
<1>6. Marks'
  BY <1>1, <1>2 DEF Marks
<1>7. ~ Exists(nextId) /\ \A d \in Clients : Inserting(d) => at[d] < nextId
  BY <1>3 DEF CatInv, BookOK, InsertOK
<1>8. \A d \in Clients : at[d] \in Nat
  BY <1>1, <1>3 DEF Locals, Books
<1>9. ASSUME NEW d \in Clients PROVE InsertOK(d)'
  <2>1. CASE d = c
    <3>1. \A e \in Clients : Inserting(e)' /\ at'[e] = nextId => e = c
      <4> SUFFICES ASSUME NEW e \in Clients, Inserting(e)', at'[e] = nextId, e # c PROVE FALSE
        OBVIOUS
      <4>1. Inserting(e) /\ at[e] = nextId
        BY <1>4 DEF Unmoved, Inserting
      <4> QED
        BY <1>3, <1>7, <4>1
    <3> QED
      BY <1>2, <1>3, <1>4, <1>7, <2>1, <3>1 DEF InsertOK, Exists
  <2>2. CASE d # c
    <3>1. Unmoved(d) /\ InsertOK(d)
      BY <1>4, <2>2 DEF CatInv
    <3>2. Inserting(d) => at[d] < nextId /\ at[d] # nextId /\ at[d] < nextId'
      BY <1>3, <1>7, <1>8
    <3>3. \A e \in Clients : Inserting(e)' /\ at'[e] = at[d] /\ Inserting(d) => e = d
      <4> SUFFICES ASSUME NEW e \in Clients, Inserting(e)', at'[e] = at[d], Inserting(d) PROVE e = d
        OBVIOUS
      <4>1. e # c
        BY <1>4, <3>2
      <4>2. Inserting(e) /\ at[e] = at[d]
        BY <1>4, <4>1 DEF Unmoved, Inserting
      <4> QED
        BY <3>1, <4>2 DEF InsertOK
    <3> QED
      BY <1>2, <3>1, <3>2, <3>3 DEF InsertOK, Inserting, Unmoved, Exists
  <2> QED
    BY <2>1, <2>2
<1>10. ASSUME NEW d \in Clients PROVE Place(d)' /\ InStep(d)'
  <2>1. CASE d = c
    BY <1>1, <1>2, <1>4, <2>1 DEF Place, InStep, Carries
  <2>2. CASE d # c
    <3>1. Unmoved(d) /\ Place(d) /\ InStep(d)
      BY <1>4, <2>2 DEF CatInv
    <3> QED
      BY <1>2, <3>1 DEF Place, InStep, Carries, Exists, Unmoved
  <2> QED
    BY <2>1, <2>2
<1>11. ASSUME NEW b \in Books PROVE BookOK(b)' /\ StockOK(b)' /\ KeptOK(b)'
  <2>1. BookOK(b) /\ StockOK(b) /\ KeptOK(b)
    BY DEF CatInv
  <2>2. BookOK(b)' /\ KeptOK(b)'
    <3>1. b \in Nat
      BY <1>3 DEF Books
    <3> QED
      BY <1>2, <1>3, <2>1, <3>1 DEF BookOK, KeptOK, Exists
  <2>3. Halfway(b)' = Halfway(b)
    <3>1. ASSUME NEW d \in Clients
          PROVE  pc'[d] = "update_inventory" /\ at'[d] = b <=> pc[d] = "update_inventory" /\ at[d] = b
      BY <1>1, <1>4 DEF Unmoved
    <3> QED
      BY <3>1 DEF Halfway
  <2> QED
    BY <1>2, <2>1, <2>2, <2>3 DEF StockOK, Exists
<1> QED
  BY <1>4, <1>5, <1>6, <1>9, <1>10, <1>11 DEF CatInv

(* COMMIT: the new book has both rows, with the same stock. *)
LEMMA CommitStep ==
  ASSUME CatInv, NEW c \in Clients, Commit(c)
  PROVE  CatInv'
<1> DEFINE n == at[c]
           row == fields[c]
<1>1. Locals /\ Tables /\ Marks /\ pc[c] = "commit" /\ Place(c) /\ InsertOK(c) /\ n \in Books
  BY DEF CatInv, Commit, Locals
<1>2. UNCHANGED <<nextId, sold, taken, revived, via, torn, crossed, stale>>
  BY DEF Commit
<1>3. /\ row \in Stored /\ row.stock \in Nat /\ row # NoRow /\ row.stock # NoRow
      /\ ~ Exists(n) /\ n < nextId
  <2>1. row \in Stored /\ ~ Exists(n) /\ n < nextId
    BY <1>1 DEF Place, InsertOK, Inserting
  <2>2. row.stock \in Nat
    BY <2>1 DEF Stored
  <2> QED
    BY <2>1, <2>2, RowFacts, CatalogueAssumption
<1>4. Locals' /\ pc'[c] = "idle" /\ \A d \in Clients \ {c} : Unmoved(d)
  BY <1>1, DoneFacts DEF Commit
<1>5. /\ Tables' /\ books'[n] = row /\ inventory'[n] = row.stock /\ ledger'[n] = row.stock
      /\ \A b \in Books \ {n} : /\ books'[b] = books[b] /\ inventory'[b] = inventory[b]
                               /\ ledger'[b] = ledger[b]
  BY <1>1, <1>2, <1>3 DEF Commit, Tables
<1>6. Marks'
  BY <1>1, <1>2 DEF Marks
<1>7. \A b \in Books : Exists(b) => b # n /\ Exists(b)'
  BY <1>3, <1>5 DEF Exists
<1>8. ASSUME NEW d \in Clients PROVE InsertOK(d)' /\ Place(d)' /\ InStep(d)'
  <2>1. CASE d = c
    BY <1>4, <2>1, IdleFacts
  <2>2. CASE d # c
    <3>1. Unmoved(d) /\ InsertOK(d) /\ Place(d) /\ InStep(d) /\ at[d] \in Books
      BY <1>1, <1>4, <2>2 DEF CatInv, Locals
    <3>2. Inserting(d)' => Inserting(d) /\ at[d] # n
      BY <1>1, <2>2, <3>1 DEF Unmoved, InsertOK, Inserting
    <3>3. \A e \in Clients : Inserting(e)' => Inserting(e) /\ at'[e] = at[e]
      BY <1>4 DEF Unmoved, Inserting
    <3>4. InsertOK(d)'
      BY <1>2, <1>5, <3>1, <3>2, <3>3 DEF InsertOK, Exists, Unmoved
    <3>5. Place(d)'
      BY <1>2, <1>7, <3>1 DEF Place, Carries, Unmoved
    <3>6. pc[d] = "update_inventory" \/ Carries(d) => at[d] # n
      BY <1>7, <3>1 DEF Place
    <3>7. InStep(d)'
      BY <1>2, <1>5, <3>1, <3>6 DEF InStep, Carries, Unmoved
    <3> QED
      BY <3>4, <3>5, <3>7
  <2> QED
    BY <2>1, <2>2
<1>9. ASSUME NEW b \in Books PROVE BookOK(b)' /\ StockOK(b)' /\ KeptOK(b)'
  <2>1. BookOK(b) /\ StockOK(b) /\ KeptOK(b)
    BY DEF CatInv
  <2>2. CASE b = n
    <3>1. taken'[b] = 0
      BY <1>2, <1>3, <2>1, <2>2 DEF BookOK
    <3>2. BookOK(b)' /\ KeptOK(b)'
      BY <1>2, <1>3, <1>5, <2>2, <3>1 DEF BookOK, KeptOK, Exists
    <3>3. StockOK(b)'
      BY <1>3, <1>5, <2>2, <3>1 DEF StockOK
    <3> QED
      BY <3>2, <3>3
  <2>3. CASE b # n
    <3>1. Halfway(b) \subseteq Halfway(b)'
      BY <1>1, <1>4 DEF Halfway, Unmoved
    <3> QED
      BY <1>2, <1>5, <2>1, <2>3, <3>1 DEF BookOK, KeptOK, StockOK, Exists
  <2> QED
    BY <2>2, <2>3
<1> QED
  BY <1>4, <1>5, <1>6, <1>8, <1>9 DEF CatInv

(* UPDATE books: a worker that goes on to the inventory has just written   *)
(* the stock it will write there; those it finds halfway are crossed.      *)
LEMMA UpdateBooksStep ==
  ASSUME CatInv, NEW c \in Clients, UpdateBooks(c)
  PROVE  CatInv'
<1> DEFINE n == at[c]
           row == Merged(books[n], fields[c])
           changes == books[n] # NoRow /\ books[n] # row
<1>1. Locals /\ Tables /\ Marks /\ pc[c] = "update_books" /\ Place(c) /\ InStep(c) /\ n \in Books
  BY DEF CatInv, UpdateBooks, Locals
<1>2. UNCHANGED <<inventory, nextId, sold, taken, ledger, revived, via, torn>>
  BY DEF UpdateBooks
<1>3. fields[c] \in Partial /\ ValidUpdate(fields[c])
  BY <1>1 DEF Locals, Place
<1>4. changes => /\ row \in Stored
                 /\ fields[c].stock # Absent => row.stock = fields[c].stock /\ fields[c].stock \in Nat
                 /\ fields[c].stock = Absent => row.stock = books[n].stock
  <2> SUFFICES ASSUME changes
               PROVE  /\ row \in Stored
                      /\ fields[c].stock # Absent => row.stock = fields[c].stock /\ fields[c].stock \in Nat
                      /\ fields[c].stock = Absent => row.stock = books[n].stock
    OBVIOUS
  <2>1. books[n] \in Stored
    BY <1>1 DEF Tables
  <2>2. row \in Stored
    BY <1>3, <2>1, RowFacts
  <2>3. fields[c].stock \in {Absent, -1} \cup Nat /\ fields[c].stock # -1
    BY <1>3 DEF Partial, ValidUpdate
  <2>4. /\ fields[c].stock # Absent => row.stock = fields[c].stock
        /\ fields[c].stock = Absent => row.stock = books[n].stock
    BY DEF Merged, Row
  <2> QED
    BY <2>2, <2>3, <2>4
<1>5. ASSUME NEW b \in Books
      PROVE  /\ books'[b] = IF changes /\ b = n THEN row ELSE books[b]
             /\ Exists(b)' <=> Exists(b)
  <2>1. books' = IF changes THEN [books EXCEPT ![n] = row] ELSE books
    BY DEF UpdateBooks
  <2> HIDE DEF row
  <2>2. books'[b] = IF changes /\ b = n THEN row ELSE books[b]
    BY <1>1, <2>1 DEF Tables
  <2>3. changes => row # NoRow
    BY <1>4, RowFacts
  <2> QED
    BY <2>2, <2>3 DEF Exists
<1>6. Tables'
  <2>1. books' \in [Books -> {NoRow} \cup Stored]
    <3>1. books' = IF changes THEN [books EXCEPT ![n] = row] ELSE books
      BY DEF UpdateBooks
    <3> HIDE DEF row
    <3> QED
      BY <1>1, <1>4, <3>1 DEF Tables
  <2> QED
    BY <1>1, <1>2, <2>1 DEF Tables
\* It goes on to the inventory.
<1>7. CASE changes /\ fields[c].stock # Absent
  <2>1. /\ pc' = [pc EXCEPT ![c] = "update_inventory"] /\ crossed' = crossed \cup Halfway(n)
        /\ UNCHANGED <<at, body, fields, stale>>
    BY <1>7 DEF UpdateBooks, Goto
  <2>2. books'[n] = row /\ row.stock = fields[c].stock /\ fields[c].stock \in Nat /\ Exists(n)
    BY <1>1, <1>4, <1>5, <1>7 DEF Exists
  <2>3. \A b \in Books \ {n} : books'[b] = books[b]
    BY <1>5
  <2> HIDE DEF changes, row
  <2>4. /\ Locals' /\ pc'[c] = "update_inventory"
        /\ \A d \in Clients \ {c} : Unmoved(d)
    BY <1>1, <2>1 DEF Locals, Labels, Unmoved
  <2>5. Marks'
    BY <1>1, <1>2, <2>1 DEF Marks, Halfway
  <2>6. ASSUME NEW d \in Clients PROVE InsertOK(d)' /\ Place(d)' /\ InStep(d)'
    <3>1. InsertOK(d) /\ Place(d) /\ InStep(d) /\ at[d] \in Books
      BY <1>1 DEF CatInv, Locals
    <3>2. \A e \in Clients : Inserting(e)' => Inserting(e) /\ at'[e] = at[e]
      BY <2>1, <2>4 DEF Inserting, Unmoved
    <3>3. InsertOK(d)'
      BY <1>2, <1>5, <2>1, <3>1, <3>2 DEF InsertOK
    <3>4. CASE d = c
      <4>1. Place(d)'
        BY <1>1, <1>2, <1>5, <2>1, <2>2, <2>4, <3>1, <3>4 DEF Place, Carries
      <4>2. InStep(d)'
        BY <1>1, <1>2, <2>1, <2>2, <2>4, <3>1, <3>4 DEF InStep, Carries
      <4> QED
        BY <3>3, <4>1, <4>2
    <3>5. CASE d # c
      <4>1. Unmoved(d)
        BY <2>4, <3>5
      <4>2. Place(d)'
        BY <1>2, <1>5, <3>1, <4>1 DEF Place, Carries, Unmoved
      <4>3. pc[d] = "update_inventory" /\ at[d] = n => d \in crossed'
        BY <2>1 DEF Halfway
      <4>4. InStep(d)'
        BY <1>2, <2>1, <2>3, <3>1, <4>1, <4>3 DEF InStep, Carries, Unmoved
      <4> QED
        BY <3>3, <4>2, <4>4
    <3> QED
      BY <3>4, <3>5
  <2>7. ASSUME NEW b \in Books PROVE BookOK(b)' /\ StockOK(b)' /\ KeptOK(b)'
    <3>1. BookOK(b) /\ StockOK(b) /\ KeptOK(b)
      BY DEF CatInv
    <3>2. BookOK(b)' /\ KeptOK(b)'
      BY <1>2, <1>5, <3>1 DEF BookOK, KeptOK
    <3>3. CASE b = n
      <4>1. c \in Halfway(b)'
        BY <2>1, <2>4, <3>3 DEF Halfway
      <4> QED
        BY <3>2, <4>1 DEF StockOK
    <3>4. CASE b # n
      <4>1. Halfway(b) \subseteq Halfway(b)'
        BY <1>1, <2>4 DEF Halfway, Unmoved
      <4> QED
        BY <1>2, <1>5, <2>3, <3>1, <3>2, <3>4, <4>1 DEF StockOK
    <3> QED
      BY <3>3, <3>4
  <2> QED
    BY <1>6, <2>4, <2>5, <2>6, <2>7 DEF CatInv
\* It is done: no stock was written.
<1>8. CASE ~ (changes /\ fields[c].stock # Absent)
  <2>1. Done(c) /\ stale' = stale \ {c} /\ crossed' = crossed
    BY <1>8 DEF UpdateBooks
  <2>2. Locals' /\ pc'[c] = "idle" /\ \A d \in Clients \ {c} : Unmoved(d)
    BY <1>1, <2>1, DoneFacts
  <2>3. Marks'
    BY <1>1, <1>2, <2>1 DEF Marks
  <2>4. \A b \in Books : Exists(b) => books'[b].stock = books[b].stock
    BY <1>4, <1>5, <1>8
  <2> HIDE DEF changes, row
  <2>5. ASSUME NEW d \in Clients PROVE InsertOK(d)' /\ Place(d)' /\ InStep(d)'
    <3>1. CASE d = c
      BY <2>2, <3>1, IdleFacts
    <3>2. CASE d # c
      <4>1. Unmoved(d) /\ InsertOK(d) /\ Place(d) /\ InStep(d) /\ at[d] \in Books
        BY <1>1, <2>2, <3>2 DEF CatInv, Locals
      <4>2. \A e \in Clients : Inserting(e)' => Inserting(e) /\ at'[e] = at[e]
        BY <2>2 DEF Inserting, Unmoved
      <4>3. InsertOK(d)'
        BY <1>2, <1>5, <4>1, <4>2 DEF InsertOK, Unmoved
      <4>4. Place(d)'
        BY <1>2, <1>5, <4>1 DEF Place, Carries, Unmoved
      <4>5. InStep(d)'
        BY <1>2, <2>1, <2>4, <3>2, <4>1 DEF Place, InStep, Carries, Unmoved
      <4> QED
        BY <4>3, <4>4, <4>5
    <3> QED
      BY <3>1, <3>2
  <2>6. ASSUME NEW b \in Books PROVE BookOK(b)' /\ StockOK(b)' /\ KeptOK(b)'
    <3>1. BookOK(b) /\ StockOK(b) /\ KeptOK(b)
      BY DEF CatInv
    <3>2. BookOK(b)' /\ KeptOK(b)'
      BY <1>2, <1>5, <3>1 DEF BookOK, KeptOK
    <3>3. Halfway(b) \subseteq Halfway(b)'
      BY <1>1, <2>2 DEF Halfway, Unmoved
    <3> QED
      BY <1>2, <1>5, <2>4, <3>1, <3>2, <3>3 DEF StockOK
  <2> QED
    BY <1>6, <2>2, <2>3, <2>5, <2>6 DEF CatInv
<1> QED
  BY <1>7, <1>8

(* The inventory's UPDATE ends an update: the two stocks agree unless it   *)
(* was crossed, and a stock that nobody named is the one that was there    *)
(* unless the reading was stale.                                           *)
LEMMA UpdateInventoryStep ==
  ASSUME CatInv, NEW c \in Clients, UpdateInventory(c)
  PROVE  CatInv'
<1> DEFINE n == at[c]
           stock == fields[c].stock
           named == via[c] = "local" \/ body[c].stock # Absent
<1>1. /\ Locals /\ Tables /\ Marks /\ pc[c] = "update_inventory" /\ Place(c) /\ InStep(c)
      /\ n \in Books /\ via[c] \in {"local", "grpc"}
  BY DEF CatInv, UpdateInventory, Locals, Marks
<1>2. UNCHANGED <<books, nextId, sold, via>> /\ Done(c)
  BY DEF UpdateInventory
<1>3. stock \in Nat /\ stock # NoRow /\ Exists(n)
  BY <1>1, CatalogueAssumption DEF Place
<1>4. /\ inventory' = [inventory EXCEPT ![n] = stock] /\ taken' = [taken EXCEPT ![n] = 0]
      /\ torn' = IF c \in crossed THEN torn \cup {n} ELSE torn \ {n}
      /\ ledger' = IF named THEN [ledger EXCEPT ![n] = stock] ELSE ledger
      /\ revived' = IF named THEN revived \ {n}
                     ELSE IF c \in stale THEN revived \cup {n} ELSE revived
      /\ crossed' = crossed \ {c} /\ stale' = (stale \cup Carrying(n)) \ {c}
  BY DEF UpdateInventory
<1>5. Locals' /\ pc'[c] = "idle" /\ \A d \in Clients \ {c} : Unmoved(d)
  BY <1>1, <1>2, DoneFacts
<1>6. Tables' /\ inventory'[n] = stock /\ taken'[n] = 0
  BY <1>1, <1>2, <1>3, <1>4 DEF Tables
<1>7. Marks'
  BY <1>1, <1>2, <1>4 DEF Marks, Carrying
<1>8. \A b \in Books \ {n} : /\ inventory'[b] = inventory[b] /\ taken'[b] = taken[b]
                           /\ ledger'[b] = ledger[b] /\ (b \in torn' <=> b \in torn)
                           /\ (b \in revived' <=> b \in revived)
  BY <1>1, <1>4 DEF Tables
<1> HIDE DEF stock
<1>9. ASSUME NEW d \in Clients PROVE InsertOK(d)' /\ Place(d)' /\ InStep(d)'
  <2>1. CASE d = c
    BY <1>5, <2>1, IdleFacts
  <2>2. CASE d # c
    <3>1. Unmoved(d) /\ InsertOK(d) /\ Place(d) /\ InStep(d) /\ at[d] \in Books
      BY <1>1, <1>5, <2>2 DEF CatInv, Locals
    <3>2. \A e \in Clients : Inserting(e)' => Inserting(e) /\ at'[e] = at[e]
      BY <1>5 DEF Inserting, Unmoved
    <3>3. InsertOK(d)'
      BY <1>2, <3>1, <3>2 DEF InsertOK, Unmoved, Exists
    <3>4. Place(d)'
      BY <1>2, <3>1 DEF Place, Carries, Unmoved, Exists
    <3>5. Carries(d) /\ at[d] = n => d \in stale'
      BY <1>4, <2>2 DEF Carries, Carrying
    <3>6. d \notin crossed' => d \notin crossed
      BY <1>4, <2>2
    <3>7. d \notin stale' => d \notin stale
      BY <1>4, <2>2
    <3>8. InStep(d)'
      BY <1>2, <1>8, <3>1, <3>5, <3>6, <3>7 DEF InStep, Carries, Unmoved
    <3> QED
      BY <3>3, <3>4, <3>8
  <2> QED
    BY <2>1, <2>2
<1>10. ASSUME NEW b \in Books PROVE BookOK(b)' /\ StockOK(b)' /\ KeptOK(b)'
  <2>1. BookOK(b) /\ StockOK(b) /\ KeptOK(b)
    BY DEF CatInv
  <2>2. CASE b = n
    <3>1. BookOK(b)'
      BY <1>2, <1>3, <1>6, <2>1, <2>2 DEF BookOK, Exists
    <3>2. StockOK(b)'
      <4>1. CASE c \in crossed
        BY <1>4, <2>2, <4>1 DEF StockOK
      <4>2. CASE c \notin crossed
        <5>1. books'[b].stock = stock
          BY <1>1, <1>2, <2>2, <4>2 DEF InStep, stock
        <5> QED
          BY <1>3, <1>6, <2>2, <5>1 DEF StockOK
      <4> QED
        BY <4>1, <4>2
    <3>3. KeptOK(b)'
      <4>1. CASE named
        <5>1. ledger'[b] = stock
          BY <1>1, <1>4, <2>2, <4>1 DEF Tables
        <5> QED
          BY <1>6, <2>2, <5>1 DEF KeptOK
      <4>2. CASE ~ named /\ c \in stale
        BY <1>4, <2>2, <4>2 DEF KeptOK
      <4>3. CASE ~ named /\ c \notin stale
        <5>1. stock = inventory[b]
          BY <1>1, <2>2, <4>3 DEF InStep, Carries, stock
        <5>2. ledger' = ledger /\ revived' = revived
          BY <1>4, <4>3
        <5> QED
          BY <1>6, <2>1, <2>2, <5>1, <5>2 DEF KeptOK
      <4> QED
        BY <4>1, <4>2, <4>3
    <3> QED
      BY <3>1, <3>2, <3>3
  <2>3. CASE b # n
    <3>1. Halfway(b) \subseteq Halfway(b)'
      BY <1>1, <1>5, <2>3 DEF Halfway, Unmoved
    <3> QED
      BY <1>2, <1>8, <2>1, <2>3, <3>1 DEF BookOK, StockOK, KeptOK, Exists
  <2> QED
    BY <2>2, <2>3
<1> QED
  BY <1>5, <1>6, <1>7, <1>9, <1>10 DEF CatInv

(* Inbound stock, orders and their releases: whoever is halfway is crossed, and whoever    *)
(* carries a reading is stale.                                             *)
LEMMA StockStep ==
  ASSUME CatInv, NEW n \in Books, AddStock(n) \/ ReserveStock(n) \/ ReleaseStock(n)
  PROVE  CatInv'
<1>1. Locals /\ Tables /\ Marks /\ BookOK(n) /\ inventory[n] # NoRow
  BY DEF CatInv, Tables, BookOK, AddStock, ReserveStock, ReleaseStock
<1>2. /\ UNCHANGED <<nextId, via, pc, at, body, fields, torn, revived>>
      /\ sold' = sold \/ sold' = sold \cup {n}
  BY DEF AddStock, ReserveStock, ReleaseStock
<1>3. Exists(n) /\ books[n] \in Stored /\ inventory[n] \in Nat /\ taken[n] \in Int /\ ledger[n] \in Int
  BY <1>1 DEF BookOK, Exists, Tables
<1>4. /\ Tables' /\ Exists(n)' /\ inventory'[n] # NoRow
      /\ ledger'[n] - ledger[n] = inventory'[n] - inventory[n] /\ inventory'[n] \in Nat /\ ledger'[n] \in Int
      /\ \A b \in Books \ {n} : /\ books'[b] = books[b] /\ inventory'[b] = inventory[b]
                               /\ taken'[b] = taken[b] /\ ledger'[b] = ledger[b]
      /\ \/ /\ books'[n].stock = books[n].stock + 1 /\ inventory'[n] = inventory[n] + 1 /\ taken'[n] = taken[n]
            /\ Halfway(n) \subseteq crossed'
         \/ books'[n] = books[n] /\ inventory'[n] = inventory[n] - 1 /\ taken'[n] = taken[n] + 1
         \/ books'[n] = books[n] /\ inventory'[n] = inventory[n] + 1 /\ taken'[n] = taken[n] - 1
  <2>1. CASE AddStock(n)
    <3> DEFINE row == [books[n] EXCEPT !.stock = @ + 1]
    <3>1. row \in Stored /\ row.stock = books[n].stock + 1 /\ row # NoRow
      <4>1. row \in Stored /\ row.stock = books[n].stock + 1
        BY <1>3 DEF Stored
      <4> QED
        BY <4>1, RowFacts
    <3>2. /\ books' = [books EXCEPT ![n] = row] /\ inventory' = [inventory EXCEPT ![n] = @ + 1]
          /\ ledger' = [ledger EXCEPT ![n] = @ + 1] /\ taken' = taken /\ crossed' = crossed \cup Halfway(n)
      BY <2>1 DEF AddStock
    <3> HIDE DEF row
    <3>3. /\ books'[n] = row /\ inventory'[n] = inventory[n] + 1 /\ ledger'[n] = ledger[n] + 1
          /\ \A b \in Books \ {n} : /\ books'[b] = books[b] /\ inventory'[b] = inventory[b]
                                   /\ taken'[b] = taken[b] /\ ledger'[b] = ledger[b]
          /\ books' \in [Books -> {NoRow} \cup Stored]
      BY <1>1, <3>1, <3>2 DEF Tables
    <3>4. inventory' \in [Books -> {NoRow} \cup Nat] /\ ledger' \in [Books -> Int]
      BY <1>1, <1>3, <3>2 DEF Tables
    <3>5. Tables'
      BY <1>1, <1>2, <3>2, <3>3, <3>4 DEF Tables
    <3>6. inventory'[n] \in Nat /\ ledger'[n] \in Int /\ ledger'[n] - ledger[n] = inventory'[n] - inventory[n]
      BY <1>3, <3>3
    <3>7. inventory'[n] # NoRow /\ Exists(n)'
      BY <3>1, <3>3, <3>6, CatalogueAssumption DEF Exists
    <3> QED
      BY <3>1, <3>2, <3>3, <3>5, <3>6, <3>7
  <2>2. CASE ReserveStock(n)
    <3>1. /\ books' = books /\ inventory' = [inventory EXCEPT ![n] = @ - 1]
          /\ ledger' = [ledger EXCEPT ![n] = @ - 1] /\ taken' = [taken EXCEPT ![n] = @ + 1]
          /\ inventory[n] >= 1
      BY <2>2 DEF ReserveStock
    <3>2. /\ inventory'[n] = inventory[n] - 1 /\ ledger'[n] = ledger[n] - 1 /\ taken'[n] = taken[n] + 1
          /\ \A b \in Books \ {n} : /\ books'[b] = books[b] /\ inventory'[b] = inventory[b]
                                   /\ taken'[b] = taken[b] /\ ledger'[b] = ledger[b]
      BY <1>1, <3>1 DEF Tables
    <3>3. inventory'[n] \in Nat /\ ledger'[n] \in Int /\ ledger'[n] - ledger[n] = inventory'[n] - inventory[n]
      BY <1>3, <3>1, <3>2
    <3>4. /\ inventory' \in [Books -> {NoRow} \cup Nat] /\ ledger' \in [Books -> Int]
          /\ taken' \in [Books -> Int]
      BY <1>1, <1>3, <3>1 DEF Tables
    <3>5. Tables'
      BY <1>1, <1>2, <3>1, <3>4 DEF Tables
    <3>6. inventory'[n] # NoRow /\ Exists(n)'
      BY <1>3, <3>1, <3>3, CatalogueAssumption DEF Exists
    <3> QED
      BY <3>1, <3>2, <3>3, <3>5, <3>6
  <2>3. CASE ReleaseStock(n)
    <3>1. /\ books' = books /\ inventory' = [inventory EXCEPT ![n] = @ + 1]
          /\ ledger' = [ledger EXCEPT ![n] = @ + 1] /\ taken' = [taken EXCEPT ![n] = @ - 1]
      BY <2>3 DEF ReleaseStock
    <3>2. /\ inventory'[n] = inventory[n] + 1 /\ ledger'[n] = ledger[n] + 1 /\ taken'[n] = taken[n] - 1
          /\ \A b \in Books \ {n} : /\ books'[b] = books[b] /\ inventory'[b] = inventory[b]
                                   /\ taken'[b] = taken[b] /\ ledger'[b] = ledger[b]
      BY <1>1, <3>1 DEF Tables
    <3>3. inventory'[n] \in Nat /\ ledger'[n] \in Int /\ ledger'[n] - ledger[n] = inventory'[n] - inventory[n]
      BY <1>3, <3>1, <3>2
    <3>4. /\ inventory' \in [Books -> {NoRow} \cup Nat] /\ ledger' \in [Books -> Int]
          /\ taken' \in [Books -> Int]
      BY <1>1, <1>3, <3>1 DEF Tables
    <3>5. Tables'
      BY <1>1, <1>2, <3>1, <3>4 DEF Tables
    <3>6. inventory'[n] # NoRow /\ Exists(n)'
      BY <1>3, <3>1, <3>3, CatalogueAssumption DEF Exists
    <3> QED
      BY <3>1, <3>2, <3>3, <3>5, <3>6
  <2> QED
    BY <2>1, <2>2, <2>3
<1>5. /\ crossed \subseteq crossed' /\ crossed' \subseteq crossed \cup Halfway(n)
      /\ stale' = stale \cup Carrying(n)
  BY DEF AddStock, ReserveStock, ReleaseStock
<1>6. Locals' /\ Marks'
  BY <1>1, <1>2, <1>5 DEF Locals, Marks, Halfway, Carrying
<1>7. \A b \in Books : Exists(b)' <=> Exists(b)
  BY <1>3, <1>4 DEF Exists
<1>8. ASSUME NEW d \in Clients PROVE InsertOK(d)' /\ Place(d)' /\ InStep(d)'
  <2>1. InsertOK(d) /\ Place(d) /\ InStep(d) /\ at[d] \in Books
    BY <1>1 DEF CatInv, Locals
  <2>2. InsertOK(d)'
    BY <1>2, <1>7, <2>1 DEF InsertOK, Inserting
  <2>3. Place(d)'
    BY <1>2, <1>7, <2>1 DEF Place, Carries
  <2>4. pc[d] = "update_inventory" /\ d \notin crossed' => books'[at[d]].stock = fields[d].stock
    <3>1. pc[d] = "update_inventory" /\ d \notin crossed' => books[at[d]].stock = fields[d].stock
      BY <1>5, <2>1 DEF InStep
    <3>2. pc[d] = "update_inventory" /\ at[d] = n => d \in Halfway(n)
      BY DEF Halfway
    <3> QED
      BY <1>4, <2>1, <3>1, <3>2
  <2>5. Carries(d) /\ at[d] = n => d \in stale'
    BY <1>5 DEF Carries, Carrying
  <2>6. Carries(d) /\ body[d].stock = Absent /\ d \notin stale' => fields[d].stock = inventory'[at[d]]
    BY <1>4, <1>5, <2>1, <2>5 DEF InStep
  <2>7. InStep(d)'
    BY <1>2, <2>4, <2>6 DEF InStep, Carries
  <2> QED
    BY <2>2, <2>3, <2>7
<1>9. ASSUME NEW b \in Books PROVE BookOK(b)' /\ StockOK(b)' /\ KeptOK(b)'
  <2>1. BookOK(b) /\ StockOK(b) /\ KeptOK(b)
    BY DEF CatInv
  <2>2. Halfway(b)' = Halfway(b)
    BY <1>2 DEF Halfway
  <2>3. CASE b = n
    <3>1. BookOK(b)'
      BY <1>1, <1>2, <1>3, <1>4, <2>3 DEF BookOK
    <3>2. books[n].stock \in Nat
      BY <1>3 DEF Stored
    <3>3. inventory[n] + taken[n] = books[n].stock => inventory'[n] + taken'[n] = books'[n].stock
      BY <1>3, <1>4, <3>2
    <3>4. StockOK(b)'
      BY <1>2, <1>3, <2>1, <2>2, <2>3, <3>3 DEF StockOK
    <3>5. inventory[n] = ledger[n] => inventory'[n] = ledger'[n]
      BY <1>3, <1>4
    <3>6. KeptOK(b)'
      BY <1>1, <1>2, <2>1, <2>3, <3>5 DEF KeptOK
    <3> QED
      BY <3>1, <3>4, <3>6
  <2>4. CASE b # n
    BY <1>2, <1>4, <1>7, <2>1, <2>2, <2>4 DEF BookOK, StockOK, KeptOK
  <2> QED
    BY <2>3, <2>4
<1> QED
  BY <1>4, <1>6, <1>8, <1>9 DEF CatInv

(* Every step of the writers keeps the invariant. *)
LEMMA CatNext == CatInv /\ Next => CatInv'
<1> SUFFICES ASSUME CatInv, Next PROVE CatInv'
  OBVIOUS
<1>1. ASSUME NEW c \in Clients, Worker(c) PROVE CatInv'
  BY <1>1, CreateStep, UpdateStep, InsertBookStep, InsertInventoryStep, CommitStep, FindStep,
     CallStep, UpdateBooksStep, UpdateInventoryStep, FailStep DEF Worker
<1>2. ASSUME NEW b \in Books, AddStock(b) \/ ReserveStock(b) \/ ReleaseStock(b) PROVE CatInv'
  BY <1>2, StockStep
<1> QED
  BY <1>1, <1>2 DEF Next

(* A step that writes neither the tables nor a worker's variables keeps it *)
(* too, whatever it counts.                                                *)
LEMMA CatStutter ==
  ASSUME CatInv, UNCHANGED <<tables, via, pc, at, body, fields, history>>
  PROVE  CatInv'
  BY DEF CatInv, tables, history, Locals, Tables, Marks, InsertOK, Inserting, Place, InStep,
         Carries, BookOK, StockOK, KeptOK, Exists, Halfway

(* Every step of the readers. *)
LEMMA CatReaders ==
  ASSUME CatInv, [RNext]_rvars
  PROVE  CatInv'
<1>1. CASE Write
  BY <1>1, CatNext DEF Write
<1>2. ASSUME NEW r \in Readers, Reader(r) PROVE UNCHANGED <<tables, via, pc, at, body, fields, history>>
  BY <1>2 DEF Reader, Similar, ReadCandidate, Rebuild, RebuildFails, ReadSource, SearchIndex,
              ReadFails, AnswerSimilar, vars
<1>3. CASE UNCHANGED rvars
  BY <1>3, CatStutter DEF rvars, vars
<1> QED
  BY <1>1, <1>2, <1>3, CatStutter DEF RNext

-----------------------------------------------------------------------------

(* The invariant holds of the writers on their own and beside the readers. *)
LEMMA CatSafe == (Spec => []CatInv) /\ (RSpec => []CatInv)
<1>1. CatInv /\ [Next]_vars => CatInv'
  BY CatNext, CatStutter DEF vars
<1>2. Spec => []CatInv
  BY <1>1, CatInit, PTL DEF Spec
<1>3. RInit => CatInv
  BY CatInit DEF RInit
<1>4. CatInv /\ [RNext]_rvars => CatInv'
  BY CatReaders
<1>5. RSpec => []CatInv
  BY <1>3, <1>4, PTL DEF RSpec
<1> QED
  BY <1>2, <1>5

(* Whatever clients, fields and requests come together, every row of books *)
(* is one that BookService accepts, and no availability is negative.       *)
THEOREM CatalogueTyping == RSpec => []TypeOK
  BY CatSafe, CatInvImplies, PTL

(* The two stocks of a book stay in step but for what was ordered and not  *)
(* released since, unless an update is between its two UPDATEs, failed     *)
(* there, or was crossed by another write of books.stock.                  *)
THEOREM CatalogueStocks == RSpec => []StocksInStep
  BY CatSafe, CatInvImplies, PTL

(* An update that does not name the stock leaves the availability alone,   *)
(* unless a gRPC client writes back a reading that was outdated meanwhile. *)
THEOREM CataloguePartial == RSpec => []PartialKeepsStock
  BY CatSafe, CatInvImplies, PTL

(* The same three hold of the catalogue without readers. *)
THEOREM CatalogueAlone == Spec => [](TypeOK /\ StocksInStep /\ PartialKeepsStock)
  BY CatSafe, CatInvImplies, PTL

-----------------------------------------------------------------------------
(* The search of the index *)

(* What build puts into the index: at most one entry per book. *)
Entries(E) == /\ IsFiniteSet(E) /\ E \subseteq [id : Books, price : Int]
              /\ \A e, f \in E : e.id = f.id => e = f

(* The order of std::sort is total among the entries of an index. *)
LEMMA CloserOrders ==
  ASSUME NEW E, Entries(E), NEW p \in Int
  PROVE  /\ \A e \in E : ~ Closer(p, e, e)
         /\ \A e, f, g \in E : Closer(p, e, f) /\ Closer(p, f, g) => Closer(p, e, g)
         /\ \A e, f \in E : e # f => Closer(p, e, f) \/ Closer(p, f, e)
<1>1. \A e \in E : Distance(e, p) \in Int /\ e.id \in Int
  <2>1. \A e \in E : e.price \in Int /\ e.id \in Int
    BY DEF Entries, Books
  <2> QED
    BY <2>1 DEF Distance
<1>2. \A e, f \in E : e # f => e.id # f.id
  BY DEF Entries
<1> QED
  BY <1>1, <1>2 DEF Closer

(* An entry that is not among the nearest gives way to Limit others. *)
LEMMA NearestFull ==
  ASSUME NEW E, Entries(E), NEW p \in Int, NEW x \in E, x.id \notin Nearest(E, p)
  PROVE  Cardinality(Nearest(E, p)) = Limit
<1> DEFINE A(e) == Ahead(E, p, e)
           R(e) == Cardinality(A(e))
           n == Cardinality(E)
           N == {e \in E : R(e) < Limit}
<1>1. /\ \A e \in E : ~ Closer(p, e, e)
      /\ \A e, f, g \in E : Closer(p, e, f) /\ Closer(p, f, g) => Closer(p, e, g)
      /\ \A e, f \in E : e # f => Closer(p, e, f) \/ Closer(p, f, e)
  BY CloserOrders
<1>2. IsFiniteSet(E) /\ n \in Nat /\ Limit \in Nat \ {0}
  BY FS_CardinalityType, RecommenderAssumption DEF Entries
<1>3. ASSUME NEW e \in E PROVE IsFiniteSet(A(e)) /\ R(e) \in 0 .. n - 1
  <2>1. A(e) \in SUBSET E /\ e \notin A(e)
    BY <1>1 DEF Ahead
  <2> HIDE DEF A
  <2>2. IsFiniteSet(A(e)) /\ R(e) <= n /\ (R(e) = n => A(e) = E)
    BY <1>2, <2>1, FS_Subset
  <2>3. R(e) \in Nat
    BY <2>2, FS_CardinalityType
  <2> QED
    BY <1>2, <2>1, <2>2, <2>3
<1>4. ASSUME NEW e \in E, NEW f \in E, Closer(p, e, f) PROVE R(e) # R(f)
  <2>1. A(e) \in SUBSET A(f) /\ e \in A(f) /\ e \notin A(e)
    BY <1>1, <1>4 DEF Ahead
  <2>2. IsFiniteSet(A(f))
    BY <1>3
  <2> HIDE DEF A
  <2>3. R(e) = R(f) => A(e) = A(f)
    BY <2>1, <2>2, FS_Subset
  <2> QED
    BY <2>1, <2>3
<1>5. \A e, f \in E : R(e) = R(f) => e = f
  <2> HIDE DEF R
  <2> QED
    BY <1>1, <1>4
<1> HIDE DEF R, A
<1>6. \A k \in 0 .. n - 1 : \E e \in E : R(e) = k
  <2> DEFINE F == [e \in E |-> R(e)]
  <2>1. F \in Injection(E, 0 .. n - 1)
    BY <1>3, <1>5 DEF Injection, IsInjective
  <2>2. IsFiniteSet(0 .. n - 1) /\ Cardinality(0 .. n - 1) = n
    <3>1. IsFiniteSet(0 .. n - 1) /\ Cardinality(0 .. n - 1) = IF 0 > n - 1 THEN 0 ELSE (n - 1) - 0 + 1
      BY <1>2, FS_Interval, SMTT(40)
    <3> QED
      BY <1>2, <3>1
  <2>3. F \in Surjection(E, 0 .. n - 1)
    <3> HIDE DEF F
    <3> QED
      BY <2>1, <2>2, FS_Injection
  <2> QED
    BY <2>3 DEF Surjection
<1>7. Nearest(E, p) = {e.id : e \in N}
  BY DEF Nearest, R, A
<1>8. x \notin N
  BY <1>7
<1>9. R(x) \in 0 .. n - 1 /\ Limit <= R(x)
  <2>1. R(x) \in 0 .. n - 1
    BY <1>3
  <2> QED
    BY <1>2, <1>8, <2>1
<1>10. N \subseteq E /\ \A e \in N : R(e) \in 0 .. Limit - 1
  BY <1>2, <1>3
<1>11. \A k \in 0 .. Limit - 1 : \E e \in N : R(e) = k
  <2>1. ASSUME NEW k \in 0 .. Limit - 1 PROVE \E e \in N : R(e) = k
    <3>1. k \in 0 .. n - 1 /\ k < Limit
      BY <1>2, <1>9
    <3> QED
      BY <1>6, <3>1
  <2> QED
    BY <2>1
<1> HIDE DEF N
<1>12. IsFiniteSet(N) /\ Cardinality(N) = Limit
  <2> DEFINE G == [e \in N |-> R(e)]
  <2>1. G \in Bijection(N, 0 .. Limit - 1)
    <3>1. G \in [N -> 0 .. Limit - 1] /\ \A e \in N : G[e] = R(e)
      BY <1>10
    <3> HIDE DEF G
    <3> QED
      BY <1>5, <1>10, <1>11, <3>1 DEF Bijection, Injection, IsInjective, Surjection
  <2>2. ExistsBijection(N, 0 .. Limit - 1)
    <3> HIDE DEF G
    <3> QED
      BY <2>1 DEF ExistsBijection
  <2>3. N \in SUBSET E
    BY <1>10
  <2>4. IsFiniteSet(N)
    BY <1>2, <2>3, FS_Subset
  <2>5. Cardinality(0 .. Limit - 1) = Cardinality(N)
    BY <2>2, <2>4, FS_Bijection
  <2>6. Cardinality(0 .. Limit - 1) = IF 0 > Limit - 1 THEN 0 ELSE (Limit - 1) - 0 + 1
    BY <1>2, FS_Interval
  <2> QED
    BY <1>2, <2>4, <2>5, <2>6
<1>13. Cardinality({e.id : e \in N}) = Cardinality(N)
  <2> DEFINE I == {e.id : e \in N}
             H == [e \in N |-> e.id]
  <2>1. H \in [N -> I] /\ \A e \in N : H[e] = e.id
    OBVIOUS
  <2>2. \A i \in I : \E e \in N : H[e] = i
    OBVIOUS
  <2>3. \A e, f \in N : e.id = f.id => e = f
    BY <1>10 DEF Entries
  <2> HIDE DEF H, I
  <2>4. H \in Bijection(N, I)
    BY <2>1, <2>2, <2>3 DEF Bijection, Injection, IsInjective, Surjection
  <2>5. ExistsBijection(N, I)
    BY <2>4 DEF ExistsBijection
  <2>6. Cardinality(I) = Cardinality(N)
    BY <1>12, <2>5, FS_Bijection
  <2> QED
    BY <2>6 DEF I
<1> QED
  BY <1>7, <1>12, <1>13

-----------------------------------------------------------------------------
(* The readers *)

Indexed == {e.id : e \in index}

(* The readers' variables have their types, as far as that matters. *)
ReaderTypes ==
  /\ rpc \in [Readers -> {"idle", "rebuild", "source", "search", "candidates"}]
  /\ source \in [Readers -> [id : Books, price : Int]]
  /\ DOMAIN candidates = Readers /\ DOMAIN toRead = Readers /\ DOMAIN answer = Readers
  /\ DOMAIN steady = Readers

(* Once reader r has rebuilt the index, the books that were active all     *)
(* through its request are in the index, whoever rebuilt it since; once it *)
(* has searched, each is found, still to be read, or crowded out.          *)
Offered(r) ==
  /\ steady[r] \subseteq ListBooks
  /\ rpc[r] \in {"source", "search"} => r \in faulty \/ steady[r] \subseteq Indexed
  /\ rpc[r] = "candidates" =>
       \A b \in steady[r] \ {source[r].id} :
         \/ b \in answer[r] \/ b \in toRead[r] \/ r \in faulty
         \/ b \notin candidates[r] /\ Cardinality(candidates[r] \ {source[r].id}) = Limit

ReadInv == ReaderTypes /\ Entries(index) /\ \A r \in Readers : Offered(r)

(* It implies the property. *)
LEMMA ReadInvImplies == ReadInv => SimilarComplete
  BY DEF ReadInv, Offered, SimilarComplete

(* rebuild indexes every active book once. *)
LEMMA BuildFacts ==
  ASSUME CatInv
  PROVE  Entries(Build(ListBooks)) /\ {e.id : e \in Build(ListBooks)} = ListBooks
<1> DEFINE L == ListBooks
           F == [b \in L |-> [id |-> b, price |-> books[b].price]]
           B == Build(L)
<1>1. L \in SUBSET (1 .. MaxBook) /\ \A b \in L : b \in Books /\ books[b].price \in Int
  <2>1. \A b \in L : b \in Books /\ books[b] \in Stored
    BY DEF ListBooks, CatInv, Tables
  <2>2. \A r \in Stored : r.price \in Int
    BY DEF Stored
  <2> QED
    BY <2>1, <2>2 DEF Books
<1>2. MaxBook \in Int
  BY CatalogueAssumption
<1>3. IsFiniteSet(1 .. MaxBook)
  BY <1>2, FS_Interval
<1> HIDE DEF L
<1>4. IsFiniteSet(L)
  BY <1>1, <1>3, FS_Subset
<1>5. B = {F[b] : b \in L} /\ B \subseteq [id : Books, price : Int]
      /\ (\A e, f \in B : e.id = f.id => e = f) /\ {e.id : e \in B} = L
  <2>1. /\ \A b \in L : F[b] = [id |-> b, price |-> books[b].price]
        /\ \A b \in L : F[b] \in [id : Books, price : Int] /\ F[b].id = b
    BY <1>1
  <2>2. B = {F[b] : b \in L}
    BY DEF Build
  <2> HIDE DEF F, B
  <2>3. B \subseteq [id : Books, price : Int]
    BY <2>1, <2>2
  <2>4. \A e, f \in B : e.id = f.id => e = f
    BY <2>1, <2>2
  <2>5. {e.id : e \in B} = L
    BY <2>1, <2>2
  <2> QED
    BY <2>2, <2>3, <2>4, <2>5
<1>6. F \in Surjection(L, B)
  <2>1. F \in [L -> B] /\ \A e \in B : \E b \in L : F[b] = e
    BY <1>5
  <2> HIDE DEF F, B
  <2> QED
    BY <2>1 DEF Surjection
<1> HIDE DEF F, B
<1>7. IsFiniteSet(B)
  BY <1>4, <1>6, FS_Surjection
<1> QED
  BY <1>5, <1>7 DEF Entries, B, L

(* What the search does not find of the index is crowded out. *)
LEMMA SearchFacts ==
  ASSUME Entries(index), NEW p \in Int, NEW s, NEW b \in Indexed \ {s}, b \notin Search(s, p)
  PROVE  Cardinality(Search(s, p) \ {s}) = Limit
<1> DEFINE E == {e \in index : e.id # s}
<1>1. E \in SUBSET index
  OBVIOUS
<1>2. Entries(E)
  <2>1. IsFiniteSet(E)
    <3> HIDE DEF E
    <3> QED
      BY <1>1, FS_Subset DEF Entries
  <2> QED
    BY <1>1, <2>1 DEF Entries
<1>3. PICK x \in index : x.id = b
  BY DEF Indexed
<1>4. x \in E /\ Search(s, p) = Nearest(E, p)
  BY <1>3 DEF Search
<1>5. s \notin Nearest(E, p)
  BY DEF Nearest
<1> HIDE DEF E
<1>6. Cardinality(Nearest(E, p)) = Limit
  BY <1>2, <1>3, <1>4, NearestFull
<1>7. Nearest(E, p) \ {s} = Nearest(E, p)
  BY <1>5
<1> QED
  BY <1>4, <1>6, <1>7

(* The readers start at rest. *)
LEMMA ReadInit == RInit => ReadInv
<1> SUFFICES ASSUME RInit PROVE ReadInv
  OBVIOUS
<1>1. 1 \in Books
  BY CatalogueAssumption DEF Books
<1>2. CatInv
  BY CatInit DEF RInit
<1>3. Entries(index)
  BY <1>2, BuildFacts DEF RInit
<1>4. /\ rpc = [r \in Readers |-> "idle"] /\ source = [r \in Readers |-> [id |-> 1, price |-> 0]]
      /\ candidates = [r \in Readers |-> {}] /\ toRead = candidates /\ answer = candidates
      /\ steady = candidates
  BY DEF RInit
<1>5. ReaderTypes
  BY <1>1, <1>4 DEF ReaderTypes
<1>6. \A r \in Readers : Offered(r)
  BY <1>4 DEF Offered
<1> QED
  BY <1>3, <1>5, <1>6 DEF ReadInv

(* A reader whose own variables stay, and for whom neither the books nor   *)
(* the index have lost anything.                                           *)
LEMMA OfferedStays ==
  ASSUME NEW q, Offered(q), rpc'[q] = rpc[q], source'[q] = source[q],
         candidates'[q] = candidates[q], toRead'[q] = toRead[q], answer'[q] = answer[q],
         steady'[q] \subseteq steady[q], steady'[q] \subseteq ListBooks',
         q \in faulty => q \in faulty',
         rpc[q] # "idle" => q \in faulty' \/ Indexed \cap steady[q] \subseteq Indexed'
  PROVE  Offered(q)'
<1>1. rpc[q] \in {"source", "search"} => q \in faulty' \/ steady'[q] \subseteq Indexed'
  BY DEF Offered
<1>2. rpc[q] = "candidates" =>
        \A b \in steady'[q] \ {source[q].id} :
          \/ b \in answer[q] \/ b \in toRead[q] \/ q \in faulty'
          \/ b \notin candidates[q] /\ Cardinality(candidates[q] \ {source[q].id}) = Limit
  BY DEF Offered
<1> QED
  BY <1>1, <1>2 DEF Offered

(* A reader that has answered is at rest, and the others stay. *)
LEMMA AnsweredStep ==
  ASSUME ReadInv, NEW r \in Readers, Answered(r), index' = index, books' = books
  PROVE  ReadInv'
<1>1. 1 \in Books
  BY CatalogueAssumption DEF Books
<1>2. ReaderTypes'
  BY <1>1 DEF Answered, RGoto, ReadInv, ReaderTypes
<1>3. ListBooks' = ListBooks /\ Indexed' = Indexed
  BY DEF ListBooks, Indexed
<1>4. rpc'[r] = "idle" /\ steady'[r] = {}
  BY DEF Answered, RGoto, ReadInv, ReaderTypes
<1>5. Offered(r)'
  BY <1>4 DEF Offered
<1>6. ASSUME NEW q \in Readers, q # r PROVE Offered(q)'
  <2>1. /\ rpc'[q] = rpc[q] /\ source'[q] = source[q] /\ candidates'[q] = candidates[q]
        /\ toRead'[q] = toRead[q] /\ answer'[q] = answer[q] /\ steady'[q] = steady[q]
        /\ q \in faulty => q \in faulty'
    BY <1>6 DEF Answered, RGoto, ReadInv, ReaderTypes
  <2>2. Offered(q)
    BY DEF ReadInv
  <2>3. steady[q] \subseteq ListBooks
    BY <2>2 DEF Offered
  <2> QED
    BY <1>3, <2>1, <2>2, <2>3, OfferedStays
<1> QED
  BY <1>2, <1>5, <1>6 DEF ReadInv

(* A step of the readers. *)
LEMMA ReaderStep ==
  ASSUME CatInv, ReadInv, NEW r \in Readers, Reader(r)
  PROVE  ReadInv'
<1>1. ReaderTypes /\ Entries(index) /\ \A q \in Readers : Offered(q) /\ steady[q] \subseteq ListBooks
  BY DEF ReadInv, Offered
<1>2. books' = books
  BY DEF Reader, Similar, ReadCandidate, Rebuild, RebuildFails, ReadSource, SearchIndex,
         ReadFails, AnswerSimilar, vars, tables
<1>3. ListBooks' = ListBooks
  BY <1>2 DEF ListBooks
<1>4. Entries(Build(ListBooks)) /\ {e.id : e \in Build(ListBooks)} = ListBooks
  BY BuildFacts
<1>5. ASSUME NEW b \in Books, Similar(r, b) PROVE ReadInv'
  <2>1. /\ rpc' = [rpc EXCEPT ![r] = "rebuild"] /\ source' = [source EXCEPT ![r] = [id |-> b, price |-> 0]]
        /\ steady' = [steady EXCEPT ![r] = ListBooks] /\ index' = index /\ candidates' = candidates
        /\ toRead' = toRead /\ answer' = answer /\ faulty' = faulty
    BY <1>5 DEF Similar, RGoto
  <2>2. ReaderTypes'
    BY <1>1, <2>1 DEF ReaderTypes
  <2>3. Indexed' = Indexed
    BY <2>1 DEF Indexed
  <2>4. Offered(r)'
    BY <1>1, <1>3, <2>1 DEF Offered, ReaderTypes
  <2>5. ASSUME NEW q \in Readers, q # r PROVE Offered(q)'
    <3>1. rpc'[q] = rpc[q] /\ source'[q] = source[q] /\ steady'[q] = steady[q]
      BY <1>1, <2>1, <2>5 DEF ReaderTypes
    <3> QED
      BY <1>1, <1>3, <2>1, <2>3, <3>1, OfferedStays
  <2> QED
    BY <1>1, <2>1, <2>2, <2>4, <2>5 DEF ReadInv
<1>6. CASE Rebuild(r)
  <2>1. /\ index' = Build(ListBooks) /\ rpc' = [rpc EXCEPT ![r] = "source"] /\ source' = source
        /\ candidates' = candidates /\ toRead' = toRead /\ answer' = answer /\ steady' = steady
        /\ faulty' = faulty
    BY <1>6 DEF Rebuild, RGoto
  <2>2. ReaderTypes' /\ Entries(index')
    BY <1>1, <1>4, <2>1 DEF ReaderTypes
  <2>3. Indexed' = ListBooks
    BY <1>4, <2>1 DEF Indexed
  <2>4. Offered(r)'
    BY <1>1, <1>3, <2>1, <2>3 DEF Offered, ReaderTypes
  <2>5. ASSUME NEW q \in Readers, q # r PROVE Offered(q)'
    <3>1. rpc'[q] = rpc[q]
      BY <1>1, <2>1, <2>5 DEF ReaderTypes
    <3> QED
      BY <1>1, <1>3, <2>1, <2>3, <3>1, OfferedStays
  <2> QED
    BY <2>2, <2>4, <2>5 DEF ReadInv
<1>7. CASE RebuildFails(r)
  <2>1. /\ index' = {} /\ rpc' = [rpc EXCEPT ![r] = "source"] /\ source' = source
        /\ candidates' = candidates /\ toRead' = toRead /\ answer' = answer /\ steady' = steady
        /\ faulty' = faulty \cup {q \in Readers : rpc[q] # "idle"} /\ rpc[r] = "rebuild"
    BY <1>7 DEF RebuildFails, RGoto
  <2>2. Entries({})
    BY FS_EmptySet DEF Entries
  <2>3. ReaderTypes' /\ Entries(index')
    BY <1>1, <2>1, <2>2 DEF ReaderTypes
  <2>4. Offered(r)'
    BY <1>1, <1>3, <2>1 DEF Offered, ReaderTypes
  <2>5. ASSUME NEW q \in Readers, q # r PROVE Offered(q)'
    <3>1. rpc'[q] = rpc[q] /\ (q \in faulty => q \in faulty') /\ (rpc[q] # "idle" => q \in faulty')
      BY <1>1, <2>1, <2>5 DEF ReaderTypes
    <3> QED
      BY <1>1, <1>3, <2>1, <3>1, OfferedStays
  <2> QED
    BY <2>3, <2>4, <2>5 DEF ReadInv
<1>8. CASE ReadSource(r)
  <2> DEFINE s == source[r].id
  <2>1. index' = index
    BY <1>8 DEF ReadSource
  <2>2. CASE FindBook(s) = NoRow
    <3>1. Answered(r)
      BY <1>8, <2>2 DEF ReadSource
    <3> QED
      BY <1>2, <2>1, <3>1, AnsweredStep
  <2>3. CASE FindBook(s) # NoRow
    <3>1. /\ source' = [source EXCEPT ![r].price = FindBook(s).price]
          /\ rpc' = [rpc EXCEPT ![r] = "search"] /\ rpc[r] = "source"
          /\ candidates' = candidates /\ toRead' = toRead /\ answer' = answer /\ steady' = steady
          /\ faulty' = faulty
      BY <1>8, <2>3 DEF ReadSource, RGoto
    <3>2. FindBook(s).price \in Int
      <4>1. s \in Books /\ books[s] # NoRow
        BY <1>1, <2>3 DEF ReaderTypes, FindBook
      <4>2. books[s] \in Stored
        BY <4>1 DEF CatInv, Tables
      <4>3. FindBook(s).price = books[s].price
        BY <4>1, <4>2 DEF FindBook, Stored
      <4> QED
        BY <4>2, <4>3 DEF Stored
    <3>3. ReaderTypes'
      BY <1>1, <3>1, <3>2 DEF ReaderTypes
    <3>4. Indexed' = Indexed
      BY <2>1 DEF Indexed
    <3>5. Offered(r)'
      <4>1. rpc'[r] = "search"
        BY <1>1, <3>1 DEF ReaderTypes
      <4>2. r \in faulty \/ steady[r] \subseteq Indexed
        BY <1>1, <3>1 DEF Offered
      <4> QED
        BY <1>1, <1>3, <3>1, <3>4, <4>1, <4>2 DEF Offered
    <3>6. ASSUME NEW q \in Readers, q # r PROVE Offered(q)'
      <4>1. rpc'[q] = rpc[q] /\ source'[q] = source[q]
        BY <1>1, <3>1, <3>6 DEF ReaderTypes
      <4> QED
        BY <1>1, <1>3, <3>1, <3>4, <4>1, OfferedStays
    <3> QED
      BY <1>1, <2>1, <3>3, <3>5, <3>6 DEF ReadInv
  <2> QED
    BY <2>2, <2>3
<1>9. CASE SearchIndex(r)
  <2> DEFINE s == source[r].id
             found == Search(s, source[r].price)
  <2>1. /\ rpc[r] = "search" /\ candidates' = [candidates EXCEPT ![r] = found]
        /\ toRead' = [toRead EXCEPT ![r] = found] /\ rpc' = [rpc EXCEPT ![r] = "candidates"]
        /\ index' = index /\ source' = source /\ answer' = answer /\ steady' = steady
        /\ faulty' = faulty
    BY <1>9 DEF SearchIndex, RGoto
  <2>2. source[r].price \in Int
    BY <1>1 DEF ReaderTypes
  <2>3. ASSUME NEW b \in Indexed \ {s}, b \notin found PROVE Cardinality(found \ {s}) = Limit
    BY <1>1, <2>2, <2>3, SearchFacts
  <2>4. r \in faulty \/ steady[r] \subseteq Indexed
    BY <1>1, <2>1 DEF Offered
  <2> HIDE DEF found
  <2>5. ReaderTypes'
    BY <1>1, <2>1 DEF ReaderTypes
  <2>6. Indexed' = Indexed
    BY <2>1 DEF Indexed
  <2>7. rpc'[r] = "candidates" /\ candidates'[r] = found /\ toRead'[r] = found
    BY <1>1, <2>1 DEF ReaderTypes
  <2>8. \A b \in steady[r] \ {s} : \/ b \in found \/ r \in faulty
                                   \/ b \notin found /\ Cardinality(found \ {s}) = Limit
    BY <2>3, <2>4
  <2>9. Offered(r)'
    BY <1>1, <1>3, <2>1, <2>7, <2>8 DEF Offered
  <2>10. ASSUME NEW q \in Readers, q # r PROVE Offered(q)'
    <3>1. rpc'[q] = rpc[q] /\ candidates'[q] = candidates[q] /\ toRead'[q] = toRead[q]
      BY <1>1, <2>1, <2>10 DEF ReaderTypes
    <3> QED
      BY <1>1, <1>3, <2>1, <2>6, <3>1, OfferedStays
  <2> QED
    BY <1>1, <2>1, <2>5, <2>9, <2>10 DEF ReadInv
<1>10. ASSUME NEW b \in Books, ReadCandidate(r, b) PROVE ReadInv'
  <2>1. /\ rpc' = rpc /\ source' = source /\ candidates' = candidates /\ steady' = steady
        /\ faulty' = faulty /\ index' = index /\ rpc[r] = "candidates"
        /\ toRead' = [toRead EXCEPT ![r] = toRead[r] \ {b}]
        /\ answer' = [answer EXCEPT ![r] = answer[r] \cup ({b} \cap ListBooks)]
    BY <1>10 DEF ReadCandidate
  <2>2. ReaderTypes'
    BY <1>1, <2>1 DEF ReaderTypes
  <2>3. Indexed' = Indexed
    BY <2>1 DEF Indexed
  <2>4. toRead'[r] = toRead[r] \ {b} /\ answer'[r] = answer[r] \cup ({b} \cap ListBooks)
    BY <1>1, <2>1 DEF ReaderTypes
  <2>5. \A a \in steady[r] : a \in answer[r] \/ a \in toRead[r] => a \in answer'[r] \/ a \in toRead'[r]
    BY <1>1, <2>4
  <2>6. Offered(r)'
    BY <1>1, <1>3, <2>1, <2>5 DEF Offered
  <2>7. ASSUME NEW q \in Readers, q # r PROVE Offered(q)'
    <3>1. toRead'[q] = toRead[q] /\ answer'[q] = answer[q]
      BY <1>1, <2>1, <2>7 DEF ReaderTypes
    <3> QED
      BY <1>1, <1>3, <2>1, <2>3, <3>1, OfferedStays
  <2> QED
    BY <1>1, <2>1, <2>2, <2>6, <2>7 DEF ReadInv
<1>11. CASE ReadFails(r)
  <2>1. index' = index
    BY <1>11 DEF ReadFails
  <2>2. CASE Answered(r)
    BY <1>2, <2>1, <2>2, AnsweredStep
  <2>3. ASSUME NEW b \in toRead[r], toRead' = [toRead EXCEPT ![r] = toRead[r] \ {b}],
               faulty' = faulty \cup {r},
               UNCHANGED <<rpc, source, candidates, answer, steady>>
        PROVE  ReadInv'
    <3>1. ReaderTypes'
      BY <1>1, <2>3 DEF ReaderTypes
    <3>2. Indexed' = Indexed
      BY <2>1 DEF Indexed
    <3>3. Offered(r)'
      BY <1>1, <1>3, <2>3 DEF Offered
    <3>4. ASSUME NEW q \in Readers, q # r PROVE Offered(q)'
      <4>1. toRead'[q] = toRead[q]
        BY <1>1, <2>3, <3>4 DEF ReaderTypes
      <4> QED
        BY <1>1, <1>3, <2>3, <3>2, <4>1, OfferedStays
    <3> QED
      BY <1>1, <2>1, <3>1, <3>3, <3>4 DEF ReadInv
  <2> QED
    BY <1>11, <2>2, <2>3 DEF ReadFails
<1>12. CASE AnswerSimilar(r)
  BY <1>2, <1>12, AnsweredStep DEF AnswerSimilar
<1> QED
  BY <1>5, <1>6, <1>7, <1>8, <1>9, <1>10, <1>11, <1>12 DEF Reader

(* A step of the writers: a book that they make inactive is not steady any *)
(* more.                                                                   *)
LEMMA WriteStep ==
  ASSUME ReadInv, Write
  PROVE  ReadInv'
<1>1. /\ index' = index /\ rpc' = rpc /\ source' = source /\ candidates' = candidates
      /\ toRead' = toRead /\ answer' = answer /\ faulty' = faulty
      /\ steady' = [r \in Readers |-> steady[r] \cap ListBooks']
  BY DEF Write, reading
<1>2. ReaderTypes'
  BY <1>1 DEF ReadInv, ReaderTypes
<1>3. Indexed' = Indexed
  BY <1>1 DEF Indexed
<1>4. ASSUME NEW q \in Readers PROVE Offered(q)'
  <2>1. Offered(q) /\ steady'[q] \subseteq steady[q] /\ steady'[q] \subseteq ListBooks'
    BY <1>1 DEF ReadInv
  <2> QED
    BY <1>1, <1>3, <2>1, OfferedStays
<1> QED
  BY <1>1, <1>2, <1>4 DEF ReadInv

(* The invariant is inductive beside that of the writers. *)
LEMMA ReadStep ==
  ASSUME CatInv, ReadInv, [RNext]_rvars
  PROVE  ReadInv'
<1>1. CASE UNCHANGED rvars
  <2>1. /\ index' = index /\ rpc' = rpc /\ source' = source /\ candidates' = candidates
        /\ toRead' = toRead /\ answer' = answer /\ faulty' = faulty /\ steady' = steady
        /\ books' = books
    BY <1>1 DEF rvars, reading, vars, tables
  <2>2. ListBooks' = ListBooks /\ Indexed' = Indexed /\ ReaderTypes'
    BY <2>1 DEF ListBooks, Indexed, ReadInv, ReaderTypes
  <2>3. \A q \in Readers : Offered(q)'
    BY <2>1, <2>2 DEF ReadInv, Offered
  <2> QED
    BY <2>1, <2>2, <2>3 DEF ReadInv
<1> QED
  BY <1>1, ReaderStep, WriteStep DEF RNext

(* GET /api/books/{book_id}/similar misses no book that was active all     *)
(* through the request, for any number of readers that rebuild and search  *)
(* the one index, and of writers that change the books in between, unless  *)
(* the index offered Limit other books or a query failed.                  *)
THEOREM SimilarMissesNone == RSpec => []SimilarComplete
<1>1. RInit => CatInv /\ ReadInv
  BY CatInit, ReadInit DEF RInit
<1>2. CatInv /\ ReadInv /\ [RNext]_rvars => (CatInv /\ ReadInv)'
  BY CatReaders, ReadStep
<1> QED
  BY <1>1, <1>2, ReadInvImplies, PTL DEF RSpec
=============================================================================
