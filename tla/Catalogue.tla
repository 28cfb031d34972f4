------------------------------ MODULE Catalogue ------------------------------
(***************************************************************************)
(* The book catalogue on MySQL: the tables books and inventory, written by *)
(* the gateway's book client, by inbound stock, and by orders and the      *)
(* releases of their stock.  A client is "local" (LocalBookClient,         *)
(* BookService and the repository in the gateway's process) or "grpc"      *)
(* (GrpcBookClient, BookGrpcServiceImpl, and the same service and          *)
(* repository in the book server).                                         *)
(*                                                                         *)
(* A row of books is abstracted to one field that is only catalogued       *)
(* (price, for title and author too), the stock, and the status; 0, -1 and *)
(* "other" stand for the values the service refuses.  Every statement      *)
(* outside a transaction is a step; what a transaction writes is published *)
(* by its COMMIT.                                                          *)
(***************************************************************************)
EXTENDS Integers, FiniteSets

CONSTANTS
    Clients,        \* gateway workers that create or update books
    Via,            \* the kinds of book client deployed: "local", "grpc"
    MaxBook,        \* bound: ids AUTO_INCREMENT hands out
    Stocked,        \* books of the seed data: 1..Stocked
    Creations,      \* bodies of POST /api/books that have every field
    Updates,        \* bodies of PATCH /api/books/{book_id}
    MaxRequests,    \* bound: requests in a behaviour
    MaxFaults,      \* bound: failed statements, lost calls, crashes
    Absent,         \* a field the body of an update does not have
    NoRow           \* no row with this key

\* What a request may say of a book's status: one of the two words, nothing, or
\* any other text.
Statuses == {"active", "inactive", "", "other"}

ASSUME CatalogueAssumption ==
    /\ Via \subseteq {"local", "grpc"}
    /\ Creations \subseteq [price : Nat, stock : {-1} \cup Nat, status : Statuses]
    /\ Updates \subseteq [price : {Absent} \cup Nat, stock : {Absent, -1} \cup Nat,
                         status : {Absent} \cup Statuses]
    /\ Absent \notin Statuses /\ Absent # -1 /\ Absent \notin Nat
    /\ NoRow \notin Nat
    /\ NoRow \notin [price : Nat, stock : Nat, status : Statuses]
    /\ MaxBook \in Nat \ {0} /\ Stocked \in 0..MaxBook
    /\ MaxRequests \in Nat /\ MaxFaults \in Nat

Books == 1..MaxBook

VARIABLES
    books,      \* table books: [price, stock, status] by id
    inventory,  \* table inventory: available by book_id
    sold,       \* books that have an order
    nextId,     \* AUTO_INCREMENT of books
    via,        \* the kind of client each worker's gateway was started with
    pc,         \* the next statement or call of each worker
    at,         \* the book each worker works on
    body,       \* what the request asks for
    fields,     \* the fields the repository is to write
    asked,      \* requests so far
    faults,     \* faults so far
    \* history, for the properties
    taken,      \* units ordered less units released since the stock was written
    ledger,     \* units left if only requests that name the stock set it
    torn,       \* books whose two stocks were written apart
    revived,    \* books whose stock was overwritten with an older reading
    crossed,    \* workers whose book had books.stock written under them
    stale       \* workers whose book had its availability changed under them

tables == <<books, inventory, sold, nextId>>
history == <<taken, ledger, torn, revived, crossed, stale>>
vars == <<tables, via, pc, at, body, fields, asked, faults, history>>

Row(price, stock, status) ==
    [price |-> price, stock |-> stock, status |-> status]
NoFields == Row(Absent, Absent, Absent)

Init ==
    /\ books = [b \in Books |->
                  IF b <= Stocked THEN Row(1, 1, "active") ELSE NoRow]
    /\ inventory = [b \in Books |-> IF b <= Stocked THEN 1 ELSE NoRow]
    /\ sold = {}
    /\ nextId = Stocked + 1
    /\ via \in [Clients -> Via]
    /\ pc = [c \in Clients |-> "idle"]
    /\ at = [c \in Clients |-> 1]
    /\ body = [c \in Clients |-> NoFields]
    /\ fields = body
    /\ asked = 0 /\ faults = 0
    /\ taken = [b \in Books |-> 0]
    /\ ledger = [b \in Books |-> IF b <= Stocked THEN 1 ELSE 0]
    /\ torn = {} /\ revived = {} /\ crossed = {} /\ stale = {}

-----------------------------------------------------------------------------
(* What the repository reads, and what the service accepts.                *)

\* Seeded fault: the join with inventory forgotten.
FindBookInBooks(b) == books[b]

\* find_book: the availability, or the stock of a book without inventory.
FindBook(b) ==
    IF books[b] = NoRow THEN NoRow
    ELSE [books[b] EXCEPT !.stock =
            IF inventory[b] = NoRow THEN @ ELSE inventory[b]]

\* list_books: the active books.
ListBooks == {b \in Books : books[b] # NoRow /\ books[b].status = "active"}

\* BookService::create_book; "" is a status that is stored as "active".
ValidBook(r) ==
    /\ r.price # 0 /\ r.stock # -1
    /\ r.status \in {"active", "inactive", ""}

\* Seeded fault: any status is accepted.
ValidUpdateOfValues(u) == u.price # 0 /\ u.stock # -1

\* BookService::update_book.
ValidUpdate(u) ==
    /\ u.price # 0 /\ u.stock # -1
    /\ u.status \in {Absent, "active", "inactive"}

\* The enum of the wire keeps two of the words, and the receiver takes any
\* other value for "active".
StatusToProto(s) == IF s \in {"active", "inactive"} THEN s ELSE "unspecified"
StatusFromProto(e) == IF e = "inactive" THEN "inactive" ELSE "active"

ThroughProto(r) == [r EXCEPT !.status = StatusFromProto(StatusToProto(@))]

\* The fields of u, and those of r where u has none.
Merged(r, u) ==
    Row(IF u.price = Absent THEN r.price ELSE u.price,
        IF u.stock = Absent THEN r.stock ELSE u.stock,
        IF u.status = Absent THEN r.status ELSE u.status)

-----------------------------------------------------------------------------
(* Requests.                                                               *)

Ask == asked < MaxRequests /\ asked' = asked + 1

Goto(c, label) == pc' = [pc EXCEPT ![c] = label]

\* A worker that answers its request forgets it.
Done(c) ==
    /\ Goto(c, "idle")
    /\ at' = [at EXCEPT ![c] = 1]
    /\ body' = [body EXCEPT ![c] = NoFields]
    /\ fields' = [fields EXCEPT ![c] = NoFields]

\* What reaches the service: GrpcBookClient sends the book to another one.
Reaches(c, r) == IF via[c] = "grpc" THEN ThroughProto(r) ELSE r

\* handle_create_book: BookService validates here or in the book server.
Create(c, r) ==
    LET sent == Reaches(c, r)
    IN  /\ pc[c] = "idle"
        /\ Ask
        /\ IF ValidBook(sent)
           THEN /\ Goto(c, "insert")
                /\ fields' = [fields EXCEPT ![c] =
                     [sent EXCEPT !.status = IF @ = "" THEN "active" ELSE @]]
           ELSE UNCHANGED <<pc, fields>>
        /\ UNCHANGED <<tables, via, at, body, faults, history>>

\* START TRANSACTION and INSERT INTO books: the id is gone even on ROLLBACK.
InsertBook(c) ==
    /\ pc[c] = "insert"
    /\ nextId <= MaxBook
    /\ at' = [at EXCEPT ![c] = nextId]
    /\ nextId' = nextId + 1
    /\ Goto(c, "insert_inventory")
    /\ UNCHANGED <<books, inventory, sold, via, body, fields, asked, faults,
                   history>>

\* INSERT INTO inventory.
InsertInventory(c) ==
    /\ pc[c] = "insert_inventory"
    /\ Goto(c, "commit")
    /\ UNCHANGED <<tables, via, at, body, fields, asked, faults, history>>

\* COMMIT: both rows are there.
Commit(c) ==
    LET b == at[c]
    IN  /\ pc[c] = "commit"
        /\ books' = [books EXCEPT ![b] = fields[c]]
        /\ inventory' = [inventory EXCEPT ![b] = fields[c].stock]
        /\ ledger' = [ledger EXCEPT ![b] = fields[c].stock]
        /\ Done(c)
        /\ UNCHANGED <<sold, nextId, via, asked, faults, taken, torn, revived,
                       crossed, stale>>

\* handle_update_book: a local client validates and goes on to the
\* repository (which only reads when no field is given); a gRPC client reads
\* the book first.
Update(c, b, u) ==
    /\ pc[c] = "idle"
    /\ Ask
    /\ IF via[c] = "local" /\ (~ValidUpdate(u) \/ u = NoFields)
       THEN UNCHANGED <<pc, at, body, fields>>
       ELSE /\ Goto(c, IF via[c] = "local" THEN "update_books" ELSE "find")
            /\ at' = [at EXCEPT ![c] = b]
            /\ body' = [body EXCEPT ![c] = u]
            /\ fields' = [fields EXCEPT ![c] = u]
    /\ UNCHANGED <<tables, via, faults, history>>

\* GrpcBookClient::update_book, first half: find_book, and every field the
\* update lacks is filled in from what was read.
Find(c) ==
    /\ pc[c] = "find"
    /\ IF FindBook(at[c]) = NoRow
       THEN Done(c)
       ELSE /\ Goto(c, "call")
            /\ fields' = [fields EXCEPT ![c] = Merged(FindBook(at[c]), @)]
            /\ UNCHANGED <<at, body>>
    /\ UNCHANGED <<tables, via, asked, faults, history>>

\* Its second half, and BookGrpcServiceImpl::UpdateBook: all fields are sent
\* and all are updated.
Call(c) ==
    /\ pc[c] = "call"
    /\ IF ValidUpdate(ThroughProto(fields[c]))
       THEN /\ Goto(c, "update_books")
            /\ fields' = [fields EXCEPT ![c] = ThroughProto(@)]
            /\ UNCHANGED <<at, body>>
       ELSE Done(c)
    /\ stale' = stale \ (IF pc'[c] = "idle" THEN {c} ELSE {})
    /\ UNCHANGED <<tables, via, asked, faults, taken, ledger, torn, revived,
                   crossed>>

\* Workers between their two UPDATEs of book b.
Halfway(b) == {c \in Clients : pc[c] = "update_inventory" /\ at[c] = b}

\* Workers that have read book b to fill in the stock of an update.
Carrying(b) ==
    {c \in Clients : /\ pc[c] \in {"call", "update_books", "update_inventory"}
                     /\ via[c] = "grpc" /\ at[c] = b}

\* Seeded fault: UPDATE books is the end of the update.
UpdateBooksOnly(c) ==
    LET b == at[c]
    IN  /\ pc[c] = "update_books"
        /\ books' = IF books[b] = NoRow THEN books
                    ELSE [books EXCEPT ![b] = Merged(@, fields[c])]
        /\ Done(c)
        /\ crossed' = crossed \ {c} /\ stale' = stale \ {c}
        /\ UNCHANGED <<inventory, sold, nextId, via, asked, faults, taken,
                       ledger, torn, revived>>

\* UPDATE books: no row, or a row that already has these values, is zero
\* affected rows and the end of the update.  The inventory follows only when
\* the stock is one of the fields.
UpdateBooks(c) ==
    LET b == at[c]
        row == Merged(books[b], fields[c])
        changes == books[b] # NoRow /\ books[b] # row
    IN  /\ pc[c] = "update_books"
        /\ books' = IF changes THEN [books EXCEPT ![b] = row] ELSE books
        /\ IF changes /\ fields[c].stock # Absent
           THEN /\ Goto(c, "update_inventory")
                /\ crossed' = crossed \cup Halfway(b)
                /\ UNCHANGED <<at, body, fields, stale>>
           ELSE /\ Done(c)
                /\ stale' = stale \ {c}
                /\ UNCHANGED crossed
        /\ UNCHANGED <<inventory, sold, nextId, via, asked, faults, taken,
                       ledger, torn, revived>>

\* INSERT INTO inventory ... ON DUPLICATE KEY UPDATE, then find_book for the
\* answer.
UpdateInventory(c) ==
    LET b == at[c]
        named == via[c] = "local" \/ body[c].stock # Absent
    IN  /\ pc[c] = "update_inventory"
        /\ inventory' = [inventory EXCEPT ![b] = fields[c].stock]
        /\ Done(c)
        /\ taken' = [taken EXCEPT ![b] = 0]
        /\ torn' = IF c \in crossed THEN torn \cup {b} ELSE torn \ {b}
        /\ ledger' = IF named
                     THEN [ledger EXCEPT ![b] = fields[c].stock] ELSE ledger
        /\ revived' = IF named THEN revived \ {b}
                      ELSE IF c \in stale THEN revived \cup {b} ELSE revived
        /\ crossed' = crossed \ {c}
        /\ stale' = (stale \cup Carrying(b)) \ {c}
        /\ UNCHANGED <<books, sold, nextId, via, asked, faults>>

\* A statement or a call fails, or the process ends: a transaction is rolled
\* back, what a statement outside of one has written stays.  (One that took
\* effect although its answer was lost is the statement's own action,
\* followed by Fail if another was to come.)
Fail(c) ==
    LET b == at[c]
    IN  /\ pc[c] # "idle"
        /\ faults < MaxFaults /\ faults' = faults + 1
        /\ Done(c)
        /\ torn' = IF c \in Halfway(b) THEN torn \cup {b} ELSE torn
        /\ crossed' = crossed \ {c} /\ stale' = stale \ {c}
        /\ UNCHANGED <<tables, via, asked, taken, ledger, revived>>

\* handle_add_inventory: both stocks, in one transaction.
AddStock(b) ==
    /\ Ask
    /\ inventory[b] # NoRow
    /\ inventory' = [inventory EXCEPT ![b] = @ + 1]
    /\ books' = [books EXCEPT ![b].stock = @ + 1]
    /\ ledger' = [ledger EXCEPT ![b] = @ + 1]
    /\ crossed' = crossed \cup Halfway(b)
    /\ stale' = stale \cup Carrying(b)
    /\ UNCHANGED <<sold, nextId, via, pc, at, body, fields, faults, taken, torn,
                   revived>>

\* An order's reserve_stock: only the inventory is lowered.
ReserveStock(b) ==
    /\ Ask
    /\ inventory[b] # NoRow /\ inventory[b] >= 1
    /\ inventory' = [inventory EXCEPT ![b] = @ - 1]
    /\ sold' = sold \cup {b}
    /\ taken' = [taken EXCEPT ![b] = @ + 1]
    /\ ledger' = [ledger EXCEPT ![b] = @ - 1]
    /\ stale' = stale \cup Carrying(b)
    /\ UNCHANGED <<books, nextId, via, pc, at, body, fields, faults, torn,
                   revived, crossed>>

\* release_stock, for an order that is cancelled or that was not inserted: only
\* the inventory is raised.  (Cancels that overlap release one unit each.)
ReleaseStock(b) ==
    /\ Ask
    /\ b \in sold
    /\ inventory' = [inventory EXCEPT ![b] = @ + 1]
    /\ taken' = [taken EXCEPT ![b] = @ - 1]
    /\ ledger' = [ledger EXCEPT ![b] = @ + 1]
    /\ stale' = stale \cup Carrying(b)
    /\ UNCHANGED <<books, sold, nextId, via, pc, at, body, fields, faults, torn,
                   revived, crossed>>

Worker(c) ==
    \/ \E r \in Creations : Create(c, r)
    \/ \E b \in Books, u \in Updates : Update(c, b, u)
    \/ InsertBook(c) \/ InsertInventory(c) \/ Commit(c)
    \/ Find(c) \/ Call(c)
    \/ UpdateBooks(c) \/ UpdateInventory(c)
    \/ Fail(c)

Next ==
    \/ \E c \in Clients : Worker(c)
    \/ \E b \in Books : AddStock(b) \/ ReserveStock(b) \/ ReleaseStock(b)

Spec == Init /\ [][Next]_vars

-----------------------------------------------------------------------------
(* Properties.                                                             *)

\* Every row of books is one the service accepts, whichever client and
\* whichever fields it came from, and availability is never negative
\* (book_service.h:39-66, mysql_repositories.cpp:161-250).
TypeOK ==
    /\ \A b \in Books :
         books[b] # NoRow =>
            /\ ValidBook(books[b])
            /\ books[b].status # "" /\ books[b].stock \in Nat
    /\ \A b \in Books : inventory[b] # NoRow => inventory[b] \in Nat
    /\ sold \subseteq {b \in Books : inventory[b] # NoRow}
    /\ nextId \in 1..(MaxBook + 1)
    /\ pc \in [Clients -> {"idle", "insert", "insert_inventory", "commit",
                           "find", "call", "update_books",
                           "update_inventory"}]
    /\ at \in [Clients -> Books]
    /\ crossed \subseteq Clients /\ stale \subseteq Clients
    /\ torn \subseteq Books /\ revived \subseteq Books

\* Every book has an inventory row, and the two stocks of a book differ by
\* what was ordered and not released since the stock was last written, unless
\* an update is between its two statements, or failed there, or another write of
\* books.stock came in between (mysql_repositories.cpp:237-247, without a
\* transaction; docs/ecommerce_api.md:200 says the inventory is
\* synchronized).
StocksInStep ==
    \A b \in Books : books[b] # NoRow =>
        /\ inventory[b] # NoRow
        /\ \/ inventory[b] + taken[b] = books[b].stock
           \/ b \in torn \/ Halfway(b) # {}

\* An update that does not name the stock leaves it alone: what is available
\* is what stockings, orders, their releases and updates of the stock add up
\* to, unless a gRPC client wrote back a reading that somebody else had outdated
\* (grpc_book_client.cpp:95-114 sends every field it read).
PartialKeepsStock ==
    \A b \in Books :
        inventory[b] # NoRow => inventory[b] = ledger[b] \/ b \in revived

=============================================================================
