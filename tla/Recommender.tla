------------------------------ MODULE Recommender ------------------------------
(***************************************************************************)
(* GET /api/books/{book_id}/similar beside the catalogue's writers.  Every *)
(* request rebuilds the one index of the gateway under RecommendService's  *)
(* mutex, and then reads the book, searches the index under the mutex, and *)
(* reads each candidate again, each with a query of its own: other         *)
(* requests rebuild, and writers change the books, in between.             *)
(*                                                                         *)
(* The embedding is abstracted to the field it shares with Catalogue, the  *)
(* price: what the search needs is a distance, and an order among equals.  *)
(***************************************************************************)
EXTENDS Catalogue

CONSTANTS
    Readers,    \* gateway workers that serve similar books
    Limit       \* DEFAULT_SIMILAR_BOOK_LIMIT

ASSUME RecommenderAssumption == Limit \in Nat \ {0}

VARIABLES
    index,      \* the entries of the TopK index: [id, price]
    rpc,        \* where each reader is
    source,     \* the book it was asked about
    candidates, \* the ids its search returned
    toRead,     \* those it has still to read
    answer,     \* the books it found active
    steady,     \* history: books active since its request came in
    faulty      \* history: requests during which a query failed

reading == <<index, rpc, source, candidates, toRead, answer>>
rvars == <<vars, reading, steady, faulty>>

-----------------------------------------------------------------------------
(* BookVectorIndex, the TopK backend.                                      *)

\* build: the active books, with their embedding.
Build(listed) == {[id |-> b, price |-> books[b].price] : b \in listed}

Distance(entry, price) ==
    (entry.price - price) * (entry.price - price)

\* The order of std::sort: the nearer first, then the smaller id.
Closer(price, e, f) ==
    \/ Distance(e, price) < Distance(f, price)
    \/ Distance(e, price) = Distance(f, price) /\ e.id < f.id

\* What std::sort puts before entry e.
Ahead(entries, price, e) == {f \in entries : Closer(price, f, e)}

\* The ids of the first Limit entries.
Nearest(entries, price) ==
    {e.id : e \in {f \in entries : Cardinality(Ahead(entries, price, f)) < Limit}}

\* Seeded fault: the book itself is not skipped.
SearchWithSelf(b, price) == Nearest(index, price)

\* search_similar: the nearest of the other entries.
Search(b, price) == Nearest({e \in index : e.id # b}, price)

-----------------------------------------------------------------------------
RInit ==
    /\ Init
    /\ index = Build(ListBooks)
    /\ rpc = [r \in Readers |-> "idle"]
    /\ source = [r \in Readers |-> [id |-> 1, price |-> 0]]
    /\ candidates = [r \in Readers |-> {}]
    /\ toRead = candidates
    /\ answer = candidates
    /\ steady = candidates
    /\ faulty = {}

RGoto(r, label) == rpc' = [rpc EXCEPT ![r] = label]

\* The request comes in.
Similar(r, b) ==
    /\ rpc[r] = "idle"
    /\ Ask
    /\ RGoto(r, "rebuild")
    /\ source' = [source EXCEPT ![r] = [id |-> b, price |-> 0]]
    /\ steady' = [steady EXCEPT ![r] = ListBooks]
    /\ UNCHANGED <<tables, via, pc, at, body, fields, faults, history, index,
                   candidates, toRead, answer, faulty>>

\* RecommendService::rebuild, under the mutex.
Rebuild(r) ==
    /\ rpc[r] = "rebuild"
    /\ index' = Build(ListBooks)
    /\ RGoto(r, "source")
    /\ UNCHANGED <<vars, source, candidates, toRead, answer, steady, faulty>>

\* list_books failed and returned no books: the index is empty, for all.
RebuildFails(r) ==
    /\ rpc[r] = "rebuild"
    /\ faults < MaxFaults /\ faults' = faults + 1
    /\ index' = {}
    /\ RGoto(r, "source")
    /\ faulty' = faulty \cup {q \in Readers : rpc[q] # "idle"}
    /\ UNCHANGED <<tables, via, pc, at, body, fields, asked, history, source,
                   candidates, toRead, answer, steady>>

\* A reader that has answered forgets its request.
Answered(r) ==
    /\ RGoto(r, "idle")
    /\ source' = [source EXCEPT ![r] = [id |-> 1, price |-> 0]]
    /\ candidates' = [candidates EXCEPT ![r] = {}]
    /\ toRead' = [toRead EXCEPT ![r] = {}]
    /\ answer' = [answer EXCEPT ![r] = {}]
    /\ steady' = [steady EXCEPT ![r] = {}]
    /\ faulty' = faulty \ {r}

\* similar_books reads the book; 404 when there is none.
ReadSource(r) ==
    LET b == source[r].id
    IN  /\ rpc[r] = "source"
        /\ IF FindBook(b) = NoRow
           THEN Answered(r)
           ELSE /\ source' = [source EXCEPT ![r].price = FindBook(b).price]
                /\ RGoto(r, "search")
                /\ UNCHANGED <<candidates, toRead, answer, steady, faulty>>
        /\ UNCHANGED <<vars, index>>

\* ready() and search_similar, under the mutex.
SearchIndex(r) ==
    LET found == Search(source[r].id, source[r].price)
    IN  /\ rpc[r] = "search"
        /\ candidates' = [candidates EXCEPT ![r] = found]
        /\ toRead' = [toRead EXCEPT ![r] = found]
        /\ RGoto(r, "candidates")
        /\ UNCHANGED <<vars, index, source, answer, steady, faulty>>

\* A candidate is read again and kept if it is active.
ReadCandidate(r, b) ==
    /\ rpc[r] = "candidates"
    /\ b \in toRead[r]
    /\ toRead' = [toRead EXCEPT ![r] = @ \ {b}]
    /\ answer' = [answer EXCEPT ![r] = @ \cup ({b} \cap ListBooks)]
    /\ UNCHANGED <<vars, index, rpc, source, candidates, steady, faulty>>

\* The query for the book or for a candidate fails: 404, or it is left out.
ReadFails(r) ==
    /\ faults < MaxFaults /\ faults' = faults + 1
    /\ \/ /\ rpc[r] = "source"
          /\ Answered(r)
       \/ \E b \in toRead[r] :
            /\ toRead' = [toRead EXCEPT ![r] = @ \ {b}]
            /\ faulty' = faulty \cup {r}
            /\ UNCHANGED <<rpc, source, candidates, answer, steady>>
    /\ UNCHANGED <<tables, via, pc, at, body, fields, asked, history, index>>

\* The books that were found are the answer.
AnswerSimilar(r) ==
    /\ rpc[r] = "candidates" /\ toRead[r] = {}
    /\ Answered(r)
    /\ UNCHANGED <<vars, index>>

\* A step of the catalogue's writers.
Write ==
    /\ Next
    /\ steady' = [r \in Readers |-> steady[r] \cap ListBooks']
    /\ UNCHANGED <<reading, faulty>>

Reader(r) ==
    \/ \E b \in Books : Similar(r, b) \/ ReadCandidate(r, b)
    \/ Rebuild(r) \/ RebuildFails(r)
    \/ ReadSource(r) \/ SearchIndex(r) \/ ReadFails(r) \/ AnswerSimilar(r)

RNext == Write \/ \E r \in Readers : Reader(r)

RSpec == RInit /\ [][RNext]_rvars

-----------------------------------------------------------------------------
(* Properties.                                                             *)

\* No active book is missed: a book that was active all through a request is
\* among its answer, unless the index offered Limit other books or a query
\* failed during the request, of this reader or of one that rebuilt the
\* shared index (recommend_service.h:33-74).
SimilarComplete ==
    \A r \in Readers :
        rpc[r] = "candidates" /\ toRead[r] = {} =>
            \A b \in steady[r] \ {source[r].id} :
                \/ b \in answer[r]
                \/ r \in faulty
                \/ /\ b \notin candidates[r]
                   /\ Cardinality(candidates[r] \ {source[r].id}) = Limit

=============================================================================
