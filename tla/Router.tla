------------------------------- MODULE Router -------------------------------
(***************************************************************************)
(* Router of src/net/http/router.h with the route table that ApiGateway    *)
(* registers, as operators.  A path is the sequence of its segments; it is *)
(* "plain" when its text is exactly the segments each preceded by a slash  *)
(* (no doubled or trailing slash), which the exact routes compare and      *)
(* split_path forgets.                                                     *)
(***************************************************************************)
EXTENDS Naturals, Sequences, FiniteSets, SequencesExt

Get(handler, parts) == [method |-> "Get", parts |-> parts, handler |-> handler]
Post(handler, parts) == [method |-> "Post", parts |-> parts, handler |-> handler]
Patch(handler, parts) == [method |-> "Patch", parts |-> parts, handler |-> handler]

(* The segments that stand for a parameter.                               *)
BookId == "{book_id}"
OrderId == "{order_id}"

(* register_routes, in its order.                                          *)
Routes ==
  << Get("health", <<"api", "health">>),
     Get("live", <<"api", "live">>),
     Get("ready", <<"api", "ready">>),
     Get("list_books", <<"api", "books">>),
     Get("get_book", <<"api", "books", BookId>>),
     Post("create_book", <<"api", "books">>),
     Patch("update_book", <<"api", "books", BookId>>),
     Get("search_books", <<"api", "books", "search">>),
     Get("similar_books", <<"api", "books", BookId, "similar">>),
     Post("register_user", <<"api", "auth", "register">>),
     Post("login_user", <<"api", "auth", "login">>),
     Get("get_inventory", <<"api", "inventory", "books", BookId>>),
     Post("add_inventory", <<"api", "inventory", "books", BookId, "inbound">>),
     Post("create_order", <<"api", "orders">>),
     Get("list_orders", <<"api", "orders">>),
     Get("get_order", <<"api", "orders", OrderId>>),
     Post("cancel_order", <<"api", "orders", OrderId, "cancel">>) >>

IsParam(segment) == segment \in {BookId, OrderId}

HasParam(parts) == \E i \in DOMAIN parts : IsParam(parts[i])

(* Seeded fault: the number of segments is not compared. *)
MatchPrefix(pattern, parts) ==
  /\ Len(pattern) <= Len(parts)
  /\ \A i \in DOMAIN pattern : IsParam(pattern[i]) \/ pattern[i] = parts[i]

MatchPath(pattern, parts) ==
  /\ Len(pattern) = Len(parts)
  /\ \A i \in DOMAIN pattern : IsParam(pattern[i]) \/ pattern[i] = parts[i]

(* add_route puts a route into one of two tables: exact_routes_ by method  *)
(* and text, param_routes_ by method and order.                            *)
ExactRoutes(method, path) ==
  {r \in ToSet(Routes) : r.method = method /\ ~ HasParam(r.parts)
                         /\ path.plain /\ r.parts = path.parts}

ParamRoutes(method) ==
  {i \in DOMAIN Routes : Routes[i].method = method /\ HasParam(Routes[i].parts)}

NoRoute == "no route"

(* Router::route: an exact route, else the first route with parameters     *)
(* that matches.                                                           *)
Route(method, path) ==
  LET exact == ExactRoutes(method, path)
      param == {i \in ParamRoutes(method) : MatchPath(Routes[i].parts, path.parts)}
  IN CASE exact # {} -> (CHOOSE r \in exact : TRUE).handler
       [] exact = {} /\ param # {} -> Routes[Min(param)].handler
       [] OTHER -> NoRoute

-----------------------------------------------------------------------------
(* What a client may expect, without an order among the routes. *)

Params(r) == Cardinality({i \in DOMAIN r.parts : IsParam(r.parts[i])})

Fits(r, method, path) ==
  /\ r.method = method
  /\ Len(r.parts) = Len(path.parts)
  /\ \A i \in DOMAIN r.parts : IsParam(r.parts[i]) \/ r.parts[i] = path.parts[i]
  /\ path.plain \/ Params(r) > 0

(* The handlers of the fitting routes with the fewest parameters.          *)
MostSpecific(method, path) ==
  LET fitting == {r \in ToSet(Routes) : Fits(r, method, path)}
      best    == {r \in fitting : \A q \in fitting : Params(r) <= Params(q)}
  IN IF fitting = {} THEN {NoRoute} ELSE {r.handler : r \in best}
=============================================================================
