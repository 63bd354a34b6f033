------------------------------ MODULE Routing ------------------------------
(***************************************************************************)
(* Registration of routes through the four v2 adapters and the application *)
(* that wraps them, and the choice of what a request runs.                 *)
(*                                                                         *)
(* A pattern is a sequence of segments, "{id}" being the parameter, so     *)
(* JoinPath is concatenation and TranslatePattern renames nothing.  Values *)
(* of the adapters' types are kept in `groups`; the first is the router    *)
(* that Bootstrap makes.  How a framework matches a path is modelled from  *)
(* the documented behaviour of the version in go.mod (external).           *)
(* ApplicationProofs takes this module together with AppLifecycle: the     *)
(* names that both would have begin with Routing here.                     *)
(***************************************************************************)
EXTENDS Naturals, SequencesExt

CONSTANTS
  Adapters,       (* The frameworks considered.                            *)
  Globals,        (* Config.Middlewares: the sequences considered.         *)
  Middleware,     (* What With is given.                                   *)
  Segments,       (* The segments of patterns and paths.                   *)
  GroupPrefixes,  (* What Group is given.                                  *)
  Direct,         (* The <<method, pattern>> endpoints are registered at.  *)
  Resources,      (* Configurations of resources.Register, see Entries.    *)
  Served,         (* The <<method, path>> of the requests served.          *)
  MaxGroups, MaxDirect  (* Bounds on groups and on direct registrations.   *)

ASSUME BoundsAssumption == MaxGroups \in Nat /\ MaxDirect \in Nat

(* GetEndpoint, PostEndpoint and the like.                                 *)
Methods == {"GET", "POST", "PUT", "PATCH", "DELETE", "HEAD"}

Param == "{id}"
Patterns == Seq(Segments)
AllMiddleware == Middleware \cup UNION {Range(s) : s \in Globals}
OperationNames == {"New", "Edit", "List", "Create", "Show", "Update", "Destroy"}

ASSUME InputAssumption ==
  /\ Adapters \subseteq {"gin", "fiber", "chi", "nethttp"}
  /\ Globals \subseteq Seq(AllMiddleware)
  /\ {"new", "edit", Param} \subseteq Segments
  /\ GroupPrefixes \subseteq Patterns
  /\ Direct \cup Served \subseteq Methods \X Patterns
  /\ Resources \subseteq [path : Patterns, ops : SUBSET OperationNames, alias : BOOLEAN,
                         defaults : BOOLEAN, idOk : BOOLEAN]

Fallbacks == {"notFound", "notAllowed"}

VARIABLES
  adapter, globals,
  groups,      (* Routers and groups made so far.                          *)
  routes,      (* Handlers given to the framework, in order.               *)
  fallbacks,   (* Which of NotFound and MethodNotAllowed were set.         *)
  catchAll,    (* Fiber: routes before the catch-all, or NotYet.     *)
  nextFails,   (* Fiber: c.Next reports an unmatched request as an error.  *)
  crashed      (* A registration panicked.                                 *)

routingVars == <<adapter, globals, groups, routes, fallbacks, catchAll, nextFails, crashed>>

(***************************************************************************)
(* Values of the adapters.  `own` are the middlewares of the value, `errs` *)
(* whether it has the response handler, `parent` the router of a net/http  *)
(* sub-group.  `asked` is not in the code: the middlewares asked for.      *)
(***************************************************************************)
Root == [prefix |-> <<>>, own |-> <<>>, errs |-> FALSE, parent |-> 0, asked |-> <<>>]

(* Group.  The new value takes the middlewares and the response handler of *)
(* the old one as they are now; a net/http router makes a sub-group of     *)
(* itself, that starts with the router's middlewares.                      *)
GinGroup(g, prefix) == [groups[g] EXCEPT !.prefix = @ \o prefix]
FiberGroup(g, prefix) == [groups[g] EXCEPT !.prefix = @ \o prefix]
ChiGroup(g, prefix) == [groups[g] EXCEPT !.prefix = @ \o prefix]
NetHTTPGroup(g, prefix) == [groups[g] EXCEPT !.prefix = prefix, !.parent = g]
NetHTTPSubGroup(g, prefix) == [groups[g] EXCEPT !.prefix = @ \o prefix]

AdapterGroup(g, prefix) ==
  CASE adapter = "gin" -> GinGroup(g, prefix)
    [] adapter = "fiber" -> FiberGroup(g, prefix)
    [] adapter = "chi" -> ChiGroup(g, prefix)
    [] adapter = "nethttp" /\ groups[g].parent = 0 -> NetHTTPGroup(g, prefix)
    [] OTHER -> NetHTTPSubGroup(g, prefix)

(* Mutant: the new middlewares take the place of the old ones.             *)
JoinedAnew(old, new) == new

(* The slice With makes.                                                   *)
Joined(old, new) == old \o new

(* With: the middlewares of the value, then the new ones.                  *)
GinWith(v, mws) == [v EXCEPT !.own = Joined(@, mws)]
FiberWith(v, mws) == [v EXCEPT !.own = Joined(@, mws)]
ChiWith(v, mws) == [v EXCEPT !.own = Joined(@, mws)]
NetHTTPWith(v, mws) == [v EXCEPT !.own = Joined(@, mws)]
NetHTTPSubWith(v, mws) == [v EXCEPT !.own = Joined(@, mws)]

AdapterWith(v, mws) ==
  LET new == CASE adapter = "gin" -> GinWith(v, mws)
               [] adapter = "fiber" -> FiberWith(v, mws)
               [] adapter = "chi" -> ChiWith(v, mws)
               [] adapter = "nethttp" /\ v.parent = 0 -> NetHTTPWith(v, mws)
               [] OTHER -> NetHTTPSubWith(v, mws)
  IN  [new EXCEPT !.asked = @ \o mws]

(* The middlewares Handle gives to wrapHandler, outermost first.           *)
GinHandle(g) == groups[g].own
FiberHandle(g) == groups[g].own
ChiHandle(g) == groups[g].own
NetHTTPHandle(g) == groups[g].own
NetHTTPSubHandle(g) == groups[groups[g].parent].own \o groups[g].own

AdapterHandle(g) ==
  CASE adapter = "gin" -> GinHandle(g)
    [] adapter = "fiber" -> FiberHandle(g)
    [] adapter = "chi" -> ChiHandle(g)
    [] adapter = "nethttp" /\ groups[g].parent = 0 -> NetHTTPHandle(g)
    [] OTHER -> NetHTTPSubHandle(g)

(* middlewareRouter adds the global middlewares to every group, to every   *)
(* With, before the new ones, and to every handler registered directly.    *)
AppGroup(g, prefix) ==
  IF g = 1 THEN AdapterWith(AdapterGroup(g, prefix), globals) ELSE AdapterGroup(g, prefix)
AppWith(g, mw) == AdapterWith(groups[g], IF g = 1 THEN Append(globals, mw) ELSE <<mw>>)
AppHandle(g) == AdapterHandle(g) \o (IF g = 1 THEN globals ELSE <<>>)

(* The operations in the order they are registered, static routes first.   *)
Operations ==
  << [op |-> "New",     method |-> "GET",    tail |-> <<"new">>],
     [op |-> "Edit",    method |-> "GET",    tail |-> <<Param, "edit">>],
     [op |-> "List",    method |-> "GET",    tail |-> <<>>],
     [op |-> "Create",  method |-> "POST",   tail |-> <<>>],
     [op |-> "Show",    method |-> "GET",    tail |-> <<Param>>],
     [op |-> "Update",  method |-> "PUT",    tail |-> <<Param>>],
     [op |-> "Alias",   method |-> "PATCH",  tail |-> <<Param>>],
     [op |-> "Destroy", method |-> "DELETE", tail |-> <<Param>>] >>

(* A position behind every route.                                          *)
NotYet == MaxDirect + Cardinality(Resources) * Len(Operations) + 1

(***************************************************************************)
(* Matching.                                                               *)
(***************************************************************************)
Matches(pattern, path) ==
  /\ Len(pattern) = Len(path)
  /\ \A k \in DOMAIN path : pattern[k] \in {Param, path[k]}

(* A pattern is more specific that has a literal where they first differ.  *)
MoreSpecific(p, q) ==
  \E k \in DOMAIN p \cap DOMAIN q :
    /\ p[k] # Param /\ q[k] = Param
    /\ \A j \in 1..(k - 1) : p[j] = q[j]

OfPath(path) == {i \in DOMAIN routes : Matches(routes[i].pattern, path)}
OfRequest(method, path) == {i \in OfPath(path) : routes[i].method = method}

Best(method, path) ==
  LET all == OfRequest(method, path)
  IN  {i \in all : \A j \in all : ~MoreSpecific(routes[j].pattern, routes[i].pattern)}

(* The route the framework runs: Fiber the first registered, the others the*)
(* most specific, and of two equal ones chi the last (external).           *)
Matched(method, path) ==
  IF adapter = "fiber" THEN Min(OfRequest(method, path)) ELSE Max(Best(method, path))

(* Fiber: the registeredRoutes of the router itself; the values made by    *)
(* Group and With record theirs elsewhere.                                 *)
Recorded == {i \in DOMAIN routes : routes[i].via = 1}

(* fiberPathMatches: segment by segment, as Fiber itself would.            *)
FiberPathMatches(pattern, path) ==
  pattern = path \/ Matches(pattern, path)

(* Mutant: an exact match does not end the search.                         *)
CatchAllAnyMethod(method, path) ==
  IF OfPath(path) # {} /\ "notAllowed" \in fallbacks THEN <<"notAllowed">>
  ELSE IF "notFound" \in fallbacks THEN <<"notFound">> ELSE <<>>

(* The handler of the catch-all: 405 if recorded routes match the path but *)
(* none of them the method, otherwise 404; none that was not set.          *)
CatchAllChooses(method, path) ==
  LET seen == {i \in Recorded : FiberPathMatches(routes[i].pattern, path)}
      other == seen # {} /\ method \notin {routes[i].method : i \in seen}
  IN  IF other /\ "notAllowed" \in fallbacks THEN <<"notAllowed">>
      ELSE IF "notFound" \in fallbacks THEN <<"notFound">> ELSE <<>>

(* What runs for a request no route matches.  net/http's mux sees "/" as a *)
(* route for every method once NotFound is set; without it intercept405    *)
(* replaces the mux's 405.                                                 *)
Set(f) == IF f \in fallbacks THEN <<f>> ELSE <<>>
FrameworkChooses(path) == Set(IF OfPath(path) # {} THEN "notAllowed" ELSE "notFound")
Intercept405(path) == IF "notFound" \in fallbacks THEN <<"notFound">> ELSE FrameworkChooses(path)
CatchAll(method, path) ==
  IF catchAll = NotYet \/ nextFails THEN <<>> ELSE CatchAllChooses(method, path)

Unmatched(method, path) ==
  CASE adapter = "fiber" -> CatchAll(method, path)
    [] adapter = "nethttp" -> Intercept405(path)
    [] OTHER -> FrameworkChooses(path)

(***************************************************************************)
(* resources.Register.                                                     *)
(***************************************************************************)
(* ValidatePattern, when the name of the parameter has a brace in it.      *)
Refused(r, operation) == ~r.idOk /\ Param \in Range(operation.tail)

(* What is registered for resource r: its operations, the 405 answer for   *)
(* the missing ones if it has Defaults (never for the PATCH alias), up to  *)
(* the first pattern ValidatePattern refuses.                              *)
Wanted(r, o) == \/ o.op \in r.ops
                \/ o.op = "Alias" /\ r.alias /\ "Update" \in r.ops
                \/ o.op # "Alias" /\ o.op \notin r.ops /\ r.defaults
Entry(r, k) == IF Wanted(r, Operations[k]) THEN <<Operations[k]>> ELSE <<>>

Entries(r) ==
  LET wanted == Entry(r, 1) \o Entry(r, 2) \o Entry(r, 3) \o Entry(r, 4)
                \o Entry(r, 5) \o Entry(r, 6) \o Entry(r, 7) \o Entry(r, 8)
      bad == {i \in DOMAIN wanted : Refused(r, wanted[i])}
  IN  IF bad = {} THEN wanted ELSE SubSeq(wanted, 1, Min(bad) - 1)

(***************************************************************************)
(* Registration.                                                           *)
(***************************************************************************)
Route(g, method, pattern, of, name) ==
  [method |-> method, pattern |-> groups[g].prefix \o pattern, via |-> g,
   chain |-> AppHandle(g), of |-> of, name |-> name]

(* Gin and net/http panic on a second handler for a method and pattern.    *)
Collides(entry) ==
  /\ adapter \in {"gin", "nethttp"}
  /\ \E i \in DOMAIN routes : routes[i].method = entry.method /\ routes[i].pattern = entry.pattern

(* The programs considered register what is under the prefix of a group    *)
(* through that group: how frameworks rank a mounted group against a route *)
(* beside it is outside this model.                                        *)
ThroughGroup(pattern, prefix, all) ==
  \A h \in DOMAIN all : IsPrefix(all[h].prefix, pattern) => IsPrefix(all[h].prefix, prefix)

RoutingInit ==
  /\ adapter \in Adapters /\ globals \in Globals
  /\ groups = <<Root>>
  /\ routes = <<>> /\ fallbacks = {} /\ catchAll = NotYet
  /\ nextFails \in IF adapter = "fiber" THEN BOOLEAN ELSE {FALSE}
  /\ crashed = FALSE

(* wireErrorHandler: SetErrorHandler on the router.                        *)
SetErrorHandler ==
  /\ ~crashed /\ ~groups[1].errs
  /\ groups' = [groups EXCEPT ![1].errs = TRUE]
  /\ UNCHANGED <<adapter, globals, routes, fallbacks, catchAll, nextFails, crashed>>

(* NotFound and MethodNotAllowed.  On Fiber the first of them registers the*)
(* catch-all, the other finds it; a second "/" makes net/http's mux panic; *)
(* chi and Gin keep the last.                                              *)
RegisterCatchAll == catchAll' = IF catchAll = NotYet THEN Len(routes) ELSE catchAll
SetFallback(f) ==
  /\ ~crashed
  /\ fallbacks' = fallbacks \cup {f}
  /\ crashed' = (adapter = "nethttp" /\ f = "notFound" /\ f \in fallbacks)
  /\ IF adapter = "fiber" THEN RegisterCatchAll ELSE UNCHANGED catchAll
  /\ UNCHANGED <<adapter, globals, groups, routes, nextFails>>

(* chi mounts a group, and panics when the prefix is mounted already.      *)
Group(g, prefix) ==
  /\ ~crashed /\ Len(groups) < MaxGroups
  /\ LET new == AppGroup(g, prefix) IN
     /\ \A i \in DOMAIN routes :
          IsPrefix(new.prefix, routes[i].pattern) =>
            IsPrefix(new.prefix, groups[routes[i].via].prefix)
     /\ crashed' = (adapter = "chi" /\ \E h \in DOMAIN groups : groups[h].prefix = new.prefix)
     /\ groups' = Append(groups, new)
  /\ UNCHANGED <<adapter, globals, routes, fallbacks, catchAll, nextFails>>

With(g, mw) ==
  /\ ~crashed /\ Len(groups) < MaxGroups
  /\ mw \notin Range(groups[g].asked)
  /\ groups' = Append(groups, AppWith(g, mw))
  /\ UNCHANGED <<adapter, globals, routes, fallbacks, catchAll, nextFails, crashed>>

(* RegisterEndpoint on a group.                                            *)
Handle(g, method, pattern) ==
  LET entry == Route(g, method, pattern, <<>>, "Direct") IN
  /\ ~crashed /\ Cardinality({i \in DOMAIN routes : routes[i].of = <<>>}) < MaxDirect
  /\ ThroughGroup(entry.pattern, groups[g].prefix, groups)
  /\ crashed' = Collides(entry)
  /\ routes' = IF crashed' THEN routes ELSE Append(routes, entry)
  /\ UNCHANGED <<adapter, globals, groups, fallbacks, catchAll, nextFails>>

(* A resource is registered once, on one group.                            *)
Register(g, r) ==
  LET entries == Entries(r)
      new == [i \in DOMAIN entries |->
                Route(g, entries[i].method, r.path \o entries[i].tail, r.path,
                      IF entries[i].op \in r.ops \cup {"Alias"} THEN entries[i].op ELSE "Default405")]
      hit == {i \in DOMAIN new : Collides(new[i])}
  IN
  /\ ~crashed
  /\ \A i \in DOMAIN routes : routes[i].of # r.path
  /\ \A i \in DOMAIN new : ThroughGroup(new[i].pattern, groups[g].prefix, groups)
  /\ crashed' = (hit # {})
  /\ routes' = routes \o (IF crashed' THEN SubSeq(new, 1, Min(hit) - 1) ELSE new)
  /\ UNCHANGED <<adapter, globals, groups, fallbacks, catchAll, nextFails>>

RoutingNext ==
  \/ SetErrorHandler
  \/ \E f \in Fallbacks : SetFallback(f)
  \/ \E g \in DOMAIN groups :
       \/ \E p \in GroupPrefixes : Group(g, p)
       \/ \E mw \in Middleware : With(g, mw)
       \/ \E d \in Direct : Handle(g, d[1], d[2])
       \/ \E r \in Resources : Register(g, r)

RoutingSpec == RoutingInit /\ [][RoutingNext]_routingVars

(***************************************************************************)
(* Serving.  The matched handler answers, answers 404 itself, fails before *)
(* or after answering; a failure that has answered nothing is dispatched   *)
(* to the error registry, or answered 500.                                 *)
(***************************************************************************)
Outcomes == {"ok", "missing", "fails", "failsLate"}

(* The error path of wrapHandler: what is not committed yet is dispatched  *)
(* to the response handler the value knows.  A sub-group has its router's. *)
Wrapped(known, outcome) ==
  CASE outcome = "missing" -> 404
    [] outcome = "fails" -> IF known THEN 404 ELSE 500
    [] OTHER -> 200

GinWrapped(g, outcome) == Wrapped(groups[g].errs, outcome)
FiberWrapped(g, outcome) == Wrapped(groups[g].errs, outcome)
ChiWrapped(g, outcome) == Wrapped(groups[g].errs, outcome)
NetHTTPWrapped(g, outcome) ==
  LET router == IF groups[g].parent = 0 THEN g ELSE groups[g].parent
  IN  Wrapped(groups[router].errs, outcome)

StatusOf(g, outcome) ==
  CASE adapter = "gin" -> GinWrapped(g, outcome)
    [] adapter = "fiber" -> FiberWrapped(g, outcome)
    [] adapter = "chi" -> ChiWrapped(g, outcome)
    [] OTHER -> NetHTTPWrapped(g, outcome)

(* The catch-all runs around every route registered behind it, and takes a *)
(* 404 for a request that nothing matched.                                 *)
AfterRoute(i, method, path, status) ==
  IF adapter = "fiber" /\ catchAll < i /\ status = 404 THEN CatchAllChooses(method, path) ELSE <<>>

(* The handlers a request runs.  Serving changes nothing of the above.     *)
Runs(method, path, outcome) ==
  IF OfRequest(method, path) = {} THEN Unmatched(method, path)
  ELSE LET i == Matched(method, path)
       IN  <<routes[i].name>> \o AfterRoute(i, method, path, StatusOf(routes[i].via, outcome))

(***************************************************************************)
(* Properties.                                                             *)
(***************************************************************************)
RoutingTypeOK ==
  /\ adapter \in Adapters /\ globals \in Globals
  /\ Len(groups) \in 1..MaxGroups /\ Len(routes) < NotYet
  /\ fallbacks \subseteq Fallbacks /\ catchAll \in 0..NotYet
  /\ nextFails \in BOOLEAN /\ crashed \in BOOLEAN

Asked(g) == IF g = 1 THEN globals ELSE groups[g].asked

(* Every route runs the global middlewares, then those of the With calls   *)
(* its group came from, in that order and none missing, whatever mixture   *)
(* of Group and With led to it; once each, but that net/http runs twice    *)
(* what a With before the Group added (the sub-group of a router copies    *)
(* its middlewares and Handle adds the router's again).                    *)
MiddlewareOnce ==
  \A i \in DOMAIN routes :
    LET asked == Asked(routes[i].via)
        chain == routes[i].chain
        late == Len(chain) - Len(asked)
    IN  /\ late >= 0 /\ SubSeq(chain, late + 1, Len(chain)) = asked
        /\ SubSeq(chain, 1, late) = SubSeq(asked, 1, late)
        /\ late > 0 => adapter = "nethttp" /\ groups[routes[i].via].parent > 1

(* A request that only one resource has routes for runs its most specific  *)
(* one, on the adapter that takes the first match too: "/new" is never     *)
(* taken for an id, nor is a PATCH lost, whatever operations are missing.  *)
StaticFirst ==
  \A q \in Served :
    LET all == OfRequest(q[1], q[2])
        of == {routes[i].of : i \in all}
    IN  Cardinality(of) = 1 /\ of # {<<>>} => Matched(q[1], q[2]) \in Best(q[1], q[2])

(* The 405 handler runs for a path that has a route, but none for the      *)
(* method.  A route that answers 404 itself is not taken for a wrong       *)
(* method, unless Fiber's catch-all sees only the routes of the router and *)
(* that one is a group's.                                                  *)
FallbackFits ==
  \A q \in Served, o \in Outcomes :
    "notAllowed" \in Range(Runs(q[1], q[2], o)) =>
      /\ OfPath(q[2]) # {}
      /\ \A i \in OfRequest(q[1], q[2]) : adapter = "fiber" /\ i \notin Recorded

(* A request runs what is meant for it: StaticFirst and FallbackFits.      *)
RightHandler == StaticFirst /\ FallbackFits

(* What the catch-all of Fiber promises: the 404 handler is for requests   *)
(* no route matches, so what a route answered is left as it is.            *)
AnsweredByItsRoute ==
  \A q \in Served, o \in Outcomes : Len(Runs(q[1], q[2], o)) <= 1
=============================================================================
