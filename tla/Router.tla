------------------------------- MODULE Router -------------------------------
(***************************************************************************)
(* The echo server's radix-tree router (server/echo/router.go) and the     *)
(* dispatch ServeHTTP builds on it (server/echo/server.go).                *)
(*                                                                         *)
(* Paths are sequences of one-character strings. The tree is a sequence   *)
(* of node records; a node's index is its pointer, 0 is nil and the root  *)
(* is 1. A handler map h is a function from Methods to NoEntry (no key),  *)
(* NilFn (a key holding nil) or the number of the route registered with    *)
(* it. The state is the tree and the routes registered so far; add is one *)
(* action, performed before Serve; find is a pure operator.                *)
(***************************************************************************)
EXTENDS Integers, Sequences, SequencesExt

CONSTANTS
  Methods,      \* HTTP methods routes are registered for
  Patterns,     \* route patterns, as sequences of characters
  MaxRoutes,    \* bound on the registrations of one behaviour
  MaxFindSteps, \* bound on find's loop iterations, a guard against divergence
  ParamValues,  \* values a request puts where a pattern has a :name
  WildRests     \* remainders a request puts where a pattern has a *

VARIABLES
  tree,         \* r.tree and every node reachable from it
  routes        \* r.routes: <<method, path>> in registration order

vars == <<tree, routes>>

NoEntry == -1
NilFn == 0

(* The size of the pvalues slice find allocates.                           *)
PValuesLen == 5

EmptyHandler == [m \in Methods |-> NoEntry]

(* newNode: label is pre[0]; the parent pointer is never read by find and *)
(* is left out.                                                            *)
NewNode(t, pre, c, h, ppath, pnames) ==
  [kind |-> t, label |-> pre[1], prefix |-> pre, children |-> c, h |-> h,
   ppath |-> ppath, pnames |-> pnames]

(* The length of the longest common prefix, the LCP loops of insert and   *)
(* find.                                                                   *)
Lcp(s, t) == Len(LongestCommonPrefix({s, t}))

Drop(s, l) == SubSeq(s, l + 1, Len(s))

Take(s, l) == SubSeq(s, 1, l)

(* node.find, findByKind and findByLabel: the first child that matches,    *)
(* 0 (nil) if none; on a nil node they dereference nil.                    *)
FindChild(t, n, l, k) ==
  LET cs == t[n].children
      i == SelectInSeq(cs, LAMBDA c : t[c].label = l /\ t[c].kind = k)
  IN IF i = 0 THEN 0 ELSE cs[i]

FindByKind(t, n, k) ==
  LET cs == t[n].children
      i == SelectInSeq(cs, LAMBDA c : t[c].kind = k)
  IN IF i = 0 THEN 0 ELSE cs[i]

FindByLabel(t, n, l) ==
  LET cs == t[n].children
      i == SelectInSeq(cs, LAMBDA c : t[c].label = l)
  IN IF i = 0 THEN 0 ELSE cs[i]

AddChild(t, n, c) == [t EXCEPT ![n].children = Append(@, c)]

(* insert, node already exists: only a non-nil handler is stored.        *)
SetHandlerUnguarded(t, cn, method, h, ppath, pnames) ==
  [t EXCEPT ![cn] = [@ EXCEPT !.h = [@ EXCEPT ![method] = h],
                              !.ppath = ppath, !.pnames = pnames]]

SetHandler(t, cn, method, h, ppath, pnames) ==
  IF h # NilFn
    THEN [t EXCEPT ![cn] = [@ EXCEPT !.h = [@ EXCEPT ![method] = h],
                                    !.ppath = ppath, !.pnames = pnames]]
    ELSE t

(* find at an any node: the slot of the wildcard's value in pvalues.       *)
AnySlotOffByOne(t, c) == Len(t[c].pnames) - 2

AnySlot(t, c) == Len(t[c].pnames) - 1

-----------------------------------------------------------------------------
(* Router.insert: from node cn, with the part of the path still to place. *)
RECURSIVE InsertFrom(_, _, _, _, _, _, _, _)
InsertFrom(t, cn, search, method, h, k, ppath, pnames) ==
  LET node == t[cn]
      sl == Len(search)
      pl == Len(node.prefix)
      l == Lcp(search, node.prefix)
      fresh == Len(t) + 1
  IN
  CASE l = 0 ->
         \* At root node.
         [t EXCEPT ![cn] = [@ EXCEPT !.label = search[1], !.prefix = search,
                                     !.kind = IF h # NilFn THEN k ELSE @,
                                     !.h = IF h # NilFn THEN [@ EXCEPT ![method] = h] ELSE @,
                                     !.ppath = IF h # NilFn THEN ppath ELSE @,
                                     !.pnames = IF h # NilFn THEN pnames ELSE @]]
    [] l < pl ->
         \* Split node: the old suffix moves to a new child with the old
         \* children and handlers, and cn is reset.
         LET moved == NewNode(node.kind, Drop(node.prefix, l), node.children,
                              node.h, node.ppath, node.pnames)
             reset == [kind |-> "s", label |-> node.prefix[1],
                       prefix |-> Take(node.prefix, l), children |-> <<fresh>>,
                       h |-> EmptyHandler, ppath |-> <<>>, pnames |-> <<>>]
             split == [t EXCEPT ![cn] = reset] \o <<moved>>
         IN IF l = sl
              THEN [split EXCEPT ![cn] = [@ EXCEPT !.kind = k,
                                                  !.h = [@ EXCEPT ![method] = h],
                                                  !.ppath = ppath, !.pnames = pnames]]
              ELSE AddChild(split \o <<NewNode(k, Drop(search, l), <<>>,
                                           [EmptyHandler EXCEPT ![method] = h],
                                           ppath, pnames)>>,
                            cn, fresh + 1)
    [] l < sl ->
         LET rest == Drop(search, l)
             c == FindByLabel(t, cn, rest[1])
         IN IF c # 0
              THEN InsertFrom(t, c, rest, method, h, k, ppath, pnames)
              ELSE AddChild(t \o <<NewNode(k, rest, <<>>,
                                           [EmptyHandler EXCEPT ![method] = h],
                                           ppath, pnames)>>,
                            cn, fresh)
    [] OTHER -> SetHandler(t, cn, method, h, ppath, pnames)

Insert(t, method, path, h, k, ppath, pnames) ==
  InsertFrom(t, 1, path, method, h, k, ppath, pnames)

(* Router.add, from position i (0-based as in the code) of the path, which *)
(* has its parameter names cut out as the loop goes.                       *)
RECURSIVE AddFrom(_, _, _, _, _, _, _)
AddFrom(t, method, path, i, ppath, pnames, h) ==
  IF i >= Len(path)
    THEN Insert(t, method, path, h, "s", ppath, pnames)
  ELSE IF path[i + 1] = ":"
    THEN LET j == i + 1
             t1 == Insert(t, method, Take(path, i), NilFn, "s", <<>>, <<>>)
             \* i advances to the next "/" or the end of the path
             end == LET k == SelectInSubSeq(path, j + 1, Len(path),
                                            LAMBDA ch : ch = "/")
                    IN IF k = 0 THEN Len(path) ELSE k - 1
             names == Append(pnames, SubSeq(path, j + 1, end))
             cut == Take(path, j) \o Drop(path, end)
             t2 == Insert(t1, method, Take(cut, j),
                          IF j = Len(cut) THEN h ELSE NilFn, "p", ppath, names)
         IN AddFrom(t2, method, cut, j + 1, ppath, names, h)
  ELSE IF path[i + 1] = "*"
    THEN LET t1 == Insert(t, method, Take(path, i), NilFn, "s", <<>>, <<>>)
         IN Insert(t1, method, Take(path, i + 1), h, "a", ppath,
                   Append(pnames, <<"_", "*">>))
  ELSE AddFrom(t, method, path, i + 1, ppath, pnames, h)

RouterAdd(t, method, path, h) == AddFrom(t, method, path, 0, path, <<>>, h)

-----------------------------------------------------------------------------
(* Router.find. Its gotos are the labels "loop", "param", "any" and "end" *)
(* of a loop over a record of its local variables; the result is          *)
(* [node, pvalues, fn] or a panic (an index out of range or a nil          *)
(* dereference) or a divergence past MaxFindSteps.                         *)
FindPanic == [outcome |-> "panic"]
FindDiverge == [outcome |-> "diverge"]
NotFound == [outcome |-> "found", node |-> 0, pvalues |-> <<>>, fn |-> NilFn]

RECURSIVE FindAt(_, _, _, _, _)
FindAt(t, method, at, st, fuel) ==
  LET cn == st.cn IN
  CASE fuel = 0 -> FindDiverge
    [] at # "end" /\ at # "loop" /\ cn = 0 -> FindPanic
    [] at = "loop" ->
         IF st.search = <<>> THEN FindAt(t, method, "end", st, fuel - 1) ELSE
         LET pl == IF t[cn].label # ":" THEN Len(t[cn].prefix) ELSE 0
             l == IF t[cn].label # ":" THEN Lcp(st.search, t[cn].prefix) ELSE 0
         IN IF l # pl
              THEN LET back == [st EXCEPT !.cn = st.nn, !.search = st.ns]
                   IN CASE st.nk = "p" -> FindAt(t, method, "param", back, fuel - 1)
                        [] st.nk = "a" -> FindAt(t, method, "any", back, fuel - 1)
                        [] OTHER -> NotFound
              ELSE
              LET s1 == [st EXCEPT !.search = Drop(@, l)]
                  c == IF s1.search = <<>> THEN 0 ELSE FindChild(t, cn, s1.search[1], "s")
              IN CASE s1.search = <<>> -> FindAt(t, method, "end", s1, fuel - 1)
                   [] c # 0 ->
                        FindAt(t, method, "loop",
                               [s1 EXCEPT !.cn = c,
                                          !.nk = IF t[cn].label = "/" THEN "p" ELSE @,
                                          !.nn = IF t[cn].label = "/" THEN cn ELSE @,
                                          !.ns = IF t[cn].label = "/" THEN s1.search ELSE @],
                               fuel - 1)
                   [] OTHER -> FindAt(t, method, "param", s1, fuel - 1)
    [] at = "param" ->
         LET c == FindByKind(t, cn, "p") IN
         IF c = 0 THEN FindAt(t, method, "any", st, fuel - 1) ELSE
         LET k == SelectInSeq(st.search, LAMBDA ch : ch = "/")
             i == IF k = 0 THEN Len(st.search) ELSE k - 1
         IN IF st.n >= PValuesLen THEN FindPanic ELSE
            FindAt(t, method, "loop",
                   [st EXCEPT !.cn = c,
                              !.nk = IF t[cn].label = "/" THEN "a" ELSE @,
                              !.nn = IF t[cn].label = "/" THEN cn ELSE @,
                              !.ns = IF t[cn].label = "/" THEN st.search ELSE @,
                              !.pvalues = [@ EXCEPT ![st.n + 1] = Take(st.search, i)],
                              !.n = @ + 1,
                              !.search = Drop(st.search, i)],
                   fuel - 1)
    [] at = "any" ->
         LET c == FindByKind(t, cn, "a") IN
         IF c = 0
           THEN IF st.nn = 0 THEN NotFound ELSE
                LET back == [st EXCEPT !.cn = st.nn, !.nn = 0, !.search = st.ns]
                IN CASE st.nk = "p" -> FindAt(t, method, "param", back, fuel - 1)
                     [] st.nk = "a" -> FindAt(t, method, "any", back, fuel - 1)
                     [] OTHER -> NotFound
           ELSE LET idx == AnySlot(t, c)
                IN IF idx < 0 \/ idx >= PValuesLen THEN FindPanic ELSE
                   FindAt(t, method, "end",
                          [st EXCEPT !.cn = c,
                                     !.pvalues = [@ EXCEPT ![idx + 1] = st.search]],
                          fuel - 1)
    [] at = "end" ->
         IF cn = 0 THEN FindPanic
         ELSE IF t[cn].h[method] # NoEntry
           THEN [outcome |-> "found", node |-> cn, pvalues |-> st.pvalues,
                 fn |-> t[cn].h[method]]
         ELSE LET c == FindByKind(t, cn, "a")
              IN IF c = 0 THEN NotFound
                 ELSE [outcome |-> "found", node |-> c, pvalues |-> st.pvalues,
                       fn |-> IF t[c].h[method] \in {NoEntry, NilFn} THEN NilFn
                              ELSE t[c].h[method]]

RouterFind(t, method, path) ==
  FindAt(t, method, "loop",
         [cn |-> 1, search |-> path, n |-> 0, nk |-> "s", nn |-> 0, ns |-> <<>>,
          pvalues |-> [i \in 1 .. PValuesLen |-> <<>>]],
         MaxFindSteps)

(* ServeHTTP's use of find: the node's parameter names are paired with the *)
(* values (pvalues[i] for each i, out of range past five), and node.fn, if *)
(* a handler, replaces the not-found handler. The result is the route      *)
(* number handling the request and its parameters, 0 for not found.       *)
Dispatch(t, method, path) ==
  LET f == RouterFind(t, method, path) IN
  IF f.outcome # "found" THEN f
  ELSE IF f.node = 0 THEN [outcome |-> "found", route |-> 0, params |-> <<>>]
  ELSE LET names == t[f.node].pnames
       IN IF Len(names) > PValuesLen THEN FindPanic
          ELSE [outcome |-> "found",
                route |-> IF f.fn > 0 THEN f.fn ELSE 0,
                params |-> [i \in 1 .. Len(names) |-> <<names[i], f.pvalues[i]>>]]

-----------------------------------------------------------------------------
(* The matching spec.md (4.1 Router) describes: a pattern is a sequence of *)
(* static characters, :name parameters (up to the next "/") and a final    *)
(* "*"; a parameter matches a non-empty run of characters other than "/", *)
(* the wildcard the rest of the path. Precedence is static > param >       *)
(* wildcard at the first position two matches differ; a match that ends   *)
(* beats one that goes on; of two routes with the same shape the later     *)
(* registration wins. The path is matched by shape first, over the routes *)
(* of every method; if the winning shape has no route for the request's   *)
(* method the match fails, "even if the path matched structurally".        *)
RECURSIVE Tokens(_)
Tokens(p) ==
  IF p = <<>> THEN <<>>
  ELSE CASE Head(p) = ":" ->
              LET k == SelectInSeq(Tail(p), LAMBDA ch : ch = "/")
                  name == IF k = 0 THEN Tail(p) ELSE Take(Tail(p), k - 1)
              IN <<[k |-> "p", name |-> name]>> \o Tokens(Drop(p, 1 + Len(name)))
         [] Head(p) = "*" -> <<[k |-> "a", name |-> <<"_", "*">>]>>
         [] OTHER -> <<[k |-> "s", c |-> Head(p)]>> \o Tokens(Tail(p))

NoMatch == [ok |-> FALSE]

RECURSIVE RefMatch(_, _)
RefMatch(toks, path) ==
  IF toks = <<>> THEN IF path = <<>> THEN [ok |-> TRUE, kinds |-> <<>>, params |-> <<>>]
                      ELSE NoMatch
  ELSE LET tk == Head(toks)
           k == SelectInSeq(path, LAMBDA ch : ch = "/")
           run == IF k = 0 THEN path ELSE Take(path, k - 1)
           more(kind, consumed, param) ==
             LET r == RefMatch(Tail(toks), Drop(path, consumed))
             IN IF r.ok THEN [r EXCEPT !.kinds = <<kind>> \o @, !.params = param \o @]
                ELSE NoMatch
       IN CASE tk.k = "s" -> IF path # <<>> /\ Head(path) = tk.c THEN more("s", 1, <<>>)
                              ELSE NoMatch
            [] tk.k = "p" -> IF run # <<>> THEN more("p", Len(run), <<<<tk.name, run>>>>)
                              ELSE NoMatch
            [] OTHER -> [ok |-> TRUE, kinds |-> <<"a">>, params |-> <<<<tk.name, path>>>>]

Rank(k) == CASE k = "s" -> 0 [] k = "p" -> 1 [] OTHER -> 2

(* Kind sequence a takes precedence over b.                                *)
Precedes(a, b) ==
  \/ \E i \in 1 .. Len(a) :
       /\ i <= Len(b)
       /\ SubSeq(a, 1, i - 1) = SubSeq(b, 1, i - 1)
       /\ Rank(a[i]) < Rank(b[i])
  \/ IsStrictPrefix(a, b)

Reference(rs, method, path) ==
  LET cand == {i \in 1 .. Len(rs) : RefMatch(Tokens(rs[i][2]), path).ok}
      kinds(i) == RefMatch(Tokens(rs[i][2]), path).kinds
      best == {i \in cand : \A j \in cand : ~Precedes(kinds(j), kinds(i))}
      mine == {i \in best : rs[i][1] = method}
  IN IF mine = {} THEN [outcome |-> "found", route |-> 0, params |-> <<>>]
     ELSE LET i == Max(mine)
          IN [outcome |-> "found", route |-> i,
              params |-> RefMatch(Tokens(rs[i][2]), path).params]

(* The request paths that are literal expansions of a pattern.            *)
RECURSIVE ExpandTokens(_)
ExpandTokens(toks) ==
  IF toks = <<>> THEN {<<>>}
  ELSE LET tk == Head(toks)
           heads == CASE tk.k = "s" -> {<<tk.c>>}
                      [] tk.k = "p" -> ParamValues
                      [] OTHER -> WildRests
       IN {h \o r : h \in heads, r \in ExpandTokens(Tail(toks))}

Expansions(p) == ExpandTokens(Tokens(p))

-----------------------------------------------------------------------------
(* newRouter: a tree of one static root node with an empty handler map.   *)
NewRouter == <<[kind |-> "s", label |-> "", prefix |-> <<>>, children |-> <<>>,
                h |-> EmptyHandler, ppath |-> <<>>, pnames |-> <<>>]>>

Init ==
  /\ tree = NewRouter
  /\ routes = <<>>

(* Server.add for a (method, pattern) not yet registered: the route is     *)
(* appended to r.routes and inserted in the tree, its handler being the    *)
(* registration's number.                                                  *)
Add(m, p) ==
  /\ Len(routes) < MaxRoutes
  /\ <<m, p>> \notin ToSet(routes)
  /\ routes' = Append(routes, <<m, p>>)
  /\ tree' = RouterAdd(tree, m, p, Len(routes) + 1)

Next == \E m \in Methods, p \in Patterns : Add(m, p)

Spec == Init /\ [][Next]_vars

-----------------------------------------------------------------------------
(* A lookup on a registered path never panics and never loops: find's     *)
(* fixed five-slot pvalues, its pnames index and its backtracking to a    *)
(* saved node hold up for every expansion of every registered pattern.     *)
FindTotal ==
  \A i \in 1 .. Len(routes) :
    \A m \in Methods, e \in Expansions(routes[i][2]) :
      Dispatch(tree, m, e).outcome = "found"

(* Static precedence (spec.md, Router correctness): a pattern without      *)
(* parameters or wildcard is always found, for its method, as itself,      *)
(* whatever was registered before or after it.                             *)
StaticRoutesFound ==
  \A i \in 1 .. Len(routes) :
    LET r == routes[i] IN
    ({":", "*"} \cap ToSet(r[2]) = {}
       /\ \A j \in i + 1 .. Len(routes) : routes[j] # r)
      => Dispatch(tree, r[1], r[2]) = [outcome |-> "found", route |-> i, params |-> <<>>]

(* Router correctness (spec.md, 4.1 and the Router correctness property): *)
(* for every registered route and every literal expansion of its pattern, *)
(* ServeHTTP's lookup (Router.find, then node.pnames and node.fn) picks    *)
(* the route the precedence rules pick, with its parameter values in      *)
(* order, and neither panics nor loops.                                    *)
RouterCorrect ==
  \A i \in 1 .. Len(routes) :
    \A e \in Expansions(routes[i][2]) :
      Dispatch(tree, routes[i][1], e) = Reference(routes, routes[i][1], e)

=============================================================================
