----------------------------- MODULE RouteTable -----------------------------
(***************************************************************************)
(* GatewayConfig::build_trie and match_route (gateway/gateway_config.cpp). *)
(* A path is a sequence of characters, a route a record with its prefix    *)
(* and whether it is exact; routes are named by their place in m_routes,   *)
(* 0 standing for the null RouteConfig*.                                   *)
(***************************************************************************)
EXTENDS Naturals, Sequences, SequencesExt

(* A TrieNode is named by the characters that lead to it; the root is <<>>.*)
Root == [n \in {<<>>} |-> 0]

NodesOn(path) == {SubSeq(path, 1, k) : k \in 0..Len(path)}

(* Mutant: a route does not replace an earlier one with its prefix.        *)
InsertFirst(trie, prefix, i) ==
    [n \in DOMAIN trie \cup NodesOn(prefix) |->
        IF n \in DOMAIN trie /\ trie[n] # 0 THEN trie[n] ELSE IF n = prefix THEN i ELSE 0]

(* The nodes missing on the way are created, the last one gets the route.  *)
Insert(trie, prefix, i) ==
    [n \in DOMAIN trie \cup NodesOn(prefix) |->
        IF n = prefix THEN i ELSE IF n \in DOMAIN trie THEN trie[n] ELSE 0]

(* One turn of its loop: route i goes into m_exact_map or into the trie.   *)
AddRoute(tab, route, i) ==
    IF route.exact
    THEN [tab EXCEPT !.exact = [p \in DOMAIN @ \cup {route.prefix} |->
                                    IF p = route.prefix THEN i ELSE @[p]]]
    ELSE [tab EXCEPT !.trie = Insert(@, route.prefix, i)]

(* build_trie: one pass over m_routes.                                     *)
BuildTrie(routes) ==
    LET tab[i \in 0..Len(routes)] ==
            IF i = 0 THEN [exact |-> <<>>, trie |-> Root]
            ELSE AddRoute(tab[i - 1], routes[i], i)
    IN tab[Len(routes)]

(* One turn of match_route's loop, which comes to node n or ends.          *)
Descend(w, trie, n) ==
    IF w.on /\ n \in DOMAIN trie
    THEN [w EXCEPT !.best = IF trie[n] # 0 THEN trie[n] ELSE @]
    ELSE [w EXCEPT !.on = FALSE]

(* Down the trie as far as it goes, keeping the last route met.            *)
LongestInTrie(trie, path) ==
    LET walk[k \in 0..Len(path)] ==
            IF k = 0 THEN [on |-> TRUE, best |-> 0]
            ELSE Descend(walk[k - 1], trie, SubSeq(path, 1, k))
    IN walk[Len(path)].best

(* Mutant: m_exact_map is not consulted.                                   *)
MatchTrieOnly(tab, path) == LongestInTrie(tab.trie, path)

(* match_route: the exact map first, then the trie.                        *)
MatchRoute(tab, path) ==
    IF path \in DOMAIN tab.exact THEN tab.exact[path] ELSE LongestInTrie(tab.trie, path)

(* What the two promise together: the exact route of the path, else the    *)
(* longest prefix of it, and among equal ones the last of the file.        *)
BestRoute(routes, path) ==
    LET exact == {i \in DOMAIN routes : routes[i].exact /\ routes[i].prefix = path}
        prefix == {i \in DOMAIN routes : ~routes[i].exact /\ IsPrefix(routes[i].prefix, path)}
        longest == {i \in prefix : \A j \in prefix : Len(routes[j].prefix) <= Len(routes[i].prefix)}
    IN IF exact # {} THEN Max(exact) ELSE IF prefix # {} THEN Max(longest) ELSE 0
=============================================================================
