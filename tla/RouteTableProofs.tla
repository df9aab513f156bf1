-------------------------- MODULE RouteTableProofs --------------------------
(***************************************************************************)
(* match_route on the table of build_trie finds BestRoute, for any routes  *)
(* and any path.                                                           *)
(*                                                                         *)
(* The two loops are recursive functions.  That such a function exists is  *)
(* shown by induction on its domain (BuildExists, WalkExists), and what it *)
(* computes by an invariant of the loop: TableInv for build_trie, WalkInv  *)
(* for match_route.  RouteFound compares the results with BestRoute.       *)
(***************************************************************************)
EXTENDS RouteTable, WellFoundedInduction, NaturalsInduction, SequenceTheorems, TLAPS

Text == Seq(STRING)

(* Routes as the parser leaves them: a route without prefix is skipped.    *)
Routes(routes, n) ==
    /\ n \in Nat /\ DOMAIN routes = 1 .. n
    /\ \A i \in 1 .. n : routes[i].prefix \in Text \ {<<>>} /\ routes[i].exact \in BOOLEAN
-----------------------------------------------------------------------------
(* Numbers                                                                 *)

LEMMA MinExists ==
    ASSUME NEW S \in SUBSET Nat, S # {}
    PROVE  \E x \in S : \A y \in S : x =< y
<1>1. IsWellFoundedOn(OpToRel(<, Nat), Nat)
  BY NatLessThanWellFounded
<1> DEFINE R == {p \in Nat \X Nat : p[1] < p[2]}
<1>2. IsWellFoundedOn(R, Nat)
  BY <1>1 DEF OpToRel
<1>3. \E x \in S : \A y \in S : ~(<<y, x>> \in R)
  <2> HIDE DEF R
  <2> QED BY <1>2, WFMin
<1>4. PICK x \in S : \A y \in S : ~(<<y, x>> \in R)
  BY <1>3
<1>5. \A y \in S : ~(y < x)
  BY <1>4
<1> QED BY <1>5

LEMMA MinMember ==
    ASSUME NEW S \in SUBSET Nat, S # {}
    PROVE  Min(S) \in S
BY MinExists DEF Min

LEMMA MaxMember ==
    ASSUME NEW S \in SUBSET Nat, S # {}, NEW b \in Nat, \A x \in S : x <= b
    PROVE  Max(S) \in S /\ \A x \in S : Max(S) >= x
<1> DEFINE D == {n \in Nat : \A x \in S : x <= n}
           m == Min(D)
<1>1. D \in SUBSET Nat /\ D # {}
  OBVIOUS
<1>2. m \in D
  BY <1>1, MinMember
<1>3. \A y \in D : m <= y
  <2>1. \E x \in D : \A y \in D : x =< y
    BY <1>1, MinExists
  <2> QED BY <2>1 DEF Min
<1> HIDE DEF m
<1>4. m \in S
  <2> SUFFICES ASSUME m \notin S PROVE FALSE
    OBVIOUS
  <2>1. PICK x \in S : TRUE
    OBVIOUS
  <2>2. m \in Nat /\ \A y \in S : y < m
    BY <1>2
  <2>3. m - 1 \in Nat /\ \A y \in S : y <= m - 1
    BY <2>1, <2>2
  <2>4. m - 1 \in D
    BY <2>3
  <2> QED BY <1>3, <2>2, <2>4
<1>5. \E x \in S : \A y \in S : x >= y
  BY <1>2, <1>4
<1> QED BY <1>5 DEF Max

(* The largest member is the one that is at least as large as all.         *)
LEMMA MaxUnique ==
    ASSUME NEW S \in SUBSET Nat, NEW m \in S, \A x \in S : x <= m
    PROVE  Max(S) = m
<1>1. Max(S) \in S /\ Max(S) >= m
  BY MaxMember
<1> DEFINE x == Max(S)
<1>2. x \in S /\ x >= m
  BY <1>1
<1> HIDE DEF x
<1>3. x <= m /\ x \in Nat /\ m \in Nat
  BY <1>2
<1>4. x = m
  BY <1>2, <1>3
<1> QED BY <1>4 DEF x

(* Induction, for a set of numbers.                                        *)
LEMMA Induction ==
    ASSUME NEW S, 0 \in S, \A n \in Nat : n \in S => n + 1 \in S
    PROVE  \A n \in Nat : n \in S
<1> DEFINE T == {n \in Nat : n \notin S}
<1> SUFFICES ASSUME T # {} PROVE FALSE
  OBVIOUS
<1>1. T \in SUBSET Nat
  OBVIOUS
<1>2. PICK m \in T : \A y \in T : m =< y
  <2> HIDE DEF T
  <2> QED BY <1>1, MinExists
<1>3. m \in Nat /\ m # 0 /\ m \notin S
  OBVIOUS
<1>4. m - 1 \in Nat /\ ~(m <= m - 1)
  BY <1>3
<1>5. m - 1 \in S
  BY <1>2, <1>4
<1>6. (m - 1) + 1 = m
  BY <1>3
<1> QED BY <1>3, <1>4, <1>5, <1>6
-----------------------------------------------------------------------------
(* Prefixes                                                                *)

LEMMA PrefixText ==
    ASSUME NEW t \in Text, NEW k \in 0 .. Len(t)
    PROVE  /\ SubSeq(t, 1, k) \in Text /\ Len(SubSeq(t, 1, k)) = k
           /\ \A i \in 1 .. k : SubSeq(t, 1, k)[i] = t[i]
<1>1. Len(t) \in Nat
  BY LenProperties DEF Text
<1>2. \A i \in 1 .. k : t[i] \in STRING
  BY <1>1, ElementOfSeq DEF Text
<1>3. 1 \in Int /\ k \in Int
  BY <1>1
<1>4. /\ SubSeq(t, 1, k) \in Seq(STRING) /\ Len(SubSeq(t, 1, k)) = IF 1 <= k THEN k - 1 + 1 ELSE 0
      /\ \A i \in 1 .. k - 1 + 1 : SubSeq(t, 1, k)[i] = t[1 + i - 1]
  BY <1>2, <1>3, SubSeqProperties
<1>5. k \in Nat /\ k - 1 + 1 = k /\ \A i \in 1 .. k : 1 + i - 1 = i
  BY <1>1
<1>6. Len(SubSeq(t, 1, k)) = k
  BY <1>4, <1>5
<1>7. \A i \in 1 .. k : SubSeq(t, 1, k)[i] = t[i]
  <2> TAKE i \in 1 .. k
  <2>1. SubSeq(t, 1, k)[i] = t[1 + i - 1]
    BY <1>4, <1>5
  <2> QED BY <1>5, <2>1
<1> QED BY <1>4, <1>6, <1>7 DEF Text

LEMMA IsPrefixText ==
    ASSUME NEW s \in Text, NEW t \in Text
    PROVE  IsPrefix(s, t) <=> Len(s) <= Len(t) /\ s = SubSeq(t, 1, Len(s))
BY SubSeqFull DEF IsPrefix, Text

(* The nodes on the way to a prefix are its prefixes.                      *)
LEMMA NodesArePrefixes ==
    ASSUME NEW n \in Text, NEW p \in Text
    PROVE  n \in NodesOn(p) <=> IsPrefix(n, p)
<1>1. Len(n) \in Nat /\ Len(p) \in Nat
  BY LenProperties DEF Text
<1>2. ASSUME n \in NodesOn(p) PROVE IsPrefix(n, p)
  <2>1. PICK k \in 0 .. Len(p) : n = SubSeq(p, 1, k)
    BY <1>2 DEF NodesOn
  <2>2. Len(n) = k
    BY <2>1, PrefixText
  <2>3. Len(n) <= Len(p) /\ n = SubSeq(p, 1, Len(n))
    BY <1>1, <2>1, <2>2
  <2> QED BY <2>3, IsPrefixText
<1>3. ASSUME IsPrefix(n, p) PROVE n \in NodesOn(p)
  <2>1. Len(n) <= Len(p) /\ n = SubSeq(p, 1, Len(n))
    BY <1>3, IsPrefixText
  <2>2. Len(n) \in 0 .. Len(p)
    BY <1>1, <2>1
  <2> QED BY <2>1, <2>2, Zenon DEF NodesOn
<1> QED BY <1>2, <1>3

LEMMA IsPrefixTransitive ==
    ASSUME NEW s \in Text, NEW t \in Text, NEW u \in Text, IsPrefix(s, t), IsPrefix(t, u)
    PROVE  IsPrefix(s, u)
<1>1. Len(s) \in Nat /\ Len(t) \in Nat /\ Len(u) \in Nat
  BY LenProperties DEF Text
<1>2. Len(s) <= Len(t) /\ s = SubSeq(t, 1, Len(s)) /\ Len(t) <= Len(u) /\ t = SubSeq(u, 1, Len(t))
  BY IsPrefixText
<1>3. Len(s) \in 0 .. Len(t) /\ Len(s) \in 0 .. Len(u) /\ Len(t) \in 0 .. Len(u)
  BY <1>1, <1>2
<1> DEFINE v == SubSeq(u, 1, Len(s))
<1>4. v \in Text /\ Len(v) = Len(s) /\ \A i \in 1 .. Len(s) : v[i] = u[i]
  BY <1>3, PrefixText
<1>5. \A i \in 1 .. Len(s) : s[i] = t[i]
  BY <1>2, <1>3, PrefixText
<1>6. \A i \in 1 .. Len(t) : t[i] = u[i]
  BY <1>2, <1>3, PrefixText
<1> HIDE DEF v
<1>7. \A i \in 1 .. Len(s) : s[i] = v[i]
  BY <1>1, <1>2, <1>4, <1>5, <1>6
<1>8. s = v
  BY <1>4, <1>7, SeqEqual DEF Text
<1> QED BY <1>1, <1>2, <1>8, IsPrefixText DEF v

(* Shorter prefixes of a text are prefixes of its longer ones.             *)
LEMMA PrefixesNest ==
    ASSUME NEW t \in Text, NEW k \in 0 .. Len(t), NEW j \in 0 .. k
    PROVE  IsPrefix(SubSeq(t, 1, j), SubSeq(t, 1, k))
<1>1. Len(t) \in Nat
  BY LenProperties DEF Text
<1>2. j \in 0 .. Len(t) /\ j <= k
  BY <1>1
<1> DEFINE a == SubSeq(t, 1, j)
           b == SubSeq(t, 1, k)
           c == SubSeq(b, 1, j)
<1>3. a \in Text /\ Len(a) = j /\ \A i \in 1 .. j : a[i] = t[i]
  BY <1>2, PrefixText
<1>4. b \in Text /\ Len(b) = k /\ \A i \in 1 .. k : b[i] = t[i]
  BY PrefixText
<1> HIDE DEF a, b
<1>5. c \in Text /\ Len(c) = j /\ \A i \in 1 .. j : c[i] = b[i]
  BY <1>4, PrefixText
<1> HIDE DEF c
<1>6. \A i \in 1 .. j : a[i] = c[i]
  BY <1>1, <1>2, <1>3, <1>4, <1>5
<1>7. a = c
  BY <1>3, <1>5, <1>6, SeqEqual DEF Text
<1>8. IsPrefix(a, b)
  BY <1>2, <1>3, <1>4, <1>7, IsPrefixText DEF c
<1> QED BY <1>8 DEF a, b
-----------------------------------------------------------------------------
(* build_trie                                                              *)

NoRoutes == [exact |-> <<>>, trie |-> Root]

(* The loop has a result after every number of turns.                      *)
LEMMA BuildExists ==
    ASSUME NEW routes
    PROVE  \A n \in Nat : \E g : g = [i \in 0 .. n |-> IF i = 0 THEN NoRoutes
                                                      ELSE AddRoute(g[i - 1], routes[i], i)]
<1> DEFINE step(g, i) == IF i = 0 THEN NoRoutes ELSE AddRoute(g[i - 1], routes[i], i)
           S == {n \in Nat : \E g : g = [i \in 0 .. n |-> step(g, i)]}
<1>1. 0 \in S
  <2> DEFINE g == [i \in 0 .. 0 |-> NoRoutes]
  <2>1. g = [i \in 0 .. 0 |-> step(g, i)]
    <3>1. \A i \in 0 .. 0 : i = 0
      OBVIOUS
    <3>2. \A i \in 0 .. 0 : step(g, i) = NoRoutes
      BY <3>1
    <3> HIDE DEF step
    <3> QED BY <3>2
  <2> HIDE DEF g, step
  <2>2. \E h : h = [i \in 0 .. 0 |-> step(h, i)]
    BY <2>1
  <2> QED BY <2>2
<1>2. ASSUME NEW n \in Nat, n \in S PROVE n + 1 \in S
  <2>1. PICK g : g = [i \in 0 .. n |-> step(g, i)]
    BY <1>2
  <2> DEFINE h == [i \in 0 .. n + 1 |-> IF i = n + 1 THEN AddRoute(g[n], routes[n + 1], n + 1) ELSE g[i]]
  <2>2. \A i \in 0 .. n : h[i] = g[i] /\ g[i] = step(g, i)
    BY <2>1
  <2>3. ASSUME NEW i \in 0 .. n + 1 PROVE h[i] = step(h, i)
    <3>1. CASE i = 0
      <4>1. h[0] = g[0] /\ g[0] = NoRoutes
        BY <2>2
      <4> HIDE DEF h
      <4> QED BY <3>1, <4>1
    <3>2. CASE i \in 1 .. n
      <4>1. i - 1 \in 0 .. n /\ i \in 0 .. n /\ i # 0
        BY <3>2
      <4>2. h[i - 1] = g[i - 1] /\ h[i] = g[i] /\ g[i] = step(g, i)
        BY <2>2, <4>1
      <4> HIDE DEF h
      <4> QED BY <4>1, <4>2
    <3>3. CASE i = n + 1
      <4>1. h[n] = g[n] /\ h[n + 1] = AddRoute(g[n], routes[n + 1], n + 1) /\ n + 1 # 0 /\ (n + 1) - 1 = n
        OBVIOUS
      <4> HIDE DEF h
      <4> QED BY <3>3, <4>1
    <3> QED BY <3>1, <3>2, <3>3
  <2>4. h = [i \in 0 .. n + 1 |-> h[i]]
    OBVIOUS
  <2> HIDE DEF h, step
  <2>5. h = [i \in 0 .. n + 1 |-> step(h, i)]
    BY <2>3, <2>4
  <2>6. \E x : x = [i \in 0 .. n + 1 |-> step(x, i)]
    BY <2>5
  <2> QED BY <2>6
<1>3. \A n \in Nat : n \in S
  <2> HIDE DEF S
  <2> QED BY <1>1, <1>2, Induction
<1> QED BY <1>3

LEMMA BuildTurns ==
    ASSUME NEW routes, Len(routes) \in Nat
    PROVE  \E g : /\ g[0] = NoRoutes /\ BuildTrie(routes) = g[Len(routes)]
                  /\ \A i \in 1 .. Len(routes) : g[i] = AddRoute(g[i - 1], routes[i], i)
<1>1. \E g : g = [i \in 0 .. Len(routes) |-> IF i = 0 THEN NoRoutes
                                             ELSE AddRoute(g[i - 1], routes[i], i)]
  BY BuildExists
<1>2. \E g : /\ g = [i \in 0 .. Len(routes) |-> IF i = 0 THEN NoRoutes
                                                ELSE AddRoute(g[i - 1], routes[i], i)]
             /\ BuildTrie(routes) = g[Len(routes)]
  BY <1>1, Zenon DEF BuildTrie, NoRoutes
<1>3. PICK g : /\ g = [i \in 0 .. Len(routes) |-> IF i = 0 THEN NoRoutes
                                                  ELSE AddRoute(g[i - 1], routes[i], i)]
               /\ BuildTrie(routes) = g[Len(routes)]
  BY <1>2
<1>4. \A i \in 0 .. Len(routes) : g[i] = IF i = 0 THEN NoRoutes ELSE AddRoute(g[i - 1], routes[i], i)
  BY <1>3
<1>5. g[0] = NoRoutes /\ \A i \in 1 .. Len(routes) : g[i] = AddRoute(g[i - 1], routes[i], i)
  BY <1>4
<1> QED BY <1>3, <1>5

(* The routes among the first m that a path finds in the exact map, and    *)
(* that a node of the trie stands for.                                     *)
ExactAt(routes, p, m) == {j \in 1 .. m : routes[j].exact /\ routes[j].prefix = p}
Named(routes, p, m) == {j \in 1 .. m : ~routes[j].exact /\ routes[j].prefix = p}

(* After m turns the exact map and the trie hold the last route of every   *)
(* prefix, and the trie has the nodes on the way to them.                  *)
TableInv(tab, routes, m) ==
    /\ tab = [exact |-> tab.exact, trie |-> tab.trie]
    /\ \A p \in Text :
        /\ p \in DOMAIN tab.exact <=> ExactAt(routes, p, m) # {}
        /\ p \in DOMAIN tab.exact => tab.exact[p] = Max(ExactAt(routes, p, m))
    /\ \A p \in Text :
        /\ p \in DOMAIN tab.trie <=>
             \/ p = <<>>
             \/ \E j \in 1 .. m : ~routes[j].exact /\ IsPrefix(p, routes[j].prefix)
        /\ p \in DOMAIN tab.trie =>
             tab.trie[p] = IF Named(routes, p, m) = {} THEN 0 ELSE Max(Named(routes, p, m))

(* The set of a later prefix: its own number is the largest.               *)
LEMMA LastIsMax ==
    ASSUME NEW m \in Nat, NEW S \in SUBSET (1 .. m)
    PROVE  Max(S \cup {m + 1}) = m + 1
<1>1. S \cup {m + 1} \in SUBSET Nat /\ m + 1 \in S \cup {m + 1} /\ \A x \in S \cup {m + 1} : x <= m + 1
  OBVIOUS
<1> QED BY <1>1, MaxUnique

LEMMA GrowingSets ==
    ASSUME NEW n, NEW routes, Routes(routes, n), NEW m \in Nat, m + 1 <= n, NEW p \in Text
    PROVE  /\ ExactAt(routes, p, m + 1) =
                IF routes[m + 1].exact /\ routes[m + 1].prefix = p
                THEN ExactAt(routes, p, m) \cup {m + 1} ELSE ExactAt(routes, p, m)
           /\ Named(routes, p, m + 1) =
                IF ~routes[m + 1].exact /\ routes[m + 1].prefix = p
                THEN Named(routes, p, m) \cup {m + 1} ELSE Named(routes, p, m)
<1>1. 1 .. m + 1 = (1 .. m) \cup {m + 1}
  OBVIOUS
<1>2. m + 1 \notin 1 .. m
  OBVIOUS
<1> QED BY <1>1, Zenon DEF ExactAt, Named

LEMMA TableStart ==
    ASSUME NEW routes
    PROVE  TableInv(NoRoutes, routes, 0)
<1> DEFINE ex == NoRoutes.exact
           tr == NoRoutes.trie
<1>1. NoRoutes = [exact |-> ex, trie |-> tr] /\ ex = <<>> /\ tr = [p \in {<<>>} |-> 0]
  BY DEF NoRoutes, Root
<1>2. DOMAIN ex = {} /\ DOMAIN tr = {<<>>} /\ tr[<<>>] = 0
  BY <1>1
<1>3. \A p : ExactAt(routes, p, 0) = {} /\ Named(routes, p, 0) = {}
  BY DEF ExactAt, Named
<1> HIDE DEF ex, tr
<1>4. \A j \in 1 .. 0 : FALSE
  OBVIOUS
<1>5. TableInv([exact |-> ex, trie |-> tr], routes, 0)
  BY <1>2, <1>3, <1>4 DEF TableInv
<1> QED BY <1>1, <1>5

LEMMA TableTurn ==
    ASSUME NEW n, NEW routes, Routes(routes, n), NEW m \in Nat, m + 1 <= n,
           NEW tab, TableInv(tab, routes, m)
    PROVE  TableInv(AddRoute(tab, routes[m + 1], m + 1), routes, m + 1)
<1> DEFINE r == routes[m + 1]
           q == r.prefix
           ex == tab.exact
           tr == tab.trie
<1>0. m + 1 \in 1 .. n /\ n \in Nat
  BY DEF Routes
<1>1. q \in Text /\ q # <<>> /\ r.exact \in BOOLEAN
  BY <1>0 DEF Routes
<1>2. tab = [exact |-> ex, trie |-> tr]
  BY DEF TableInv
<1>3. ASSUME NEW p \in Text
      PROVE  /\ p \in DOMAIN ex <=> ExactAt(routes, p, m) # {}
             /\ p \in DOMAIN ex => ex[p] = Max(ExactAt(routes, p, m))
             /\ p \in DOMAIN tr <=>
                  p = <<>> \/ \E j \in 1 .. m : ~routes[j].exact /\ IsPrefix(p, routes[j].prefix)
             /\ p \in DOMAIN tr =>
                  tr[p] = IF Named(routes, p, m) = {} THEN 0 ELSE Max(Named(routes, p, m))
  BY DEF TableInv
<1>4. ASSUME NEW p \in Text
      PROVE  /\ ExactAt(routes, p, m + 1) =
                  IF r.exact /\ q = p THEN ExactAt(routes, p, m) \cup {m + 1} ELSE ExactAt(routes, p, m)
             /\ Named(routes, p, m + 1) =
                  IF ~r.exact /\ q = p THEN Named(routes, p, m) \cup {m + 1} ELSE Named(routes, p, m)
  BY GrowingSets
<1>5. ASSUME NEW p \in Text
      PROVE  /\ Max(ExactAt(routes, p, m) \cup {m + 1}) = m + 1
             /\ Max(Named(routes, p, m) \cup {m + 1}) = m + 1
  <2>1. ExactAt(routes, p, m) \in SUBSET (1 .. m) /\ Named(routes, p, m) \in SUBSET (1 .. m)
    BY DEF ExactAt, Named
  <2> QED BY <2>1, LastIsMax
<1>6. ASSUME NEW p \in Text
      PROVE  (\E j \in 1 .. m + 1 : ~routes[j].exact /\ IsPrefix(p, routes[j].prefix)) <=>
                \/ \E j \in 1 .. m : ~routes[j].exact /\ IsPrefix(p, routes[j].prefix)
                \/ ~r.exact /\ IsPrefix(p, q)
  <2>1. 1 .. m + 1 = (1 .. m) \cup {m + 1}
    OBVIOUS
  <2> QED BY <2>1, Zenon
<1>7. CASE r.exact
  <2> DEFINE ex2 == [p \in DOMAIN ex \cup {q} |-> IF p = q THEN m + 1 ELSE ex[p]]
             new == [exact |-> ex2, trie |-> tr]
  <2>1. AddRoute(tab, r, m + 1) = new
    BY <1>2, <1>7 DEF AddRoute
  <2> HIDE DEF r, q, ex, tr
  <2>2. DOMAIN ex2 = DOMAIN ex \cup {q} /\ \A p \in DOMAIN ex2 : ex2[p] = IF p = q THEN m + 1 ELSE ex[p]
    OBVIOUS
  <2> HIDE DEF ex2
  <2>3. ASSUME NEW p \in Text
        PROVE  /\ p \in DOMAIN ex2 <=> ExactAt(routes, p, m + 1) # {}
               /\ p \in DOMAIN ex2 => ex2[p] = Max(ExactAt(routes, p, m + 1))
    <3>1. CASE p = q
      <4>1. ExactAt(routes, p, m + 1) = ExactAt(routes, p, m) \cup {m + 1}
        BY <1>4, <1>7, <3>1
      <4> QED BY <1>5, <2>2, <3>1, <4>1
    <3>2. CASE p # q
      <4>1. ExactAt(routes, p, m + 1) = ExactAt(routes, p, m)
        BY <1>4, <3>2
      <4> QED BY <1>3, <2>2, <3>2, <4>1
    <3> QED BY <3>1, <3>2
  <2>4. ASSUME NEW p \in Text
        PROVE  /\ p \in DOMAIN tr <=>
                    p = <<>> \/ \E j \in 1 .. m + 1 : ~routes[j].exact /\ IsPrefix(p, routes[j].prefix)
               /\ p \in DOMAIN tr =>
                    tr[p] = IF Named(routes, p, m + 1) = {} THEN 0 ELSE Max(Named(routes, p, m + 1))
    <3>1. Named(routes, p, m + 1) = Named(routes, p, m)
      BY <1>4, <1>7
    <3>2. (\E j \in 1 .. m + 1 : ~routes[j].exact /\ IsPrefix(p, routes[j].prefix)) <=>
            \E j \in 1 .. m : ~routes[j].exact /\ IsPrefix(p, routes[j].prefix)
      BY <1>6, <1>7
    <3> QED BY <1>3, <3>1, <3>2
  <2>5. new.exact = ex2 /\ new.trie = tr /\ new = [exact |-> new.exact, trie |-> new.trie]
    OBVIOUS
  <2> HIDE DEF new
  <2>6. TableInv(new, routes, m + 1)
    BY <2>3, <2>4, <2>5 DEF TableInv
  <2> QED BY <2>1, <2>6 DEF r
<1>8. CASE ~r.exact
  <2> DEFINE tr2 == Insert(tr, q, m + 1)
             new == [exact |-> ex, trie |-> tr2]
  <2>1. AddRoute(tab, r, m + 1) = new
    BY <1>2, <1>8 DEF AddRoute
  <2> HIDE DEF r, q, ex, tr
  <2>2. /\ DOMAIN tr2 = DOMAIN tr \cup NodesOn(q)
        /\ \A p \in DOMAIN tr2 : tr2[p] = IF p = q THEN m + 1 ELSE IF p \in DOMAIN tr THEN tr[p] ELSE 0
    BY DEF Insert
  <2> HIDE DEF tr2
  <2>3. ASSUME NEW p \in Text
        PROVE  /\ p \in DOMAIN ex <=> ExactAt(routes, p, m + 1) # {}
               /\ p \in DOMAIN ex => ex[p] = Max(ExactAt(routes, p, m + 1))
    <3>1. ExactAt(routes, p, m + 1) = ExactAt(routes, p, m)
      BY <1>4, <1>8
    <3> QED BY <1>3, <3>1
  <2>4. ASSUME NEW p \in Text
        PROVE  p \in DOMAIN tr2 <=>
                    p = <<>> \/ \E j \in 1 .. m + 1 : ~routes[j].exact /\ IsPrefix(p, routes[j].prefix)
    <3>1. p \in NodesOn(q) <=> IsPrefix(p, q)
      BY <1>1, NodesArePrefixes
    <3> QED BY <1>3, <1>6, <1>8, <2>2, <3>1
  <2>5. ASSUME NEW p \in Text, p \in DOMAIN tr2
        PROVE  tr2[p] = IF Named(routes, p, m + 1) = {} THEN 0 ELSE Max(Named(routes, p, m + 1))
    <3>1. CASE p = q
      <4>1. Named(routes, p, m + 1) = Named(routes, p, m) \cup {m + 1}
        BY <1>4, <1>8, <3>1
      <4>2. tr2[p] = m + 1
        BY <2>2, <2>5, <3>1
      <4> QED BY <1>5, <4>1, <4>2
    <3>2. CASE p # q /\ p \in DOMAIN tr
      <4>1. Named(routes, p, m + 1) = Named(routes, p, m)
        BY <1>4, <3>2
      <4>2. tr2[p] = tr[p]
        BY <2>2, <2>5, <3>2
      <4> QED BY <1>3, <3>2, <4>1, <4>2
    <3>3. CASE p # q /\ p \notin DOMAIN tr
      <4>1. Named(routes, p, m + 1) = Named(routes, p, m)
        BY <1>4, <3>3
      <4>2. tr2[p] = 0
        BY <2>2, <2>5, <3>3
      <4>3. ASSUME NEW j \in Named(routes, p, m) PROVE FALSE
        <5>1. j \in 1 .. m /\ ~routes[j].exact /\ routes[j].prefix = p
          BY DEF Named
        <5>2. IsPrefix(p, p)
          <6>1. Len(p) \in Nat /\ SubSeq(p, 1, Len(p)) = p
            BY LenProperties, SubSeqFull DEF Text
          <6> QED BY <6>1 DEF IsPrefix
        <5> QED BY <1>3, <3>3, <5>1, <5>2
      <4>4. Named(routes, p, m) = {}
        BY <4>3
      <4> QED BY <4>1, <4>2, <4>4
    <3> QED BY <3>1, <3>2, <3>3
  <2>6. new.exact = ex /\ new.trie = tr2 /\ new = [exact |-> new.exact, trie |-> new.trie]
    OBVIOUS
  <2> HIDE DEF new
  <2>7. TableInv(new, routes, m + 1)
    BY <2>3, <2>4, <2>5, <2>6 DEF TableInv
  <2> QED BY <2>1, <2>7 DEF r
<1> QED BY <1>1, <1>7, <1>8

LEMMA TableBuilt ==
    ASSUME NEW routes, Routes(routes, Len(routes))
    PROVE  TableInv(BuildTrie(routes), routes, Len(routes))
<1> DEFINE n == Len(routes)
<1>1. n \in Nat
  BY DEF Routes
<1>2. PICK g : /\ g[0] = NoRoutes /\ BuildTrie(routes) = g[Len(routes)]
               /\ \A i \in 1 .. Len(routes) : g[i] = AddRoute(g[i - 1], routes[i], i)
  BY <1>1, BuildTurns
<1> HIDE DEF n
<1> DEFINE S == {m \in Nat : m <= n => TableInv(g[m], routes, m)}
<1>3. 0 \in S
  BY <1>2, TableStart
<1>4. ASSUME NEW m \in Nat, m \in S PROVE m + 1 \in S
  <2> SUFFICES ASSUME m + 1 <= n PROVE TableInv(g[m + 1], routes, m + 1)
    OBVIOUS
  <2>1. m <= n /\ m + 1 \in 1 .. n /\ (m + 1) - 1 = m
    BY <1>1
  <2>2. TableInv(g[m], routes, m)
    BY <1>4, <2>1
  <2>3. g[m + 1] = AddRoute(g[m], routes[m + 1], m + 1)
    <3>1. g[m + 1] = AddRoute(g[(m + 1) - 1], routes[m + 1], m + 1)
      BY <1>2, <2>1 DEF n
    <3> QED BY <2>1, <3>1
  <2> QED BY <2>2, <2>3, TableTurn DEF n
<1>5. \A m \in Nat : m \in S
  <2> HIDE DEF S
  <2> QED BY <1>3, <1>4, Induction
<1>6. n <= n
  BY <1>1
<1>7. TableInv(g[n], routes, n)
  BY <1>1, <1>5, <1>6
<1> QED BY <1>2, <1>7 DEF n
-----------------------------------------------------------------------------
(* match_route                                                             *)

AtRoot == [on |-> TRUE, best |-> 0]

(* What the loop has after each of n turns.                                *)
Walks(g, trie, path, n) ==
    g = [k \in 0 .. n |-> IF k = 0 THEN AtRoot ELSE Descend(g[k - 1], trie, SubSeq(path, 1, k))]

LEMMA WalkExists ==
    ASSUME NEW trie, NEW path, NEW n \in Nat
    PROVE  \E g : Walks(g, trie, path, n)
<1> DEFINE step(g, k) == IF k = 0 THEN AtRoot ELSE Descend(g[k - 1], trie, SubSeq(path, 1, k))
           S == {m \in Nat : \E g : g = [k \in 0 .. m |-> step(g, k)]}
<1>1. 0 \in S
  <2> DEFINE g == [k \in 0 .. 0 |-> AtRoot]
  <2>1. g = [k \in 0 .. 0 |-> step(g, k)]
    <3>1. \A k \in 0 .. 0 : k = 0
      OBVIOUS
    <3>2. \A k \in 0 .. 0 : step(g, k) = AtRoot
      BY <3>1
    <3> HIDE DEF step
    <3> QED BY <3>2
  <2> HIDE DEF g, step
  <2>2. \E h : h = [k \in 0 .. 0 |-> step(h, k)]
    BY <2>1
  <2> QED BY <2>2
<1>2. ASSUME NEW m \in Nat, m \in S PROVE m + 1 \in S
  <2>1. PICK g : g = [k \in 0 .. m |-> step(g, k)]
    BY <1>2
  <2> DEFINE last == Descend(g[m], trie, SubSeq(path, 1, m + 1))
             h == [k \in 0 .. m + 1 |-> IF k = m + 1 THEN last ELSE g[k]]
  <2>2. \A k \in 0 .. m : h[k] = g[k] /\ g[k] = step(g, k)
    BY <2>1
  <2>3. ASSUME NEW k \in 0 .. m + 1 PROVE h[k] = step(h, k)
    <3>1. CASE k = 0
      <4> HIDE DEF h, last
      <4>1. h[0] = g[0] /\ g[0] = step(g, 0)
        BY <2>2
      <4> QED BY <3>1, <4>1
    <3>2. CASE k \in 1 .. m
      <4>1. k - 1 \in 0 .. m /\ k \in 0 .. m /\ k # 0
        BY <3>2
      <4>2. h[k - 1] = g[k - 1] /\ h[k] = g[k] /\ g[k] = step(g, k)
        BY <2>2, <4>1
      <4> HIDE DEF h
      <4> QED BY <4>1, <4>2
    <3>3. CASE k = m + 1
      <4>1. h[m] = g[m] /\ h[m + 1] = last /\ m + 1 # 0 /\ (m + 1) - 1 = m
        OBVIOUS
      <4> HIDE DEF h
      <4> QED BY <3>3, <4>1
    <3> QED BY <3>1, <3>2, <3>3
  <2>4. h = [k \in 0 .. m + 1 |-> h[k]]
    OBVIOUS
  <2> HIDE DEF h, step
  <2>5. h = [k \in 0 .. m + 1 |-> step(h, k)]
    BY <2>3, <2>4
  <2>6. \E x : x = [k \in 0 .. m + 1 |-> step(x, k)]
    BY <2>5
  <2> QED BY <2>6
<1>3. \A m \in Nat : m \in S
  <2> HIDE DEF S
  <2> QED BY <1>1, <1>2, Induction
<1> QED BY <1>3 DEF Walks

LEMMA WalkTurns ==
    ASSUME NEW trie, NEW path, Len(path) \in Nat
    PROVE  \E g : Walks(g, trie, path, Len(path)) /\ LongestInTrie(trie, path) = g[Len(path)].best
<1>1. \E g : Walks(g, trie, path, Len(path))
  BY WalkExists
<1> QED BY <1>1, Zenon DEF Walks, LongestInTrie, AtRoot

(* The route at the node that the first k characters lead to.              *)
RouteAt(trie, path, k) == IF SubSeq(path, 1, k) \in DOMAIN trie THEN trie[SubSeq(path, 1, k)] ELSE 0

(* After k turns the walk is on as long as there was a node, and has the   *)
(* last route on its way.                                                  *)
WalkInv(w, trie, path, k) ==
    /\ w = [on |-> w.on, best |-> w.best]
    /\ w.on <=> SubSeq(path, 1, k) \in DOMAIN trie
    /\ \/ w.best = 0 /\ \A j \in 1 .. k : RouteAt(trie, path, j) = 0
       \/ \E l \in 1 .. k :
            /\ w.best = RouteAt(trie, path, l) /\ w.best # 0
            /\ \A j \in l + 1 .. k : RouteAt(trie, path, j) = 0

LEMMA WalkTurn ==
    ASSUME NEW trie, NEW path, NEW k \in Nat, NEW w, WalkInv(w, trie, path, k),
           SubSeq(path, 1, k + 1) \in DOMAIN trie => SubSeq(path, 1, k) \in DOMAIN trie
    PROVE  WalkInv(Descend(w, trie, SubSeq(path, 1, k + 1)), trie, path, k + 1)
<1> DEFINE node == SubSeq(path, 1, k + 1)
           new == Descend(w, trie, node)
           at(j) == RouteAt(trie, path, j)
<1>1. at(k + 1) = IF node \in DOMAIN trie THEN trie[node] ELSE 0
  BY DEF RouteAt
<1>2. w = [on |-> w.on, best |-> w.best] /\ (w.on <=> SubSeq(path, 1, k) \in DOMAIN trie)
  BY DEF WalkInv
<1>3. \/ w.best = 0 /\ \A j \in 1 .. k : at(j) = 0
      \/ \E l \in 1 .. k : w.best = at(l) /\ w.best # 0 /\ \A j \in l + 1 .. k : at(j) = 0
  BY DEF WalkInv
<1>4. node \in DOMAIN trie => w.on
  BY <1>2
<1> HIDE DEF node
<1>5. CASE node \in DOMAIN trie
  <2>1. new = [on |-> w.on, best |-> IF trie[node] # 0 THEN trie[node] ELSE w.best]
    <3>1. new = [w EXCEPT !.best = IF trie[node] # 0 THEN trie[node] ELSE @]
      BY <1>4, <1>5 DEF Descend
    <3> QED BY <1>2, <3>1
  <2>2. /\ new = [on |-> new.on, best |-> new.best] /\ new.on = w.on
        /\ new.best = IF at(k + 1) # 0 THEN at(k + 1) ELSE w.best
    BY <1>1, <1>5, <2>1
  <2> QED BY <1>3, <1>4, <1>5, <2>2 DEF WalkInv, node
<1>6. CASE node \notin DOMAIN trie
  <2>1. new = [w EXCEPT !.on = FALSE]
    BY <1>6 DEF Descend
  <2>2. new = [on |-> new.on, best |-> new.best] /\ ~new.on /\ new.best = w.best
    BY <1>2, <2>1
  <2>3. at(k + 1) = 0
    BY <1>1, <1>6
  <2> HIDE DEF new, at
  <2>4. \/ new.best = 0 /\ \A j \in 1 .. k + 1 : at(j) = 0
        \/ \E l \in 1 .. k + 1 : new.best = at(l) /\ new.best # 0 /\ \A j \in l + 1 .. k + 1 : at(j) = 0
    <3>1. CASE w.best = 0 /\ \A j \in 1 .. k : at(j) = 0
      BY <2>2, <2>3, <3>1
    <3>2. CASE \E l \in 1 .. k : w.best = at(l) /\ w.best # 0 /\ \A j \in l + 1 .. k : at(j) = 0
      <4>1. PICK l \in 1 .. k : w.best = at(l) /\ w.best # 0 /\ \A j \in l + 1 .. k : at(j) = 0
        BY <3>2
      <4>2. l \in 1 .. k + 1 /\ \A j \in l + 1 .. k + 1 : at(j) = 0
        BY <2>3, <4>1
      <4> QED BY <2>2, <4>1, <4>2
    <3> QED BY <1>3, <3>1, <3>2
  <2> QED BY <1>6, <2>2, <2>4 DEF WalkInv, node, new, at
<1> QED BY <1>5, <1>6

LEMMA TrieWalked ==
    ASSUME NEW routes, NEW n, Routes(routes, n), NEW tab, TableInv(tab, routes, n), NEW path \in Text
    PROVE  \E w : w.best = LongestInTrie(tab.trie, path) /\ WalkInv(w, tab.trie, path, Len(path))
<1> DEFINE trie == tab.trie
           node(k) == SubSeq(path, 1, k)
<1>1. Len(path) \in Nat
  BY LenProperties DEF Text
<1>2. PICK g : Walks(g, trie, path, Len(path)) /\ LongestInTrie(trie, path) = g[Len(path)].best
  BY <1>1, WalkTurns
<1>3. \A k \in 0 .. Len(path) : g[k] = IF k = 0 THEN AtRoot ELSE Descend(g[k - 1], trie, node(k))
  BY <1>2 DEF Walks
<1>4. /\ g[0] = AtRoot /\ LongestInTrie(trie, path) = g[Len(path)].best
      /\ \A k \in 1 .. Len(path) : g[k] = Descend(g[k - 1], trie, node(k))
  BY <1>1, <1>2, <1>3
<1>5. ASSUME NEW k \in Nat, k + 1 <= Len(path), node(k + 1) \in DOMAIN trie
      PROVE  node(k) \in DOMAIN trie
  <2>1. k + 1 \in 0 .. Len(path) /\ k \in 0 .. Len(path) /\ k \in 0 .. k + 1 /\ k + 1 # 0
    BY <1>1, <1>5
  <2>2. node(k) \in Text /\ node(k + 1) \in Text /\ Len(node(k + 1)) = k + 1 /\ IsPrefix(node(k), node(k + 1))
    BY <2>1, PrefixText, PrefixesNest
  <2>3. node(k + 1) # <<>>
    <3>1. Len(<<>>) = 0
      OBVIOUS
    <3> QED BY <2>1, <2>2, <3>1
  <2>4. PICK j \in 1 .. n : ~routes[j].exact /\ IsPrefix(node(k + 1), routes[j].prefix)
    BY <1>5, <2>2, <2>3 DEF TableInv
  <2>5. routes[j].prefix \in Text
    BY DEF Routes
  <2>6. IsPrefix(node(k), routes[j].prefix)
    BY <2>2, <2>4, <2>5, IsPrefixTransitive
  <2> QED BY <2>2, <2>4, <2>6 DEF TableInv
<1> DEFINE S == {k \in Nat : k <= Len(path) => WalkInv(g[k], trie, path, k)}
<1>6. 0 \in S
  <2>1. SubSeq(path, 1, 0) = <<>>
    BY SubSeqEmpty
  <2>2. <<>> \in Text /\ <<>> \in DOMAIN trie
    BY EmptySeq DEF TableInv, Text
  <2>3. AtRoot = [on |-> AtRoot.on, best |-> AtRoot.best] /\ AtRoot.on = TRUE /\ AtRoot.best = 0
    BY DEF AtRoot
  <2>4. \A j \in 1 .. 0 : FALSE
    OBVIOUS
  <2>5. WalkInv(AtRoot, trie, path, 0)
    BY <2>1, <2>2, <2>3, <2>4, Zenon DEF WalkInv
  <2> QED BY <1>4, <2>5
<1>7. ASSUME NEW k \in Nat, k \in S PROVE k + 1 \in S
  <2> SUFFICES ASSUME k + 1 <= Len(path) PROVE WalkInv(g[k + 1], trie, path, k + 1)
    OBVIOUS
  <2>1. k <= Len(path) /\ k + 1 \in 1 .. Len(path) /\ (k + 1) - 1 = k
    BY <1>1
  <2>2. WalkInv(g[k], trie, path, k)
    BY <1>7, <2>1
  <2>3. g[k + 1] = Descend(g[k], trie, node(k + 1))
    <3>1. g[k + 1] = Descend(g[(k + 1) - 1], trie, node(k + 1))
      BY <1>4, <2>1
    <3> QED BY <2>1, <3>1
  <2> HIDE DEF trie
  <2> QED BY <1>5, <2>2, <2>3, WalkTurn
<1>8. \A k \in Nat : k \in S
  <2> HIDE DEF S
  <2> QED BY <1>6, <1>7, Induction
<1>9. Len(path) <= Len(path)
  BY <1>1
<1>10. WalkInv(g[Len(path)], trie, path, Len(path))
  BY <1>1, <1>8, <1>9
<1> QED BY <1>4, <1>10

(* The route at a node is the last one with that prefix.                   *)
LEMMA RouteOfNode ==
    ASSUME NEW routes, NEW n, Routes(routes, n), NEW tab, TableInv(tab, routes, n), NEW path \in Text,
           NEW k \in 0 .. Len(path)
    PROVE  RouteAt(tab.trie, path, k) =
             IF Named(routes, SubSeq(path, 1, k), n) = {} THEN 0 ELSE Max(Named(routes, SubSeq(path, 1, k), n))
<1> DEFINE node == SubSeq(path, 1, k)
<1>1. node \in Text
  BY PrefixText
<1>2. CASE node \in DOMAIN tab.trie
  BY <1>1, <1>2 DEF TableInv, RouteAt
<1>3. CASE node \notin DOMAIN tab.trie
  <2>1. ASSUME NEW j \in Named(routes, node, n) PROVE FALSE
    <3>1. j \in 1 .. n /\ ~routes[j].exact /\ routes[j].prefix = node
      BY DEF Named
    <3>2. IsPrefix(node, node)
      <4>1. Len(node) \in Nat /\ SubSeq(node, 1, Len(node)) = node
        BY <1>1, LenProperties, SubSeqFull DEF Text
      <4> HIDE DEF node
      <4> QED BY <4>1 DEF IsPrefix
    <3> QED BY <1>1, <1>3, <3>1, <3>2 DEF TableInv
  <2>2. Named(routes, node, n) = {}
    BY <2>1
  <2> QED BY <1>3, <2>2 DEF RouteAt
<1> QED BY <1>2, <1>3

(* match_route on the table that build_trie makes of some routes finds the *)
(* exact route of the path, else the last of those with the longest prefix *)
(* of it, else none.                                                       *)
THEOREM RouteFound ==
    ASSUME NEW routes, Routes(routes, Len(routes)), NEW path \in Text
    PROVE  MatchRoute(BuildTrie(routes), path) = BestRoute(routes, path)
<1> DEFINE n == Len(routes)
           tab == BuildTrie(routes)
           at(k) == RouteAt(tab.trie, path, k)
           node(k) == SubSeq(path, 1, k)
           exact == {i \in DOMAIN routes : routes[i].exact /\ routes[i].prefix = path}
           prefix == {i \in DOMAIN routes : ~routes[i].exact /\ IsPrefix(routes[i].prefix, path)}
           longest == {i \in prefix : \A j \in prefix : Len(routes[j].prefix) <= Len(routes[i].prefix)}
<1>1. BestRoute(routes, path) = IF exact # {} THEN Max(exact) ELSE IF prefix # {} THEN Max(longest) ELSE 0
  BY DEF BestRoute
<1>2. n \in Nat /\ DOMAIN routes = 1 .. n
  BY DEF Routes
<1>3. TableInv(tab, routes, n)
  BY TableBuilt
<1>4. exact = ExactAt(routes, path, n)
  BY <1>2 DEF ExactAt
<1>5. CASE exact # {}
  <2>1. path \in DOMAIN tab.exact /\ tab.exact[path] = Max(exact)
    BY <1>3, <1>4, <1>5 DEF TableInv
  <2> QED BY <1>1, <1>5, <2>1 DEF MatchRoute
<1>6. CASE exact = {}
  <2>1. path \notin DOMAIN tab.exact
    BY <1>3, <1>4, <1>6 DEF TableInv
  <2>2. MatchRoute(tab, path) = LongestInTrie(tab.trie, path)
    BY <2>1 DEF MatchRoute
  <2>3. PICK w : w.best = LongestInTrie(tab.trie, path) /\ WalkInv(w, tab.trie, path, Len(path))
    BY <1>3, TrieWalked
  <2>4. \/ w.best = 0 /\ \A j \in 1 .. Len(path) : at(j) = 0
        \/ \E l \in 1 .. Len(path) :
             w.best = at(l) /\ w.best # 0 /\ \A j \in l + 1 .. Len(path) : at(j) = 0
    BY <2>3 DEF WalkInv
  <2>5. Len(path) \in Nat
    BY LenProperties DEF Text
  <2>6. ASSUME NEW k \in 1 .. Len(path)
        PROVE  at(k) = IF Named(routes, node(k), n) = {} THEN 0 ELSE Max(Named(routes, node(k), n))
    <3>1. k \in 0 .. Len(path)
      BY <2>5
    <3> QED BY <1>3, <3>1, RouteOfNode
  <2>7. ASSUME NEW i \in prefix
        PROVE  /\ i \in 1 .. n /\ ~routes[i].exact /\ Len(routes[i].prefix) \in 1 .. Len(path)
               /\ routes[i].prefix = node(Len(routes[i].prefix))
               /\ at(Len(routes[i].prefix)) # 0
    <3> DEFINE p == routes[i].prefix
               N == Named(routes, p, n)
    <3>1. i \in 1 .. n /\ ~routes[i].exact /\ IsPrefix(p, path) /\ p \in Text /\ p # <<>>
      BY <1>2 DEF Routes
    <3>2. Len(p) <= Len(path) /\ p = node(Len(p))
      BY <3>1, IsPrefixText
    <3>3. Len(p) \in Nat \ {0}
      BY <3>1, EmptySeq DEF Text
    <3>4. Len(p) \in 1 .. Len(path)
      BY <2>5, <3>2, <3>3
    <3>5. i \in N /\ N \in SUBSET (1 .. n)
      BY <3>1 DEF Named
    <3>6. Max(N) \in N
      <4>1. N \in SUBSET Nat /\ N # {} /\ \A x \in N : x <= n
        BY <1>2, <3>5
      <4> HIDE DEF N
      <4> QED BY <1>2, <4>1, MaxMember
    <3>7. Max(N) # 0
      BY <3>5, <3>6
    <3>8. at(Len(p)) = Max(N)
      <4>1. at(Len(p)) = IF Named(routes, node(Len(p)), n) = {} THEN 0 ELSE Max(Named(routes, node(Len(p)), n))
        BY <2>6, <3>4
      <4> HIDE DEF at
      <4> QED BY <3>2, <3>5, <4>1
    <3> QED BY <3>1, <3>2, <3>4, <3>7, <3>8
  <2>8. CASE w.best = 0 /\ \A j \in 1 .. Len(path) : at(j) = 0
    <3>1. prefix = {}
      BY <2>7, <2>8
    <3> QED BY <1>1, <1>6, <2>2, <2>3, <2>8, <3>1
  <2>9. CASE \E l \in 1 .. Len(path) :
               w.best = at(l) /\ w.best # 0 /\ \A j \in l + 1 .. Len(path) : at(j) = 0
    <3>1. PICK l \in 1 .. Len(path) :
            w.best = at(l) /\ w.best # 0 /\ \A j \in l + 1 .. Len(path) : at(j) = 0
      BY <2>9
    <3> DEFINE N == Named(routes, node(l), n)
    <3>2. N # {} /\ w.best = Max(N)
      BY <2>6, <3>1
    <3>3. node(l) \in Text /\ Len(node(l)) = l /\ l \in Nat /\ l <= Len(path)
      <4>1. l \in 0 .. Len(path) /\ l <= Len(path) /\ l \in Nat
        BY <2>5
      <4> QED BY <4>1, PrefixText
    <3>4. ASSUME NEW i \in N PROVE i \in prefix /\ Len(routes[i].prefix) = l
      <4>1. i \in 1 .. n /\ ~routes[i].exact /\ routes[i].prefix = node(l)
        BY DEF Named
      <4>2. IsPrefix(node(l), path)
        BY <3>3, IsPrefixText
      <4> QED BY <1>2, <3>3, <4>1, <4>2
    <3>5. ASSUME NEW i \in prefix PROVE Len(routes[i].prefix) <= l
      <4>1. Len(routes[i].prefix) \in 1 .. Len(path) /\ at(Len(routes[i].prefix)) # 0
        BY <2>7
      <4> QED BY <2>5, <3>1, <3>3, <4>1
    <3>6. ASSUME NEW i \in N PROVE i \in longest
      BY <3>4, <3>5
    <3>7. ASSUME NEW i \in longest PROVE i \in N
      <4>1. PICK j \in N : TRUE
        BY <3>2
      <4>2. j \in prefix /\ Len(routes[j].prefix) = l /\ i \in prefix
        BY <3>4
      <4>3. l <= Len(routes[i].prefix)
        BY <4>2
      <4>4. /\ i \in 1 .. n /\ ~routes[i].exact /\ Len(routes[i].prefix) \in 1 .. Len(path)
            /\ routes[i].prefix = node(Len(routes[i].prefix))
        BY <2>7, <4>2
      <4>5. Len(routes[i].prefix) = l
        BY <2>5, <3>3, <3>5, <4>2, <4>3, <4>4
      <4> QED BY <4>4, <4>5 DEF Named
    <3> HIDE DEF N, longest, prefix, exact, tab
    <3>8. longest = N
      BY <3>6, <3>7
    <3>9. prefix # {}
      BY <3>2, <3>4
    <3> QED BY <1>1, <1>6, <2>2, <2>3, <3>2, <3>8, <3>9 DEF tab
  <2> QED BY <2>4, <2>8, <2>9
<1> QED BY <1>5, <1>6

(* BestRoute looks at nothing but the prefixes and which are exact.        *)
LEMMA SameBest ==
    ASSUME NEW rs, NEW routes, DOMAIN rs = DOMAIN routes, NEW path,
           \A i \in DOMAIN routes : rs[i].prefix = routes[i].prefix /\ rs[i].exact = routes[i].exact
    PROVE  BestRoute(rs, path) = BestRoute(routes, path)
<1> DEFINE exact(r) == {i \in DOMAIN r : r[i].exact /\ r[i].prefix = path}
           prefix(r) == {i \in DOMAIN r : ~r[i].exact /\ IsPrefix(r[i].prefix, path)}
           longest(r) == {i \in prefix(r) : \A j \in prefix(r) : Len(r[j].prefix) <= Len(r[i].prefix)}
<1>1. \A r : BestRoute(r, path) = IF exact(r) # {} THEN Max(exact(r))
                                  ELSE IF prefix(r) # {} THEN Max(longest(r)) ELSE 0
  BY DEF BestRoute
<1>2. exact(rs) = exact(routes)
  OBVIOUS
<1>3. prefix(rs) = prefix(routes)
  OBVIOUS
<1>4. longest(rs) = longest(routes)
  <2>1. \A i \in prefix(routes) : rs[i].prefix = routes[i].prefix
    OBVIOUS
  <2> HIDE DEF prefix
  <2> QED BY <1>3, <2>1
<1> HIDE DEF exact, prefix, longest
<1> QED BY <1>1, <1>2, <1>3, <1>4

(* BestRoute names one of the routes, if some prefix route matches at all. *)
LEMMA BestInRange ==
    ASSUME NEW n \in Nat, NEW routes, DOMAIN routes = 1 .. n, NEW path, Len(path) \in Nat,
           \A i \in 1 .. n : Len(routes[i].prefix) \in Nat
    PROVE  /\ BestRoute(routes, path) \in 0 .. n
           /\ \A k \in 1 .. n :
                ~routes[k].exact /\ IsPrefix(routes[k].prefix, path) => BestRoute(routes, path) # 0
<1> DEFINE exact == {i \in DOMAIN routes : routes[i].exact /\ routes[i].prefix = path}
           prefix == {i \in DOMAIN routes : ~routes[i].exact /\ IsPrefix(routes[i].prefix, path)}
           longest == {i \in prefix : \A j \in prefix : Len(routes[j].prefix) <= Len(routes[i].prefix)}
           L == {Len(routes[i].prefix) : i \in prefix}
<1>1. BestRoute(routes, path) = IF exact # {} THEN Max(exact) ELSE IF prefix # {} THEN Max(longest) ELSE 0
  BY DEF BestRoute
<1>2. ASSUME NEW S \in SUBSET (1 .. n), S # {} PROVE Max(S) \in 1 .. n
  <2>1. S \in SUBSET Nat /\ \A x \in S : x <= n
    OBVIOUS
  <2>2. Max(S) \in S
    BY <1>2, <2>1, MaxMember
  <2> QED BY <2>2
<1>3. exact \in SUBSET (1 .. n) /\ longest \in SUBSET (1 .. n) /\ prefix \in SUBSET (1 .. n)
  OBVIOUS
<1>4. ASSUME prefix # {} PROVE longest # {}
  <2>1. L \in SUBSET Nat /\ L # {}
    BY <1>3, <1>4
  <2>2. \A x \in L : x <= Len(path)
    BY DEF IsPrefix
  <2>3. Max(L) \in L /\ \A x \in L : Max(L) >= x
    <3> HIDE DEF L
    <3> QED BY <2>1, <2>2, MaxMember
  <2>4. PICK i \in prefix : Max(L) = Len(routes[i].prefix)
    BY <2>3
  <2>5. ASSUME NEW j \in prefix PROVE Len(routes[j].prefix) <= Len(routes[i].prefix)
    <3>1. Len(routes[j].prefix) \in L /\ Len(routes[j].prefix) \in Nat /\ Len(routes[i].prefix) \in Nat
      BY <1>3
    <3> QED BY <2>3, <2>4, <3>1
  <2>6. i \in longest
    BY <2>5
  <2> QED BY <2>6
<1>5. \A k \in 1 .. n : ~routes[k].exact /\ IsPrefix(routes[k].prefix, path) => prefix # {}
  OBVIOUS
<1>6. 0 \in 0 .. n /\ \A x \in 1 .. n : x \in 0 .. n /\ x # 0
  OBVIOUS
<1> HIDE DEF exact, prefix, longest
<1> QED BY <1>1, <1>2, <1>3, <1>4, <1>5, <1>6
=============================================================================
