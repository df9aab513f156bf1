---------------------------- MODULE GatewayProofs ----------------------------
(***************************************************************************)
(* Proofs about Gateway, for any connections, fd numbers, files, requests  *)
(* and bounds.                                                             *)
(*                                                                         *)
(* A step of a handler replaces its own record and touches at most one of  *)
(* the shared data.  Effect says what any such step does to the record and *)
(* Frame which steps touch which data; HandlerStep shows that every step   *)
(* of a handler has both, unless it ends connections.  The proofs that the *)
(* parts of the invariant IInv are preserved use only these, so they look  *)
(* at the few actions that matter to each part.                            *)
(***************************************************************************)
EXTENDS Gateway, RouteTableProofs, FiniteSetTheorems, TLAPS

(* The fields of a handler, the requests the filters see and their tokens. *)
Fields == {"pc", "fd", "this", "req", "count", "limit", "route", "routes", "upstream", "status",
           "file", "base", "read", "sent", "from", "upto", "at", "excused"}
PlainRequests == {r \in Requests : r.kind = "plain"}
Tokens == {r.token : r \in PlainRequests}

(* The settings a load can commit, and the nodes of the cache.             *)
Configs ==
    [inited : BOOLEAN, routes : {Resolved(f) : f \in Files} \cup {<<>>},
     table : {BuildTrie(f.routes) : f \in Files} \cup {BuildTrie(<<>>)},
     black : {f.black : f \in Files} \cup {{}}, qps : Nat,
     jwt : BOOLEAN, secret : {f.secret : f \in Files} \cup {""}]
Nodes == [key : Tokens, value : {tok.exp : tok \in Tokens}]

(* No connection, handlers before process(), the codes of responses, and   *)
(* the handlers whose request is filtered.                                 *)
Gone == {"none", "undefined"}
Early == {"handle", "alloc", "init", "read"}
Codes == {0, 200, 400, 401, 403, 413, 429, 500, 502}
Filtered == {"black", "rate", "count", "check", "auth", "verify", "put", "routeToken"}

(* The types the proofs need.                                              *)
HandlerType ==
    /\ DOMAIN conn = Conns
    /\ \A c \in Conns :
        /\ DOMAIN conn[c] = Fields
        /\ conn[c].fd \in Fds \cup {0} /\ conn[c].this \in Nat
        /\ conn[c].pc = "process" => conn[c].req \in Requests
        /\ conn[c].pc \in Filtered => conn[c].req \in PlainRequests
        /\ conn[c].pc = "commit" => conn[c].file \in Files /\ conn[c].base \in 1 .. Len(log)
        /\ conn[c].pc = "count" => conn[c].count \in Nat /\ conn[c].limit \in Nat
        /\ conn[c].pc = "check" => conn[c].limit \in Nat
DataType ==
    /\ disk \in Files \cup {NoFile} /\ now \in Nat
    /\ log \in Seq(Configs) /\ Len(log) >= 1
    /\ arrays \in Seq([Fds -> Conns \cup {NoConn}])
    /\ limiter \in [sec : Nat, count : Nat, passed : Nat, top : Nat, racy : BOOLEAN]
    /\ cache \in [capacity : Nat \ {0}, list : Seq(Nodes)]

(* A handler at work has an fd of its own.                                 *)
OwnFd ==
    /\ \A c \in Conns : conn[c].pc \notin Gone => conn[c].fd \in Fds
    /\ \A c, d \in Conns : conn[c].fd \in Fds /\ conn[c].fd = conn[d].fd => c = d

(* There is an array once a handler is past its allocation, and the array  *)
(* whose slot a handler works on exists.                                   *)
ArrayExists ==
    \A c \in Conns :
        /\ conn[c].pc \in {"init", "read", "process"} => arrays # <<>>
        /\ conn[c].this # 0 =>
            conn[c].pc # "none" /\ conn[c].fd \in Fds /\ conn[c].this <= Len(arrays)

(* Up to read_once no request was read.                                    *)
Unread == \A c \in Conns : conn[c].pc \in Early \cup {"none"} => conn[c].read = FALSE

(* Unless two handlers were in the rate limiter at once, the one inside it *)
(* has loaded the present count, or has stored it and not yet passed, and  *)
(* no more requests passed than were counted.                              *)
RateInv ==
    ~limiter.racy =>
        /\ limiter.passed <= limiter.count /\ limiter.passed <= limiter.top
        /\ \A c \in Counting : conn[c].limit <= limiter.top /\ \A d \in Counting : d = c
        /\ \A c \in Conns :
            /\ At(c, "count") => conn[c].count = limiter.count
            /\ At(c, "check") => limiter.passed + 1 <= limiter.count

(* The list of the cache holds a key once and fits its capacity.           *)
Distinct(list) == \A i, j \in 1 .. Len(list) : list[i].key = list[j].key => i = j
CacheShape == Len(cache.list) <= cache.capacity /\ Distinct(cache.list)

(* A token about to be put was signed with the secret it was verified by.  *)
PutVerified ==
    \A c \in Conns : At(c, "put") =>
        conn[c].base \in 1 .. Len(log) /\ Req(c).token.secret = log[conn[c].base].secret

(* The inductive invariant.                                                *)
IInv ==
    /\ HandlerType /\ DataType /\ OwnFd /\ ArrayExists /\ Unread /\ RateInv /\ CacheShape
    /\ PutVerified /\ SlotServesOwner /\ Answered /\ CacheSound
-----------------------------------------------------------------------------
(* The steps of a handler                                                  *)

(* The steps by which a request leaves the filters.                        *)
Admitted(c) ==
    LET tok == Req(c).token
        wanted == IF conn[c].route = 0 THEN NoToken ELSE Route(c).token IN
    \/ /\ At(c, "auth") /\ Cur.jwt /\ tok # NoToken /\ CacheHit(tok)
       /\ Admit(c, now, Len(log), tok \in late)
    \/ Put(c)
    \/ /\ At(c, "routeToken") /\ wanted \in {NoToken, tok}
       /\ Admit(c, now, Len(log), FALSE)
    \/ At(c, "routeToken") /\ Admit(c, now, Len(log), TRUE)

(* What a step of the handler of c does to the handlers, unless it ends    *)
(* the connection or the behaviour of the process becomes undefined.       *)
Effect(c) ==
    /\ DOMAIN conn' = Conns /\ DOMAIN conn'[c] = Fields
    /\ \A d \in Conns : d # c => conn'[d] = conn[d]
    /\ conn[c].pc \notin Gone /\ conn'[c].pc \notin Gone
    /\ conn'[c].fd = conn[c].fd
    /\ \/ conn'[c].this \in {0, conn[c].this}
       \/ /\ At(c, "process") /\ conn'[c].this = Len(arrays)
          /\ arrays[Len(arrays)][conn[c].fd] # NoConn /\ arrays' = arrays
    /\ conn'[c].pc \in Early => conn[c].pc \in Early /\ conn'[c].read = conn[c].read
    /\ conn'[c].pc = "init" => (At(c, "handle") /\ arrays # <<>>) \/ Alloc(c)
    /\ conn'[c].pc = "read" => InitSlot(c)
    /\ conn'[c].pc = "process" => At(c, "read") /\ conn'[c].req \in Requests /\ arrays' = arrays
    /\ conn'[c].pc \in Filtered =>
         /\ conn'[c].req = conn[c].req
         /\ \/ conn[c].pc \in Filtered /\ conn'[c].from = conn[c].from
            \/ /\ At(c, "process") /\ Req(c).kind = "plain"
               /\ conn'[c].pc = "black" /\ conn'[c].from = Len(log)
    /\ conn'[c].pc \in Filtered \ {"black"} => (At(c, "black") => Req(c).addr \notin Cur.black)
    /\ conn'[c].pc = "close" =>
         \/ conn'[c].status # 0 \/ conn'[c].sent = TRUE
         \/ At(c, "read") /\ conn'[c].read = conn[c].read
    /\ conn'[c].pc = "commit" =>
         /\ conn'[c].file \in Files /\ HasDefault(conn'[c].file.routes)
         /\ conn'[c].base = Len(log) /\ log' = log
    /\ conn'[c].pc = "count" =>
         RateEnter(c) /\ conn'[c].limit = Cur.qps /\ Cur.qps > 0 /\ conn'[c].count = limiter'.count
    /\ conn'[c].pc = "check" => RateCount(c) /\ conn'[c].limit = conn[c].limit
    /\ conn'[c].pc = "put" =>
         /\ conn'[c].base = Len(log) /\ log' = log /\ conn[c].req.token.secret = Cur.secret
         /\ At(c, "verify") /\ conn'[c].at = now /\ VerifyHs256(Req(c).token, Cur.secret, now)
    /\ conn'[c].pc = "verify" => Cur.jwt /\ Req(c).token # NoToken
    /\ conn'[c].pc = "routeToken" =>
         ~Cur.jwt /\ conn'[c].routes = Len(log) /\ conn'[c].route = MatchRoute(Cur.table, Req(c).path)
    /\ IF conn'[c].pc = "pick" THEN Admitted(c)
       ELSE conn'[c].upto = 0 \/ (conn[c].pc # "pick" /\ conn'[c].upto = conn[c].upto)
    /\ conn'[c].pc = "alloc" => At(c, "handle") /\ arrays = <<>>
    /\ conn'[c].pc \in {"black", "rate"} => conn[c].pc \in {"process", "black"}
    /\ conn'[c].status \in Codes \cup {conn[c].status}
    /\ conn'[c].pc = "deref" =>
         /\ At(c, "pick") /\ conn'[c].req = conn[c].req /\ conn'[c].routes = Len(log)
         /\ conn'[c].route # 0 /\ conn'[c].route = MatchRoute(Cur.table, Req(c).path)
    /\ IF conn'[c].pc = "connect" THEN Deref(c)
       ELSE conn'[c].upstream = NoHost \/ (conn[c].pc # "connect" /\ conn'[c].upstream = conn[c].upstream)
    /\ \/ conn'[c].pc \in {"routeToken", "deref"} \/ conn'[c].route = 0
       \/ conn'[c].route = conn[c].route /\ conn'[c].routes = conn[c].routes

(* No handler touches these; the router's index may turn.                  *)
Quiet ==
    /\ UNCHANGED <<edits, known, server, accepted>>
    /\ index' \in {index, (index + 1) % IndexRange}

(* What it does to the data: the steps that change each variable.          *)
Frame(c) ==
    /\ disk' = disk /\ now' = now /\ Quiet /\ conn[c].pc # "close"
    /\ arrays' = arrays \/ Alloc(c) \/ InitSlot(c)
    /\ log' = log \/ LoadCommit(c)
    /\ limiter' = limiter \/ RateEnter(c) \/ RateCount(c) \/ RateCheck(c)
    /\ (cache' = cache /\ late' = late) \/ LoadRead(c) \/ LoadCommit(c) \/ Auth(c) \/ Put(c)

(* Connections end, one by close() or all by undefined behaviour.          *)
Ended ==
    /\ DOMAIN conn' = Conns
    /\ \A d \in Conns :
        \/ conn'[d] = conn[d]
        \/ /\ DOMAIN conn'[d] = Fields /\ conn'[d].pc \in Gone
           /\ conn'[d].fd = 0 /\ conn'[d].this = 0 /\ conn'[d].read = FALSE /\ conn'[d].upto = 0
           /\ conn'[d].status = 0 /\ conn'[d].upstream = NoHost /\ conn'[d].route = 0
    /\ Quiet
    /\ UNCHANGED <<disk, now, log, arrays, limiter, cache, late>>

(* A handler's record is replaced, the others stay.                        *)
LEMMA SetOne ==
    ASSUME HandlerType, NEW c \in Conns, NEW r, conn' = [conn EXCEPT ![c] = r]
    PROVE  /\ DOMAIN conn' = Conns /\ conn'[c] = r
           /\ \A d \in Conns : d # c => conn'[d] = conn[d]
BY DEF HandlerType

(* A handler goes on to another place.                                     *)
LEMMA GotoFields ==
    ASSUME HandlerType, NEW c \in Conns, NEW l, Goto(c, l)
    PROVE  /\ DOMAIN conn' = Conns /\ DOMAIN conn'[c] = Fields
           /\ \A d \in Conns : d # c => conn'[d] = conn[d]
           /\ conn'[c].pc = l
           /\ \A x \in Fields : x # "pc" => conn'[c][x] = conn[c][x]
<1>1. conn' = [conn EXCEPT ![c] = [conn[c] EXCEPT !.pc = l]]
  BY DEF Goto, HandlerType
<1>2. DOMAIN conn[c] = Fields
  BY DEF HandlerType
<1>3. /\ DOMAIN [conn[c] EXCEPT !.pc = l] = Fields
      /\ [conn[c] EXCEPT !.pc = l].pc = l
      /\ \A x \in Fields : x # "pc" => [conn[c] EXCEPT !.pc = l][x] = conn[c][x]
  BY <1>2 DEF Fields
<1> QED BY <1>1, <1>3, SetOne

LEMMA GotoEffect ==
    ASSUME HandlerType, NEW c \in Conns, NEW l, Goto(c, l), conn[c].pc \notin Gone,
           l \notin Gone \cup Early \cup {"process", "close", "commit", "count", "check", "put",
                              "black", "routeToken"},
           l \notin {"pick", "deref", "connect"}, conn[c].pc \notin {"pick", "connect"},
           l = "rate" => At(c, "black"),
           l \in Filtered => conn[c].pc \in Filtered /\ (At(c, "black") => Req(c).addr \notin Cur.black),
           l = "verify" => Cur.jwt /\ Req(c).token # NoToken
    PROVE  Effect(c)
<1>1. /\ DOMAIN conn' = Conns /\ DOMAIN conn'[c] = Fields
      /\ \A d \in Conns : d # c => conn'[d] = conn[d]
      /\ conn'[c].pc = l
      /\ conn'[c].fd = conn[c].fd /\ conn'[c].this = conn[c].this /\ conn'[c].req = conn[c].req
      /\ conn'[c].from = conn[c].from /\ conn'[c].upto = conn[c].upto
      /\ conn'[c].status = conn[c].status /\ conn'[c].upstream = conn[c].upstream
      /\ conn'[c].route = conn[c].route /\ conn'[c].routes = conn[c].routes
  BY GotoFields DEF Fields
<1> QED BY <1>1 DEF Effect, Early, Gone, At

(* An answer ends process().                                               *)
LEMMA RespondEffect ==
    ASSUME HandlerType, NEW c \in Conns, NEW code \in Codes \ {0}, Respond(c, code), conn[c].pc \notin Gone
    PROVE  Effect(c)
<1> DEFINE r == [Left(c, "close") EXCEPT !.this = 0, !.status = code]
<1>1. /\ DOMAIN r = Fields /\ r.pc = "close" /\ r.fd = conn[c].fd /\ r.this = 0
      /\ r.status = code /\ r.upto = 0 /\ r.upstream = NoHost /\ r.route = 0
  BY DEF Left, Idle, Fields
<1> HIDE DEF r
<1>2. conn' = [conn EXCEPT ![c] = r]
  BY DEF Respond, r
<1>3. /\ DOMAIN conn' = Conns /\ conn'[c] = r
      /\ \A d \in Conns : d # c => conn'[d] = conn[d]
  BY <1>2, SetOne
<1> QED BY <1>1, <1>3 DEF Effect, Gone, Early, Filtered

LEMMA ForwardEffect ==
    ASSUME HandlerType, NEW c \in Conns, Forward(c), conn[c].pc \notin Gone
    PROVE  Effect(c)
<1>1. CASE Respond(c, 502)
  BY <1>1, RespondEffect DEF Codes
<1>2. CASE \E code \in {0, 200} :
        conn' = [conn EXCEPT ![c] = [Left(c, "close") EXCEPT !.this = 0, !.status = code, !.sent = TRUE]]
  <2>1. PICK code \in {0, 200} :
        conn' = [conn EXCEPT ![c] = [Left(c, "close") EXCEPT !.this = 0, !.status = code, !.sent = TRUE]]
    BY <1>2
  <2> DEFINE r == [Left(c, "close") EXCEPT !.this = 0, !.status = code, !.sent = TRUE]
  <2>2. /\ DOMAIN r = Fields /\ r.pc = "close" /\ r.fd = conn[c].fd /\ r.this = 0
        /\ r.upto = 0 /\ r.upstream = NoHost /\ r.route = 0 /\ r.sent = TRUE /\ r.status \in Codes
    <3>1. /\ DOMAIN r = Fields /\ r.pc = "close" /\ r.fd = conn[c].fd /\ r.this = 0
          /\ r.status = code /\ r.upto = 0 /\ r.upstream = NoHost /\ r.route = 0
      BY DEF Left, Idle, Fields
    <3>2. r.sent = TRUE
      BY DEF Left, Idle
    <3>3. code \in Codes
      BY DEF Codes
    <3> QED BY <3>1, <3>2, <3>3, Zenon
  <2>3. conn' = [conn EXCEPT ![c] = r]
    BY <2>1
  <2> HIDE DEF r
  <2>4. /\ DOMAIN conn' = Conns /\ conn'[c] = r
        /\ \A d \in Conns : d # c => conn'[d] = conn[d]
    BY <2>3 DEF HandlerType
  <2> QED BY <2>2, <2>4 DEF Effect, Gone, Early, Filtered
<1> QED BY <1>1, <1>2 DEF Forward

(* A request that leaves the filters, or has found its route.              *)
LEMMA PassOn ==
    ASSUME HandlerType, NEW c \in Conns, NEW r, conn' = [conn EXCEPT ![c] = r], conn[c].pc \notin Gone,
           DOMAIN r = Fields, r.pc \in {"pick", "deref"}, r.fd = conn[c].fd, r.this = conn[c].this,
           r.status = 0, r.upstream = NoHost,
           r.pc = "pick" => Admitted(c) /\ r.route = 0,
           r.pc = "deref" =>
             /\ r.upto = 0 /\ At(c, "pick") /\ r.req = conn[c].req /\ r.routes = Len(log)
             /\ r.route # 0 /\ r.route = MatchRoute(Cur.table, Req(c).path)
    PROVE  Effect(c)
<1>1. /\ DOMAIN conn' = Conns /\ conn'[c] = r
      /\ \A d \in Conns : d # c => conn'[d] = conn[d]
  BY SetOne
<1> QED BY <1>1 DEF Effect, Gone, Early, Filtered, Codes

LEMMA AdmitEffect ==
    ASSUME HandlerType, NEW c \in Conns, NEW t, NEW k, NEW e, Admit(c, t, k, e), conn[c].pc \notin Gone,
           Admitted(c)
    PROVE  Effect(c)
<1> DEFINE r == [Left(c, "pick") EXCEPT !.req = Req(c), !.from = conn[c].from,
                                        !.upto = k, !.at = t, !.excused = e]
<1>1. /\ DOMAIN r = Fields /\ r.pc = "pick" /\ r.fd = conn[c].fd /\ r.this = conn[c].this
      /\ r.status = 0 /\ r.upstream = NoHost /\ r.route = 0
  BY DEF Left, Idle, Fields
<1>2. conn' = [conn EXCEPT ![c] = r]
  BY DEF Admit
<1> HIDE DEF r
<1> QED BY <1>1, <1>2, PassOn
-----------------------------------------------------------------------------
(* Every step of a handler has its Effect.                                 *)

LEMMA HandleEffect ==
    ASSUME HandlerType, NEW c \in Conns, Handle(c)
    PROVE  Effect(c)
<1>1. PICK l \in {"alloc", "init"} : Goto(c, l) /\ (l = "init" <=> arrays # <<>>)
  BY DEF Handle
<1>2. /\ DOMAIN conn' = Conns /\ DOMAIN conn'[c] = Fields
      /\ \A d \in Conns : d # c => conn'[d] = conn[d]
      /\ conn'[c].pc = l
      /\ conn'[c].fd = conn[c].fd /\ conn'[c].this = conn[c].this /\ conn'[c].read = conn[c].read
      /\ conn'[c].upto = conn[c].upto
      /\ conn'[c].status = conn[c].status /\ conn'[c].upstream = conn[c].upstream
      /\ conn'[c].route = conn[c].route /\ conn'[c].routes = conn[c].routes
  BY <1>1, GotoFields DEF Fields
<1> QED BY <1>1, <1>2 DEF Handle, At, Effect, Gone, Early, Filtered

LEMMA AllocEffect ==
    ASSUME HandlerType, NEW c \in Conns, Alloc(c)
    PROVE  Effect(c)
<1>1. /\ DOMAIN conn' = Conns /\ DOMAIN conn'[c] = Fields
      /\ \A d \in Conns : d # c => conn'[d] = conn[d]
      /\ conn'[c].pc = "init"
      /\ conn'[c].fd = conn[c].fd /\ conn'[c].this = conn[c].this /\ conn'[c].read = conn[c].read
      /\ conn'[c].upto = conn[c].upto
      /\ conn'[c].status = conn[c].status /\ conn'[c].upstream = conn[c].upstream
      /\ conn'[c].route = conn[c].route /\ conn'[c].routes = conn[c].routes
  BY GotoFields DEF Alloc, Fields
<1>2. conn[c].pc = "alloc"
  BY DEF Alloc, At
<1> QED BY <1>1, <1>2 DEF Effect, Gone, Early, Filtered

LEMMA InitSlotEffect ==
    ASSUME HandlerType, NEW c \in Conns, InitSlot(c)
    PROVE  Effect(c)
<1>1. /\ DOMAIN conn' = Conns /\ DOMAIN conn'[c] = Fields
      /\ \A d \in Conns : d # c => conn'[d] = conn[d]
      /\ conn'[c].pc = "read"
      /\ conn'[c].fd = conn[c].fd /\ conn'[c].this = conn[c].this /\ conn'[c].read = conn[c].read
      /\ conn'[c].upto = conn[c].upto
      /\ conn'[c].status = conn[c].status /\ conn'[c].upstream = conn[c].upstream
      /\ conn'[c].route = conn[c].route /\ conn'[c].routes = conn[c].routes
  BY GotoFields DEF InitSlot, Fields
<1>2. conn[c].pc = "init"
  BY DEF InitSlot, At
<1> QED BY <1>1, <1>2 DEF Effect, Gone, Early, Filtered

LEMMA ReadEffect ==
    ASSUME HandlerType, NEW c \in Conns, ReadOnce(c)
    PROVE  Effect(c)
<1>1. conn[c].pc = "read" /\ arrays' = arrays
  BY DEF ReadOnce, At
<1>2. CASE Goto(c, "close")
  <2>1. /\ DOMAIN conn' = Conns /\ DOMAIN conn'[c] = Fields
        /\ \A d \in Conns : d # c => conn'[d] = conn[d]
        /\ conn'[c].pc = "close"
        /\ conn'[c].fd = conn[c].fd /\ conn'[c].this = conn[c].this /\ conn'[c].read = conn[c].read
        /\ conn'[c].upto = conn[c].upto
      /\ conn'[c].status = conn[c].status /\ conn'[c].upstream = conn[c].upstream
      /\ conn'[c].route = conn[c].route /\ conn'[c].routes = conn[c].routes
    BY <1>2, GotoFields DEF Fields
  <2> QED BY <1>1, <2>1 DEF Effect, Gone, Early, Filtered, At
<1>3. ASSUME NEW r \in Requests,
             conn' = [conn EXCEPT ![c].pc = "process", ![c].req = r, ![c].read = TRUE]
      PROVE  Effect(c)
  <2> DEFINE s == [conn[c] EXCEPT !.pc = "process", !.req = r, !.read = TRUE]
  <2>1. DOMAIN conn = Conns /\ DOMAIN conn[c] = Fields
    BY DEF HandlerType
  <2>2. conn' = [conn EXCEPT ![c] = s]
    BY <1>3, <2>1 DEF Fields
  <2>3. /\ DOMAIN s = Fields /\ s.pc = "process" /\ s.req = r
        /\ s.fd = conn[c].fd /\ s.this = conn[c].this /\ s.upto = conn[c].upto
        /\ s.status = conn[c].status /\ s.upstream = conn[c].upstream
        /\ s.route = conn[c].route /\ s.routes = conn[c].routes
    BY <2>1 DEF Fields
  <2> HIDE DEF s
  <2>4. /\ DOMAIN conn' = Conns /\ conn'[c] = s
        /\ \A d \in Conns : d # c => conn'[d] = conn[d]
    BY <2>1, <2>2
  <2> QED BY <1>1, <2>3, <2>4 DEF Effect, Gone, Early, Filtered, At
<1> QED BY <1>2, <1>3 DEF ReadOnce

LEMMA ProcessEffect ==
    ASSUME HandlerType, NEW c \in Conns, Process(c), ~Undefine
    PROVE  Effect(c)
<1>1. conn[c].pc = "process" /\ arrays' = arrays
  BY DEF Process, At
<1>2. conn[c].pc \notin Gone
  BY <1>1 DEF Gone
<1>3. CASE Req(c).kind \in DOMAIN Immediate /\ Respond(c, Immediate[Req(c).kind])
  <2>1. Immediate[Req(c).kind] \in Codes \ {0}
    BY <1>3 DEF Immediate, Codes
  <2> QED BY <1>2, <1>3, <2>1, RespondEffect DEF Codes
<1>4. CASE Goto(c, "reload")
  BY <1>1, <1>2, <1>4, GotoEffect DEF Gone, Early, Filtered
<1>5. CASE /\ arrays[Len(arrays)][conn[c].fd] # NoConn /\ Req(c).kind = "plain"
           /\ conn' = [conn EXCEPT ![c].pc = "black", ![c].this = Len(arrays), ![c].from = Len(log)]
  <2> DEFINE s == [conn[c] EXCEPT !.pc = "black", !.this = Len(arrays), !.from = Len(log)]
  <2>1. DOMAIN conn = Conns /\ DOMAIN conn[c] = Fields
    BY DEF HandlerType
  <2>2. conn' = [conn EXCEPT ![c] = s]
    BY <1>5, <2>1 DEF Fields
  <2>3. /\ DOMAIN s = Fields /\ s.pc = "black" /\ s.req = conn[c].req
        /\ s.fd = conn[c].fd /\ s.this = Len(arrays)
        /\ s.from = Len(log) /\ s.upto = conn[c].upto
        /\ s.status = conn[c].status /\ s.upstream = conn[c].upstream
        /\ s.route = conn[c].route /\ s.routes = conn[c].routes
    BY <2>1 DEF Fields
  <2> HIDE DEF s
  <2>4. /\ DOMAIN conn' = Conns /\ conn'[c] = s
        /\ \A d \in Conns : d # c => conn'[d] = conn[d]
    BY <2>1, <2>2
  <2> QED BY <1>1, <1>5, <2>3, <2>4 DEF Effect, Gone, Early, Filtered, At
<1> QED BY <1>3, <1>4, <1>5 DEF Process

LEMMA LoadReadEffect ==
    ASSUME HandlerType, DataType, NEW c \in Conns, LoadRead(c)
    PROVE  Effect(c)
<1>1. conn[c].pc = "reload" /\ log' = log
  BY DEF LoadRead, At, config
<1>2. conn[c].pc \notin Gone
  BY <1>1 DEF Gone
<1>3. CASE Respond(c, 500)
  BY <1>2, <1>3, RespondEffect DEF Codes
<1>4. CASE /\ Acceptable(disk)
           /\ conn' = [conn EXCEPT ![c].pc = "commit", ![c].file = disk, ![c].base = Len(log)]
  <2> DEFINE s == [conn[c] EXCEPT !.pc = "commit", !.file = disk, !.base = Len(log)]
  <2>1. DOMAIN conn = Conns /\ DOMAIN conn[c] = Fields
    BY DEF HandlerType
  <2>2. conn' = [conn EXCEPT ![c] = s]
    BY <1>4, <2>1 DEF Fields
  <2>3. /\ DOMAIN s = Fields /\ s.pc = "commit" /\ s.file = disk /\ s.base = Len(log)
        /\ s.fd = conn[c].fd /\ s.this = conn[c].this /\ s.upto = conn[c].upto
        /\ s.status = conn[c].status /\ s.upstream = conn[c].upstream
        /\ s.route = conn[c].route /\ s.routes = conn[c].routes
    BY <2>1 DEF Fields
  <2> HIDE DEF s
  <2>4. /\ DOMAIN conn' = Conns /\ conn'[c] = s
        /\ \A d \in Conns : d # c => conn'[d] = conn[d]
    BY <2>1, <2>2
  <2>5. disk \in Files /\ HasDefault(disk.routes)
    BY <1>4 DEF Acceptable, DataType
  <2> QED BY <1>1, <2>3, <2>4, <2>5 DEF Effect, Gone, Early, Filtered
<1> QED BY <1>3, <1>4 DEF LoadRead

LEMMA RateEnterEffect ==
    ASSUME HandlerType, DataType, NEW c \in Conns, RateEnter(c)
    PROVE  Effect(c)
<1>1. conn[c].pc = "rate"
  BY DEF RateEnter, At
<1>2. conn[c].pc \notin Gone
  BY <1>1 DEF Gone
<1>3. CASE Goto(c, "auth")
  BY <1>1, <1>2, <1>3, GotoEffect DEF Gone, Early, Filtered, At
<1>4. CASE /\ Cur.qps > 0
           /\ conn' = [conn EXCEPT ![c].pc = "count", ![c].limit = Cur.qps, ![c].count = limiter'.count]
  <2> DEFINE s == [conn[c] EXCEPT !.pc = "count", !.limit = Cur.qps, !.count = limiter'.count]
  <2>1. DOMAIN conn = Conns /\ DOMAIN conn[c] = Fields
    BY DEF HandlerType
  <2>2. conn' = [conn EXCEPT ![c] = s]
    BY <1>4, <2>1 DEF Fields
  <2>3. /\ DOMAIN s = Fields /\ s.pc = "count" /\ s.limit = Cur.qps /\ s.count = limiter'.count
        /\ s.fd = conn[c].fd /\ s.this = conn[c].this /\ s.req = conn[c].req
        /\ s.from = conn[c].from /\ s.upto = conn[c].upto
        /\ s.status = conn[c].status /\ s.upstream = conn[c].upstream
        /\ s.route = conn[c].route /\ s.routes = conn[c].routes
    BY <2>1 DEF Fields
  <2> HIDE DEF s
  <2>4. /\ DOMAIN conn' = Conns /\ conn'[c] = s
        /\ \A d \in Conns : d # c => conn'[d] = conn[d]
    BY <2>1, <2>2
  <2> QED BY <1>1, <1>4, <2>3, <2>4 DEF Effect, Gone, Early, Filtered, At
<1> QED BY <1>3, <1>4 DEF RateEnter

LEMMA RateCountEffect ==
    ASSUME HandlerType, NEW c \in Conns, RateCount(c)
    PROVE  Effect(c)
<1> DEFINE s == [conn[c] EXCEPT !.pc = "check", !.count = 0]
<1>1. DOMAIN conn = Conns /\ DOMAIN conn[c] = Fields
  BY DEF HandlerType
<1>2. conn' = [conn EXCEPT ![c] = s]
  BY <1>1 DEF RateCount, Fields
<1>3. /\ DOMAIN s = Fields /\ s.pc = "check" /\ s.limit = conn[c].limit
      /\ s.fd = conn[c].fd /\ s.this = conn[c].this /\ s.req = conn[c].req
      /\ s.from = conn[c].from /\ s.upto = conn[c].upto
      /\ s.status = conn[c].status /\ s.upstream = conn[c].upstream
      /\ s.route = conn[c].route /\ s.routes = conn[c].routes
  BY <1>1 DEF Fields
<1> HIDE DEF s
<1>4. /\ DOMAIN conn' = Conns /\ conn'[c] = s
      /\ \A d \in Conns : d # c => conn'[d] = conn[d]
  BY <1>1, <1>2
<1>5. conn[c].pc = "count"
  BY DEF RateCount, At
<1> QED BY <1>5, <1>3, <1>4 DEF Effect, Gone, Early, Filtered, At

LEMMA RateCheckEffect ==
    ASSUME HandlerType, NEW c \in Conns, RateCheck(c)
    PROVE  Effect(c)
<1>1. conn[c].pc = "check"
  BY DEF RateCheck, At
<1>2. conn[c].pc \notin Gone
  BY <1>1 DEF Gone
<1>3. CASE Respond(c, 429)
  BY <1>2, <1>3, RespondEffect DEF Codes
<1>4. CASE conn' = [conn EXCEPT ![c].pc = "auth", ![c].limit = 0]
  <2> DEFINE s == [conn[c] EXCEPT !.pc = "auth", !.limit = 0]
  <2>1. DOMAIN conn = Conns /\ DOMAIN conn[c] = Fields
    BY DEF HandlerType
  <2>2. conn' = [conn EXCEPT ![c] = s]
    BY <1>4, <2>1 DEF Fields
  <2>3. /\ DOMAIN s = Fields /\ s.pc = "auth"
        /\ s.fd = conn[c].fd /\ s.this = conn[c].this /\ s.req = conn[c].req
        /\ s.from = conn[c].from /\ s.upto = conn[c].upto
        /\ s.status = conn[c].status /\ s.upstream = conn[c].upstream
        /\ s.route = conn[c].route /\ s.routes = conn[c].routes
    BY <2>1 DEF Fields
  <2> HIDE DEF s
  <2>4. /\ DOMAIN conn' = Conns /\ conn'[c] = s
        /\ \A d \in Conns : d # c => conn'[d] = conn[d]
    BY <2>1, <2>2
  <2> QED BY <1>1, <2>3, <2>4 DEF Effect, Gone, Early, Filtered, At
<1> QED BY <1>3, <1>4 DEF RateCheck

LEMMA AuthEffect ==
    ASSUME HandlerType, NEW c \in Conns, Auth(c)
    PROVE  Effect(c)
<1>1. conn[c].pc = "auth"
  BY DEF Auth, At
<1>2. conn[c].pc \notin Gone
  BY <1>1 DEF Gone
<1>3. CASE Respond(c, 401)
  BY <1>2, <1>3, RespondEffect DEF Codes
<1>4. CASE Cur.jwt /\ Req(c).token # NoToken /\ Goto(c, "verify")
  BY <1>1, <1>2, <1>4, GotoEffect DEF Gone, Early, Filtered, At
<1>5. CASE /\ Cur.jwt /\ Req(c).token # NoToken /\ CacheHit(Req(c).token)
           /\ Admit(c, now, Len(log), Req(c).token \in late)
  <2>1. Admitted(c)
    BY <1>1, <1>5 DEF Admitted, At
  <2> QED BY <1>2, <1>5, <2>1, AdmitEffect
<1>6. CASE /\ ~Cur.jwt
           /\ conn' = [conn EXCEPT ![c].pc = "routeToken", ![c].routes = Len(log),
                                   ![c].route = MatchRoute(Cur.table, Req(c).path)]
  <2> DEFINE m == MatchRoute(Cur.table, Req(c).path)
             s == [conn[c] EXCEPT !.pc = "routeToken", !.routes = Len(log), !.route = m]
  <2> HIDE DEF m
  <2>1. DOMAIN conn = Conns /\ DOMAIN conn[c] = Fields
    BY DEF HandlerType
  <2>2. conn' = [conn EXCEPT ![c].pc = "routeToken", ![c].routes = Len(log), ![c].route = m]
    BY <1>6 DEF m
  <2>3. conn' = [conn EXCEPT ![c] = s]
    BY <2>1, <2>2 DEF Fields
  <2>4. /\ DOMAIN s = Fields /\ s.pc = "routeToken" /\ s.req = conn[c].req
        /\ s.routes = Len(log) /\ s.route = m /\ s.from = conn[c].from
        /\ s.fd = conn[c].fd /\ s.this = conn[c].this /\ s.upto = conn[c].upto
        /\ s.status = conn[c].status /\ s.upstream = conn[c].upstream
    BY <2>1 DEF Fields
  <2> HIDE DEF s
  <2>5. /\ DOMAIN conn' = Conns /\ conn'[c] = s
        /\ \A d \in Conns : d # c => conn'[d] = conn[d]
    BY <2>1, <2>3
  <2> QED BY <1>1, <1>6, <2>4, <2>5 DEF Effect, Gone, Early, Filtered, At, m
<1> QED BY <1>3, <1>4, <1>5, <1>6 DEF Auth

LEMMA VerifyEffect ==
    ASSUME HandlerType, NEW c \in Conns, Verify(c)
    PROVE  Effect(c)
<1>1. conn[c].pc = "verify" /\ log' = log
  BY DEF Verify, At, config
<1>2. conn[c].pc \notin Gone
  BY <1>1 DEF Gone
<1>3. CASE Respond(c, 401)
  BY <1>2, <1>3, RespondEffect DEF Codes
<1>4. CASE /\ VerifyHs256(Req(c).token, Cur.secret, now)
           /\ conn' = [conn EXCEPT ![c].pc = "put", ![c].base = Len(log), ![c].at = now]
  <2> DEFINE s == [conn[c] EXCEPT !.pc = "put", !.base = Len(log), !.at = now]
  <2>1. DOMAIN conn = Conns /\ DOMAIN conn[c] = Fields
    BY DEF HandlerType
  <2>2. conn' = [conn EXCEPT ![c] = s]
    BY <1>4, <2>1 DEF Fields
  <2>3. /\ DOMAIN s = Fields /\ s.pc = "put" /\ s.base = Len(log) /\ s.req = conn[c].req
        /\ s.at = now /\ s.from = conn[c].from
        /\ s.fd = conn[c].fd /\ s.this = conn[c].this /\ s.upto = conn[c].upto
        /\ s.status = conn[c].status /\ s.upstream = conn[c].upstream
        /\ s.route = conn[c].route /\ s.routes = conn[c].routes
    BY <2>1 DEF Fields
  <2> HIDE DEF s
  <2>4. /\ DOMAIN conn' = Conns /\ conn'[c] = s
        /\ \A d \in Conns : d # c => conn'[d] = conn[d]
    BY <2>1, <2>2
  <2>5. conn[c].req.token.secret = Cur.secret
    BY <1>4 DEF VerifyHs256, Req
  <2> QED BY <1>1, <1>4, <2>3, <2>4, <2>5 DEF Effect, Gone, Early, Filtered, At
<1> QED BY <1>3, <1>4 DEF Verify

LEMMA RouteTokenEffect ==
    ASSUME HandlerType, NEW c \in Conns, RouteToken(c), ~Undefine
    PROVE  Effect(c)
<1>1. conn[c].pc \notin Gone
  BY DEF RouteToken, At, Gone
<1>2. CASE Respond(c, 401)
  BY <1>1, <1>2, RespondEffect DEF Codes
<1>3. CASE /\ (IF conn[c].route = 0 THEN NoToken ELSE Route(c).token) \in {NoToken, Req(c).token}
           /\ Admit(c, now, Len(log), FALSE)
  <2>1. Admitted(c)
    BY <1>3 DEF Admitted, RouteToken
  <2> QED BY <1>1, <1>3, <2>1, AdmitEffect
<1>4. CASE Admit(c, now, Len(log), TRUE)
  <2>1. Admitted(c)
    BY <1>4 DEF Admitted, RouteToken
  <2> QED BY <1>1, <1>4, <2>1, AdmitEffect
<1> QED BY <1>2, <1>3, <1>4 DEF RouteToken

LEMMA PickEffect ==
    ASSUME HandlerType, NEW c \in Conns, Pick(c)
    PROVE  Effect(c)
<1>1. conn[c].pc \notin Gone
  BY DEF Pick, At, Gone
<1> DEFINE m == MatchRoute(Cur.table, Req(c).path)
           r == [Left(c, "deref") EXCEPT !.req = Req(c), !.route = m, !.routes = Len(log)]
<1> HIDE DEF m
<1>2. CASE Respond(c, 502)
  BY <1>1, <1>2, RespondEffect DEF Codes
<1>3. CASE m # 0 /\ conn' = [conn EXCEPT ![c] = r]
  <2>1. /\ DOMAIN r = Fields /\ r.pc = "deref" /\ r.fd = conn[c].fd /\ r.this = conn[c].this /\ r.upto = 0
        /\ r.status = 0 /\ r.upstream = NoHost /\ r.route = m /\ r.routes = Len(log) /\ r.req = Req(c)
    BY DEF Left, Idle, Fields
  <2>2. At(c, "pick")
    BY DEF Pick
  <2> HIDE DEF r
  <2> QED BY <1>1, <1>3, <2>1, <2>2, PassOn DEF m, Req
<1> QED BY <1>2, <1>3 DEF Pick, m

LEMMA ChosenEffect ==
    ASSUME HandlerType, NEW c \in Conns, NEW h, NEW b, Chosen(c, h, b), Deref(c), conn[c].pc \notin Gone \cup {"pick"}
    PROVE  Effect(c)
<1> DEFINE s == [conn[c] EXCEPT !.pc = "connect", !.upstream = h, !.excused = b]
<1>1. DOMAIN conn = Conns /\ DOMAIN conn[c] = Fields
  BY DEF HandlerType
<1>2. conn' = [conn EXCEPT ![c] = s]
  BY <1>1 DEF Chosen, Fields
<1>3. /\ DOMAIN s = Fields /\ s.pc = "connect" /\ s.fd = conn[c].fd
      /\ s.this = conn[c].this /\ s.upto = conn[c].upto /\ s.status = conn[c].status
      /\ s.route = conn[c].route /\ s.routes = conn[c].routes
  BY <1>1 DEF Fields
<1> HIDE DEF s
<1>4. /\ DOMAIN conn' = Conns /\ conn'[c] = s
      /\ \A d \in Conns : d # c => conn'[d] = conn[d]
  BY <1>1, <1>2
<1> QED BY <1>3, <1>4 DEF Effect, Gone, Early, Filtered

LEMMA DerefEffect ==
    ASSUME HandlerType, NEW c \in Conns, Deref(c), ~Undefine
    PROVE  Effect(c)
<1>1. conn[c].pc \notin Gone \cup {"pick"}
  BY DEF Deref, At, Gone
<1>2. CASE Respond(c, 502)
  BY <1>1, <1>2, RespondEffect DEF Codes
<1>3. CASE \E h, b : Chosen(c, h, b)
  BY <1>1, <1>3, ChosenEffect
<1> QED BY <1>2, <1>3 DEF Deref
-----------------------------------------------------------------------------
(* A handler goes on, or connections end.                                  *)

LEMMA UndefinedEnds ==
    ASSUME Undefine, Quiet, UNCHANGED <<disk, now, log, arrays, limiter, cache, late>>
    PROVE  Ended
<1> DEFINE r == [Idle EXCEPT !.pc = "undefined"]
<1>1. DOMAIN r = Fields /\ r.pc \in Gone /\ r.fd = 0 /\ r.this = 0 /\ r.read = FALSE /\ r.upto = 0
      /\ r.status = 0 /\ r.upstream = NoHost /\ r.route = 0
  BY DEF Idle, Fields, Gone
<1>2. conn' = [d \in Conns |-> r]
  BY DEF Undefine
<1> HIDE DEF r
<1> QED BY <1>1, <1>2 DEF Ended

LEMMA CloseEnds ==
    ASSUME HandlerType, NEW c \in Conns, Close(c)
    PROVE  Ended
<1>1. DOMAIN Idle = Fields /\ Idle.pc \in Gone /\ Idle.fd = 0 /\ Idle.this = 0
      /\ Idle.read = FALSE /\ Idle.upto = 0
      /\ Idle.status = 0 /\ Idle.upstream = NoHost /\ Idle.route = 0
  BY DEF Idle, Fields, Gone
<1>2. conn' = [conn EXCEPT ![c] = Idle]
  BY DEF Close
<1>3. /\ DOMAIN conn' = Conns /\ conn'[c] = Idle
      /\ \A d \in Conns : d # c => conn'[d] = conn[d]
  BY <1>2 DEF HandlerType
<1> QED BY <1>1, <1>3 DEF Ended, Close, Quiet, files, config, shared, tcp

LEMMA HandlerStep ==
    ASSUME HandlerType, DataType, NEW c \in Conns, Handler(c)
    PROVE  (Effect(c) /\ Frame(c)) \/ Ended
<1> USE DEF files, config, shared, tcp, Quiet, At
<1>1. CASE Race(c)
  BY <1>1, UndefinedEnds DEF Race
<1>2. CASE Handle(c)
  BY <1>2, HandleEffect DEF Handle, Frame
<1>3. CASE Alloc(c)
  BY <1>3, AllocEffect DEF Alloc, Frame
<1>4. CASE InitSlot(c)
  BY <1>4, InitSlotEffect DEF InitSlot, Frame
<1>5. CASE ReadOnce(c)
  BY <1>5, ReadEffect DEF ReadOnce, Frame
<1>6. CASE Process(c)
  BY <1>6, ProcessEffect, UndefinedEnds, Zenon DEF Process, Frame
<1>7. CASE Close(c)
  BY <1>7, CloseEnds, Zenon
<1>8. CASE LoadRead(c)
  BY <1>8, LoadReadEffect DEF LoadRead, Frame
<1>9. CASE LoadCommit(c)
  <2>1. conn[c].pc \notin Gone
    BY <1>9 DEF LoadCommit, At, Gone
  <2>2. Effect(c)
    BY <1>9, <2>1, RespondEffect DEF LoadCommit, Codes
  <2> QED BY <1>9, <2>2 DEF LoadCommit, Frame
<1>10. CASE Blacklist(c)
  <2>1. conn[c].pc = "black" /\ conn[c].pc \notin Gone /\ conn[c].pc \in Filtered
    BY <1>10 DEF Blacklist, At, Gone, Filtered
  <2>2. CASE Respond(c, 403)
    <3>1. Effect(c)
      BY <2>1, <2>2, RespondEffect DEF Codes
    <3> QED BY <1>10, <3>1 DEF Blacklist, Frame
  <2>3. CASE Req(c).addr \notin Cur.black /\ Goto(c, "rate")
    <3>1. Effect(c)
      BY <2>1, <2>3, GotoEffect DEF Gone, Early
    <3> QED BY <1>10, <3>1 DEF Blacklist, Frame
  <2> QED BY <1>10, <2>2, <2>3 DEF Blacklist
<1>11. CASE RateEnter(c)
  <2>1. Effect(c)
    BY <1>11, RateEnterEffect
  <2>2. Frame(c)
    BY <1>11 DEF RateEnter, Frame
  <2> QED BY <2>1, <2>2
<1>12. CASE RateCount(c)
  <2>1. Effect(c)
    BY <1>12, RateCountEffect
  <2>2. Frame(c)
    BY <1>12 DEF RateCount, Frame
  <2> QED BY <2>1, <2>2
<1>13. CASE RateCheck(c)
  <2>1. Effect(c)
    BY <1>13, RateCheckEffect
  <2>2. Frame(c)
    BY <1>13 DEF RateCheck, Frame
  <2> QED BY <2>1, <2>2
<1>14. CASE Auth(c)
  <2>1. Effect(c)
    BY <1>14, AuthEffect
  <2>2. Frame(c)
    BY <1>14 DEF Auth, Frame
  <2> QED BY <2>1, <2>2
<1>15. CASE Verify(c)
  BY <1>15, VerifyEffect DEF Verify, Frame
<1>16. CASE Put(c)
  <2>1. conn[c].pc \notin Gone
    BY <1>16 DEF Put, At, Gone
  <2>2. Effect(c)
    BY <1>16, <2>1, AdmitEffect DEF Put, Admitted
  <2> QED BY <1>16, <2>2 DEF Put, Frame
<1>17. CASE RouteToken(c)
  BY <1>17, RouteTokenEffect, UndefinedEnds DEF RouteToken, Frame
<1>18. CASE Pick(c)
  BY <1>18, PickEffect DEF Pick, Frame
<1>19. CASE Deref(c)
  BY <1>19, DerefEffect, UndefinedEnds DEF Deref, Frame
<1>20. CASE Connect(c)
  <2>1. conn[c].pc \notin Gone
    BY <1>20 DEF Connect, At, Gone
  <2>2. Effect(c)
    BY <1>20, <2>1, ForwardEffect, RespondEffect DEF Connect, Codes
  <2> QED BY <1>20, <2>2 DEF Connect, Frame
<1> QED BY <1>1, <1>2, <1>3, <1>4, <1>5, <1>6, <1>7, <1>8, <1>9, <1>10, <1>11, <1>12, <1>13,
           <1>14, <1>15, <1>16, <1>17, <1>18, <1>19, <1>20 DEF Handler

(* accept() gives the connection a number that no other one has.           *)
LEMMA AcceptFields ==
    ASSUME HandlerType, NEW c \in Conns, Accept(c)
    PROVE  /\ DOMAIN conn' = Conns /\ DOMAIN conn'[c] = Fields
           /\ \A d \in Conns : d # c => conn'[d] = conn[d]
           /\ conn[c].pc = "none" /\ conn'[c].pc = "handle"
           /\ conn'[c].fd \in Fds /\ \A d \in Conns : conn[d].fd # conn'[c].fd
           /\ conn'[c].this = conn[c].this /\ conn'[c].read = conn[c].read /\ conn'[c].upto = conn[c].upto
           /\ conn'[c].status = conn[c].status /\ conn'[c].upstream = conn[c].upstream
           /\ conn'[c].route = conn[c].route /\ conn'[c].routes = conn[c].routes
<1> DEFINE free == Fds \ {conn[d].fd : d \in Conns}
           m == Min(free)
           s == [conn[c] EXCEPT !.pc = "handle", !.fd = m]
<1>1. free \in SUBSET Nat
  BY FdsAssumption
<1>2. m \in free
  BY <1>1, MinMember DEF Accept
<1>3. m \in Fds /\ \A d \in Conns : conn[d].fd # m
  BY <1>2
<1> HIDE DEF m
<1>4. conn' = [conn EXCEPT ![c].pc = "handle", ![c].fd = m]
  BY DEF Accept, m
<1>5. DOMAIN conn = Conns /\ DOMAIN conn[c] = Fields
  BY DEF HandlerType
<1>6. conn' = [conn EXCEPT ![c] = s]
  BY <1>4, <1>5 DEF Fields
<1>7. /\ DOMAIN s = Fields /\ s.pc = "handle" /\ s.fd = m /\ s.this = conn[c].this
      /\ s.read = conn[c].read /\ s.upto = conn[c].upto /\ s.status = conn[c].status
      /\ s.upstream = conn[c].upstream /\ s.route = conn[c].route /\ s.routes = conn[c].routes
  BY <1>5 DEF Fields
<1> HIDE DEF s
<1>8. /\ DOMAIN conn' = Conns /\ conn'[c] = s
      /\ \A d \in Conns : d # c => conn'[d] = conn[d]
  BY <1>5, <1>6
<1>9. conn[c].pc = "none"
  BY DEF Accept, At
<1> QED BY <1>3, <1>7, <1>8, <1>9

(* The steps of the system.                                                *)
LEMMA Steps ==
    ASSUME HandlerType, DataType, [Next]_vars
    PROVE  \/ \E c \in Conns : Effect(c) /\ Frame(c)
           \/ Ended
           \/ \E c \in Conns : Accept(c)
           \/ Construct
           \/ /\ UNCHANGED <<log, arrays, limiter, cache, late, conn>>
              /\ now' \in {now, now + 1} /\ disk' \in {disk} \cup Files
              /\ accepted' = accepted /\ (server' = server \/ (server # "new" /\ server' # "new"))
<1> USE DEF files, config, shared, tcp
<1>1. CASE \E c \in Conns : Handler(c)
  BY <1>1, HandlerStep
<1>2. CASE Start
  BY <1>2 DEF Start
<1>3. CASE Tick
  BY <1>3 DEF Tick
<1>4. CASE \E f \in Files : EditFile(f)
  BY <1>4 DEF EditFile
<1>5. CASE UNCHANGED vars
  BY <1>5 DEF vars
<1> QED BY <1>1, <1>2, <1>3, <1>4, <1>5 DEF Next, Server
-----------------------------------------------------------------------------
(* The data                                                                *)

Slots == [Fds -> Conns \cup {NoConn}]
Caches == [capacity : Nat \ {0}, list : Seq(Nodes)]

LEMMA CurConfig ==
    ASSUME DataType
    PROVE  Len(log) \in Nat \ {0} /\ Cur \in Configs /\ Cur.qps \in Nat
<1>1. Len(log) \in Nat \ {0}
  BY LenProperties DEF DataType
<1>2. Cur \in Configs
  BY <1>1, ElementOfSeq DEF DataType, Cur
<1> QED BY <1>1, <1>2 DEF Configs

(* What a load commits is a configuration.                                 *)
LEMMA LoadedConfig ==
    ASSUME NEW file \in Files, NEW base \in Configs, NEW cur \in Configs
    PROVE  Loaded(file, base, cur) \in Configs
<1> DEFINE q == IF file.qps > 0 THEN file.qps ELSE cur.qps
           j == IF file.jwt = "absent" THEN base.jwt ELSE file.jwt = "on"
           s == IF file.secret = "absent" THEN base.secret ELSE file.secret
<1>1. q \in Nat
  BY FilesAssumption DEF Configs
<1>2. j \in BOOLEAN
  BY DEF Configs
<1>3. s \in {f.secret : f \in Files} \cup {""}
  BY DEF Configs
<1>4. /\ Resolved(file) \in {Resolved(f) : f \in Files} \cup {<<>>}
      /\ BuildTrie(file.routes) \in {BuildTrie(f.routes) : f \in Files} \cup {BuildTrie(<<>>)}
      /\ file.black \in {f.black : f \in Files} \cup {{}}
  OBVIOUS
<1> HIDE DEF q, j, s
<1>5. [inited |-> TRUE, routes |-> Resolved(file), table |-> BuildTrie(file.routes),
       black |-> file.black, qps |-> q, jwt |-> j, secret |-> s] \in Configs
  BY <1>1, <1>2, <1>3, <1>4 DEF Configs
<1> QED BY <1>5 DEF Loaded, q, j, s

(* The configurations that were in force stay in the log.                  *)
LEMMA LogStep ==
    ASSUME HandlerType, DataType, [Next]_vars
    PROVE  /\ log' \in Seq(Configs) /\ Len(log') >= 1 /\ Len(log) \in Nat
           /\ Len(log') \in Nat /\ Len(log') >= Len(log)
           /\ \A i \in 1 .. Len(log) : log'[i] = log[i]
<1>0. log \in Seq(Configs) /\ Len(log) \in Nat \ {0} /\ Cur \in Configs
  BY CurConfig DEF DataType
<1>1. log' = log \/ \E x \in Configs : log' = Append(log, x)
  <2>1. ASSUME NEW c \in Conns, Frame(c) PROVE log' = log \/ \E x \in Configs : log' = Append(log, x)
    <3>1. CASE LoadCommit(c)
      <4>1. conn[c].file \in Files /\ conn[c].base \in 1 .. Len(log)
        BY <3>1 DEF LoadCommit, At, HandlerType
      <4>2. log[conn[c].base] \in Configs
        BY <1>0, <4>1, ElementOfSeq
      <4>3. Loaded(conn[c].file, log[conn[c].base], Cur) \in Configs
        BY <1>0, <4>1, <4>2, LoadedConfig
      <4> QED BY <3>1, <4>3 DEF LoadCommit
    <3> QED BY <2>1, <3>1 DEF Frame
  <2>2. CASE Construct
    <3>1. CASE Acceptable(disk)
      <4>1. disk \in Files
        BY <3>1 DEF Acceptable, DataType
      <4>2. Loaded(disk, Cur, Cur) \in Configs
        BY <1>0, <4>1, LoadedConfig
      <4> QED BY <2>2, <3>1, <4>2 DEF Construct
    <3> QED BY <2>2, <3>1 DEF Construct
  <2>3. CASE \E c \in Conns : Accept(c)
    BY <2>3 DEF Accept, config
  <2> QED BY <2>1, <2>2, <2>3, Steps DEF Ended
<1>2. CASE log' = log
  BY <1>0, <1>2
<1>3. ASSUME NEW x \in Configs, log' = Append(log, x)
      PROVE  /\ log' \in Seq(Configs) /\ Len(log') = Len(log) + 1
             /\ \A i \in 1 .. Len(log) : log'[i] = log[i]
  BY <1>0, <1>3, AppendProperties
<1> QED BY <1>0, <1>1, <1>2, <1>3

(* g_conns is allocated, and a slot of it initialised.                     *)
LEMMA AllocArrays ==
    ASSUME DataType, NEW c \in Conns, Alloc(c)
    PROVE  /\ arrays' \in Seq(Slots) /\ Len(arrays) \in Nat /\ Len(arrays') = Len(arrays) + 1
           /\ \A i \in 1 .. Len(arrays) : arrays'[i] = arrays[i]
           /\ \A fd \in Fds : arrays'[Len(arrays) + 1][fd] = NoConn
<1> DEFINE a == [fd \in Fds |-> NoConn]
<1>1. a \in Slots /\ \A fd \in Fds : a[fd] = NoConn
  BY DEF Slots
<1>2. arrays' = Append(arrays, a)
  BY DEF Alloc
<1> HIDE DEF a
<1>3. arrays \in Seq(Slots)
  BY Zenon DEF DataType, Slots
<1> QED BY <1>1, <1>2, <1>3, AppendProperties, LenProperties

LEMMA InitArrays ==
    ASSUME DataType, OwnFd, ArrayExists, NEW c \in Conns, InitSlot(c)
    PROVE  /\ arrays' \in Seq(Slots) /\ Len(arrays') = Len(arrays) /\ Len(arrays) \in Nat \ {0}
           /\ conn[c].fd \in Fds
           /\ arrays'[Len(arrays)][conn[c].fd] = c
           /\ \A i \in 1 .. Len(arrays), fd \in Fds :
                fd # conn[c].fd => arrays'[i][fd] = arrays[i][fd]
           /\ \A i \in 1 .. Len(arrays) : i # Len(arrays) => arrays'[i] = arrays[i]
<1> DEFINE n == Len(arrays)
           x == conn[c].fd
           a == [arrays[n] EXCEPT ![x] = c]
<1>1. arrays \in Seq(Slots) /\ arrays # <<>> /\ x \in Fds
  BY DEF DataType, Slots, ArrayExists, OwnFd, InitSlot, At, Gone
<1>2. n \in Nat \ {0} /\ DOMAIN arrays = 1 .. n
  BY <1>1, EmptySeq, LenProperties
<1>3. n \in 1 .. n /\ arrays[n] \in Slots
  BY <1>1, <1>2, ElementOfSeq
<1>4. a \in Slots /\ a[x] = c /\ \A fd \in Fds : fd # x => a[fd] = arrays[n][fd]
  BY <1>1, <1>3 DEF Slots
<1>5. arrays' = [arrays EXCEPT ![n] = a]
  BY <1>2, <1>3 DEF InitSlot
<1> HIDE DEF a
<1>6. /\ arrays' \in Seq(Slots) /\ Len(arrays') = n
      /\ \A j \in 1 .. n : arrays'[j] = IF j = n THEN a ELSE arrays[j]
  BY <1>1, <1>3, <1>4, <1>5, ExceptSeq
<1>7. arrays'[n] = a
  BY <1>3, <1>6
<1>8. \A i \in 1 .. n : i # n => arrays'[i] = arrays[i]
  BY <1>6
<1>9. \A i \in 1 .. n, fd \in Fds : fd # x => arrays'[i][fd] = arrays[i][fd]
  BY <1>4, <1>7, <1>8
<1> QED BY <1>1, <1>2, <1>4, <1>6, <1>7, <1>8, <1>9, Zenon

(* The limiter.                                                            *)
LEMMA LimiterType ==
    ASSUME HandlerType, DataType, NEW c \in Conns, Frame(c)
    PROVE  limiter' \in [sec : Nat, count : Nat, passed : Nat, top : Nat, racy : BOOLEAN]
<1>0. /\ limiter \in [sec : Nat, count : Nat, passed : Nat, top : Nat, racy : BOOLEAN]
      /\ now \in Nat /\ Cur.qps \in Nat
  BY CurConfig DEF DataType
<1>1. CASE RateEnter(c)
  <2>1. CASE limiter' = limiter
    BY <1>0, <2>1
  <2>2. CASE Cur.qps > 0 /\ limiter' # limiter
    <3> DEFINE fresh == now # limiter.sec
               n == IF fresh THEN 0 ELSE limiter.count
               p == IF fresh THEN 0 ELSE limiter.passed
               t == IF fresh \/ Cur.qps > limiter.top THEN Cur.qps ELSE limiter.top
               r == Counting # {} \/ (~fresh /\ limiter.racy)
    <3>1. n \in Nat /\ p \in Nat
      BY <1>0
    <3>2. t \in Nat
      BY <1>0
    <3>3. r \in BOOLEAN
      OBVIOUS
    <3>4. limiter' = [sec |-> now, count |-> n, passed |-> p, top |-> t, racy |-> r]
      BY <1>1, <2>2 DEF RateEnter
    <3> HIDE DEF n, p, t, r
    <3> QED BY <1>0, <3>1, <3>2, <3>3, <3>4
  <2> QED BY <1>1, <2>1, <2>2 DEF RateEnter
<1>2. CASE RateCount(c)
  <2> DEFINE n == conn[c].count + 1
  <2>1. n \in Nat
    BY <1>2 DEF RateCount, At, HandlerType
  <2>2. limiter' = [limiter EXCEPT !.count = n]
    BY <1>2 DEF RateCount
  <2> HIDE DEF n
  <2> QED BY <1>0, <2>1, <2>2
<1>3. CASE RateCheck(c)
  <2>1. CASE limiter' = limiter
    BY <1>0, <2>1
  <2>2. CASE limiter' = [limiter EXCEPT !.passed = @ + 1]
    <3> DEFINE p == limiter.passed + 1
    <3>1. p \in Nat
      BY <1>0
    <3>2. limiter' = [limiter EXCEPT !.passed = p]
      BY <1>0, <2>2
    <3> HIDE DEF p
    <3> QED BY <1>0, <3>1, <3>2
  <2> QED BY <1>3, <2>1, <2>2 DEF RateCheck
<1> QED BY <1>0, <1>1, <1>2, <1>3 DEF Frame
-----------------------------------------------------------------------------
(* The cache                                                               *)

(* Where the element at position k of RemoveAt(s, i) was in s.             *)
LEMMA RemoveAtShift ==
    ASSUME NEW S, NEW s \in Seq(S), NEW i \in 1..Len(s)
    PROVE  /\ RemoveAt(s, i) \in Seq(S) /\ Len(s) \in Nat
           /\ DOMAIN RemoveAt(s, i) = 1..(Len(s) - 1)
           /\ \A k \in 1..(Len(s) - 1) :
                RemoveAt(s, i)[k] = IF k < i THEN s[k] ELSE s[k + 1]
<1> DEFINE a == SubSeq(s, 1, i - 1)
           b == SubSeq(s, i + 1, Len(s))
<1>0. Len(s) \in Nat /\ i \in Int
  BY LenProperties
<1>1. /\ a \in Seq(S) /\ Len(a) = i - 1
      /\ \A k \in 1..Len(a) : a[k] = s[k]
  BY SubSeqProperties
<1>2. /\ b \in Seq(S) /\ Len(b) = Len(s) - i
      /\ \A k \in 1..Len(b) : b[k] = s[i + k]
  BY SubSeqProperties
<1>3. RemoveAt(s, i) = a \o b
  BY DEF RemoveAt
<1> HIDE DEF a, b
<1>4. /\ a \o b \in Seq(S) /\ Len(a \o b) = Len(a) + Len(b)
      /\ \A k \in 1..(Len(a) + Len(b)) :
            (a \o b)[k] = IF k <= Len(a) THEN a[k] ELSE b[k - Len(a)]
  BY <1>1, <1>2, ConcatProperties, Zenon
<1>5. Len(a) = i - 1 /\ Len(b) = Len(s) - i /\ Len(a) + Len(b) = Len(s) - 1
  BY <1>0, <1>1, <1>2
<1>6. DOMAIN (a \o b) = 1..(Len(s) - 1)
  BY <1>4, <1>5, LenProperties
<1>7. ASSUME NEW k \in 1..(Len(s) - 1)
      PROVE  (a \o b)[k] = IF k < i THEN s[k] ELSE s[k + 1]
  <2>0. k \in Int /\ k \in 1..(Len(a) + Len(b))
    BY <1>0, <1>5
  <2>1. CASE k < i
    <3>1. k <= Len(a) /\ k \in 1..Len(a)
      BY <1>0, <1>5, <2>0, <2>1
    <3>2. (a \o b)[k] = a[k] /\ a[k] = s[k]
      BY <1>1, <1>4, <2>0, <3>1, Zenon
    <3> QED BY <2>1, <3>2
  <2>2. CASE ~(k < i)
    <3>1. /\ ~(k <= Len(a)) /\ k - Len(a) \in 1..Len(b)
          /\ i + (k - Len(a)) = k + 1
      BY <1>0, <1>5, <2>0, <2>2
    <3>2. (a \o b)[k] = b[k - Len(a)] /\ b[k - Len(a)] = s[i + (k - Len(a))]
      BY <1>2, <1>4, <2>0, <3>1, Zenon
    <3> QED BY <2>2, <3>1, <3>2
  <2> QED BY <2>1, <2>2
<1> QED BY <1>0, <1>3, <1>4, <1>6, <1>7


(* A node for the key of node i is put in front and node i is erased.      *)
LEMMA MovedToFront ==
    ASSUME NEW list \in Seq(Nodes), Distinct(list), NEW i \in 1 .. Len(list),
           NEW nd \in Nodes, nd.key = list[i].key
    PROVE  LET r == <<nd>> \o RemoveAt(list, i)
           IN  /\ r \in Seq(Nodes) /\ Len(r) = Len(list) /\ Distinct(r)
               /\ \A k \in 1 .. Len(r) : \E j \in 1 .. Len(list) : r[k].key = list[j].key
<1> DEFINE o == RemoveAt(list, i)
           r == <<nd>> \o o
           n == Len(list)
           was(k) == IF k = 1 THEN i ELSE IF k - 1 < i THEN k - 1 ELSE k
<1>1. /\ o \in Seq(Nodes) /\ n \in Nat /\ DOMAIN o = 1 .. (n - 1)
      /\ \A k \in 1 .. (n - 1) : o[k] = IF k < i THEN list[k] ELSE list[k + 1]
  BY RemoveAtShift, Zenon
<1>2. n \in Nat /\ n >= 1 /\ i \in Int
  BY <1>1
<1>3. Len(o) = n - 1
  <2>1. Len(o) \in Nat /\ DOMAIN o = 1 .. Len(o)
    BY <1>1, LenProperties
  <2> QED BY <1>1, <1>2, <2>1
<1>4. <<nd>> \in Seq(Nodes) /\ Len(<<nd>>) = 1 /\ <<nd>>[1] = nd
  OBVIOUS
<1>11. o \in Seq(Nodes)
  BY <1>1
<1> HIDE DEF o, n
<1>5. /\ r \in Seq(Nodes) /\ Len(r) = 1 + Len(o)
      /\ \A k \in 1 .. 1 + Len(o) : r[k] = IF k <= 1 THEN nd ELSE o[k - 1]
  <2>1. /\ r \in Seq(Nodes) /\ Len(r) = Len(<<nd>>) + Len(o)
        /\ \A k \in 1 .. Len(<<nd>>) + Len(o) : r[k] = IF k <= Len(<<nd>>) THEN <<nd>>[k] ELSE o[k - Len(<<nd>>)]
    BY <1>4, <1>11, ConcatProperties, Zenon
  <2> QED BY <1>2, <1>3, <1>4, <2>1
<1>6. Len(r) = n
  BY <1>2, <1>3, <1>5
<1> HIDE DEF r
<1>7. ASSUME NEW k \in 1 .. n PROVE was(k) \in 1 .. n /\ r[k].key = list[was(k)].key
  <2>1. CASE k = 1
    <3>1. r[k] = nd
      BY <1>2, <1>3, <1>5, <2>1
    <3> QED BY <2>1, <3>1 DEF n
  <2>2. CASE k # 1
    <3>1. k \in Int /\ k - 1 \in 1 .. (n - 1) /\ ~(k <= 1) /\ k \in 1 .. 1 + Len(o)
      BY <1>2, <1>3, <2>2
    <3>2. r[k] = o[k - 1]
      BY <1>5, <3>1
    <3>3. CASE k - 1 < i
      BY <1>1, <1>2, <2>2, <3>1, <3>2, <3>3
    <3>4. CASE ~(k - 1 < i)
      <4>1. PICK m \in 1 .. (n - 1) : m = k - 1
        BY <3>1
      <4>2. ~(m < i) /\ m + 1 = k
        BY <1>2, <3>1, <3>4, <4>1
      <4>3. o[m] = list[m + 1]
        BY <1>1, <4>2
      <4>4. r[k] = list[k]
        BY <3>2, <4>1, <4>2, <4>3
      <4> QED BY <1>2, <2>2, <3>1, <3>4, <4>4
    <3> QED BY <3>3, <3>4
  <2> QED BY <2>1, <2>2
<1>8. ASSUME NEW k \in 1 .. n, NEW l \in 1 .. n, was(k) = was(l) PROVE k = l
  BY <1>2, <1>8
<1> HIDE DEF was
<1>9. Distinct(r)
  <2> SUFFICES ASSUME NEW k \in 1 .. n, NEW l \in 1 .. n, r[k].key = r[l].key PROVE k = l
    BY <1>6 DEF Distinct
  <2>1. list[was(k)].key = list[was(l)].key
    BY <1>7
  <2>2. was(k) = was(l)
    BY <1>7, <2>1 DEF Distinct, n
  <2> QED BY <1>8, <2>2
<1>10. \A k \in 1 .. Len(r) : \E j \in 1 .. n : r[k].key = list[j].key
  BY <1>6, <1>7
<1> QED BY <1>5, <1>6, <1>9, <1>10 DEF r, o, n

(* A node with a new key is put in front.                                  *)
LEMMA PutInFront ==
    ASSUME NEW list \in Seq(Nodes), Distinct(list), NEW nd \in Nodes,
           \A j \in 1 .. Len(list) : list[j].key # nd.key
    PROVE  LET r == <<nd>> \o list
           IN  /\ r \in Seq(Nodes) /\ Len(r) = Len(list) + 1 /\ Distinct(r)
               /\ \A k \in 1 .. Len(r) : r[k].key = nd.key \/ \E j \in 1 .. Len(list) : r[k].key = list[j].key
<1> DEFINE r == <<nd>> \o list
           n == Len(list)
<1>1. n \in Nat
  BY LenProperties
<1>2. <<nd>> \in Seq(Nodes) /\ Len(<<nd>>) = 1 /\ <<nd>>[1] = nd
  OBVIOUS
<1> HIDE DEF n
<1>3. /\ r \in Seq(Nodes) /\ Len(r) = n + 1
      /\ \A k \in 1 .. n + 1 : r[k] = IF k <= 1 THEN nd ELSE list[k - 1]
  <2>1. /\ r \in Seq(Nodes) /\ Len(r) = Len(<<nd>>) + n
        /\ \A k \in 1 .. Len(<<nd>>) + n : r[k] = IF k <= Len(<<nd>>) THEN <<nd>>[k] ELSE list[k - Len(<<nd>>)]
    BY <1>2, ConcatProperties, Zenon DEF n
  <2> QED BY <1>1, <1>2, <2>1
<1> HIDE DEF r
<1>4. ASSUME NEW k \in 1 .. n + 1
      PROVE  (k = 1 /\ r[k] = nd) \/ (k - 1 \in 1 .. n /\ r[k] = list[k - 1])
  BY <1>1, <1>3
<1>5. Distinct(r)
  <2> SUFFICES ASSUME NEW k \in 1 .. n + 1, NEW l \in 1 .. n + 1, r[k].key = r[l].key PROVE k = l
    BY <1>3 DEF Distinct
  <2>1. CASE k = 1 /\ r[k] = nd
    BY <1>4, <2>1 DEF n
  <2>2. CASE l = 1 /\ r[l] = nd
    BY <1>4, <2>2 DEF n
  <2>3. CASE /\ k - 1 \in 1 .. n /\ r[k] = list[k - 1]
             /\ l - 1 \in 1 .. n /\ r[l] = list[l - 1]
    <3>1. k - 1 = l - 1
      BY <2>3 DEF Distinct, n
    <3> QED BY <1>1, <3>1
  <2> QED BY <1>4, <2>1, <2>2, <2>3
<1>6. \A k \in 1 .. Len(r) : r[k].key = nd.key \/ \E j \in 1 .. n : r[k].key = list[j].key
  BY <1>3, <1>4
<1> QED BY <1>3, <1>5, <1>6 DEF r, n

(* The list without its last node.                                         *)
LEMMA LastDropped ==
    ASSUME NEW list \in Seq(Nodes), Distinct(list), Len(list) >= 1
    PROVE  LET r == SubSeq(list, 1, Len(list) - 1)
           IN  /\ r \in Seq(Nodes) /\ Len(r) = Len(list) - 1 /\ Distinct(r)
               /\ \A k \in 1 .. Len(r) : r[k] = list[k] /\ k \in 1 .. Len(list)
<1> DEFINE r == SubSeq(list, 1, Len(list) - 1)
           n == Len(list)
<1>1. n \in Nat /\ n >= 1 /\ \A i \in 1 .. n : list[i] \in Nodes
  BY LenProperties, ElementOfSeq
<1>2. \A i \in 1 .. n - 1 : list[i] \in Nodes
  BY <1>1
<1>3. /\ r \in Seq(Nodes) /\ Len(r) = IF 1 <= n - 1 THEN (n - 1) - 1 + 1 ELSE 0
      /\ \A i \in 1 .. (n - 1) - 1 + 1 : r[i] = list[1 + i - 1]
  BY <1>1, <1>2, SubSeqProperties
<1> HIDE DEF r, n
<1>4. r \in Seq(Nodes) /\ Len(r) = n - 1
  BY <1>1, <1>3
<1>5. \A k \in 1 .. Len(r) : r[k] = list[k] /\ k \in 1 .. n
  BY <1>1, <1>3, <1>4
<1>6. Distinct(r)
  BY <1>4, <1>5 DEF Distinct, n
<1> QED BY <1>4, <1>5, <1>6 DEF r, n

GoodCache(c) == c \in Caches /\ Len(c.list) <= c.capacity /\ Distinct(c.list)

(* LRUCache::get keeps the cache well formed, with the same keys.          *)
LEMMA GetGood ==
    ASSUME NEW c, GoodCache(c), NEW key
    PROVE  GoodCache(Get(c, key)) /\ Keys(Get(c, key)) \subseteq Keys(c)
<1>1. CASE key \notin Keys(c)
  BY <1>1 DEF Get
<1>2. CASE key \in Keys(c)
  <2> DEFINE i == CHOOSE i \in DOMAIN c.list : c.list[i].key = key
             n == CHOOSE n \in {c.list[j] : j \in DOMAIN c.list} : n.key = key
             nd == [key |-> key, value |-> n.value]
             r == <<nd>> \o RemoveAt(c.list, i)
  <2>1. c \in Caches /\ c.list \in Seq(Nodes) /\ DOMAIN c.list = 1 .. Len(c.list)
    BY LenProperties DEF GoodCache, Caches
  <2>2. i \in 1 .. Len(c.list) /\ c.list[i].key = key
    <3>1. \E j \in DOMAIN c.list : c.list[j].key = key
      BY <1>2 DEF Keys
    <3> QED BY <2>1, <3>1
  <2>3. n \in {c.list[j] : j \in DOMAIN c.list} /\ n.key = key
    BY <2>1, <2>2
  <2> HIDE DEF n, i
  <2>4. n \in Nodes
    BY <2>1, <2>3, ElementOfSeq
  <2>5. nd \in Nodes /\ nd.key = c.list[i].key
    BY <2>2, <2>3, <2>4 DEF Nodes
  <2> HIDE DEF nd
  <2>6. /\ r \in Seq(Nodes) /\ Len(r) = Len(c.list) /\ Distinct(r)
        /\ \A k \in 1 .. Len(r) : \E j \in 1 .. Len(c.list) : r[k].key = c.list[j].key
    BY <2>1, <2>2, <2>5, MovedToFront DEF GoodCache
  <2>7. Get(c, key) = [c EXCEPT !.list = r]
    BY <1>2 DEF Get, Value, Others, n, nd, i
  <2> HIDE DEF r
  <2>8. /\ Get(c, key) \in Caches /\ Get(c, key).list = r /\ Get(c, key).capacity = c.capacity
    BY <2>1, <2>6, <2>7 DEF Caches
  <2>9. DOMAIN r = 1 .. Len(r)
    BY <2>6, LenProperties
  <2>10. Keys(Get(c, key)) \subseteq Keys(c)
    <3> SUFFICES ASSUME NEW x \in Keys(Get(c, key)) PROVE x \in Keys(c)
      OBVIOUS
    <3>1. PICK k \in DOMAIN r : x = r[k].key
      BY <2>8 DEF Keys
    <3>2. PICK j \in 1 .. Len(c.list) : x = c.list[j].key
      BY <2>6, <2>9, <3>1
    <3> QED BY <2>1, <3>2 DEF Keys
  <2> QED BY <2>6, <2>8, <2>10 DEF GoodCache
<1> QED BY <1>1, <1>2

(* LRUCache::push keeps the cache well formed and adds no other key.       *)
LEMMA PushGood ==
    ASSUME NEW c, GoodCache(c), NEW tok \in Tokens
    PROVE  GoodCache(Push(c, tok, tok.exp)) /\ Keys(Push(c, tok, tok.exp)) \subseteq Keys(c) \cup {tok}
<1> DEFINE nd == [key |-> tok, value |-> tok.exp]
           p == Push(c, tok, tok.exp)
<1> SUFFICES GoodCache(p) /\ Keys(p) \subseteq Keys(c) \cup {tok}
  OBVIOUS
<1>1. c \in Caches /\ c.list \in Seq(Nodes) /\ DOMAIN c.list = 1 .. Len(c.list) /\ Len(c.list) \in Nat
  BY LenProperties DEF GoodCache, Caches
<1>2. Len(c.list) <= c.capacity /\ Distinct(c.list) /\ c.capacity \in Nat \ {0}
  BY <1>1 DEF GoodCache, Caches
<1>3. nd \in Nodes /\ nd.key = tok
  BY DEF Nodes
<1> HIDE DEF nd, p
<1>4. ASSUME NEW r \in Seq(Nodes), p = [c EXCEPT !.list = r], Len(r) <= c.capacity, Distinct(r),
             \A k \in 1 .. Len(r) : r[k].key = tok \/ \E j \in 1 .. Len(c.list) : r[k].key = c.list[j].key
      PROVE  GoodCache(p) /\ Keys(p) \subseteq Keys(c) \cup {tok}
  <2>1. p \in Caches /\ p.list = r /\ p.capacity = c.capacity
    BY <1>1, <1>4 DEF Caches
  <2>2. DOMAIN r = 1 .. Len(r)
    BY LenProperties
  <2>3. Keys(p) \subseteq Keys(c) \cup {tok}
    BY <1>1, <1>4, <2>1, <2>2 DEF Keys
  <2> QED BY <1>4, <2>1, <2>3 DEF GoodCache
<1>5. CASE tok \in Keys(c)
  <2> DEFINE i == CHOOSE i \in DOMAIN c.list : c.list[i].key = tok
             r == <<nd>> \o RemoveAt(c.list, i)
  <2>1. i \in 1 .. Len(c.list) /\ c.list[i].key = tok
    <3>1. \E j \in DOMAIN c.list : c.list[j].key = tok
      BY <1>5 DEF Keys
    <3> QED BY <1>1, <3>1
  <2> HIDE DEF i
  <2>2. /\ r \in Seq(Nodes) /\ Len(r) = Len(c.list) /\ Distinct(r)
        /\ \A k \in 1 .. Len(r) : \E j \in 1 .. Len(c.list) : r[k].key = c.list[j].key
    <3>1. c.list \in Seq(Nodes) /\ Distinct(c.list) /\ nd \in Nodes /\ nd.key = c.list[i].key
      BY <1>1, <1>2, <1>3, <2>1
    <3> QED BY ONLY <2>1, <3>1, MovedToFront, Zenon
  <2>3. p = [c EXCEPT !.list = r]
    BY <1>5 DEF p, Push, Others, nd, i
  <2> HIDE DEF r
  <2> QED BY <1>2, <1>4, <2>2, <2>3
<1>6. ASSUME tok \notin Keys(c), NEW kept \in Seq(Nodes), Distinct(kept), Len(kept) + 1 <= c.capacity,
             \A k \in 1 .. Len(kept) : kept[k] = c.list[k] /\ k \in 1 .. Len(c.list),
             p = [c EXCEPT !.list = <<nd>> \o kept]
      PROVE  GoodCache(p) /\ Keys(p) \subseteq Keys(c) \cup {tok}
  <2> DEFINE r == <<nd>> \o kept
  <2>1. \A j \in 1 .. Len(kept) : kept[j].key # nd.key
    BY <1>1, <1>3, <1>6 DEF Keys
  <2>2. /\ r \in Seq(Nodes) /\ Len(r) = Len(kept) + 1 /\ Distinct(r)
        /\ \A k \in 1 .. Len(r) : r[k].key = nd.key \/ \E j \in 1 .. Len(kept) : r[k].key = kept[j].key
    BY <1>3, <1>6, <2>1, PutInFront
  <2>3. p = [c EXCEPT !.list = r]
    BY <1>6
  <2> HIDE DEF r
  <2>4. \A k \in 1 .. Len(r) : r[k].key = tok \/ \E j \in 1 .. Len(c.list) : r[k].key = c.list[j].key
    BY <1>3, <1>6, <2>2
  <2>5. Len(r) <= c.capacity
    BY <1>6, <2>2
  <2> QED BY <1>4, <2>2, <2>3, <2>4, <2>5
<1>7. CASE tok \notin Keys(c) /\ Len(c.list) >= c.capacity
  <2> DEFINE kept == SubSeq(c.list, 1, Len(c.list) - 1)
  <2>1. Len(c.list) >= 1
    BY <1>1, <1>2, <1>7
  <2>2. /\ kept \in Seq(Nodes) /\ Len(kept) = Len(c.list) - 1 /\ Distinct(kept)
        /\ \A k \in 1 .. Len(kept) : kept[k] = c.list[k] /\ k \in 1 .. Len(c.list)
    BY <1>1, <1>2, <2>1, LastDropped
  <2>3. p = [c EXCEPT !.list = <<nd>> \o kept]
    BY <1>7 DEF p, Push, nd
  <2> HIDE DEF kept
  <2>4. Len(kept) + 1 <= c.capacity
    BY <1>1, <1>2, <2>2
  <2> QED BY <1>6, <1>7, <2>2, <2>3, <2>4
<1>8. CASE tok \notin Keys(c) /\ ~(Len(c.list) >= c.capacity)
  <2>1. p = [c EXCEPT !.list = <<nd>> \o c.list]
    BY <1>8 DEF p, Push, nd
  <2>2. Len(c.list) + 1 <= c.capacity
    BY <1>1, <1>2, <1>8
  <2> QED BY <1>1, <1>2, <1>6, <1>8, <2>1, <2>2
<1> QED BY <1>5, <1>7, <1>8

LEMMA EmptyGood ==
    ASSUME NEW n \in Nat \ {0}
    PROVE  GoodCache(Empty(n)) /\ Keys(Empty(n)) = {}
<1>1. Empty(n) \in Caches /\ Empty(n).list = <<>> /\ Empty(n).capacity = n
  BY DEF Empty, Caches
<1> QED BY <1>1 DEF GoodCache, Keys, Distinct

(* The list has as many nodes as the cache has keys.                       *)
LEMMA KeysCounted ==
    ASSUME NEW c, GoodCache(c)
    PROVE  Cardinality(Keys(c)) = Len(c.list)
<1> DEFINE n == Len(c.list)
           f == [i \in 1 .. n |-> c.list[i].key]
<1>1. n \in Nat /\ DOMAIN c.list = 1 .. n
  BY LenProperties DEF GoodCache, Caches
<1>2. f \in Bijection(1 .. n, Keys(c))
  <2>1. f \in [1 .. n -> Keys(c)]
    BY <1>1 DEF Keys
  <2>2. \A i, j \in 1 .. n : f[i] = f[j] => i = j
    BY DEF GoodCache, Distinct
  <2>3. \A k \in Keys(c) : \E i \in 1 .. n : f[i] = k
    BY <1>1 DEF Keys
  <2> QED BY <2>1, <2>2, <2>3 DEF Bijection, Injection, Surjection, IsInjective
<1>3. IsFiniteSet(1 .. n) /\ Cardinality(1 .. n) = n
  BY <1>1, FS_Interval
<1>4. ExistsBijection(1 .. n, Keys(c))
  BY <1>2 DEF ExistsBijection
<1> QED BY <1>3, <1>4, FS_Bijection
-----------------------------------------------------------------------------
(* The invariant holds initially.                                          *)

LEMMA InitInv == Init => IInv
<1> SUFFICES ASSUME Init PROVE IInv
  OBVIOUS
<1>1. /\ DOMAIN Idle = Fields /\ Idle.pc = "none" /\ Idle.fd = 0 /\ Idle.this = 0 /\ Idle.read = FALSE
  BY DEF Idle, Fields
<1>2. DOMAIN conn = Conns /\ \A c \in Conns : conn[c] = Idle
  BY DEF Init
<1>3. HandlerType
  BY <1>1, <1>2 DEF HandlerType, Filtered
<1>4. log = <<NoConfig>> /\ Len(log) = 1 /\ NoConfig \in Configs
  BY DEF Init, NoConfig, Configs
<1>5. GoodCache(cache) /\ Keys(cache) = {}
  BY EmptyGood, BoundsAssumption DEF Init
<1>6. DataType
  <2>1. log \in Seq(Configs)
    BY <1>4
  <2>2. arrays \in Seq([Fds -> Conns \cup {NoConn}])
    BY DEF Init
  <2>3. limiter \in [sec : Nat, count : Nat, passed : Nat, top : Nat, racy : BOOLEAN]
    BY BoundsAssumption DEF Init
  <2> QED BY <1>4, <1>5, <2>1, <2>2, <2>3 DEF DataType, Init, GoodCache, Caches
<1>7. OwnFd
  BY <1>1, <1>2, FdsAssumption DEF OwnFd, Gone
<1>8. ArrayExists /\ SlotServesOwner
  BY <1>1, <1>2 DEF ArrayExists, SlotServesOwner
<1>9. Unread /\ Answered
  BY <1>1, <1>2 DEF Unread, Answered, At
<1>10. RateInv
  BY <1>1, <1>2 DEF RateInv, Init, At, Counting
<1>11. CacheShape /\ CacheSound
  BY <1>5 DEF CacheShape, CacheSound, GoodCache
<1>12. PutVerified
  BY <1>1, <1>2 DEF PutVerified, At
<1> QED BY <1>3, <1>6, <1>7, <1>8, <1>9, <1>10, <1>11, <1>12 DEF IInv
-----------------------------------------------------------------------------
(* Every step preserves it.                                                *)

LEMMA HandlerTypeStep ==
    ASSUME HandlerType, DataType, [Next]_vars
    PROVE  HandlerType'
<1>0. /\ Len(log) \in Nat \ {0} /\ Cur.qps \in Nat
      /\ Len(log') \in Nat /\ Len(log') >= Len(log)
  BY CurConfig, LogStep
<1>same. ASSUME NEW d \in Conns, conn'[d] = conn[d]
      PROVE  /\ DOMAIN conn'[d] = Fields
             /\ conn'[d].fd \in Fds \cup {0} /\ conn'[d].this \in Nat
             /\ conn'[d].pc = "process" => conn'[d].req \in Requests
             /\ conn'[d].pc \in Filtered => conn'[d].req \in PlainRequests
             /\ conn'[d].pc = "commit" => conn'[d].file \in Files /\ conn'[d].base \in 1 .. Len(log')
             /\ conn'[d].pc = "count" => conn'[d].count \in Nat /\ conn'[d].limit \in Nat
             /\ conn'[d].pc = "check" => conn'[d].limit \in Nat
  <2>1. \A b \in 1 .. Len(log) : b \in 1 .. Len(log')
    BY <1>0
  <2> QED BY <1>same, <2>1 DEF HandlerType
<1>1. ASSUME NEW c \in Conns, Effect(c), Frame(c) PROVE HandlerType'
  <2>1. conn'[c].fd \in Fds \cup {0}
    BY <1>1 DEF Effect, HandlerType
  <2>2. conn'[c].this \in Nat
    <3>1. Len(arrays) \in Nat
      BY LenProperties DEF DataType
    <3> QED BY <1>1, <3>1 DEF Effect, HandlerType
  <2>3. conn'[c].pc = "process" => conn'[c].req \in Requests
    BY <1>1 DEF Effect
  <2>4. conn'[c].pc \in Filtered => conn'[c].req \in PlainRequests
    BY <1>1 DEF Effect, HandlerType, PlainRequests, At, Req
  <2>5. conn'[c].pc = "commit" => conn'[c].file \in Files /\ conn'[c].base \in 1 .. Len(log')
    BY <1>0, <1>1 DEF Effect
  <2>6. conn'[c].pc = "count" => conn'[c].count \in Nat /\ conn'[c].limit \in Nat
    <3>1. limiter'.count \in Nat
      BY <1>1, LimiterType
    <3> QED BY <1>0, <1>1, <3>1 DEF Effect
  <2>7. conn'[c].pc = "check" => conn'[c].limit \in Nat
    BY <1>1 DEF Effect, RateCount, At, HandlerType
  <2>8. DOMAIN conn' = Conns /\ DOMAIN conn'[c] = Fields /\ \A d \in Conns : d # c => conn'[d] = conn[d]
    BY <1>1 DEF Effect
  <2> QED BY <1>same, <2>1, <2>2, <2>3, <2>4, <2>5, <2>6, <2>7, <2>8 DEF HandlerType
<1>2. CASE Ended
  <2>1. DOMAIN conn' = Conns
    BY <1>2 DEF Ended
  <2>2. ASSUME NEW d \in Conns, conn'[d] # conn[d]
        PROVE  /\ DOMAIN conn'[d] = Fields /\ conn'[d].pc \in Gone
               /\ conn'[d].fd = 0 /\ conn'[d].this = 0
    BY <1>2, <2>2 DEF Ended
  <2> QED BY <1>same, <2>1, <2>2 DEF HandlerType, Gone, Filtered
<1>3. ASSUME NEW c \in Conns, Accept(c) PROVE HandlerType'
  <2>1. /\ DOMAIN conn' = Conns /\ DOMAIN conn'[c] = Fields
        /\ \A d \in Conns : d # c => conn'[d] = conn[d]
        /\ conn'[c].pc = "handle" /\ conn'[c].fd \in Fds /\ conn'[c].this = conn[c].this
    BY <1>3, AcceptFields
  <2>2. conn'[c].this \in Nat
    BY <2>1 DEF HandlerType
  <2> QED BY <1>same, <2>1, <2>2 DEF HandlerType, Filtered
<1>4. CASE conn' = conn
  BY <1>4, <1>same DEF HandlerType
<1> QED BY <1>1, <1>2, <1>3, <1>4, Steps DEF Construct

(* The cache stays well formed.                                            *)
LEMMA SetCapacityGood ==
    ASSUME DataType, GoodCache(cache)
    PROVE  GoodCache(SetCapacity(disk)) /\ (SetCapacity(disk) = cache \/ Keys(SetCapacity(disk)) = {})
<1>1. CASE disk # NoFile /\ disk.capacity > 0
  <2>1. disk.capacity \in Nat \ {0}
    BY <1>1, FilesAssumption DEF DataType
  <2> QED BY <1>1, <2>1, EmptyGood DEF SetCapacity
<1>2. CASE ~(disk # NoFile /\ disk.capacity > 0)
  BY <1>2 DEF SetCapacity
<1> QED BY <1>1, <1>2

LEMMA CacheStep ==
    ASSUME HandlerType, DataType, CacheShape, [Next]_vars
    PROVE  GoodCache(cache')
<1>0. GoodCache(cache)
  BY DEF GoodCache, CacheShape, DataType, Caches
<1>1. ASSUME NEW c \in Conns, Frame(c) PROVE GoodCache(cache')
  <2>1. CASE LoadRead(c)
    BY <1>0, <2>1, SetCapacityGood DEF LoadRead
  <2>2. CASE LoadCommit(c)
    BY <2>2, EmptyGood, BoundsAssumption DEF LoadCommit
  <2>3. CASE Auth(c)
    BY <1>0, <2>3, GetGood DEF Auth
  <2>4. CASE Put(c)
    <3>1. Req(c).token \in Tokens
      BY <2>4 DEF Put, At, HandlerType, Filtered, Req, Tokens
    <3> QED BY <1>0, <2>4, <3>1, PushGood DEF Put
  <2> QED BY <1>0, <1>1, <2>1, <2>2, <2>3, <2>4 DEF Frame
<1>2. CASE Construct
  BY <1>0, <1>2, EmptyGood, SetCapacityGood, BoundsAssumption DEF Construct
<1>3. CASE Ended
  BY <1>0, <1>3 DEF Ended
<1>4. CASE \E c \in Conns : Accept(c)
  BY <1>0, <1>4 DEF Accept, shared
<1> QED BY <1>0, <1>1, <1>2, <1>3, <1>4, Steps

LEMMA DataTypeStep ==
    ASSUME HandlerType, DataType, OwnFd, ArrayExists, CacheShape, [Next]_vars
    PROVE  DataType'
<1>1. log' \in Seq(Configs) /\ Len(log') >= 1
  BY LogStep
<1>2. cache' \in Caches
  BY CacheStep DEF GoodCache
<1>3. disk' \in Files \cup {NoFile} /\ now' \in Nat
  <2>1. ASSUME NEW c \in Conns, Frame(c) PROVE disk' = disk /\ now' = now
    BY <2>1 DEF Frame
  <2>2. ASSUME NEW c \in Conns, Accept(c) PROVE disk' = disk /\ now' = now
    BY <2>2 DEF Accept, files
  <2>3. ASSUME Construct PROVE disk' = disk /\ now' = now
    BY <2>3 DEF Construct, files
  <2>4. ASSUME Ended PROVE disk' = disk /\ now' = now
    BY <2>4 DEF Ended
  <2>5. disk' \in {disk} \cup Files /\ now' \in {now, now + 1}
    BY <2>1, <2>2, <2>3, <2>4, Steps
  <2> QED BY <2>5 DEF DataType
<1>4. arrays' \in Seq(Slots)
  <2>0. arrays \in Seq(Slots)
    BY DEF DataType, Slots
  <2>1. ASSUME NEW c \in Conns, Frame(c) PROVE arrays' \in Seq(Slots)
    BY <2>0, <2>1, AllocArrays, InitArrays DEF Frame
  <2> QED BY <2>0, <2>1, Steps DEF Ended, Accept, Construct
<1>5. limiter' \in [sec : Nat, count : Nat, passed : Nat, top : Nat, racy : BOOLEAN]
  BY LimiterType, Steps DEF DataType, Ended, Accept, Construct, shared
<1> QED BY <1>1, <1>2, <1>3, <1>4, <1>5 DEF DataType, Caches, Slots

LEMMA OwnFdStep ==
    ASSUME HandlerType, DataType, OwnFd, [Next]_vars
    PROVE  OwnFd'
<1>0. 0 \notin Fds
  BY FdsAssumption
<1>1. ASSUME NEW c \in Conns, Effect(c) PROVE OwnFd'
  <2>1. \A d \in Conns : conn'[d].fd = conn[d].fd
    BY <1>1 DEF Effect
  <2>2. \A d \in Conns : conn'[d].pc \notin Gone => conn[d].pc \notin Gone
    BY <1>1 DEF Effect
  <2> QED BY <2>1, <2>2 DEF OwnFd
<1>2. CASE Ended
  <2>1. \A d \in Conns : conn'[d] = conn[d] \/ (conn'[d].pc \in Gone /\ conn'[d].fd = 0)
    BY <1>2 DEF Ended
  <2> QED BY <1>0, <2>1 DEF OwnFd
<1>3. ASSUME NEW c \in Conns, Accept(c) PROVE OwnFd'
  <2>1. /\ \A d \in Conns : d # c => conn'[d] = conn[d]
        /\ conn'[c].fd \in Fds /\ \A d \in Conns : conn[d].fd # conn'[c].fd
    BY <1>3, AcceptFields
  <2> QED BY <2>1 DEF OwnFd
<1>4. CASE conn' = conn
  BY <1>4 DEF OwnFd
<1> QED BY <1>1, <1>2, <1>3, <1>4, Steps DEF Construct

(* The slot a handler works on.                                            *)
SlotOf(c) ==
    /\ conn[c].pc \in {"init", "read", "process"} => arrays # <<>>
    /\ conn[c].this # 0 => conn[c].pc # "none" /\ conn[c].fd \in Fds /\ conn[c].this <= Len(arrays)
    /\ conn[c].pc \in {"read", "process"} =>
            arrays[Len(arrays)][conn[c].fd] \in {c} \cup (IF Len(arrays) > 1 THEN {NoConn} ELSE {})
    /\ conn[c].this # 0 => arrays[conn[c].this][conn[c].fd] = c

LEMMA SlotParts == ArrayExists /\ SlotServesOwner <=> \A c \in Conns : SlotOf(c)
BY DEF ArrayExists, SlotServesOwner, SlotOf

LEMMA SlotStep ==
    ASSUME HandlerType, DataType, OwnFd, ArrayExists, SlotServesOwner, [Next]_vars
    PROVE  ArrayExists' /\ SlotServesOwner'
<1> SUFFICES \A d \in Conns : SlotOf(d)'
  BY DEF ArrayExists, SlotServesOwner, SlotOf
<1>0. \A d \in Conns : SlotOf(d)
  BY SlotParts
<1>1. arrays \in Seq(Slots) /\ Len(arrays) \in Nat /\ (arrays # <<>> => Len(arrays) \in Nat \ {0})
  BY LenProperties, EmptySeq DEF DataType, Slots
<1>2. \A d \in Conns : conn[d].this \in Nat /\ (conn[d].pc \notin Gone => conn[d].fd \in Fds)
  BY DEF HandlerType, OwnFd
<1>3. ASSUME NEW c \in Conns, Effect(c), Frame(c), NEW d \in Conns PROVE SlotOf(d)'
  <2>0. conn'[d].this # 0 => conn'[d].pc # "none"
    BY <1>0, <1>3 DEF Effect, SlotOf, Gone
  <2>1. CASE Alloc(c)
    <3>1. /\ arrays' \in Seq(Slots) /\ Len(arrays') = Len(arrays) + 1
          /\ \A i \in 1 .. Len(arrays) : arrays'[i] = arrays[i]
          /\ \A fd \in Fds : arrays'[Len(arrays) + 1][fd] = NoConn
      BY <2>1, AllocArrays
    <3>2. arrays' # <<>>
      BY <1>1, <3>1, EmptySeq
    <3>3. conn'[d].fd = conn[d].fd /\ conn'[d].this = conn[d].this
          /\ (conn'[d].pc \in {"read", "process"} => conn[d].pc \in {"read", "process"})
      <4>1. conn'[c].pc = "init" /\ conn'[c].this = conn[c].this
        BY <2>1, GotoFields DEF Alloc, Fields
      <4> QED BY <1>3, <4>1 DEF Effect
    <3>4. conn[d].this # 0 => conn[d].this \in 1 .. Len(arrays)
      BY <1>0, <1>1, <1>2 DEF SlotOf
    <3>5. conn'[d].this # 0 =>
            conn'[d].fd \in Fds /\ conn'[d].this <= Len(arrays') /\ arrays'[conn'[d].this][conn'[d].fd] = d
      BY <1>0, <1>1, <3>1, <3>3, <3>4 DEF SlotOf
    <3>6. conn'[d].pc \in {"read", "process"} =>
            arrays'[Len(arrays')][conn'[d].fd] = NoConn /\ Len(arrays') > 1
      BY <1>0, <1>1, <1>2, <3>1, <3>3 DEF SlotOf, Gone
    <3> QED BY <2>0, <3>2, <3>5, <3>6 DEF SlotOf
  <2>2. CASE InitSlot(c)
    <3>1. /\ arrays' \in Seq(Slots) /\ Len(arrays') = Len(arrays) /\ Len(arrays) \in Nat \ {0}
          /\ conn[c].fd \in Fds
          /\ arrays'[Len(arrays)][conn[c].fd] = c
          /\ \A i \in 1 .. Len(arrays), fd \in Fds : fd # conn[c].fd => arrays'[i][fd] = arrays[i][fd]
          /\ \A i \in 1 .. Len(arrays) : i # Len(arrays) => arrays'[i] = arrays[i]
      BY <2>2, InitArrays
    <3>2. arrays' # <<>>
      BY <3>1, EmptySeq
    <3>3. conn'[c].pc = "read" /\ conn'[c].this = conn[c].this /\ conn'[c].fd = conn[c].fd
      BY <2>2, GotoFields DEF InitSlot, Fields
    <3>4. conn[d].this # 0 => conn[d].this \in 1 .. Len(arrays)
      BY <1>0, <1>1, <1>2 DEF SlotOf
    <3>5. CASE d = c
      <4>1. conn'[d].this # 0 =>
              conn'[d].fd \in Fds /\ conn'[d].this <= Len(arrays') /\ arrays'[conn'[d].this][conn'[d].fd] = d
        BY <1>0, <3>1, <3>3, <3>4, <3>5 DEF SlotOf
      <4>2. arrays'[Len(arrays')][conn'[d].fd] = d
        BY <3>1, <3>3, <3>5
      <4> QED BY <2>0, <3>2, <4>1, <4>2 DEF SlotOf
    <3>6. CASE d # c
      <4>1. conn'[d] = conn[d]
        BY <1>3, <3>6 DEF Effect
      <4>2. conn[d].fd \in Fds => conn[d].fd # conn[c].fd
        BY <3>6 DEF OwnFd
      <4>3. conn'[d].this # 0 =>
              conn'[d].fd \in Fds /\ conn'[d].this <= Len(arrays') /\ arrays'[conn'[d].this][conn'[d].fd] = d
        BY <1>0, <3>1, <3>4, <4>1, <4>2 DEF SlotOf
      <4>4. conn'[d].pc \in {"read", "process"} =>
              arrays'[Len(arrays')][conn'[d].fd] = arrays[Len(arrays)][conn[d].fd]
        <5>1. Len(arrays) \in 1 .. Len(arrays)
          BY <3>1
        <5> QED BY <1>2, <3>1, <4>1, <4>2, <5>1 DEF Gone
      <4> QED BY <1>0, <2>0, <3>1, <3>2, <4>1, <4>3, <4>4 DEF SlotOf
    <3> QED BY <3>5, <3>6
  <2>3. CASE arrays' = arrays /\ ~Alloc(c) /\ ~InitSlot(c)
    <3>1. CASE d # c
      <4>1. conn'[d] = conn[d]
        BY <1>3, <3>1 DEF Effect
      <4> QED BY <1>0, <2>3, <4>1 DEF SlotOf
    <3>2. CASE d = c
      <4>1. conn'[c].fd = conn[c].fd /\ conn[c].fd \in Fds
        BY <1>2, <1>3 DEF Effect
      <4>2. conn'[c].pc \in {"init", "read", "process"} => arrays # <<>>
        BY <1>0, <1>3, <2>3 DEF Effect, SlotOf, At
      <4>3. conn'[c].pc \in {"read", "process"} => conn[c].pc = "read"
        BY <1>3, <2>3 DEF Effect, At
      <4>4. conn'[c].this # 0 => conn[c].fd \in Fds /\ conn'[c].this <= Len(arrays)
                                 /\ arrays[conn'[c].this][conn[c].fd] = c
        <5>1. CASE conn'[c].this \in {0, conn[c].this}
          BY <1>0, <4>1, <5>1 DEF SlotOf
        <5>2. CASE /\ At(c, "process") /\ conn'[c].this = Len(arrays)
                   /\ arrays[Len(arrays)][conn[c].fd] # NoConn
          <6>1. arrays[Len(arrays)][conn[c].fd] = c
            BY <1>0, <5>2 DEF SlotOf, At
          <6> QED BY <1>1, <4>1, <5>2, <6>1
        <5> QED BY <1>3, <5>1, <5>2 DEF Effect
      <4> QED BY <1>0, <2>0, <2>3, <3>2, <4>1, <4>2, <4>3, <4>4 DEF SlotOf
    <3> QED BY <3>1, <3>2
  <2> QED BY <1>3, <2>1, <2>2, <2>3 DEF Frame
<1>4. ASSUME Ended, NEW d \in Conns PROVE SlotOf(d)'
  <2>1. arrays' = arrays
    BY <1>4 DEF Ended
  <2>2. conn'[d] = conn[d] \/ (conn'[d].pc \in Gone /\ conn'[d].this = 0)
    BY <1>4 DEF Ended
  <2> QED BY <1>0, <2>1, <2>2 DEF SlotOf, Gone
<1>5. ASSUME NEW c \in Conns, Accept(c), NEW d \in Conns PROVE SlotOf(d)'
  <2>1. arrays' = arrays
    BY <1>5 DEF Accept
  <2>2. /\ \A e \in Conns : e # c => conn'[e] = conn[e]
        /\ conn[c].pc = "none" /\ conn'[c].pc = "handle" /\ conn'[c].this = conn[c].this
        /\ \A e \in Conns : conn[e].fd # conn'[c].fd
        /\ conn'[c].fd \in Fds
    BY <1>5, AcceptFields
  <2>3. conn[c].this = 0
    BY <1>0, <2>2 DEF SlotOf
  <2> QED BY <1>0, <2>1, <2>2, <2>3 DEF SlotOf
<1>6. ASSUME UNCHANGED <<conn, arrays>>, NEW d \in Conns PROVE SlotOf(d)'
  BY <1>0, <1>6 DEF SlotOf
<1> QED BY <1>3, <1>4, <1>5, <1>6, Steps DEF Construct

(* Answers.                                                                *)
LEMMA AnsweredStep ==
    ASSUME HandlerType, DataType, Unread, Answered, [Next]_vars
    PROVE  Unread' /\ Answered'
<1> DEFINE Fine(d) == /\ conn[d].pc \in Early \cup {"none"} => conn[d].read = FALSE
                      /\ At(d, "close") /\ conn[d].read /\ conn[d].status = 0 => conn[d].sent
<1> SUFFICES \A d \in Conns : Fine(d)'
  BY DEF Unread, Answered, At
<1>0. \A d \in Conns : Fine(d)
  BY DEF Unread, Answered
<1>1. ASSUME NEW c \in Conns, Effect(c), NEW d \in Conns PROVE Fine(d)'
  <2>1. CASE d # c
    <3>1. conn'[d] = conn[d]
      BY <1>1, <2>1 DEF Effect
    <3> QED BY <1>0, <3>1 DEF At
  <2>2. CASE d = c
    <3>1. conn'[c].pc \in Early \cup {"none"} => conn'[c].read = FALSE
      BY <1>0, <1>1 DEF Effect, Gone
    <3>2. conn'[c].pc = "close" =>
            conn'[c].status # 0 \/ conn'[c].sent = TRUE \/ conn'[c].read = FALSE
      BY <1>0, <1>1 DEF Effect, Early, At
    <3> QED BY <2>2, <3>1, <3>2 DEF At
  <2> QED BY <2>1, <2>2
<1>2. ASSUME Ended, NEW d \in Conns PROVE Fine(d)'
  <2>1. conn'[d] = conn[d] \/ (conn'[d].pc \in Gone /\ conn'[d].read = FALSE)
    BY <1>2 DEF Ended
  <2> QED BY <1>0, <2>1 DEF Gone, At
<1>3. ASSUME NEW c \in Conns, Accept(c), NEW d \in Conns PROVE Fine(d)'
  <2>1. /\ \A e \in Conns : e # c => conn'[e] = conn[e]
        /\ conn[c].pc = "none" /\ conn'[c].pc = "handle" /\ conn'[c].read = conn[c].read
    BY <1>3, AcceptFields
  <2> QED BY <1>0, <2>1 DEF At
<1>4. ASSUME conn' = conn, NEW d \in Conns PROVE Fine(d)'
  BY <1>0, <1>4 DEF At
<1> QED BY <1>1, <1>2, <1>3, <1>4, Steps DEF Construct

(* The rate limiter.                                                       *)
LEMMA RateStep ==
    ASSUME HandlerType, DataType, RateInv, [Next]_vars
    PROVE  RateInv'
<1>0. /\ limiter \in [sec : Nat, count : Nat, passed : Nat, top : Nat, racy : BOOLEAN]
      /\ Cur.qps \in Nat /\ now \in Nat
  BY CurConfig DEF DataType
<1>1. ASSUME limiter' = limiter, \A d \in Conns : conn'[d].pc \in {"count", "check"} => conn'[d] = conn[d]
      PROVE  RateInv'
  BY <1>1 DEF RateInv, At, Counting
<1>2. ASSUME NEW c \in Conns, Effect(c), Frame(c) PROVE RateInv'
  <2>1. \A d \in Conns : d # c => conn'[d] = conn[d]
    BY <1>2 DEF Effect
  <2>2. CASE RateEnter(c) /\ Cur.qps > 0 /\ conn'[c].pc = "count"
    <3> DEFINE fresh == now # limiter.sec
    <3>1. /\ limiter'.count = (IF fresh THEN 0 ELSE limiter.count)
          /\ limiter'.passed = (IF fresh THEN 0 ELSE limiter.passed)
          /\ limiter'.top = (IF fresh \/ Cur.qps > limiter.top THEN Cur.qps ELSE limiter.top)
          /\ limiter'.racy = (Counting # {} \/ (~fresh /\ limiter.racy))
      BY <2>2 DEF RateEnter
    <3>2. conn'[c].limit = Cur.qps /\ conn'[c].count = limiter'.count
      BY <1>2, <2>2 DEF Effect
    <3> SUFFICES ASSUME ~limiter'.racy PROVE RateInv'
      BY DEF RateInv
    <3>3. Counting = {} /\ (fresh \/ ~limiter.racy)
      BY <3>1
    <3>4. \A d \in Conns : conn'[d].pc \in {"count", "check"} => d = c
      BY <2>1, <3>3 DEF Counting
    <3>5. limiter'.passed <= limiter'.count /\ limiter'.passed <= limiter'.top /\ Cur.qps <= limiter'.top
      <4>1. CASE fresh
        BY <1>0, <3>1, <4>1
      <4>2. CASE ~fresh
        <5>1. limiter.passed <= limiter.count /\ limiter.passed <= limiter.top
          BY <3>3, <4>2 DEF RateInv
        <5>2. limiter'.top >= limiter.top /\ limiter'.top >= Cur.qps /\ limiter'.top \in Nat
          BY <1>0, <3>1, <4>2
        <5>3. limiter'.passed <= limiter'.top
          BY <1>0, <3>1, <4>2, <5>1, <5>2
        <5> QED BY <1>0, <3>1, <4>2, <5>1, <5>2, <5>3
      <4> QED BY <4>1, <4>2
    <3> QED BY <2>2, <3>2, <3>4, <3>5 DEF RateInv, At, Counting
  <2>3. CASE RateEnter(c) /\ ~(Cur.qps > 0 /\ conn'[c].pc = "count")
    <3>1. limiter' = limiter /\ Goto(c, "auth")
      <4>1. CASE conn' = [conn EXCEPT ![c].pc = "count", ![c].limit = Cur.qps, ![c].count = limiter'.count]
        <5>1. DOMAIN conn = Conns /\ DOMAIN conn[c] = Fields
          BY DEF HandlerType
        <5>2. conn'[c].pc = "count"
          BY <4>1, <5>1 DEF Fields
        <5> QED BY <2>3, <5>2 DEF RateEnter
      <4> QED BY <2>3, <4>1 DEF RateEnter
    <3>2. conn'[c].pc = "auth"
      BY <3>1, GotoFields
    <3> QED BY <1>1, <2>1, <3>1, <3>2
  <2>4. CASE RateCount(c) \/ RateCheck(c)
    <3>1. c \in Counting
      BY <2>4 DEF RateCount, RateCheck, At, Counting
    <3>2. DOMAIN limiter = {"sec", "count", "passed", "top", "racy"}
      BY <1>0
    <3>3. limiter'.racy = limiter.racy /\ limiter'.top = limiter.top
      BY <2>4, <3>2 DEF RateCount, RateCheck
    <3> SUFFICES ASSUME ~limiter.racy PROVE RateInv'
      BY <3>3 DEF RateInv
    <3>4. /\ limiter.passed <= limiter.count /\ limiter.passed <= limiter.top
          /\ conn[c].limit <= limiter.top /\ \A d \in Counting : d = c
          /\ At(c, "count") => conn[c].count = limiter.count
          /\ At(c, "check") => limiter.passed + 1 <= limiter.count
      BY <3>1 DEF RateInv, Counting
    <3>5. limiter.passed \in Nat /\ limiter.count \in Nat /\ limiter.top \in Nat
      BY <1>0
    <3>6. \A d \in Conns : conn'[d].pc \in {"count", "check"} => d = c
      BY <2>1, <3>4 DEF Counting
    <3>7. CASE RateCount(c)
      <4>1. conn'[c].pc # "count" /\ conn'[c].limit <= limiter'.top
        <5>1. conn' = [conn EXCEPT ![c] = [conn[c] EXCEPT !.pc = "check", !.count = 0]]
          BY <3>7 DEF RateCount, HandlerType, Fields
        <5>2. conn'[c].pc = "check" /\ conn'[c].limit = conn[c].limit
          <6> DEFINE s == [conn[c] EXCEPT !.pc = "check", !.count = 0]
          <6>1. s.pc = "check" /\ s.limit = conn[c].limit
            BY DEF HandlerType, Fields
          <6> HIDE DEF s
          <6>2. conn'[c] = s
            BY <5>1, SetOne DEF s
          <6> QED BY <6>1, <6>2
        <5> QED BY <3>3, <3>4, <5>2
      <4>2. limiter'.passed = limiter.passed /\ limiter'.count = limiter.count + 1
        BY <3>2, <3>4, <3>7 DEF RateCount
      <4>3. limiter'.passed + 1 <= limiter'.count /\ limiter'.passed <= limiter'.count /\ limiter'.passed <= limiter'.top
        BY <3>3, <3>4, <3>5, <4>2
      <4> QED BY <3>6, <4>1, <4>3 DEF RateInv, At, Counting
    <3>8. CASE RateCheck(c)
      <4>1. conn[c].pc = "check" /\ conn[c].limit \in Nat
        BY <3>8 DEF RateCheck, At, HandlerType
      <4>2. conn'[c].pc \notin {"count", "check"}
        BY <1>2, <4>1 DEF Effect, RateEnter, RateCount, At
      <4>3. /\ limiter'.count = limiter.count
            /\ \/ limiter'.passed = limiter.passed
               \/ limiter'.passed = limiter.passed + 1 /\ limiter.count <= conn[c].limit
        BY <3>2, <3>8 DEF RateCheck
      <4>4. limiter.passed + 1 <= limiter.count
        BY <3>4, <4>1 DEF At
      <4>5. limiter'.passed <= limiter'.count /\ limiter'.passed <= limiter'.top
        BY <3>3, <3>4, <3>5, <4>1, <4>3, <4>4
      <4> QED BY <3>6, <4>2, <4>5 DEF RateInv, At, Counting
    <3> QED BY <2>4, <3>7, <3>8
  <2>5. CASE limiter' = limiter /\ ~RateEnter(c) /\ ~RateCount(c)
    <3>1. conn'[c].pc \notin {"count", "check"}
      BY <1>2, <2>5 DEF Effect
    <3> QED BY <1>1, <2>1, <2>5, <3>1
  <2> QED BY <1>2, <2>2, <2>3, <2>4, <2>5 DEF Frame
<1>3. CASE Ended
  <2>1. \A d \in Conns : conn'[d].pc \in {"count", "check"} => conn'[d] = conn[d]
    BY <1>3 DEF Ended, Gone
  <2> QED BY <1>1, <1>3, <2>1 DEF Ended
<1>4. ASSUME NEW c \in Conns, Accept(c) PROVE RateInv'
  <2>1. limiter' = limiter
    BY <1>4 DEF Accept, shared
  <2>2. /\ \A d \in Conns : d # c => conn'[d] = conn[d]
        /\ conn'[c].pc = "handle"
    BY <1>4, AcceptFields
  <2> QED BY <1>1, <2>1, <2>2
<1> QED BY <1>1, <1>2, <1>3, <1>4, Steps DEF Construct

(* Tokens that are verified, put and cached.                               *)
LEMMA PutStep ==
    ASSUME HandlerType, DataType, PutVerified, [Next]_vars
    PROVE  PutVerified'
<1>0. /\ Len(log) \in Nat \ {0} /\ Len(log') \in Nat /\ Len(log') >= Len(log)
      /\ \A i \in 1 .. Len(log) : log'[i] = log[i]
  BY CurConfig, LogStep
<1>1. ASSUME NEW d \in Conns, conn'[d] = conn[d], conn'[d].pc = "put"
      PROVE  conn'[d].base \in 1 .. Len(log') /\ conn'[d].req.token.secret = log'[conn'[d].base].secret
  <2>1. conn[d].base \in 1 .. Len(log) /\ conn[d].req.token.secret = log[conn[d].base].secret
    BY <1>1 DEF PutVerified, At, Req
  <2> QED BY <1>0, <1>1, <2>1
<1>2. ASSUME NEW c \in Conns, Effect(c), conn'[c].pc = "put"
      PROVE  conn'[c].base \in 1 .. Len(log') /\ conn'[c].req.token.secret = log'[conn'[c].base].secret
  <2>1. /\ conn'[c].base = Len(log) /\ log' = log /\ conn[c].req.token.secret = Cur.secret
        /\ conn'[c].req = conn[c].req
    BY <1>2 DEF Effect, Filtered
  <2> QED BY <1>0, <2>1 DEF Cur
<1>3. ASSUME \A d \in Conns : conn'[d].pc = "put" => conn'[d] = conn[d] PROVE PutVerified'
  BY <1>1, <1>3 DEF PutVerified, At, Req
<1>4. ASSUME NEW c \in Conns, Effect(c) PROVE PutVerified'
  <2>1. \A d \in Conns : d # c => conn'[d] = conn[d]
    BY <1>4 DEF Effect
  <2> QED BY <1>1, <1>2, <1>4, <2>1 DEF PutVerified, At, Req
<1>5. CASE Ended
  BY <1>3, <1>5 DEF Ended, Gone
<1>6. ASSUME NEW c \in Conns, Accept(c) PROVE PutVerified'
  <2>1. (\A d \in Conns : d # c => conn'[d] = conn[d]) /\ conn'[c].pc = "handle"
    BY <1>6, AcceptFields
  <2> QED BY <1>3, <2>1
<1>7. CASE conn' = conn
  BY <1>3, <1>7
<1> QED BY <1>4, <1>5, <1>6, <1>7, Steps DEF Construct

LEMMA CacheSoundStep ==
    ASSUME HandlerType, DataType, CacheShape, PutVerified, CacheSound, [Next]_vars
    PROVE  CacheSound'
<1>0. GoodCache(cache)
  BY DEF GoodCache, CacheShape, DataType, Caches
<1>1. ASSUME Keys(cache') = {} PROVE CacheSound'
  BY <1>1 DEF CacheSound
<1>2. ASSUME Keys(cache') \subseteq Keys(cache), late' = late, log' = log PROVE CacheSound'
  BY <1>2 DEF CacheSound, Cur
<1>3. ASSUME NEW c \in Conns, Frame(c) PROVE CacheSound'
  <2>1. CASE LoadRead(c)
    <3>1. log' = log
      BY <2>1 DEF LoadRead, config
    <3>2. CASE cache' = SetCapacity(disk) /\ late' = (IF cache' = cache THEN late ELSE {})
      <4>1. CASE cache' = cache
        BY <1>2, <3>1, <3>2, <4>1
      <4>2. CASE cache' # cache
        BY <1>0, <1>1, <3>2, <4>2, SetCapacityGood
      <4> QED BY <4>1, <4>2
    <3>3. CASE cache' = cache /\ late' = late
      BY <1>2, <3>1, <3>3
    <3> QED BY <2>1, <3>2, <3>3 DEF LoadRead
  <2>2. CASE LoadCommit(c)
    BY <1>1, <2>2, EmptyGood, BoundsAssumption DEF LoadCommit
  <2>3. CASE Auth(c)
    <3>1. log' = log /\ late' = late
      BY <2>3 DEF Auth, config
    <3>2. cache' = cache \/ cache' = Get(cache, Req(c).token)
      BY <2>3 DEF Auth
    <3>3. Keys(cache') \subseteq Keys(cache)
      BY <1>0, <3>2, GetGood
    <3> QED BY <1>2, <3>1, <3>3
  <2>4. CASE Put(c)
    <3> DEFINE tok == Req(c).token
    <3>1. log' = log /\ tok \in Tokens
      BY <2>4 DEF Put, config, At, HandlerType, Filtered, Req, Tokens
    <3>2. late' = (IF conn[c].base # Len(log) THEN late \cup {tok} ELSE late)
      BY <2>4 DEF Put
    <3>3. conn[c].base = Len(log) => tok.secret = Cur.secret
      BY <2>4 DEF Put, PutVerified, Cur
    <3>4. cache' = (IF tok.exp > 0 THEN Push(cache, tok, tok.exp) ELSE cache)
      BY <2>4 DEF Put
    <3> HIDE DEF tok
    <3>5. Keys(cache') \subseteq Keys(cache) \cup {tok}
      BY <1>0, <3>1, <3>4, PushGood
    <3>6. Cur' = Cur
      BY <3>1 DEF Cur
    <3> QED BY <3>2, <3>3, <3>5, <3>6 DEF CacheSound
  <2>5. CASE cache' = cache /\ late' = late /\ ~LoadCommit(c)
    <3>1. log' = log
      BY <1>3, <2>5 DEF Frame
    <3> QED BY <1>2, <2>5, <3>1
  <2> QED BY <1>3, <2>1, <2>2, <2>3, <2>4, <2>5 DEF Frame
<1>4. CASE Construct
  <2>1. CASE cache' = Empty(DefaultCapacity)
    BY <1>1, <2>1, EmptyGood, BoundsAssumption
  <2>2. CASE cache' = SetCapacity(disk) /\ log' = log
    <3>1. late' = late
      BY <1>4 DEF Construct
    <3> QED BY <1>0, <1>1, <1>2, <2>2, <3>1, SetCapacityGood
  <2> QED BY <1>4, <2>1, <2>2 DEF Construct
<1>5. CASE Ended
  BY <1>2, <1>5 DEF Ended
<1>6. CASE \E c \in Conns : Accept(c)
  BY <1>2, <1>6 DEF Accept, shared, config
<1> QED BY <1>2, <1>3, <1>4, <1>5, <1>6, Steps
-----------------------------------------------------------------------------
(* Theorems                                                                *)

LEMMA InductiveStep ==
    ASSUME IInv, [Next]_vars
    PROVE  IInv'
<1>1. /\ HandlerType /\ DataType /\ OwnFd /\ ArrayExists /\ Unread /\ RateInv /\ CacheShape
      /\ PutVerified /\ SlotServesOwner /\ Answered /\ CacheSound
  BY DEF IInv
<1>2. HandlerType' /\ DataType' /\ OwnFd'
  BY <1>1, HandlerTypeStep, DataTypeStep, OwnFdStep
<1>3. ArrayExists' /\ SlotServesOwner' /\ Unread' /\ Answered'
  BY <1>1, SlotStep, AnsweredStep
<1>4. RateInv' /\ PutVerified' /\ CacheSound'
  BY <1>1, RateStep, PutStep, CacheSoundStep
<1>5. CacheShape'
  BY <1>1, CacheStep DEF GoodCache, CacheShape
<1> QED BY <1>2, <1>3, <1>4, <1>5 DEF IInv

(* The inductive invariant holds in every behaviour.                       *)
THEOREM Invariance == Spec => []IInv
<1>1. IInv /\ [Next]_vars => IInv'
  BY InductiveStep
<1> QED BY InitInv, <1>1, PTL DEF Spec

(* A handler works on the slot of its own connection, although fd numbers  *)
(* and slots are reused: g_conns[fd] between read_once() and process().    *)
THEOREM SlotsServeTheirOwners == Spec => []SlotServesOwner
<1>1. IInv => SlotServesOwner
  BY DEF IInv
<1> QED BY Invariance, <1>1, PTL

(* Every way out of process() answers the client, unless the request was   *)
(* forwarded and the upstream sent nothing.                                *)
THEOREM RequestsAreAnswered == Spec => []Answered
<1>1. IInv => Answered
  BY DEF IInv
<1> QED BY Invariance, <1>1, PTL

(* RateLimitFilter lets no more requests pass in a second than max_qps,    *)
(* unless two handlers were inside it at once.                             *)
THEOREM RateIsLimited == Spec => []RateLimitHolds
<1>1. IInv => RateLimitHolds
  BY DEF IInv, RateInv, RateLimitHolds
<1> QED BY Invariance, <1>1, PTL

(* A cached token is one that the secret in force verifies, or was put     *)
(* after a reload by a request that had verified it before.                *)
THEOREM CachedTokensVerify == Spec => []CacheSound
<1>1. IInv => CacheSound
  BY DEF IInv
<1> QED BY Invariance, <1>1, PTL

(* The list of the LRU cache holds a token once and fits its capacity,     *)
(* through get, push, clear and changes of the capacity.                   *)
THEOREM CacheKeepsItsForm == Spec => []CacheWellFormed
<1>1. IInv => CacheWellFormed
  <2> SUFFICES ASSUME IInv PROVE CacheWellFormed
    OBVIOUS
  <2>1. GoodCache(cache)
    BY DEF IInv, CacheShape, DataType, GoodCache, Caches
  <2> QED BY <2>1, KeysCounted DEF CacheWellFormed, GoodCache
<1> QED BY Invariance, <1>1, PTL
-----------------------------------------------------------------------------
(* The filters                                                             *)

(* The routes of a file keep their prefixes.                               *)
LEMMA ResolvedShape ==
    ASSUME NEW f
    PROVE  /\ DOMAIN Resolved(f) = DOMAIN f.routes
           /\ \A i \in DOMAIN f.routes :
                /\ Resolved(f)[i].prefix = f.routes[i].prefix
                /\ Resolved(f)[i].exact = f.routes[i].exact
BY DEF Resolved

(* match_route finds the route that the reference definition names, for    *)
(* every file that can be loaded and before one is.                        *)
LEMMA FileRoutes ==
    ASSUME NEW f \in Files
    PROVE  Routes(f.routes, Len(f.routes))
<1>1. f.routes \in Seq([prefix : Seq(STRING) \ {<<>>}, exact : BOOLEAN, targets : Seq(Hosts) \ {<<>>}])
  BY FilesAssumption
<1>2. Len(f.routes) \in Nat /\ DOMAIN f.routes = 1 .. Len(f.routes)
  BY <1>1, LenProperties
<1>3. ASSUME NEW i \in 1 .. Len(f.routes)
      PROVE  f.routes[i].prefix \in Text \ {<<>>} /\ f.routes[i].exact \in BOOLEAN
  <2>1. f.routes[i] \in [prefix : Seq(STRING) \ {<<>>}, exact : BOOLEAN, targets : Seq(Hosts) \ {<<>>}]
    BY <1>1, ElementOfSeq
  <2> QED BY <2>1 DEF Text
<1> QED BY <1>2, <1>3 DEF Routes

LEMMA FileRouted ==
    ASSUME NEW f \in Files, NEW p \in Text
    PROVE  MatchRoute(BuildTrie(f.routes), p) = BestRoute(Resolved(f), p)
<1>1. MatchRoute(BuildTrie(f.routes), p) = BestRoute(f.routes, p)
  BY FileRoutes, RouteFound
<1>2. BestRoute(Resolved(f), p) = BestRoute(f.routes, p)
  BY ResolvedShape, SameBest
<1> QED BY <1>1, <1>2

LEMMA NothingRouted ==
    ASSUME NEW p \in Text
    PROVE  MatchRoute(BuildTrie(<<>>), p) = BestRoute(<<>>, p)
<1>1. Len(<<>>) = 0 /\ DOMAIN <<>> = 1 .. 0 /\ \A i \in 1 .. 0 : FALSE
  OBVIOUS
<1>2. Routes(<<>>, Len(<<>>))
  BY <1>1 DEF Routes
<1> QED BY <1>2, RouteFound

LEMMA PlainPath ==
    ASSUME NEW r \in PlainRequests
    PROVE  r.path \in Text
BY RequestsAssumption DEF PlainRequests, Text

(* So it does for every configuration that was in force.                   *)
TablesAgree ==
    \A k \in 1 .. Len(log), p \in Text :
        MatchRoute(log[k].table, p) = BestRoute(log[k].routes, p)

(* The expiry beside a token in the cache is the token's.                  *)
ExpiryOf(list) == \A i \in 1 .. Len(list) : list[i].value = list[i].key.exp
ExpiryCached == ExpiryOf(cache.list)

(* What the filters have found out so far, about the configuration that    *)
(* was in force when they began.                                           *)
JudgedSoFar(c) ==
    LET cfg == log[conn[c].from] IN
    /\ conn[c].pc # "pick" => conn[c].upto = 0
    /\ conn[c].pc \in Filtered => conn[c].from \in 1 .. Len(log)
    /\ conn[c].pc \in Filtered \ {"black"} /\ conn[c].from = Len(log) => Req(c).addr \notin cfg.black
    /\ At(c, "verify") /\ conn[c].from = Len(log) => cfg.jwt /\ Req(c).token # NoToken
    /\ At(c, "put") /\ conn[c].from = conn[c].base =>
            /\ Req(c).addr \notin cfg.black /\ cfg.jwt /\ Req(c).token # NoToken
            /\ VerifyHs256(Req(c).token, cfg.secret, conn[c].at)
    /\ At(c, "routeToken") =>
            /\ conn[c].routes \in 1 .. Len(log) /\ conn[c].from <= conn[c].routes
            /\ conn[c].from = conn[c].routes =>
                ~cfg.jwt /\ conn[c].route = MatchRoute(cfg.table, Req(c).path)
    /\ At(c, "pick") => conn[c].upto \in 1 .. Len(log)
    /\ At(c, "pick") /\ conn[c].from = conn[c].upto /\ ~conn[c].excused =>
            Admits(log[conn[c].upto], Req(c), conn[c].at)

FilterInv == IInv /\ TablesAgree /\ ExpiryCached /\ \A c \in Conns : JudgedSoFar(c)

LEMMA TablesStep ==
    ASSUME HandlerType, DataType, TablesAgree, [Next]_vars
    PROVE  TablesAgree'
<1>0. log \in Seq(Configs) /\ Len(log) \in Nat \ {0} /\ Cur \in Configs
  BY CurConfig DEF DataType
<1>1. ASSUME NEW f \in Files, NEW b, NEW k, log' = Append(log, Loaded(f, b, k)), Loaded(f, b, k) \in Configs
      PROVE  TablesAgree'
  <2> DEFINE x == Loaded(f, b, k)
  <2>1. x.table = BuildTrie(f.routes) /\ x.routes = Resolved(f)
    BY DEF Loaded
  <2>2. x \in Configs /\ log' = Append(log, x)
    BY <1>1
  <2> HIDE DEF x
  <2>3. /\ Len(log') = Len(log) + 1 /\ log'[Len(log) + 1] = x
        /\ \A i \in 1 .. Len(log) : log'[i] = log[i]
    BY <1>0, <2>2, AppendProperties
  <2> SUFFICES ASSUME NEW i \in 1 .. Len(log'), NEW p \in Text
               PROVE  MatchRoute(log'[i].table, p) = BestRoute(log'[i].routes, p)
    BY DEF TablesAgree
  <2>4. CASE i \in 1 .. Len(log)
    BY <2>3, <2>4 DEF TablesAgree
  <2>5. CASE i = Len(log) + 1
    BY <2>1, <2>3, <2>5, FileRouted
  <2> QED BY <1>0, <2>3, <2>4, <2>5
<1>2. CASE log' = log
  BY <1>2 DEF TablesAgree
<1>3. ASSUME NEW c \in Conns, Frame(c) PROVE TablesAgree'
  <2>1. CASE LoadCommit(c)
    <3>1. conn[c].file \in Files /\ conn[c].base \in 1 .. Len(log)
      BY <2>1 DEF LoadCommit, At, HandlerType
    <3>2. log[conn[c].base] \in Configs
      BY <1>0, <3>1, ElementOfSeq
    <3>3. Loaded(conn[c].file, log[conn[c].base], Cur) \in Configs
      BY <1>0, <3>1, <3>2, LoadedConfig
    <3>4. log' = Append(log, Loaded(conn[c].file, log[conn[c].base], Cur))
      BY <2>1 DEF LoadCommit
    <3> QED BY <1>1, <3>1, <3>3, <3>4
  <2> QED BY <1>2, <1>3, <2>1 DEF Frame
<1>4. CASE Construct
  <2>1. CASE Acceptable(disk)
    <3>1. disk \in Files
      BY <2>1 DEF Acceptable, DataType
    <3>2. Loaded(disk, Cur, Cur) \in Configs
      BY <1>0, <3>1, LoadedConfig
    <3>3. log' = Append(log, Loaded(disk, Cur, Cur))
      BY <1>4, <2>1 DEF Construct
    <3> QED BY <1>1, <3>1, <3>2, <3>3
  <2> QED BY <1>2, <1>4, <2>1 DEF Construct
<1>5. CASE \E c \in Conns : Accept(c)
  BY <1>2, <1>5 DEF Accept, config
<1> QED BY <1>2, <1>3, <1>4, <1>5, Steps DEF Ended

(* The expiries in the cache.                                              *)
LEMMA FrontExpiry ==
    ASSUME NEW list \in Seq(Nodes), ExpiryOf(list), NEW nd \in Nodes, nd.value = nd.key.exp
    PROVE  ExpiryOf(<<nd>> \o list)
<1> DEFINE r == <<nd>> \o list
           n == Len(list)
<1>1. n \in Nat
  BY LenProperties
<1>2. <<nd>> \in Seq(Nodes) /\ Len(<<nd>>) = 1 /\ <<nd>>[1] = nd
  OBVIOUS
<1> HIDE DEF n
<1>3. /\ r \in Seq(Nodes) /\ Len(r) = Len(<<nd>>) + n
      /\ \A k \in 1 .. Len(<<nd>>) + n :
            r[k] = IF k <= Len(<<nd>>) THEN <<nd>>[k] ELSE list[k - Len(<<nd>>)]
  BY <1>2, ConcatProperties, Zenon DEF n
<1> HIDE DEF r
<1>4. ASSUME NEW k \in 1 .. n + 1
      PROVE  (k = 1 /\ r[k] = nd) \/ (k - 1 \in 1 .. n /\ r[k] = list[k - 1])
  BY <1>1, <1>2, <1>3
<1>5. ASSUME NEW k \in 1 .. n + 1 PROVE r[k].value = r[k].key.exp
  <2>1. \A i \in 1 .. n : list[i].value = list[i].key.exp
    BY DEF ExpiryOf, n
  <2>2. CASE k = 1 /\ r[k] = nd
    BY <2>2
  <2>3. CASE k - 1 \in 1 .. n /\ r[k] = list[k - 1]
    BY <2>1, <2>3
  <2> QED BY <1>4, <2>2, <2>3
<1>6. Len(r) = n + 1
  BY <1>1, <1>2, <1>3
<1>7. ExpiryOf(r)
  BY <1>5, <1>6 DEF ExpiryOf
<1> QED BY <1>7 DEF r

LEMMA EraseExpiry ==
    ASSUME NEW list \in Seq(Nodes), ExpiryOf(list), NEW i \in 1 .. Len(list)
    PROVE  RemoveAt(list, i) \in Seq(Nodes) /\ ExpiryOf(RemoveAt(list, i))
<1> DEFINE o == RemoveAt(list, i)
<1>1. /\ o \in Seq(Nodes) /\ Len(list) \in Nat /\ DOMAIN o = 1 .. (Len(list) - 1)
      /\ \A k \in 1 .. (Len(list) - 1) : o[k] = IF k < i THEN list[k] ELSE list[k + 1]
  BY RemoveAtShift, Zenon
<1> HIDE DEF o
<1>2. DOMAIN o = 1 .. Len(o)
  BY <1>1, LenProperties
<1>3. ASSUME NEW k \in 1 .. (Len(list) - 1) PROVE \E j \in 1 .. Len(list) : o[k] = list[j]
  <2>1. k \in 1 .. Len(list) /\ k + 1 \in 1 .. Len(list)
    BY <1>1
  <2> QED BY <1>1, <2>1
<1>4. ExpiryOf(o)
  BY <1>1, <1>2, <1>3 DEF ExpiryOf
<1> QED BY <1>1, <1>4 DEF o

LEMMA KeyAt ==
    ASSUME NEW c \in Caches, NEW key \in Keys(c)
    PROVE  /\ DOMAIN c.list = 1 .. Len(c.list)
           /\ \E j \in DOMAIN c.list : c.list[j].key = key
<1>1. c.list \in Seq(Nodes)
  BY DEF Caches
<1> QED BY <1>1, LenProperties DEF Keys

(* What is cached of a token is its expiry.                                *)
LEMMA ValueIsExpiry ==
    ASSUME NEW c \in Caches, ExpiryOf(c.list), NEW key \in Keys(c)
    PROVE  Value(c, key) = key.exp
<1> DEFINE n == CHOOSE n \in {c.list[j] : j \in DOMAIN c.list} : n.key = key
<1>1. DOMAIN c.list = 1 .. Len(c.list) /\ \E j \in DOMAIN c.list : c.list[j].key = key
  BY KeyAt
<1>2. n \in {c.list[j] : j \in DOMAIN c.list} /\ n.key = key
  BY <1>1
<1>3. Value(c, key) = n.value
  BY DEF Value
<1> HIDE DEF n
<1> QED BY <1>1, <1>2, <1>3 DEF ExpiryOf

LEMMA GetExpiry ==
    ASSUME NEW c \in Caches, ExpiryOf(c.list), NEW key
    PROVE  ExpiryOf(Get(c, key).list)
<1>1. CASE key \notin Keys(c)
  BY <1>1 DEF Get
<1>2. CASE key \in Keys(c)
  <2> DEFINE i == CHOOSE i \in DOMAIN c.list : c.list[i].key = key
             nd == [key |-> key, value |-> Value(c, key)]
             o == RemoveAt(c.list, i)
  <2>1. c.list \in Seq(Nodes) /\ DOMAIN c.list = 1 .. Len(c.list)
        /\ \E j \in DOMAIN c.list : c.list[j].key = key
    BY <1>2, KeyAt DEF Caches
  <2>2. i \in 1 .. Len(c.list) /\ c.list[i].key = key
    BY <2>1
  <2> HIDE DEF i
  <2>3. Value(c, key) = key.exp
    BY <1>2, ValueIsExpiry
  <2>4. key \in Tokens
    <3>1. c.list[i] \in Nodes
      BY <2>1, <2>2, ElementOfSeq
    <3> QED BY <2>2, <3>1 DEF Nodes
  <2>5. nd \in Nodes /\ nd.value = nd.key.exp
    BY <2>3, <2>4 DEF Nodes
  <2> HIDE DEF nd
  <2>6. o \in Seq(Nodes) /\ ExpiryOf(o)
    BY <2>1, <2>2, EraseExpiry
  <2>7. ExpiryOf(<<nd>> \o o)
    <3> HIDE DEF o
    <3> QED BY <2>5, <2>6, FrontExpiry
  <2>8. Get(c, key) = [c EXCEPT !.list = <<nd>> \o o]
    BY <1>2 DEF Get, Others, nd, i
  <2> HIDE DEF o
  <2>9. Get(c, key).list = <<nd>> \o o
    BY <2>8 DEF Caches
  <2> QED BY <2>7, <2>9
<1> QED BY <1>1, <1>2

LEMMA PushExpiry ==
    ASSUME NEW c \in Caches, ExpiryOf(c.list), NEW tok \in Tokens
    PROVE  ExpiryOf(Push(c, tok, tok.exp).list)
<1> DEFINE nd == [key |-> tok, value |-> tok.exp]
           p == Push(c, tok, tok.exp)
<1> SUFFICES ExpiryOf(p.list)
  OBVIOUS
<1>1. nd \in Nodes /\ nd.value = nd.key.exp
  BY DEF Nodes
<1>2. c.list \in Seq(Nodes) /\ DOMAIN c.list = 1 .. Len(c.list) /\ Len(c.list) \in Nat
  BY LenProperties DEF Caches
<1> HIDE DEF nd, p
<1>3. ASSUME NEW kept \in Seq(Nodes), ExpiryOf(kept), p = [c EXCEPT !.list = <<nd>> \o kept]
      PROVE  ExpiryOf(p.list)
  <2>1. p.list = <<nd>> \o kept
    BY <1>3 DEF Caches
  <2>2. ExpiryOf(<<nd>> \o kept)
    BY <1>1, <1>3, FrontExpiry
  <2> QED BY <2>1, <2>2
<1>4. CASE tok \in Keys(c)
  <2> DEFINE i == CHOOSE i \in DOMAIN c.list : c.list[i].key = tok
             o == RemoveAt(c.list, i)
  <2>1. \E j \in DOMAIN c.list : c.list[j].key = tok
    BY <1>4, KeyAt
  <2>2. i \in 1 .. Len(c.list)
    BY <1>2, <2>1
  <2> HIDE DEF i
  <2>3. o \in Seq(Nodes) /\ ExpiryOf(o)
    BY <1>2, <2>2, EraseExpiry
  <2>4. p = [c EXCEPT !.list = <<nd>> \o o]
    BY <1>4 DEF p, Push, Others, nd, i
  <2> HIDE DEF o
  <2> QED BY <1>3, <2>3, <2>4
<1>5. CASE tok \notin Keys(c) /\ Len(c.list) >= c.capacity
  <2> DEFINE kept == SubSeq(c.list, 1, Len(c.list) - 1)
             n == Len(c.list)
  <2>1. n \in Nat /\ n >= 1
    BY <1>2, <1>5 DEF Caches
  <2>2. \A j \in 1 .. n - 1 : c.list[j] \in Nodes
    BY <1>2, <2>1, ElementOfSeq
  <2>3. /\ kept \in Seq(Nodes) /\ Len(kept) = IF 1 <= n - 1 THEN (n - 1) - 1 + 1 ELSE 0
        /\ \A j \in 1 .. (n - 1) - 1 + 1 : kept[j] = c.list[1 + j - 1]
    BY <2>1, <2>2, SubSeqProperties
  <2>4. p = [c EXCEPT !.list = <<nd>> \o kept]
    BY <1>5 DEF p, Push, nd
  <2> HIDE DEF kept, n
  <2>5. \A j \in 1 .. Len(kept) : kept[j] = c.list[j] /\ j \in 1 .. n
    BY <2>1, <2>3
  <2>6. ExpiryOf(kept)
    BY <2>5 DEF ExpiryOf, n
  <2> QED BY <1>3, <2>3, <2>4, <2>6
<1>6. CASE tok \notin Keys(c) /\ ~(Len(c.list) >= c.capacity)
  <2>1. p = [c EXCEPT !.list = <<nd>> \o c.list]
    BY <1>6 DEF p, Push, nd
  <2> QED BY <1>2, <1>3, <2>1
<1> QED BY <1>4, <1>5, <1>6

LEMMA EmptyExpiry ==
    ASSUME NEW n PROVE ExpiryOf(Empty(n).list)
BY DEF ExpiryOf, Empty

LEMMA ExpiryStep ==
    ASSUME HandlerType, DataType, CacheShape, ExpiryCached, [Next]_vars
    PROVE  ExpiryCached'
<1>0. cache \in Caches /\ ExpiryOf(cache.list)
  BY DEF DataType, Caches, ExpiryCached
<1> SUFFICES ExpiryOf(cache'.list)
  BY DEF ExpiryCached
<1>1. ExpiryOf(SetCapacity(disk).list)
  BY <1>0, EmptyExpiry DEF SetCapacity
<1>2. ASSUME NEW c \in Conns, Frame(c) PROVE ExpiryOf(cache'.list)
  <2>1. CASE LoadRead(c)
    BY <1>0, <1>1, <2>1 DEF LoadRead
  <2>2. CASE LoadCommit(c)
    BY <2>2, EmptyExpiry DEF LoadCommit
  <2>3. CASE Auth(c)
    <3>1. cache' = cache \/ cache' = Get(cache, Req(c).token)
      BY <2>3 DEF Auth
    <3> QED BY <1>0, <3>1, GetExpiry
  <2>4. CASE Put(c)
    <3>1. Req(c).token \in Tokens
      BY <2>4 DEF Put, At, HandlerType, Filtered, Req, Tokens
    <3>2. cache' = cache \/ cache' = Push(cache, Req(c).token, Req(c).token.exp)
      BY <2>4 DEF Put
    <3> QED BY <1>0, <3>1, <3>2, PushExpiry
  <2> QED BY <1>0, <1>2, <2>1, <2>2, <2>3, <2>4 DEF Frame
<1>3. CASE Construct
  BY <1>1, <1>3, EmptyExpiry DEF Construct
<1>4. CASE \E c \in Conns : Accept(c)
  BY <1>0, <1>4 DEF Accept, shared
<1> QED BY <1>0, <1>2, <1>3, <1>4, Steps DEF Ended

(* What was found out about a request stays true while others move.        *)
LEMMA JudgedKept ==
    ASSUME HandlerType, DataType, [Next]_vars, NEW d \in Conns, conn'[d] = conn[d], JudgedSoFar(d)
    PROVE  JudgedSoFar(d)'
<1> DEFINE q == conn[d]
<1>1. /\ Len(log) \in Nat \ {0} /\ Len(log') \in Nat /\ Len(log') >= Len(log)
      /\ \A i \in 1 .. Len(log) : log'[i] = log[i]
  BY CurConfig, LogStep
<1>2. ASSUME q.pc \in Filtered
      PROVE  /\ q.from \in 1 .. Len(log) /\ q.from \in 1 .. Len(log') /\ log'[q.from] = log[q.from]
             /\ q.from = Len(log') => q.from = Len(log)
  BY <1>1, <1>2 DEF JudgedSoFar
<1>3. ASSUME q.pc = "pick"
      PROVE  q.upto \in 1 .. Len(log') /\ log'[q.upto] = log[q.upto]
  BY <1>1, <1>3 DEF JudgedSoFar, At
<1>4. ASSUME q.pc = "routeToken" PROVE q.routes \in 1 .. Len(log')
  BY <1>1, <1>4 DEF JudgedSoFar, At
<1>5. "put" \in Filtered /\ "verify" \in Filtered /\ "routeToken" \in Filtered /\ "pick" \notin Filtered
  BY DEF Filtered
<1> QED BY <1>2, <1>3, <1>4, <1>5 DEF JudgedSoFar, At, Req

(* The record of a request that leaves the filters.                        *)
LEMMA AdmitFields ==
    ASSUME HandlerType, NEW c \in Conns, NEW t, NEW k, NEW e, Admit(c, t, k, e)
    PROVE  /\ conn'[c].pc = "pick" /\ conn'[c].req = conn[c].req /\ conn'[c].from = conn[c].from
           /\ conn'[c].upto = k /\ conn'[c].at = t /\ conn'[c].excused = e
<1> DEFINE r == [Left(c, "pick") EXCEPT !.req = Req(c), !.from = conn[c].from,
                                        !.upto = k, !.at = t, !.excused = e]
<1>1. /\ r.pc = "pick" /\ r.req = conn[c].req /\ r.from = conn[c].from
      /\ r.upto = k /\ r.at = t /\ r.excused = e
  BY DEF Left, Idle, Req
<1>2. conn' = [conn EXCEPT ![c] = r]
  BY DEF Admit
<1> HIDE DEF r
<1> QED BY <1>1, <1>2, SetOne

(* A request that is admitted is one that the configuration admits.        *)
LEMMA AdmittedSound ==
    ASSUME FilterInv, NEW c \in Conns, Admitted(c), log' = log
    PROVE  /\ conn'[c].pc = "pick" /\ conn'[c].upto \in 1 .. Len(log)
           /\ conn'[c].from = conn'[c].upto /\ ~conn'[c].excused =>
                Admits(log[conn'[c].upto], conn'[c].req, conn'[c].at)
<1> DEFINE q == conn[c]
           n == Len(log)
<1>0. /\ HandlerType /\ DataType /\ CacheSound /\ PutVerified /\ JudgedSoFar(c)
      /\ TablesAgree /\ ExpiryCached
  BY DEF FilterInv, IInv
<1>1. n \in Nat \ {0} /\ n \in 1 .. n /\ Cur = log[n] /\ now \in Nat
  BY <1>0, CurConfig DEF Cur, DataType
<1>2. ASSUME q.pc \in Filtered \ {"black"}
      PROVE  q.req \in PlainRequests /\ (q.from = n => q.req.addr \notin log[q.from].black)
  BY <1>0, <1>2 DEF HandlerType, JudgedSoFar, Req
<1>3. CASE /\ At(c, "auth") /\ Cur.jwt /\ Req(c).token # NoToken /\ CacheHit(Req(c).token)
           /\ Admit(c, now, Len(log), Req(c).token \in late)
  <2> DEFINE tok == q.req.token
  <2>1. q.pc \in Filtered \ {"black"}
    BY <1>3 DEF At, Filtered
  <2>2. /\ conn'[c].pc = "pick" /\ conn'[c].req = q.req /\ conn'[c].from = q.from
        /\ conn'[c].upto = n /\ conn'[c].at = now /\ conn'[c].excused = (tok \in late)
    BY <1>0, <1>3, AdmitFields DEF Req
  <2>3. tok \in Keys(cache) /\ Value(cache, tok) > now /\ tok # NoToken
    BY <1>3 DEF CacheHit, Req
  <2>4. cache \in Caches /\ ExpiryOf(cache.list)
    BY <1>0 DEF DataType, Caches, ExpiryCached
  <2>5. tok.exp > now
    BY <2>3, <2>4, ValueIsExpiry
  <2>6. tok.exp \in Nat
    BY <1>2, <2>1, <2>3, RequestsAssumption DEF PlainRequests
  <2>7. tok.exp >= now
    BY <1>1, <2>5, <2>6
  <2>8. tok \in late \/ tok.secret = log[n].secret
    BY <1>0, <1>1, <2>3 DEF CacheSound
  <2>9. tok \notin late => VerifyHs256(tok, log[n].secret, now)
    BY <2>7, <2>8 DEF VerifyHs256
  <2> QED BY <1>1, <1>2, <1>3, <2>1, <2>2, <2>3, <2>9 DEF Admits
<1>4. CASE Put(c)
  <2>1. q.pc = "put" /\ Admit(c, q.at, q.base, FALSE)
    BY <1>4 DEF Put, At
  <2>2. /\ conn'[c].pc = "pick" /\ conn'[c].req = q.req /\ conn'[c].from = q.from
        /\ conn'[c].upto = q.base /\ conn'[c].at = q.at
    <3>1. PICK e : Admit(c, q.at, q.base, e)
      BY <2>1, Zenon
    <3> QED BY <1>0, <3>1, AdmitFields
  <2>3. q.base \in 1 .. n
    BY <1>0, <2>1 DEF PutVerified, At
  <2>4. q.from = q.base =>
            /\ q.req.addr \notin log[q.from].black /\ log[q.from].jwt /\ q.req.token # NoToken
            /\ VerifyHs256(q.req.token, log[q.from].secret, q.at)
    BY <1>0, <2>1 DEF JudgedSoFar, At, Req
  <2> QED BY <2>2, <2>3, <2>4 DEF Admits
<1>5. CASE /\ At(c, "routeToken")
           /\ (IF q.route = 0 THEN NoToken ELSE Route(c).token) \in {NoToken, Req(c).token}
           /\ Admit(c, now, Len(log), FALSE)
  <2>1. q.pc = "routeToken" /\ q.pc \in Filtered \ {"black"}
    BY <1>5 DEF At, Filtered
  <2>2. /\ conn'[c].pc = "pick" /\ conn'[c].req = q.req /\ conn'[c].from = q.from
        /\ conn'[c].upto = n /\ conn'[c].at = now
    <3>1. PICK e : Admit(c, now, n, e)
      BY <1>5, Zenon
    <3> QED BY <1>0, <3>1, AdmitFields
  <2> SUFFICES ASSUME q.from = n PROVE Admits(log[n], q.req, now)
    BY <1>1, <2>2
  <2>3. /\ q.routes \in 1 .. n /\ q.from <= q.routes
        /\ q.from = q.routes => ~log[q.from].jwt /\ q.route = MatchRoute(log[q.from].table, q.req.path)
    BY <1>0, <2>1 DEF JudgedSoFar, At, Req
  <2>4. q.routes = n
    BY <1>1, <2>3
  <2>5. ~log[n].jwt /\ q.route = MatchRoute(log[n].table, q.req.path)
    BY <2>3, <2>4
  <2>6. q.req \in PlainRequests /\ q.req.addr \notin log[n].black
    BY <1>2, <2>1
  <2>7. q.route = BestRoute(log[n].routes, q.req.path)
    BY <1>0, <1>1, <2>5, <2>6, PlainPath DEF TablesAgree
  <2>8. q.route = 0 \/ log[n].routes[q.route].token \in {NoToken, q.req.token}
    BY <1>5, <2>4 DEF Route, Req
  <2> QED BY <2>5, <2>6, <2>7, <2>8 DEF Admits
<1>6. CASE Admit(c, now, Len(log), TRUE)
  BY <1>0, <1>1, <1>6, AdmitFields
<1> QED BY <1>3, <1>4, <1>5, <1>6 DEF Admitted

(* A step of the filters.                                                  *)
LEMMA JudgedNext ==
    ASSUME FilterInv, NEW c \in Conns, Effect(c), Frame(c)
    PROVE  JudgedSoFar(c)'
<1> DEFINE q == conn[c]
           p == conn'[c]
           n == Len(log)
<1>0. HandlerType /\ DataType /\ JudgedSoFar(c)
  BY DEF FilterInv, IInv
<1>1. n \in Nat \ {0} /\ n \in 1 .. n /\ Cur = log[n]
  BY <1>0, CurConfig DEF Cur
<1>2. ASSUME p.pc # "pick" PROVE p.upto = 0
  BY <1>0, <1>2 DEF Effect, JudgedSoFar
<1>3. CASE p.pc \notin Filtered \cup {"pick"}
  <2>1. p.pc \notin {"pick", "put", "verify", "routeToken"}
    BY <1>3 DEF Filtered
  <2> QED BY <1>2, <1>3, <2>1 DEF JudgedSoFar, At
<1>4. CASE p.pc \in Filtered
  <2>1. /\ p.req = q.req /\ p.pc # "pick"
        /\ \/ q.pc \in Filtered /\ p.from = q.from
           \/ q.pc = "process" /\ p.pc = "black" /\ p.from = n
    BY <1>4 DEF Effect, At, Filtered
  <2>2. log' = log
    BY <2>1 DEF Frame, LoadCommit, At, Filtered
  <2>3. CASE q.pc = "process" /\ p.pc = "black" /\ p.from = n
    BY <1>1, <1>2, <2>1, <2>2, <2>3 DEF JudgedSoFar, At
  <2>4. CASE q.pc \in Filtered /\ p.from = q.from
    <3>1. q.from \in 1 .. n
      BY <1>0, <2>4 DEF JudgedSoFar
    <3>2. p.pc # "black" /\ q.from = n => q.req.addr \notin log[q.from].black
      <4>1. CASE q.pc = "black"
        BY <1>1, <1>4, <4>1 DEF Effect, At, Req
      <4>2. CASE q.pc # "black"
        BY <1>0, <2>4, <4>2 DEF JudgedSoFar, Req
      <4> QED BY <4>1, <4>2
    <3>3. p.pc = "verify" /\ q.from = n => log[q.from].jwt /\ q.req.token # NoToken
      BY <1>1 DEF Effect, Req
    <3>4. p.pc = "put" /\ q.from = p.base =>
            /\ q.req.addr \notin log[q.from].black /\ log[q.from].jwt /\ q.req.token # NoToken
            /\ VerifyHs256(q.req.token, log[q.from].secret, p.at)
      <4> SUFFICES ASSUME p.pc = "put", q.from = p.base
                   PROVE  /\ q.req.addr \notin log[q.from].black /\ log[q.from].jwt /\ q.req.token # NoToken
                          /\ VerifyHs256(q.req.token, log[q.from].secret, p.at)
        OBVIOUS
      <4>1. /\ p.base = n /\ q.pc = "verify" /\ p.at = now
            /\ VerifyHs256(q.req.token, log[n].secret, now)
        BY <1>1 DEF Effect, At, Req
      <4>2. log[q.from].jwt /\ q.req.token # NoToken
        BY <1>0, <4>1 DEF JudgedSoFar, At, Req
      <4> QED BY <3>2, <4>1, <4>2
    <3>5. p.pc = "routeToken" =>
            /\ p.routes = n /\ q.from <= n
            /\ q.from = n => ~log[q.from].jwt /\ p.route = MatchRoute(log[q.from].table, q.req.path)
      BY <1>1, <3>1 DEF Effect, Req
    <3> QED BY <1>1, <1>2, <2>1, <2>2, <2>4, <3>1, <3>2, <3>3, <3>4, <3>5 DEF JudgedSoFar, At, Req
  <2> QED BY <2>1, <2>3, <2>4
<1>5. CASE p.pc = "pick"
  <2>1. Admitted(c)
    BY <1>5 DEF Effect
  <2>2. log' = log
    BY <2>1 DEF Frame, Admitted, Put, LoadCommit, At
  <2>3. /\ p.upto \in 1 .. Len(log)
        /\ p.from = p.upto /\ ~p.excused => Admits(log[p.upto], p.req, p.at)
    BY <2>1, <2>2, AdmittedSound
  <2>4. "pick" \notin Filtered
    BY DEF Filtered
  <2> QED BY <1>5, <2>2, <2>3, <2>4 DEF JudgedSoFar, At, Req
<1> QED BY <1>3, <1>4, <1>5

LEMMA JudgedStep ==
    ASSUME FilterInv, [Next]_vars
    PROVE  \A c \in Conns : JudgedSoFar(c)'
<1>0. HandlerType /\ DataType /\ \A c \in Conns : JudgedSoFar(c)
  BY DEF FilterInv, IInv
<1>1. ASSUME NEW d \in Conns, conn'[d].pc \in Gone \cup {"handle"}, conn'[d].upto = 0
      PROVE  JudgedSoFar(d)'
  <2>1. conn'[d].pc \notin Filtered \cup {"pick", "put", "verify", "routeToken"}
    BY <1>1 DEF Gone, Filtered
  <2> QED BY <1>1, <2>1 DEF JudgedSoFar, At
<1>2. ASSUME NEW d \in Conns, conn'[d] = conn[d] PROVE JudgedSoFar(d)'
  BY <1>0, <1>2, JudgedKept
<1>3. ASSUME NEW c \in Conns, Effect(c), Frame(c) PROVE \A d \in Conns : JudgedSoFar(d)'
  <2>1. \A d \in Conns : d # c => conn'[d] = conn[d]
    BY <1>3 DEF Effect
  <2>2. JudgedSoFar(c)'
    BY <1>3, JudgedNext
  <2> QED BY <1>2, <2>1, <2>2
<1>4. CASE Ended
  <2>1. \A d \in Conns : conn'[d] = conn[d] \/ (conn'[d].pc \in Gone /\ conn'[d].upto = 0)
    BY <1>4 DEF Ended
  <2> QED BY <1>1, <1>2, <2>1
<1>5. ASSUME NEW c \in Conns, Accept(c) PROVE \A d \in Conns : JudgedSoFar(d)'
  <2>1. /\ \A d \in Conns : d # c => conn'[d] = conn[d]
        /\ conn[c].pc = "none" /\ conn'[c].pc = "handle" /\ conn'[c].upto = conn[c].upto
    BY <1>0, <1>5, AcceptFields
  <2>2. conn[c].upto = 0
    BY <1>0, <2>1 DEF JudgedSoFar
  <2> QED BY <1>1, <1>2, <2>1, <2>2
<1>6. CASE conn' = conn
  BY <1>2, <1>6
<1> QED BY <1>0, <1>3, <1>4, <1>5, <1>6, Steps DEF Construct

LEMMA InitFilters ==
    ASSUME Init
    PROVE  FilterInv
<1>1. IInv
  BY InitInv
<1>2. Len(log) = 1 /\ log[1] = NoConfig
  BY DEF Init
<1>3. NoConfig.table = BuildTrie(<<>>) /\ NoConfig.routes = <<>>
  BY DEF NoConfig
<1>4. TablesAgree
  BY <1>2, <1>3, NothingRouted DEF TablesAgree
<1>5. ExpiryCached
  BY EmptyExpiry DEF Init, ExpiryCached
<1>6. ASSUME NEW c \in Conns PROVE JudgedSoFar(c)
  <2>1. conn[c].pc = "none" /\ conn[c].upto = 0
    BY DEF Init, Idle
  <2>2. "none" \notin Filtered \cup {"pick", "put", "verify", "routeToken"}
    BY DEF Filtered
  <2> QED BY <2>1, <2>2 DEF JudgedSoFar, At
<1> QED BY <1>1, <1>4, <1>5, <1>6 DEF FilterInv

(* A request that GatewayFilterChain::apply lets pass under one            *)
(* configuration is one that this configuration admits: not blacklisted,   *)
(* and with a token that verifies or that its route asks for.              *)
THEOREM FiltersAreSound == Spec => []FiltersSound
<1>1. FilterInv /\ [Next]_vars => FilterInv'
  <2> SUFFICES ASSUME FilterInv, [Next]_vars PROVE FilterInv'
    OBVIOUS
  <2>1. /\ IInv /\ HandlerType /\ DataType /\ CacheShape /\ TablesAgree /\ ExpiryCached
    BY DEF FilterInv, IInv
  <2>2. IInv'
    BY <2>1, InductiveStep
  <2>3. TablesAgree' /\ ExpiryCached' /\ \A c \in Conns : JudgedSoFar(c)'
    BY <2>1, TablesStep, ExpiryStep, JudgedStep
  <2> QED BY <2>2, <2>3 DEF FilterInv
<1>2. Init => FilterInv
  BY InitFilters
<1>3. FilterInv => FiltersSound
  <2> SUFFICES ASSUME FilterInv, NEW c \in Conns, conn[c].upto # 0,
                      conn[c].from = conn[c].upto, ~conn[c].excused
               PROVE  Admits(log[conn[c].upto], Req(c), conn[c].at)
    BY DEF FiltersSound
  <2>1. JudgedSoFar(c)
    BY DEF FilterInv
  <2> QED BY <2>1 DEF JudgedSoFar, At
<1> QED BY <1>1, <1>2, <1>3, PTL DEF Spec
-----------------------------------------------------------------------------
(* The default route                                                       *)

(* Every configuration that was loaded has a prefix route "/", so has the  *)
(* file of a load that is under way, and what left the filters is plain.   *)
DefaultInv ==
    /\ \A k \in 1 .. Len(log) : log[k].inited => HasDefault(log[k].routes)
    /\ \A c \in Conns : At(c, "commit") => HasDefault(conn[c].file.routes)
    /\ \A c \in Conns : At(c, "pick") => conn[c].req \in PlainRequests

(* The routes of a configuration are those of a file, if it has any.       *)
LEMMA ConfigRoutes ==
    ASSUME NEW cfg \in Configs, NEW p \in Text
    PROVE  \E n \in Nat :
             /\ DOMAIN cfg.routes = 1 .. n
             /\ \A i \in 1 .. n : \E f \in Files : i \in 1 .. Len(f.routes) /\ cfg.routes = Resolved(f)
             /\ BestRoute(cfg.routes, p) \in 0 .. n
             /\ \A k \in 1 .. n : ~cfg.routes[k].exact /\ IsPrefix(cfg.routes[k].prefix, p) =>
                                    BestRoute(cfg.routes, p) # 0
<1> DEFINE rs == cfg.routes
<1>1. rs \in {Resolved(f) : f \in Files} \cup {<<>>}
  BY DEF Configs
<1>2. Len(p) \in Nat
  BY LenProperties DEF Text
<1> HIDE DEF rs
<1>3. CASE rs = <<>>
  <2>1. DOMAIN rs = 1 .. 0 /\ \A i \in 1 .. 0 : FALSE
    BY <1>3
  <2>2. BestRoute(rs, p) \in 0 .. 0
    BY <1>2, <2>1, BestInRange
  <2>3. 0 \in Nat
    OBVIOUS
  <2> QED BY <2>1, <2>2, <2>3, Zenon DEF rs
<1>4. ASSUME NEW f \in Files, rs = Resolved(f)
      PROVE  /\ Len(f.routes) \in Nat /\ DOMAIN rs = 1 .. Len(f.routes)
             /\ BestRoute(rs, p) \in 0 .. Len(f.routes)
             /\ \A k \in 1 .. Len(f.routes) : ~rs[k].exact /\ IsPrefix(rs[k].prefix, p) =>
                                                BestRoute(rs, p) # 0
  <2> DEFINE n == Len(f.routes)
  <2>1. Routes(f.routes, n)
    BY FileRoutes
  <2>2. n \in Nat /\ DOMAIN f.routes = 1 .. n
    BY <2>1 DEF Routes
  <2>3. DOMAIN rs = 1 .. n
    BY <1>4, <2>2, ResolvedShape
  <2>4. ASSUME NEW i \in 1 .. n PROVE Len(rs[i].prefix) \in Nat
    <3>1. f.routes[i].prefix \in Text
      BY <2>1 DEF Routes
    <3>2. rs[i].prefix = f.routes[i].prefix
      BY <1>4, <2>2, ResolvedShape
    <3> QED BY <3>1, <3>2, LenProperties DEF Text
  <2> HIDE DEF n
  <2>5. /\ BestRoute(rs, p) \in 0 .. n
        /\ \A k \in 1 .. n : ~rs[k].exact /\ IsPrefix(rs[k].prefix, p) => BestRoute(rs, p) # 0
    BY <1>2, <2>2, <2>3, <2>4, BestInRange
  <2> QED BY <2>2, <2>3, <2>5 DEF n
<1>5. CASE rs # <<>>
  <2>1. PICK f \in Files : rs = Resolved(f)
    BY <1>1, <1>5
  <2> WITNESS Len(f.routes) \in Nat
  <2> QED BY <1>4, <2>1, Zenon DEF rs
<1> QED BY <1>3, <1>5

LEMMA ResolvedDefault ==
    ASSUME NEW f \in Files, HasDefault(f.routes)
    PROVE  HasDefault(Resolved(f))
BY ResolvedShape DEF HasDefault

(* A configuration with a default route has a best route for every path    *)
(* that begins with "/".                                                   *)
LEMMA DefaultFound ==
    ASSUME NEW cfg \in Configs, HasDefault(cfg.routes), NEW r \in PlainRequests, IsPrefix(<<"/">>, r.path)
    PROVE  BestRoute(cfg.routes, r.path) # 0
<1>1. r.path \in Text
  BY PlainPath
<1>2. PICK k \in DOMAIN cfg.routes : ~cfg.routes[k].exact /\ cfg.routes[k].prefix = <<"/">>
  BY DEF HasDefault
<1>3. PICK n \in Nat :
        /\ DOMAIN cfg.routes = 1 .. n
        /\ \A i \in 1 .. n : ~cfg.routes[i].exact /\ IsPrefix(cfg.routes[i].prefix, r.path) =>
                               BestRoute(cfg.routes, r.path) # 0
  BY <1>1, ConfigRoutes
<1> QED BY <1>2, <1>3

LEMMA DefaultStep ==
    ASSUME HandlerType, DataType, DefaultInv, [Next]_vars
    PROVE  DefaultInv'
<1>0. log \in Seq(Configs) /\ Len(log) \in Nat \ {0} /\ Cur \in Configs
  BY CurConfig DEF DataType
<1> DEFINE LogGood == \A k \in 1 .. Len(log) : log[k].inited => HasDefault(log[k].routes)
           CommitGood(d) == conn[d].pc = "commit" => HasDefault(conn[d].file.routes)
           PickGood(d) == conn[d].pc = "pick" => conn[d].req \in PlainRequests
<1>1. LogGood /\ \A d \in Conns : CommitGood(d) /\ PickGood(d)
  BY DEF DefaultInv, At
<1>2. ASSUME NEW f \in Files, NEW b, NEW k, HasDefault(f.routes),
             log' = Append(log, Loaded(f, b, k)), Loaded(f, b, k) \in Configs
      PROVE  LogGood'
  <2> DEFINE x == Loaded(f, b, k)
  <2>1. HasDefault(x.routes)
    BY <1>2, ResolvedDefault DEF Loaded
  <2>2. x \in Configs /\ log' = Append(log, x)
    BY <1>2
  <2> HIDE DEF x
  <2>3. /\ Len(log') = Len(log) + 1 /\ log'[Len(log) + 1] = x
        /\ \A i \in 1 .. Len(log) : log'[i] = log[i]
    BY <1>0, <2>2, AppendProperties
  <2> SUFFICES ASSUME NEW i \in 1 .. Len(log'), log'[i].inited PROVE HasDefault(log'[i].routes)
    OBVIOUS
  <2>4. CASE i \in 1 .. Len(log)
    BY <1>1, <2>3, <2>4
  <2>5. CASE i = Len(log) + 1
    BY <2>1, <2>3, <2>5
  <2> QED BY <1>0, <2>3, <2>4, <2>5
<1>3. ASSUME log' = log PROVE LogGood'
  BY <1>1, <1>3
<1>4. ASSUME NEW d \in Conns, conn'[d] = conn[d] PROVE CommitGood(d)' /\ PickGood(d)'
  BY <1>1, <1>4
<1>5. ASSUME LogGood', \A d \in Conns : CommitGood(d)' /\ PickGood(d)' PROVE DefaultInv'
  BY <1>5 DEF DefaultInv, At
<1> HIDE DEF LogGood
<1>6. ASSUME NEW c \in Conns, Effect(c), Frame(c) PROVE DefaultInv'
  <2>1. LogGood'
    <3>1. CASE LoadCommit(c)
      <4>1. conn[c].file \in Files /\ conn[c].base \in 1 .. Len(log) /\ HasDefault(conn[c].file.routes)
        BY <1>1, <3>1 DEF LoadCommit, At, HandlerType
      <4>2. log[conn[c].base] \in Configs
        BY <1>0, <4>1, ElementOfSeq
      <4>3. Loaded(conn[c].file, log[conn[c].base], Cur) \in Configs
        BY <1>0, <4>1, <4>2, LoadedConfig
      <4>4. log' = Append(log, Loaded(conn[c].file, log[conn[c].base], Cur))
        BY <3>1 DEF LoadCommit
      <4> QED BY <1>2, <4>1, <4>3, <4>4
    <3> QED BY <1>3, <1>6, <3>1 DEF Frame
  <2>2. CommitGood(c)'
    BY <1>6 DEF Effect
  <2>3. PickGood(c)'
    <3> SUFFICES ASSUME conn'[c].pc = "pick" PROVE conn'[c].req \in PlainRequests
      OBVIOUS
    <3>1. Admitted(c)
      BY <1>6 DEF Effect
    <3>2. conn[c].pc \in Filtered
      BY <3>1 DEF Admitted, Put, At, Filtered
    <3>3. \E t, k, e : Admit(c, t, k, e)
      BY <3>1, Zenon DEF Admitted, Put
    <3>4. conn'[c].req = conn[c].req
      BY <3>3, AdmitFields
    <3> QED BY <3>2, <3>4 DEF HandlerType
  <2>4. \A d \in Conns : d # c => conn'[d] = conn[d]
    BY <1>6 DEF Effect
  <2> QED BY <1>4, <1>5, <2>1, <2>2, <2>3, <2>4
<1>7. CASE Ended
  <2>1. \A d \in Conns : conn'[d] = conn[d] \/ conn'[d].pc \notin {"commit", "pick"}
    BY <1>7 DEF Ended, Gone
  <2> QED BY <1>3, <1>4, <1>5, <1>7, <2>1 DEF Ended
<1>8. ASSUME NEW c \in Conns, Accept(c) PROVE DefaultInv'
  <2>1. (\A d \in Conns : d # c => conn'[d] = conn[d]) /\ conn'[c].pc = "handle"
    BY <1>8, AcceptFields
  <2>2. log' = log
    BY <1>8 DEF Accept, config
  <2> QED BY <1>3, <1>4, <1>5, <2>1, <2>2
<1>9. CASE Construct
  <2>1. LogGood'
    <3>1. CASE Acceptable(disk)
      <4>1. disk \in Files /\ HasDefault(disk.routes)
        BY <3>1 DEF Acceptable, DataType
      <4>2. Loaded(disk, Cur, Cur) \in Configs
        BY <1>0, <4>1, LoadedConfig
      <4>3. log' = Append(log, Loaded(disk, Cur, Cur))
        BY <1>9, <3>1 DEF Construct
      <4> QED BY <1>2, <4>1, <4>2, <4>3
    <3> QED BY <1>3, <1>9, <3>1 DEF Construct
  <2>2. conn' = conn
    BY <1>9 DEF Construct
  <2> QED BY <1>4, <1>5, <2>1, <2>2
<1>10. CASE log' = log /\ conn' = conn
  BY <1>3, <1>4, <1>5, <1>10
<1> QED BY <1>6, <1>7, <1>8, <1>9, <1>10, Steps

LEMMA InitDefault == Init => DefaultInv
<1> SUFFICES ASSUME Init PROVE DefaultInv
  OBVIOUS
<1>1. Len(log) = 1 /\ log[1] = NoConfig /\ NoConfig.inited = FALSE
  BY DEF Init, NoConfig
<1>2. \A c \in Conns : conn[c].pc = "none"
  BY DEF Init, Idle
<1> QED BY <1>1, <1>2 DEF DefaultInv, At

(* Once a file was accepted, every request for a path that begins with "/" *)
(* finds a route in pick_upstream, whatever is loaded later: load_from_file *)
(* refuses a file without a prefix route "/", and overlapping loads each   *)
(* commit a file they have checked.                                        *)
THEOREM DefaultRouteExists == Spec => []DefaultRoute
<1> DEFINE Inv == IInv /\ TablesAgree /\ DefaultInv
<1>1. Inv /\ [Next]_vars => Inv'
  <2> SUFFICES ASSUME Inv, [Next]_vars PROVE Inv'
    OBVIOUS
  <2>1. HandlerType /\ DataType
    BY DEF IInv
  <2> QED BY <2>1, InductiveStep, TablesStep, DefaultStep
<1>2. Init => Inv
  <2> SUFFICES ASSUME Init PROVE Inv
    OBVIOUS
  <2>1. IInv /\ TablesAgree
    BY InitFilters DEF FilterInv
  <2> QED BY <2>1, InitDefault
<1>3. Inv => DefaultRoute
  <2> SUFFICES ASSUME Inv, NEW c \in Conns, At(c, "pick"), Cur.inited, IsPrefix(<<"/">>, conn[c].req.path)
               PROVE  MatchRoute(Cur.table, conn[c].req.path) # 0
    BY DEF DefaultRoute, Req
  <2>1. Len(log) \in Nat \ {0} /\ Cur \in Configs
    BY CurConfig DEF IInv
  <2>2. HasDefault(Cur.routes) /\ conn[c].req \in PlainRequests
    BY <2>1 DEF DefaultInv, Cur
  <2>3. BestRoute(Cur.routes, conn[c].req.path) # 0
    BY <2>1, <2>2, DefaultFound
  <2> QED BY <2>1, <2>2, <2>3, PlainPath DEF TablesAgree, Cur
<1> QED BY <1>1, <1>2, <1>3, PTL DEF Spec
-----------------------------------------------------------------------------
(* Routing                                                                 *)

(* build_trie and match_route find the longest prefix, whatever file the   *)
(* configuration was loaded from.                                          *)
THEOREM RoutesAreLongestPrefixes == Spec => []RouteIsLongestPrefix
<1> DEFINE Inv == IInv /\ TablesAgree
<1>1. Inv /\ [Next]_vars => Inv'
  <2> SUFFICES ASSUME Inv, [Next]_vars PROVE Inv'
    OBVIOUS
  <2>1. HandlerType /\ DataType
    BY DEF IInv
  <2> QED BY <2>1, InductiveStep, TablesStep
<1>2. Init => Inv
  BY InitFilters DEF FilterInv
<1>3. Inv => RouteIsLongestPrefix
  <2> SUFFICES ASSUME Inv, NEW p \in Paths
               PROVE  MatchRoute(Cur.table, p) = BestRoute(Cur.routes, p)
    BY DEF RouteIsLongestPrefix
  <2>1. Len(log) \in Nat \ {0}
    BY CurConfig DEF IInv
  <2>2. p \in Text
    BY PathsAssumption DEF Text
  <2> QED BY <2>1, <2>2 DEF TablesAgree, Cur
<1> QED BY <1>1, <1>2, <1>3, PTL DEF Spec

(* What the loop over the targets has after each of n turns.               *)
Keeps(g, targets, n) ==
    g = [i \in 0 .. n |-> IF i = 0 THEN <<>>
                          ELSE IF targets[i] \in Resolvable THEN Append(g[i - 1], targets[i]) ELSE g[i - 1]]

LEMMA KeepsExists ==
    ASSUME NEW targets, NEW n \in Nat
    PROVE  \E g : Keeps(g, targets, n)
<1> DEFINE step(g, i) == IF i = 0 THEN <<>>
                         ELSE IF targets[i] \in Resolvable THEN Append(g[i - 1], targets[i]) ELSE g[i - 1]
           S == {m \in Nat : \E g : g = [i \in 0 .. m |-> step(g, i)]}
<1>1. 0 \in S
  <2> DEFINE g == [i \in 0 .. 0 |-> <<>>]
  <2>1. g = [i \in 0 .. 0 |-> step(g, i)]
    <3>1. \A i \in 0 .. 0 : i = 0
      OBVIOUS
    <3>2. \A i \in 0 .. 0 : step(g, i) = <<>>
      BY <3>1
    <3> HIDE DEF step
    <3> QED BY <3>2
  <2> HIDE DEF g, step
  <2>2. \E h : h = [i \in 0 .. 0 |-> step(h, i)]
    BY <2>1
  <2> QED BY <2>2
<1>2. ASSUME NEW m \in Nat, m \in S PROVE m + 1 \in S
  <2>1. PICK g : g = [i \in 0 .. m |-> step(g, i)]
    BY <1>2
  <2> DEFINE last == IF targets[m + 1] \in Resolvable THEN Append(g[m], targets[m + 1]) ELSE g[m]
             h == [i \in 0 .. m + 1 |-> IF i = m + 1 THEN last ELSE g[i]]
  <2>2. \A i \in 0 .. m : h[i] = g[i] /\ g[i] = step(g, i)
    <3> HIDE DEF last, step
    <3> QED BY <2>1
  <2>3. ASSUME NEW i \in 0 .. m + 1 PROVE h[i] = step(h, i)
    <3>1. CASE i = 0
      <4> HIDE DEF h, last
      <4>1. h[0] = g[0] /\ g[0] = step(g, 0)
        BY <2>2
      <4> QED BY <3>1, <4>1
    <3>2. CASE i \in 1 .. m
      <4>1. i - 1 \in 0 .. m /\ i \in 0 .. m /\ i # 0
        BY <3>2
      <4> HIDE DEF h
      <4>2. h[i - 1] = g[i - 1] /\ h[i] = g[i] /\ g[i] = step(g, i)
        BY <2>2, <4>1
      <4> QED BY <4>1, <4>2
    <3>3. CASE i = m + 1
      <4>1. h[m] = g[m] /\ h[m + 1] = last /\ m + 1 # 0 /\ (m + 1) - 1 = m
        <5> HIDE DEF last
        <5> QED OBVIOUS
      <4> HIDE DEF h
      <4> QED BY <3>3, <4>1
    <3> QED BY <3>1, <3>2, <3>3
  <2>4. h = [i \in 0 .. m + 1 |-> h[i]]
    OBVIOUS
  <2> HIDE DEF h, step
  <2>5. h = [i \in 0 .. m + 1 |-> step(h, i)]
    BY <2>3, <2>4
  <2>6. \E x : x = [i \in 0 .. m + 1 |-> step(x, i)]
    BY <2>5
  <2> QED BY <2>6
<1>3. \A m \in Nat : m \in S
  <2> HIDE DEF S
  <2> QED BY <1>1, <1>2, Induction
<1> QED BY <1>3 DEF Keeps

(* resolved_targets holds targets only.                                    *)
LEMMA ResolvedAreTargets ==
    ASSUME NEW targets, Len(targets) \in Nat
    PROVE  ResolvedTargets(targets) \in Seq({targets[k] : k \in 1 .. Len(targets)})
<1> DEFINE n == Len(targets)
           T == {targets[k] : k \in 1 .. n}
<1>1. \E g : Keeps(g, targets, n)
  BY KeepsExists
<1>2. \E g : Keeps(g, targets, n) /\ ResolvedTargets(targets) = g[n]
  BY <1>1, Zenon DEF Keeps, ResolvedTargets
<1>3. PICK g : Keeps(g, targets, n) /\ ResolvedTargets(targets) = g[n]
  BY <1>2
<1> HIDE DEF n
<1>4. /\ n \in Nat
      /\ \A i \in 0 .. n : g[i] = IF i = 0 THEN <<>>
                                  ELSE IF targets[i] \in Resolvable THEN Append(g[i - 1], targets[i])
                                  ELSE g[i - 1]
  BY <1>3 DEF Keeps, n
<1> DEFINE S == {m \in Nat : m <= n => g[m] \in Seq(T)}
<1>5. 0 \in S
  <2> HIDE DEF T
  <2>1. g[0] = <<>>
    BY <1>4
  <2>2. <<>> \in Seq(T)
    BY EmptySeq
  <2> QED BY <2>1, <2>2
<1>6. ASSUME NEW m \in Nat, m \in S PROVE m + 1 \in S
  <2> SUFFICES ASSUME m + 1 <= n PROVE g[m + 1] \in Seq(T)
    OBVIOUS
  <2>1. m <= n /\ m + 1 \in 0 .. n /\ m + 1 \in 1 .. n /\ (m + 1) - 1 = m /\ m + 1 # 0
    BY <1>4
  <2>2. g[m] \in Seq(T) /\ targets[m + 1] \in T
    BY <1>6, <2>1
  <2>3. g[m + 1] = IF targets[m + 1] \in Resolvable THEN Append(g[m], targets[m + 1]) ELSE g[m]
    BY <1>4, <2>1
  <2> HIDE DEF T
  <2>4. Append(g[m], targets[m + 1]) \in Seq(T)
    BY <2>2, AppendProperties
  <2> QED BY <2>2, <2>3, <2>4
<1>7. \A m \in Nat : m \in S
  <2> HIDE DEF S
  <2> QED BY <1>5, <1>6, Induction
<1>8. n <= n
  BY <1>4
<1>9. g[n] \in Seq(T)
  BY <1>4, <1>7, <1>8
<1> QED BY <1>3, <1>9 DEF n

(* The target in turn is one of the targets, whatever the index.           *)
LEMMA InTurn ==
    ASSUME NEW S, NEW targets \in Seq(S), targets # <<>>, index \in Nat
    PROVE  NextOf(targets) \in S
<1> DEFINE n == Len(targets)
           i == (index % n) + 1
<1>1. n \in Nat \ {0}
  BY EmptySeq
<1> HIDE DEF n
<1>2. index % n \in 0 .. n - 1
  BY <1>1
<1>3. i \in 1 .. n
  BY <1>1, <1>2
<1> HIDE DEF i
<1>4. targets[i] \in S
  BY <1>3, ElementOfSeq DEF n
<1> QED BY <1>4 DEF NextOf, i, n

(* The targets of a route that was loaded.                                 *)
LEMMA TargetsOfRoute ==
    ASSUME NEW f \in Files, NEW i \in 1 .. Len(f.routes)
    PROVE  LET r == Resolved(f)[i] IN
           /\ r.targets \in Seq(Hosts) \ {<<>>} /\ DOMAIN r.targets = 1 .. Len(r.targets)
           /\ r.targets \in Seq({r.targets[k] : k \in 1 .. Len(r.targets)})
           /\ r.resolved \in Seq({r.targets[k] : k \in 1 .. Len(r.targets)})
           /\ {r.targets[k] : k \in 1 .. Len(r.targets)} \subseteq Hosts
<1> DEFINE r == Resolved(f)[i]
           ts == f.routes[i].targets
           T == {ts[k] : k \in 1 .. Len(ts)}
<1>1. f.routes \in Seq([prefix : Seq(STRING) \ {<<>>}, exact : BOOLEAN, targets : Seq(Hosts) \ {<<>>}])
  BY FilesAssumption
<1>2. f.routes[i] \in [prefix : Seq(STRING) \ {<<>>}, exact : BOOLEAN, targets : Seq(Hosts) \ {<<>>}]
  BY <1>1, ElementOfSeq
<1>3. ts \in Seq(Hosts) /\ ts # <<>>
  BY <1>2
<1>4. i \in DOMAIN f.routes
  BY <1>1, LenProperties
<1>5. r.targets = ts /\ r.resolved = ResolvedTargets(ts)
  BY <1>4 DEF Resolved
<1> HIDE DEF r, ts
<1>6. Len(ts) \in Nat /\ DOMAIN ts = 1 .. Len(ts) /\ ts \in [1 .. Len(ts) -> Hosts]
  BY <1>3, LenProperties
<1>7. ResolvedTargets(ts) \in Seq(T)
  BY <1>6, ResolvedAreTargets
<1>8. ts \in Seq(T)
  <2>1. ts = [k \in 1 .. Len(ts) |-> ts[k]]
    BY <1>6
  <2>2. [k \in 1 .. Len(ts) |-> ts[k]] \in Seq(T)
    <3>1. \A k \in 1 .. Len(ts) : ts[k] \in T
      OBVIOUS
    <3> HIDE DEF T
    <3> QED BY <1>6, <3>1, IsASeq
  <2> QED BY <2>1, <2>2
<1>9. T \subseteq Hosts
  BY <1>6
<1>10. /\ ts \in Seq(Hosts) \ {<<>>} /\ DOMAIN ts = 1 .. Len(ts) /\ ts \in Seq(T)
       /\ ResolvedTargets(ts) \in Seq(T) /\ T \subseteq Hosts
  BY <1>3, <1>6, <1>7, <1>8, <1>9
<1>11. /\ r.targets \in Seq(Hosts) \ {<<>>} /\ DOMAIN r.targets = 1 .. Len(r.targets)
       /\ r.targets \in Seq({r.targets[k] : k \in 1 .. Len(r.targets)})
       /\ r.resolved \in Seq({r.targets[k] : k \in 1 .. Len(r.targets)})
       /\ {r.targets[k] : k \in 1 .. Len(r.targets)} \subseteq Hosts
  BY <1>5, <1>10
<1> QED BY <1>11 DEF r

(* Where a request is on its way to its upstream.                          *)
Serves(rs, path, h) ==
    LET i == BestRoute(rs, path)
    IN i # 0 /\ \E k \in DOMAIN rs[i].targets : rs[i].targets[k] = h

TargetOf(c) == Serves(log[conn[c].routes].routes, conn[c].req.path, conn[c].upstream)

RoutedSoFar(c) ==
    /\ conn[c].status \in Codes
    /\ conn[c].pc # "connect" => conn[c].upstream = NoHost
    /\ conn[c].route # 0 =>
         conn[c].routes \in 1 .. Len(log) /\ conn[c].route \in DOMAIN log[conn[c].routes].routes
    /\ conn[c].pc = "deref" =>
         /\ conn[c].routes \in 1 .. Len(log) /\ conn[c].route # 0
         /\ conn[c].route = BestRoute(log[conn[c].routes].routes, conn[c].req.path)
    /\ conn[c].pc = "connect" =>
         /\ conn[c].routes \in 1 .. Len(log) /\ conn[c].upstream \in Hosts
         /\ ~conn[c].excused => TargetOf(c)

(* The clock, the counters and the life of the server.                     *)
Bounds ==
    /\ edits \in 0 .. MaxEdits /\ now \in 0 .. MaxTime /\ known \in BOOLEAN
    /\ index \in 0 .. (IndexRange - 1)
    /\ server \in {"new", "made", "listening"} /\ accepted \in 0 .. MaxConns

RoutedInv == IInv /\ TablesAgree /\ DefaultInv /\ Bounds /\ \A c \in Conns : RoutedSoFar(c)

LEMMA BoundsStep ==
    ASSUME HandlerType, DataType, Bounds, [Next]_vars
    PROVE  Bounds'
<1> USE DEF files, config, shared, tcp
<1>1. (index + 1) % IndexRange \in 0 .. (IndexRange - 1)
  BY BoundsAssumption DEF Bounds
<1>2. CASE \E c \in Conns : Handler(c)
  <2>1. now' = now /\ Quiet
    BY <1>2, HandlerStep DEF Frame, Ended
  <2> QED BY <1>1, <2>1 DEF Bounds, Quiet
<1>3. CASE Construct
  BY <1>3 DEF Construct, Bounds
<1>4. CASE Start
  BY <1>4 DEF Start, Bounds
<1>5. CASE \E c \in Conns : Accept(c)
  <2>1. /\ accepted' = accepted + 1 /\ accepted < MaxConns
        /\ UNCHANGED <<edits, now, known, index, server>>
    BY <1>5 DEF Accept
  <2>2. accepted' \in 0 .. MaxConns
    BY <2>1, BoundsAssumption DEF Bounds
  <2> QED BY <2>1, <2>2 DEF Bounds
<1>6. CASE Tick
  <2>1. now' = now + 1 /\ now < MaxTime /\ UNCHANGED <<edits, known, index, server, accepted>>
    BY <1>6 DEF Tick
  <2>2. now' \in 0 .. MaxTime
    BY <2>1, BoundsAssumption DEF Bounds
  <2> QED BY <2>1, <2>2 DEF Bounds
<1>7. CASE \E f \in Files : EditFile(f)
  <2>1. edits' = edits + 1 /\ edits < MaxEdits /\ UNCHANGED <<now, known, index, server, accepted>>
    BY <1>7 DEF EditFile
  <2>2. edits' \in 0 .. MaxEdits
    BY <2>1, BoundsAssumption DEF Bounds
  <2> QED BY <2>1, <2>2 DEF Bounds
<1>8. CASE UNCHANGED vars
  BY <1>8 DEF vars, Bounds
<1> QED BY <1>2, <1>3, <1>4, <1>5, <1>6, <1>7, <1>8 DEF Next, Server

(* The route in hand is one of its configuration, and stays so.            *)
LEMMA RoutedKept ==
    ASSUME HandlerType, DataType, [Next]_vars, NEW d \in Conns, conn'[d] = conn[d], RoutedSoFar(d)
    PROVE  RoutedSoFar(d)'
<1>1. /\ Len(log) \in Nat /\ Len(log') \in Nat /\ Len(log') >= Len(log)
      /\ \A i \in 1 .. Len(log) : log'[i] = log[i]
  BY LogStep
<1>2. ASSUME NEW k \in 1 .. Len(log) PROVE k \in 1 .. Len(log') /\ log'[k] = log[k]
  BY <1>1
<1>3. ASSUME conn[d].routes \in 1 .. Len(log), TargetOf(d) PROVE TargetOf(d)'
  <2>1. log'[conn'[d].routes] = log[conn[d].routes]
    BY <1>2, <1>3
  <2> QED BY <1>3, <2>1 DEF TargetOf
<1>4. /\ conn[d].status \in Codes
      /\ conn[d].pc # "connect" => conn[d].upstream = NoHost
      /\ conn[d].route # 0 =>
           conn[d].routes \in 1 .. Len(log) /\ conn[d].route \in DOMAIN log[conn[d].routes].routes
      /\ conn[d].pc = "deref" =>
           /\ conn[d].routes \in 1 .. Len(log) /\ conn[d].route # 0
           /\ conn[d].route = BestRoute(log[conn[d].routes].routes, conn[d].req.path)
      /\ conn[d].pc = "connect" =>
           /\ conn[d].routes \in 1 .. Len(log) /\ conn[d].upstream \in Hosts
           /\ ~conn[d].excused => TargetOf(d)
  BY DEF RoutedSoFar
<1>5. conn'[d].route # 0 =>
        conn'[d].routes \in 1 .. Len(log') /\ conn'[d].route \in DOMAIN log'[conn'[d].routes].routes
  BY <1>2, <1>4
<1>6. conn'[d].pc = "deref" =>
        /\ conn'[d].routes \in 1 .. Len(log') /\ conn'[d].route # 0
        /\ conn'[d].route = BestRoute(log'[conn'[d].routes].routes, conn'[d].req.path)
  BY <1>2, <1>4
<1>7. conn'[d].pc = "connect" =>
        /\ conn'[d].routes \in 1 .. Len(log') /\ conn'[d].upstream \in Hosts
        /\ ~conn'[d].excused => TargetOf(d)'
  BY <1>2, <1>3, <1>4, Zenon
<1> QED BY <1>4, <1>5, <1>6, <1>7, Zenon DEF RoutedSoFar

(* The record of a handler that has chosen its upstream.                   *)
LEMMA ChosenFields ==
    ASSUME HandlerType, NEW c \in Conns, NEW h, NEW b, Chosen(c, h, b)
    PROVE  /\ conn'[c].upstream = h /\ conn'[c].excused = b /\ conn'[c].status = conn[c].status
           /\ conn'[c].route = conn[c].route /\ conn'[c].routes = conn[c].routes
           /\ conn'[c].req = conn[c].req
<1> DEFINE s == [conn[c] EXCEPT !.pc = "connect", !.upstream = h, !.excused = b]
<1>1. DOMAIN conn = Conns /\ DOMAIN conn[c] = Fields
  BY DEF HandlerType
<1>2. conn' = [conn EXCEPT ![c] = s]
  BY <1>1 DEF Chosen, Fields
<1>3. /\ s.upstream = h /\ s.excused = b /\ s.status = conn[c].status
      /\ s.route = conn[c].route /\ s.routes = conn[c].routes /\ s.req = conn[c].req
  BY <1>1 DEF Fields
<1> HIDE DEF s
<1> QED BY <1>1, <1>2, <1>3

(* pick_upstream takes a target of the route, unless the pointer dangles.  *)
LEMMA Choice ==
    ASSUME HandlerType, NEW c \in Conns, Deref(c), conn'[c].pc = "connect"
    PROVE  \E h, b : /\ Chosen(c, h, b)
                     /\ \/ Route(c).resolved # <<>> /\ h = NextOf(Route(c).resolved)
                        \/ h = NextOf(Route(c).targets)
                        \/ h \in Hosts /\ b = TRUE
<1>1. ~Respond(c, 502)
  <2> SUFFICES ASSUME Respond(c, 502) PROVE FALSE
    OBVIOUS
  <2> DEFINE r == [Left(c, "close") EXCEPT !.this = 0, !.status = 502]
  <2>1. r.pc = "close"
    BY DEF Left, Idle
  <2>2. conn' = [conn EXCEPT ![c] = r]
    BY DEF Respond
  <2> HIDE DEF r
  <2>3. conn'[c] = r
    BY <2>2, SetOne
  <2> QED BY <2>1, <2>3
<1>2. ~Undefine
  BY DEF Undefine, Idle
<1>3. \/ Route(c).resolved # <<>> /\ Chosen(c, NextOf(Route(c).resolved), FALSE)
      \/ Chosen(c, NextOf(Route(c).targets), FALSE)
      \/ \E h \in Hosts : Chosen(c, h, TRUE)
  BY <1>1, <1>2, Zenon DEF Deref
<1> QED BY <1>3, Zenon

(* A step of a handler.                                                    *)
LEMMA RoutedNext ==
    ASSUME RoutedInv, NEW c \in Conns, Effect(c), Frame(c), [Next]_vars
    PROVE  RoutedSoFar(c)'
<1> DEFINE q == conn[c]
           p == conn'[c]
           n == Len(log)
<1>0. HandlerType /\ DataType /\ RoutedSoFar(c) /\ TablesAgree /\ DefaultInv /\ Bounds
  BY DEF RoutedInv, IInv
<1>1. n \in Nat \ {0} /\ n \in 1 .. n /\ Cur = log[n] /\ log \in Seq(Configs)
  BY <1>0, CurConfig DEF Cur, DataType
<1>2. ASSUME NEW k \in 1 .. n PROVE k \in 1 .. Len(log') /\ log'[k] = log[k] /\ log[k] \in Configs
  <2>1. /\ n \in Nat /\ Len(log') \in Nat /\ Len(log') >= n
        /\ \A i \in 1 .. n : log'[i] = log[i]
    BY <1>0, LogStep
  <2> QED BY <1>1, <2>1, ElementOfSeq
<1>3. p.status \in Codes
  BY <1>0 DEF Effect, RoutedSoFar
<1>4. p.pc # "connect" => p.upstream = NoHost
  BY <1>0 DEF Effect, RoutedSoFar
<1>5. ASSUME NEW r \in PlainRequests
      PROVE  /\ MatchRoute(Cur.table, r.path) = BestRoute(log[n].routes, r.path)
             /\ BestRoute(log[n].routes, r.path) # 0 =>
                  BestRoute(log[n].routes, r.path) \in DOMAIN log[n].routes
  <2>1. r.path \in Text /\ log[n] \in Configs
    BY <1>1, <1>2, PlainPath
  <2>2. PICK m \in Nat : DOMAIN log[n].routes = 1 .. m /\ BestRoute(log[n].routes, r.path) \in 0 .. m
    BY <2>1, ConfigRoutes
  <2> QED BY <1>0, <1>1, <2>1, <2>2 DEF TablesAgree
<1>6. ASSUME p.pc = "deref"
      PROVE  /\ p.routes = n /\ p.route # 0 /\ p.route \in DOMAIN log[n].routes
             /\ p.route = BestRoute(log[n].routes, p.req.path)
  <2>1. /\ q.pc = "pick" /\ p.req = q.req /\ p.routes = n /\ p.route # 0
        /\ p.route = MatchRoute(Cur.table, q.req.path)
    BY <1>6 DEF Effect, At, Req
  <2>2. q.req \in PlainRequests
    BY <1>0, <2>1 DEF DefaultInv, At
  <2> QED BY <1>5, <2>1, <2>2
<1>7. ASSUME p.pc = "routeToken", p.route # 0
      PROVE  p.routes = n /\ p.route \in DOMAIN log[n].routes
  <2>1. p.routes = n /\ p.route = MatchRoute(Cur.table, q.req.path)
    BY <1>7 DEF Effect, Req
  <2>2. q.req \in PlainRequests
    <3>1. "routeToken" \in Filtered /\ "routeToken" # "black"
      BY DEF Filtered
    <3>2. q.pc \in Filtered
      BY <1>7, <3>1 DEF Effect
    <3> QED BY <1>0, <3>2 DEF HandlerType
  <2> QED BY <1>5, <1>7, <2>1, <2>2
<1>8. p.route # 0 => p.routes \in 1 .. Len(log') /\ p.route \in DOMAIN log'[p.routes].routes
  <2>1. CASE p.pc \in {"routeToken", "deref"}
    BY <1>1, <1>2, <1>6, <1>7, <2>1
  <2>2. CASE p.route = q.route /\ p.routes = q.routes
    BY <1>0, <1>2, <2>2 DEF RoutedSoFar
  <2> QED BY <2>1, <2>2 DEF Effect
<1>9. ASSUME p.pc = "connect"
      PROVE  p.routes \in 1 .. Len(log') /\ p.upstream \in Hosts /\ (~p.excused => TargetOf(c)')
  <2>1. Deref(c) /\ q.pc = "deref"
    BY <1>9 DEF Effect, Deref, At
  <2>2. /\ q.routes \in 1 .. n /\ q.route # 0
        /\ q.route = BestRoute(log[q.routes].routes, q.req.path)
        /\ q.route \in DOMAIN log[q.routes].routes
    BY <1>0, <2>1 DEF RoutedSoFar
  <2>3. PICK h, b : /\ Chosen(c, h, b)
                    /\ \/ Route(c).resolved # <<>> /\ h = NextOf(Route(c).resolved)
                       \/ h = NextOf(Route(c).targets)
                       \/ h \in Hosts /\ b = TRUE
    BY <1>0, <1>9, <2>1, Choice
  <2>4. p.upstream = h /\ p.excused = b /\ p.route = q.route /\ p.routes = q.routes /\ p.req = q.req
    BY <1>0, <2>3, ChosenFields
  <2> DEFINE rs == log[q.routes].routes
             r == rs[q.route]
             T == {r.targets[k] : k \in 1 .. Len(r.targets)}
  <2>5. PICK f \in Files : q.route \in 1 .. Len(f.routes) /\ rs = Resolved(f)
    <3>1. <<>> \in Text
      BY EmptySeq DEF Text
    <3>2. log[q.routes] \in Configs
      BY <1>2, <2>2
    <3>3. PICK m \in Nat :
            /\ DOMAIN rs = 1 .. m
            /\ \A i \in 1 .. m : \E f \in Files : i \in 1 .. Len(f.routes) /\ rs = Resolved(f)
      BY <3>1, <3>2, ConfigRoutes
    <3> QED BY <2>2, <3>3
  <2>6. /\ r.targets # <<>> /\ DOMAIN r.targets = 1 .. Len(r.targets)
        /\ r.targets \in Seq(T) /\ r.resolved \in Seq(T) /\ T \subseteq Hosts
    <3>1. r = Resolved(f)[q.route]
      BY <2>5
    <3> HIDE DEF r
    <3>2. LET x == Resolved(f)[q.route] IN
          /\ x.targets \in Seq(Hosts) \ {<<>>} /\ DOMAIN x.targets = 1 .. Len(x.targets)
          /\ x.targets \in Seq({x.targets[k] : k \in 1 .. Len(x.targets)})
          /\ x.resolved \in Seq({x.targets[k] : k \in 1 .. Len(x.targets)})
          /\ {x.targets[k] : k \in 1 .. Len(x.targets)} \subseteq Hosts
      <4>1. q.route \in 1 .. Len(f.routes)
        BY <2>5
      <4> QED BY ONLY <4>1, TargetsOfRoute
    <3> QED BY <3>1, <3>2, Zenon
  <2>7. index \in Nat
    BY <1>0, BoundsAssumption DEF Bounds
  <2>8. Route(c) = r
    BY DEF Route
  <2> HIDE DEF T, r
  <2>9. h \in T \/ (h \in Hosts /\ b = TRUE)
    BY <2>3, <2>6, <2>7, <2>8, InTurn
  <2>10. h \in T => \E k \in DOMAIN r.targets : r.targets[k] = h
    BY <2>6 DEF T
  <2>11. q.routes \in 1 .. Len(log') /\ log'[q.routes] = log[q.routes]
    BY <1>2, <2>2
  <2>12. ASSUME b # TRUE PROVE TargetOf(c)'
    <3>1. PICK k \in DOMAIN r.targets : r.targets[k] = h
      BY <2>9, <2>10, <2>12
    <3>2. Serves(rs, q.req.path, h)
      <4>1. BestRoute(rs, q.req.path) = q.route /\ q.route # 0
        BY <2>2
      <4> QED BY ONLY <3>1, <4>1, Zenon DEF Serves, r
    <3> QED BY <2>4, <2>11, <3>2 DEF TargetOf
  <2> QED BY <2>4, <2>6, <2>9, <2>11, <2>12
<1>10. p.pc = "deref" =>
         /\ p.routes \in 1 .. Len(log') /\ p.route # 0
         /\ p.route = BestRoute(log'[p.routes].routes, p.req.path)
  BY <1>1, <1>2, <1>6
<1> QED BY <1>3, <1>4, <1>8, <1>9, <1>10 DEF RoutedSoFar

LEMMA RoutedStep ==
    ASSUME RoutedInv, [Next]_vars
    PROVE  \A c \in Conns : RoutedSoFar(c)'
<1>0. HandlerType /\ DataType /\ \A c \in Conns : RoutedSoFar(c)
  BY DEF RoutedInv, IInv
<1>1. ASSUME NEW d \in Conns, conn'[d].pc \in Gone \cup {"handle"}, conn'[d].status \in Codes,
             conn'[d].upstream = NoHost,
             conn'[d].route # 0 =>
               conn'[d].routes \in 1 .. Len(log') /\ conn'[d].route \in DOMAIN log'[conn'[d].routes].routes
      PROVE  RoutedSoFar(d)'
  BY <1>1 DEF RoutedSoFar, Gone
<1>2. ASSUME NEW d \in Conns, conn'[d] = conn[d] PROVE RoutedSoFar(d)'
  BY <1>0, <1>2, RoutedKept
<1>3. ASSUME NEW c \in Conns, Effect(c), Frame(c) PROVE \A d \in Conns : RoutedSoFar(d)'
  <2>1. \A d \in Conns : d # c => conn'[d] = conn[d]
    BY <1>3 DEF Effect
  <2>2. RoutedSoFar(c)'
    BY <1>3, RoutedNext
  <2> QED BY <1>2, <2>1, <2>2
<1>4. CASE Ended
  <2>1. \A d \in Conns : conn'[d] = conn[d] \/
          (conn'[d].pc \in Gone /\ conn'[d].status = 0 /\ conn'[d].upstream = NoHost /\ conn'[d].route = 0)
    BY <1>4 DEF Ended
  <2>2. 0 \in Codes
    BY DEF Codes
  <2> QED BY <1>1, <1>2, <2>1, <2>2
<1>5. ASSUME NEW c \in Conns, Accept(c) PROVE \A d \in Conns : RoutedSoFar(d)'
  <2>1. /\ \A d \in Conns : d # c => conn'[d] = conn[d]
        /\ conn[c].pc = "none" /\ conn'[c].pc = "handle" /\ conn'[c].status = conn[c].status
        /\ conn'[c].upstream = conn[c].upstream
        /\ conn'[c].route = conn[c].route /\ conn'[c].routes = conn[c].routes
    BY <1>0, <1>5, AcceptFields
  <2>2. log' = log
    BY <1>5 DEF Accept, config
  <2>3. RoutedSoFar(c)
    BY <1>0
  <2>4. RoutedSoFar(c)'
    BY <1>1, <2>1, <2>2, <2>3 DEF RoutedSoFar
  <2> QED BY <1>2, <2>1, <2>4
<1>6. CASE conn' = conn
  BY <1>2, <1>6
<1> QED BY <1>0, <1>3, <1>4, <1>5, <1>6, Steps DEF Construct

LEMMA RoutedInvStep ==
    ASSUME RoutedInv, [Next]_vars
    PROVE  RoutedInv'
<1>1. IInv /\ HandlerType /\ DataType /\ TablesAgree /\ DefaultInv /\ Bounds
  BY DEF RoutedInv, IInv
<1>2. IInv' /\ TablesAgree' /\ DefaultInv' /\ Bounds'
  BY <1>1, InductiveStep, TablesStep, DefaultStep, BoundsStep
<1> QED BY <1>2, RoutedStep DEF RoutedInv

LEMMA InitRouted == Init => RoutedInv
<1> SUFFICES ASSUME Init PROVE RoutedInv
  OBVIOUS
<1>1. IInv /\ TablesAgree /\ DefaultInv
  BY InitFilters, InitDefault DEF FilterInv
<1>2. Bounds
  <2>1. known \in BOOLEAN
    BY DEF Init
  <2>2. /\ edits \in 0 .. MaxEdits /\ now \in 0 .. MaxTime
        /\ index \in 0 .. (IndexRange - 1) /\ accepted \in 0 .. MaxConns
    BY BoundsAssumption DEF Init
  <2> QED BY <2>1, <2>2 DEF Init, Bounds
<1>3. ASSUME NEW c \in Conns PROVE RoutedSoFar(c)
  <2>1. conn[c].pc = "none" /\ conn[c].status = 0 /\ conn[c].upstream = NoHost /\ conn[c].route = 0
    BY DEF Init, Idle
  <2> QED BY <2>1 DEF RoutedSoFar, Codes
<1> QED BY <1>1, <1>2, <1>3 DEF RoutedInv

LEMMA RoutedInvariant == Spec => []RoutedInv
<1>1. RoutedInv /\ [Next]_vars => RoutedInv'
  BY RoutedInvStep
<1> QED BY <1>1, InitRouted, PTL DEF Spec

(* pick_upstream sends a request to a target of the route that matches its *)
(* path in the configuration match_route read, unless a reload has         *)
(* replaced m_routes before the route was used.                            *)
THEOREM UpstreamsAreRouted == Spec => []UpstreamIsRouted
<1>1. RoutedInv => UpstreamIsRouted
  <2> SUFFICES ASSUME RoutedInv, NEW c \in Conns, conn[c].upstream # NoHost, ~conn[c].excused
               PROVE  TargetOf(c)
    BY DEF UpstreamIsRouted, TargetOf, Serves, Req
  <2>1. RoutedSoFar(c)
    BY DEF RoutedInv
  <2>2. /\ conn[c].pc # "connect" => conn[c].upstream = NoHost
        /\ conn[c].pc = "connect" => (~conn[c].excused => TargetOf(c))
    BY <2>1, Zenon DEF RoutedSoFar
  <2> QED BY <2>2, Zenon
<1> QED BY <1>1, RoutedInvariant, PTL
-----------------------------------------------------------------------------
(* The bounds                                                              *)

(* Handlers that may still load a configuration, be counted by the rate    *)
(* limiter, allocate g_conns.                                              *)
Working == {c \in Conns : conn[c].pc \notin Gone \cup {"close"}}
Uncounted == {c \in Conns : conn[c].pc \in Early \cup {"process", "black", "rate", "count"}}
Allocating == {c \in Conns : conn[c].pc = "alloc"}

(* Each connection adds at most one configuration to the log, one to the   *)
(* rate limiter's count and one array.                                     *)
LogBound == Len(log) + Cardinality(Working) <= (IF server = "new" THEN 1 ELSE 2) + accepted
CountBound ==
    /\ limiter.count + Cardinality(Uncounted) <= accepted
    /\ \A c \in Conns : conn[c].pc = "count" => conn[c].count + Cardinality(Uncounted) <= accepted
ArraysBound == Len(arrays) + Cardinality(Allocating) <= Cardinality(Fds)

CountedInv == RoutedInv /\ LogBound /\ CountBound /\ ArraysBound

LEMMA Fewer ==
    ASSUME NEW S \in SUBSET Conns, NEW T \in SUBSET S
    PROVE  Cardinality(S) \in Nat /\ Cardinality(T) \in Nat /\ Cardinality(T) <= Cardinality(S)
<1>1. IsFiniteSet(S)
  BY FiniteAssumption, FS_Subset
<1>2. IsFiniteSet(T) /\ Cardinality(T) <= Cardinality(S)
  BY <1>1, FS_Subset
<1> QED BY <1>1, <1>2, FS_CardinalityType

LEMMA OneFewer ==
    ASSUME NEW S \in SUBSET Conns, NEW c \in S, NEW T \in SUBSET (S \ {c})
    PROVE  Cardinality(S) \in Nat /\ Cardinality(T) \in Nat /\ Cardinality(T) + 1 <= Cardinality(S)
<1>1. IsFiniteSet(S) /\ Cardinality(S) \in Nat
  BY FiniteAssumption, FS_Subset, FS_CardinalityType
<1>2. IsFiniteSet(S \ {c}) /\ Cardinality(S \ {c}) = Cardinality(S) - 1
  BY <1>1, FS_RemoveElement
<1>3. Cardinality(S \ {c}) \in Nat /\ Cardinality(T) \in Nat /\ Cardinality(T) <= Cardinality(S \ {c})
  BY <1>2, Fewer
<1> QED BY <1>1, <1>2, <1>3

LEMMA OneMore ==
    ASSUME NEW S \in SUBSET Conns, NEW c \in Conns, NEW T \in SUBSET (S \cup {c})
    PROVE  Cardinality(S) \in Nat /\ Cardinality(T) \in Nat /\ Cardinality(T) <= Cardinality(S) + 1
<1>1. IsFiniteSet(S) /\ Cardinality(S) \in Nat
  BY FiniteAssumption, FS_Subset, FS_CardinalityType
<1>2. Cardinality(S \cup {c}) \in {Cardinality(S), Cardinality(S) + 1}
  BY <1>1, FS_AddElement
<1>3. Cardinality(S \cup {c}) \in Nat /\ Cardinality(T) \in Nat /\ Cardinality(T) <= Cardinality(S \cup {c})
  BY Fewer
<1> QED BY <1>1, <1>2, <1>3

LEMMA Slack ==
    ASSUME NEW n \in Nat, NEW u \in Nat, NEW v \in Nat, NEW a \in Nat, NEW b \in Nat,
           n + u <= a, v + a <= u + b
    PROVE  n + v <= b
OBVIOUS

(* The sets only shrink, but for the connection that is accepted.          *)
LEMMA WorkingStep ==
    ASSUME HandlerType, DataType, [Next]_vars
    PROVE  \/ /\ Working' \subseteq Working /\ Uncounted' \subseteq Uncounted
              /\ accepted' = accepted
           \/ /\ accepted' = accepted + 1 /\ server' = server
              /\ UNCHANGED <<log, limiter, arrays>>
              /\ \E c \in Conns : /\ Working' \subseteq Working \cup {c}
                                  /\ Uncounted' \subseteq Uncounted \cup {c}
                                  /\ conn'[c].pc = "handle"
                                  /\ \A d \in Conns : d # c => conn'[d] = conn[d]
<1>1. ASSUME NEW c \in Conns, Effect(c), Frame(c)
      PROVE  Working' \subseteq Working /\ Uncounted' \subseteq Uncounted /\ accepted' = accepted
  <2>1. /\ \A d \in Conns : d # c => conn'[d] = conn[d]
        /\ conn[c].pc \notin Gone \cup {"close"}
    BY <1>1 DEF Effect, Frame
  <2>2. conn'[c].pc \in Early \cup {"process", "black", "rate", "count"} =>
          conn[c].pc \in Early \cup {"process", "black", "rate", "count"}
    BY <1>1 DEF Effect, RateEnter, At, Early
  <2>3. accepted' = accepted
    BY <1>1 DEF Frame, Quiet
  <2> QED BY <2>1, <2>2, <2>3 DEF Working, Uncounted
<1>2. CASE Ended
  <2>1. \A d \in Conns : conn'[d] = conn[d] \/ conn'[d].pc \in Gone
    BY <1>2 DEF Ended
  <2>2. accepted' = accepted
    BY <1>2 DEF Ended, Quiet
  <2> QED BY <2>1, <2>2 DEF Working, Uncounted, Gone, Early
<1>3. ASSUME NEW c \in Conns, Accept(c)
      PROVE  /\ accepted' = accepted + 1 /\ server' = server /\ UNCHANGED <<log, limiter, arrays>>
             /\ Working' \subseteq Working \cup {c} /\ Uncounted' \subseteq Uncounted \cup {c}
             /\ conn'[c].pc = "handle" /\ \A d \in Conns : d # c => conn'[d] = conn[d]
  <2>1. conn'[c].pc = "handle" /\ \A d \in Conns : d # c => conn'[d] = conn[d]
    BY <1>3, AcceptFields
  <2>2. accepted' = accepted + 1 /\ server' = server /\ UNCHANGED <<log, limiter, arrays>>
    BY <1>3 DEF Accept, config, shared
  <2> QED BY <2>1, <2>2 DEF Working, Uncounted
<1>4. CASE conn' = conn /\ accepted' = accepted
  BY <1>4 DEF Working, Uncounted
<1>5. CASE Construct
  BY <1>4, <1>5 DEF Construct
<1> QED BY <1>1, <1>2, <1>3, <1>4, <1>5, Steps

(* A handler adds a configuration once, on its way to close().             *)
LEMMA LogBoundStep ==
    ASSUME HandlerType, DataType, Bounds, LogBound, [Next]_vars
    PROVE  LogBound'
<1> DEFINE w == Cardinality(Working)
           v == Cardinality(Working')
<1>0. /\ Len(log) \in Nat /\ Len(log') \in Nat /\ accepted \in Nat
      /\ Working \in SUBSET Conns /\ Working' \in SUBSET Conns
  BY LogStep, BoundsAssumption DEF Bounds, Working
<1>1. ASSUME NEW c \in Conns, LoadCommit(c), Effect(c), Frame(c) PROVE LogBound'
  <2>1. conn'[c].pc = "close"
    <3> DEFINE s == [Left(c, "close") EXCEPT !.this = 0, !.status = 200]
    <3>1. s.pc = "close"
      BY DEF Left, Idle
    <3>2. conn' = [conn EXCEPT ![c] = s]
      BY <1>1 DEF LoadCommit, Respond
    <3> HIDE DEF s
    <3>3. conn'[c] = s
      BY <3>2, SetOne
    <3> QED BY <3>1, <3>3
  <2>2. c \in Working /\ Working' \in SUBSET (Working \ {c})
    <3>1. c \in Working
      BY <1>1 DEF Effect, Frame, Working
    <3>2. \A d \in Conns : d # c => conn'[d] = conn[d]
      BY <1>1 DEF Effect
    <3> QED BY <2>1, <3>1, <3>2 DEF Working
  <2>3. w \in Nat /\ v \in Nat /\ v + 1 <= w
    BY <1>0, <2>2, OneFewer
  <2>4. Len(log') = Len(log) + 1
    <3>1. log' = Append(log, Loaded(conn[c].file, log[conn[c].base], Cur))
      BY <1>1 DEF LoadCommit
    <3>2. log \in Seq(Configs)
      BY DEF DataType
    <3> QED BY <3>1, <3>2
  <2>5. server' = server /\ accepted' = accepted
    BY <1>1 DEF Frame, Quiet
  <2> HIDE DEF w, v
  <2>6. Len(log) + w <= (IF server = "new" THEN 1 ELSE 2) + accepted
    BY DEF LogBound, w
  <2>7. Len(log') + v <= (IF server = "new" THEN 1 ELSE 2) + accepted
    BY <1>0, <2>3, <2>4, <2>6
  <2> QED BY <2>5, <2>7 DEF LogBound, v
<1>2. ASSUME log' = log, Working' \subseteq Working, accepted' = accepted, server' = server \/ (server # "new" /\ server' # "new")
      PROVE  LogBound'
  <2>1. w \in Nat /\ v \in Nat /\ v <= w
    BY <1>0, <1>2, Fewer
  <2> HIDE DEF w, v
  <2>2. Len(log) + w <= (IF server = "new" THEN 1 ELSE 2) + accepted
    BY DEF LogBound, w
  <2>3. Len(log) + v <= (IF server = "new" THEN 1 ELSE 2) + accepted
    BY <1>0, <2>1, <2>2
  <2> QED BY <1>2, <2>3 DEF LogBound, v
<1>3. CASE Construct
  <2>1. server = "new" /\ server' = "made" /\ accepted' = accepted /\ Working' = Working
    BY <1>3 DEF Construct, Working
  <2>2. Len(log') <= Len(log) + 1
    <3>1. log \in Seq(Configs)
      BY DEF DataType
    <3>2. log' = log \/ log' = Append(log, Loaded(disk, Cur, Cur))
      BY <1>3 DEF Construct
    <3> QED BY <1>0, <3>1, <3>2
  <2>3. w \in Nat /\ v = w
    BY <1>0, <2>1, Fewer
  <2> HIDE DEF w, v
  <2>4. Len(log) + w <= 1 + accepted
    BY <2>1 DEF LogBound, w
  <2>5. Len(log') + v <= 2 + accepted
    BY <1>0, <2>2, <2>3, <2>4
  <2> QED BY <2>1, <2>5 DEF LogBound, v
<1>4. ASSUME NEW c \in Conns, Working' \subseteq Working \cup {c}, accepted' = accepted + 1, server' = server, log' = log
      PROVE  LogBound'
  <2>1. w \in Nat /\ v \in Nat /\ v <= w + 1
    BY <1>0, <1>4, OneMore
  <2> HIDE DEF w, v
  <2>2. Len(log) + w <= (IF server = "new" THEN 1 ELSE 2) + accepted
    BY DEF LogBound, w
  <2>3. Len(log) + v <= (IF server = "new" THEN 1 ELSE 2) + (accepted + 1)
    BY <1>0, <2>1, <2>2
  <2> QED BY <1>4, <2>3 DEF LogBound, v
<1>5. ASSUME Working' \subseteq Working, accepted' = accepted PROVE LogBound'
  <2>1. ASSUME NEW c \in Conns, Effect(c), Frame(c) PROVE LogBound'
    BY <1>1, <1>2, <1>5, <2>1 DEF Frame, Quiet
  <2>2. CASE Ended
    BY <1>2, <1>5, <2>2 DEF Ended, Quiet
  <2>3. ASSUME NEW c \in Conns, Accept(c) PROVE FALSE
    <3>1. accepted' = accepted + 1
      BY <2>3 DEF Accept
    <3> QED BY <1>0, <1>5, <3>1
  <2> QED BY <1>2, <1>3, <1>5, <2>1, <2>2, <2>3, Steps
<1> QED BY <1>4, <1>5, WorkingStep

(* RateEnter may reset the count, RateCount adds one to what it loaded.    *)
LEMMA CountBoundStep ==
    ASSUME HandlerType, DataType, Bounds, CountBound, [Next]_vars
    PROVE  CountBound'
<1> DEFINE u == Cardinality(Uncounted)
           v == Cardinality(Uncounted')
<1>0. /\ limiter.count \in Nat /\ accepted \in Nat
      /\ Uncounted \in SUBSET Conns /\ Uncounted' \in SUBSET Conns
      /\ \A d \in Conns : conn[d].pc = "count" => conn[d].count \in Nat
  BY BoundsAssumption DEF Bounds, DataType, HandlerType, Uncounted
<1>1. /\ limiter.count + u <= accepted
      /\ \A d \in Conns : conn[d].pc = "count" => conn[d].count + u <= accepted
  BY DEF CountBound
<1>2. ASSUME limiter'.count \in Nat, limiter'.count <= limiter.count,
             \A d \in Conns : conn'[d].pc = "count" =>
               (conn[d].pc = "count" /\ conn'[d].count = conn[d].count) \/ conn'[d].count = limiter'.count,
             \/ Uncounted' \subseteq Uncounted /\ accepted' = accepted
             \/ accepted' = accepted + 1 /\ \E c \in Conns : Uncounted' \subseteq Uncounted \cup {c}
      PROVE  CountBound'
  <2>1. u \in Nat /\ v \in Nat /\ accepted' \in Nat /\ v + accepted <= u + accepted'
    <3>1. CASE Uncounted' \subseteq Uncounted /\ accepted' = accepted
      <4>1. u \in Nat /\ v \in Nat /\ v <= u
        BY <1>0, <3>1, Fewer
      <4> HIDE DEF u, v
      <4> QED BY <1>0, <3>1, <4>1
    <3>2. ASSUME NEW c \in Conns, Uncounted' \subseteq Uncounted \cup {c}, accepted' = accepted + 1
          PROVE  u \in Nat /\ v \in Nat /\ accepted' \in Nat /\ v + accepted <= u + accepted'
      <4>1. u \in Nat /\ v \in Nat /\ v <= u + 1
        BY <1>0, <3>2, OneMore
      <4> HIDE DEF u, v
      <4> QED BY <1>0, <3>2, <4>1
    <3> QED BY <1>2, <3>1, <3>2
  <2> HIDE DEF u, v
  <2>2. limiter'.count + v <= accepted'
    <3>1. limiter'.count + u <= accepted
      BY <1>0, <1>1, <1>2, <2>1
    <3> QED BY <1>0, <1>2, <2>1, <3>1, Slack
  <2>3. ASSUME NEW d \in Conns, conn'[d].pc = "count" PROVE conn'[d].count + v <= accepted'
    <3>1. CASE conn[d].pc = "count" /\ conn'[d].count = conn[d].count
      <4>1. conn[d].count \in Nat /\ conn[d].count + u <= accepted
        BY <1>0, <1>1, <3>1
      <4> QED BY <1>0, <2>1, <3>1, <4>1, Slack
    <3>2. CASE conn'[d].count = limiter'.count
      BY <2>2, <3>2
    <3> QED BY <1>2, <2>3, <3>1, <3>2
  <2> QED BY <2>2, <2>3 DEF CountBound, v
<1>3. ASSUME NEW c \in Conns, Effect(c), Frame(c), RateCount(c) PROVE CountBound'
  <2>1. conn[c].pc = "count" /\ conn[c].count \in Nat
    BY <1>0, <1>3 DEF RateCount, At
  <2>2. limiter'.count = conn[c].count + 1
    <3>1. DOMAIN limiter = {"sec", "count", "passed", "top", "racy"}
      BY DEF DataType
    <3> QED BY <1>3, <3>1 DEF RateCount
  <2>3. c \in Uncounted /\ Uncounted' \in SUBSET (Uncounted \ {c})
    <3>1. conn'[c].pc \notin Early \cup {"process", "black", "rate", "count"}
      BY <1>3, <2>1 DEF Effect, RateEnter, At, Early
    <3>2. \A d \in Conns : d # c => conn'[d] = conn[d]
      BY <1>3 DEF Effect
    <3> QED BY <2>1, <3>1, <3>2 DEF Uncounted
  <2>4. u \in Nat /\ v \in Nat /\ v + 1 <= u
    BY <1>0, <2>3, OneFewer
  <2>5. accepted' = accepted
    BY <1>3 DEF Frame, Quiet
  <2>6. ASSUME NEW d \in Conns, conn'[d].pc = "count"
        PROVE  conn[d].pc = "count" /\ conn'[d].count = conn[d].count
    BY <1>3, <2>1, <2>6 DEF Effect, RateEnter, At
  <2> HIDE DEF u, v
  <2>7. limiter'.count + v <= accepted
    BY <1>0, <1>1, <2>1, <2>2, <2>4
  <2>8. ASSUME NEW d \in Conns, conn'[d].pc = "count" PROVE conn'[d].count + v <= accepted
    BY <1>0, <1>1, <2>4, <2>6, <2>8
  <2> QED BY <2>5, <2>7, <2>8 DEF CountBound, v
<1>4. ASSUME NEW c \in Conns, Effect(c), Frame(c), ~RateCount(c) PROVE CountBound'
  <2>1. limiter'.count \in Nat /\ limiter'.count <= limiter.count
    <3>1. limiter' = limiter \/ RateEnter(c) \/ RateCheck(c)
      BY <1>4 DEF Frame
    <3>2. DOMAIN limiter = {"sec", "count", "passed", "top", "racy"}
      BY DEF DataType
    <3>3. CASE RateEnter(c)
      <4>1. limiter' = limiter \/ limiter'.count \in {0, limiter.count}
        BY <3>3 DEF RateEnter
      <4> QED BY <1>0, <4>1
    <3>4. CASE RateCheck(c)
      <4>1. limiter'.count = limiter.count
        BY <3>2, <3>4 DEF RateCheck
      <4> QED BY <1>0, <4>1
    <3> QED BY <1>0, <3>1, <3>3, <3>4
  <2>2. \A d \in Conns : conn'[d].pc = "count" =>
          (conn[d].pc = "count" /\ conn'[d].count = conn[d].count) \/ conn'[d].count = limiter'.count
    BY <1>4 DEF Effect
  <2>3. accepted' = accepted
    BY <1>4 DEF Frame, Quiet
  <2>4. Uncounted' \subseteq Uncounted
    BY <1>0, <2>3, WorkingStep
  <2> QED BY <1>2, <2>1, <2>2, <2>3, <2>4
<1>5. ASSUME limiter' = limiter, \A d \in Conns : conn'[d].pc = "count" => conn'[d] = conn[d]
      PROVE  CountBound'
  <2>1. \/ Uncounted' \subseteq Uncounted /\ accepted' = accepted
        \/ accepted' = accepted + 1 /\ \E c \in Conns : Uncounted' \subseteq Uncounted \cup {c}
    BY WorkingStep
  <2>2. limiter'.count \in Nat /\ limiter'.count <= limiter.count
    BY <1>0, <1>5
  <2> QED BY <1>2, <1>5, <2>1, <2>2
<1>6. CASE Ended
  BY <1>5, <1>6 DEF Ended, Gone
<1>7. ASSUME NEW c \in Conns, Accept(c) PROVE CountBound'
  <2>1. conn'[c].pc = "handle" /\ \A d \in Conns : d # c => conn'[d] = conn[d]
    BY <1>7, AcceptFields
  <2>2. limiter' = limiter
    BY <1>7 DEF Accept, shared
  <2> QED BY <1>5, <2>1, <2>2
<1>8. CASE limiter' = limiter /\ conn' = conn
  BY <1>5, <1>8
<1> QED BY <1>3, <1>4, <1>6, <1>7, <1>8, Steps DEF Construct

(* A handler allocates once, and only those that found no array do.        *)
LEMMA ArraysBoundStep ==
    ASSUME IInv, OwnFd', ArraysBound, [Next]_vars
    PROVE  ArraysBound'
<1> DEFINE a == Cardinality(Allocating)
           b == Cardinality(Allocating')
<1>0. /\ HandlerType /\ DataType /\ OwnFd /\ ArrayExists
      /\ Len(arrays) \in Nat /\ Cardinality(Fds) \in Nat
      /\ Allocating \in SUBSET Conns /\ Allocating' \in SUBSET Conns
  BY FiniteAssumption, FS_CardinalityType, LenProperties DEF IInv, DataType, Allocating
<1>1. Len(arrays) + a <= Cardinality(Fds)
  BY DEF ArraysBound
<1>2. ASSUME Len(arrays') = Len(arrays), Allocating' \subseteq Allocating PROVE ArraysBound'
  <2>1. a \in Nat /\ b \in Nat /\ b <= a
    BY <1>0, <1>2, Fewer
  <2> HIDE DEF a, b
  <2>2. Len(arrays') + b <= Cardinality(Fds)
    BY <1>0, <1>1, <1>2, <2>1
  <2> QED BY <2>2 DEF ArraysBound, b
<1>3. ASSUME NEW c \in Conns, Effect(c), Frame(c), conn'[c].pc = "alloc" PROVE ArraysBound'
  <2>1. arrays' = <<>>
    BY <1>3 DEF Effect, Frame, Alloc, InitSlot, At
  <2>2. b <= Cardinality(Fds)
    <3> DEFINE f == [d \in Allocating' |-> conn'[d].fd]
    <3>1. \A d \in Allocating' : conn'[d].fd \in Fds
      BY DEF OwnFd, Allocating, Gone
    <3>2. \A d, e \in Allocating' : conn'[d].fd = conn'[e].fd => d = e
      BY <3>1 DEF OwnFd, Allocating
    <3>3. f \in Injection(Allocating', Fds)
      BY <3>1, <3>2 DEF Injection, IsInjective
    <3> QED BY <3>3, FiniteAssumption, FS_Injection
  <2>3. b \in Nat
    BY <1>0, Fewer
  <2> HIDE DEF b
  <2>4. Len(arrays') + b <= Cardinality(Fds)
    BY <2>1, <2>2, <2>3
  <2> QED BY <2>4 DEF ArraysBound, b
<1>4. ASSUME NEW c \in Conns, Effect(c), Frame(c), conn'[c].pc # "alloc" PROVE ArraysBound'
  <2>1. \A d \in Conns : d # c => conn'[d] = conn[d]
    BY <1>4 DEF Effect
  <2>2. CASE Alloc(c)
    <3>1. c \in Allocating /\ Allocating' \in SUBSET (Allocating \ {c})
      BY <1>4, <2>1, <2>2 DEF Alloc, At, Allocating
    <3>2. a \in Nat /\ b \in Nat /\ b + 1 <= a
      BY <1>0, <3>1, OneFewer
    <3>3. Len(arrays') = Len(arrays) + 1
      BY <1>0, <2>2, AllocArrays
    <3> HIDE DEF a, b
    <3>4. Len(arrays') + b <= Cardinality(Fds)
      BY <1>0, <1>1, <3>2, <3>3
    <3> QED BY <3>4 DEF ArraysBound, b
  <2>3. CASE ~Alloc(c)
    <3>1. Len(arrays') = Len(arrays)
      BY <1>0, <1>4, <2>3, InitArrays DEF Frame
    <3>2. Allocating' \subseteq Allocating
      BY <1>4, <2>1 DEF Allocating
    <3> QED BY <1>2, <3>1, <3>2
  <2> QED BY <2>2, <2>3
<1>5. CASE Ended
  <2>1. \A d \in Conns : conn'[d] = conn[d] \/ conn'[d].pc \in Gone
    BY <1>5 DEF Ended
  <2>2. Allocating' \subseteq Allocating /\ arrays' = arrays
    BY <1>5, <2>1 DEF Allocating, Gone, Ended
  <2> QED BY <1>2, <2>2
<1>6. ASSUME NEW c \in Conns, Accept(c) PROVE ArraysBound'
  <2>1. conn'[c].pc = "handle" /\ \A d \in Conns : d # c => conn'[d] = conn[d]
    BY <1>0, <1>6, AcceptFields
  <2>2. Allocating' \subseteq Allocating /\ arrays' = arrays
    BY <1>6, <2>1 DEF Accept, Allocating
  <2> QED BY <1>2, <2>2
<1>7. CASE arrays' = arrays /\ conn' = conn
  BY <1>2, <1>7 DEF Allocating
<1> QED BY <1>0, <1>3, <1>4, <1>5, <1>6, <1>7, Steps DEF Construct

(* The state keeps its type: a connection loads at most one configuration, *)
(* is counted at most once by the rate limiter and allocates g_conns at    *)
(* most once, and only as many handlers as there are fds find no g_conns.  *)
THEOREM TypeCorrect == Spec => []TypeOK
<1>1. Init => CountedInv
  <2> SUFFICES ASSUME Init PROVE CountedInv
    OBVIOUS
  <2>1. RoutedInv
    BY InitRouted
  <2>2. Working = {} /\ Uncounted = {} /\ Allocating = {} /\ \A c \in Conns : conn[c].pc = "none"
    BY DEF Init, Idle, Working, Uncounted, Allocating, Gone, Early
  <2>3. Len(log) = 1 /\ accepted = 0 /\ limiter.count = 0 /\ Len(arrays) = 0 /\ server = "new"
    BY EmptySeq DEF Init
  <2>4. Cardinality({}) = 0 /\ Cardinality(Fds) \in Nat
    BY FiniteAssumption, FS_EmptySet, FS_CardinalityType
  <2>5. LogBound
    BY <2>2, <2>3, <2>4 DEF LogBound
  <2>6. CountBound
    BY <2>2, <2>3, <2>4 DEF CountBound
  <2>7. ArraysBound
    BY <2>2, <2>3, <2>4 DEF ArraysBound
  <2> QED BY <2>1, <2>5, <2>6, <2>7 DEF CountedInv
<1>2. CountedInv /\ [Next]_vars => CountedInv'
  <2> SUFFICES ASSUME CountedInv, [Next]_vars PROVE CountedInv'
    OBVIOUS
  <2>1. /\ RoutedInv /\ IInv /\ HandlerType /\ DataType /\ Bounds
        /\ LogBound /\ CountBound /\ ArraysBound
    BY DEF CountedInv, RoutedInv, IInv
  <2>2. RoutedInv' /\ OwnFd'
    BY <2>1, RoutedInvStep DEF RoutedInv, IInv
  <2> QED BY <2>1, <2>2, LogBoundStep, CountBoundStep, ArraysBoundStep DEF CountedInv
<1>3. CountedInv => TypeOK
  <2> SUFFICES ASSUME CountedInv PROVE TypeOK
    OBVIOUS
  <2>1. /\ HandlerType /\ DataType /\ Bounds /\ \A c \in Conns : RoutedSoFar(c)
        /\ LogBound /\ CountBound /\ ArraysBound
    BY DEF CountedInv, RoutedInv, IInv
  <2>2. /\ Cardinality(Working) \in Nat /\ Cardinality(Uncounted) \in Nat
        /\ Cardinality(Allocating) \in Nat
    BY Fewer DEF Working, Uncounted, Allocating
  <2>3. Len(log) \in Nat \ {0} /\ Len(arrays) \in Nat /\ limiter.count \in Nat /\ DOMAIN log = 1 .. Len(log)
    BY <2>1, CurConfig, LenProperties DEF DataType
  <2>4. accepted \in Nat /\ accepted <= MaxConns /\ MaxConns \in Nat
    BY <2>1, BoundsAssumption DEF Bounds
  <2>5. Len(log) \in 1 .. (2 + MaxConns)
    <3>1. Len(log) + Cardinality(Working) <= 2 + accepted
      BY <2>1, <2>2, <2>3, <2>4 DEF LogBound
    <3> QED BY <2>2, <2>3, <2>4, <3>1
  <2>6. limiter.count \in 0 .. MaxConns
    <3> DEFINE k == limiter.count
               u == Cardinality(Uncounted)
    <3> SUFFICES k \in 0 .. MaxConns
      OBVIOUS
    <3>1. k \in Nat /\ u \in Nat /\ k + u <= accepted
      BY <2>1, <2>2, <2>3 DEF CountBound
    <3> HIDE DEF k, u
    <3> QED BY <2>4, <3>1
  <2>7. Len(arrays) <= Cardinality(Fds)
    <3>1. Cardinality(Fds) \in Nat
      BY FiniteAssumption, FS_CardinalityType
    <3> QED BY <2>1, <2>2, <2>3, <3>1 DEF ArraysBound
  <2>8. ASSUME NEW c \in Conns
        PROVE  /\ conn[c].fd \in Fds \cup {0} /\ conn[c].upstream \in Hosts \cup {NoHost}
               /\ conn[c].status \in {0, 200, 400, 401, 403, 413, 429, 500, 502}
               /\ conn[c].route # 0 =>
                    conn[c].routes \in DOMAIN log /\ conn[c].route \in DOMAIN log[conn[c].routes].routes
    BY <2>1, <2>3 DEF HandlerType, RoutedSoFar, Codes
  <2>9. disk \in Files \cup {NoFile}
    BY <2>1 DEF DataType
  <2> HIDE DEF TypeOK
  <2> QED BY <2>1, <2>5, <2>6, <2>7, <2>8, <2>9 DEF TypeOK, Bounds
<1> QED BY <1>1, <1>2, <1>3, PTL DEF Spec
=============================================================================
