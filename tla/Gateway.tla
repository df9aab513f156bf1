------------------------------ MODULE Gateway -------------------------------
(***************************************************************************)
(* The gateway: TcpServer's accept loop, the handler of one                *)
(* connection (gateway_server::handleClient and gateway_conn), the filter  *)
(* chain with the JWT cache, the router and the configuration, which an    *)
(* admin request reloads from disk while other requests use it.            *)
(*                                                                         *)
(* Each connection is a fiber of its own and fibers run on several         *)
(* threads, so the handlers interleave at every access to what they share: *)
(* the configuration, the cache, the rate limiter and the array g_conns.   *)
(* One operation of JwtCache is one step.                                  *)
(***************************************************************************)
EXTENDS Naturals, Sequences, FiniteSets, RouteTable, LRUCache

CONSTANTS
    Conns,      \* connections open at a time
    MaxConns,   \* bound on connections over the run
    Fds,        \* fd numbers for clients, reused after close()
    Files,      \* contents gateway.conf may have
    NoFile,     \* there is no gateway.conf
    Requests,   \* what a client may send
    Paths,      \* request paths the properties range over
    Hosts,      \* targets of routes
    Resolvable, \* those that resolve to an address when a file is loaded
    DefaultCapacity,    \* capacity JwtCache is made and cleared with
    IndexRange, \* values of the router's size_t counter before it wraps
    MaxEdits,   \* bound on changes of gateway.conf
    MaxTime,    \* bound on the clock, in seconds
    NoToken,    \* no Authorization header, or no required_token
    NoConn      \* the null m_client

ASSUME BoundsAssumption == MaxEdits \in Nat /\ MaxConns \in Nat /\ MaxTime \in Nat /\ DefaultCapacity \in Nat \ {0} /\ IndexRange \in Nat \ {0}
ASSUME FdsAssumption == Fds \subseteq Nat \ {0}
(* A line without prefix or without targets makes no route.                *)
ASSUME FilesAssumption ==
    \A f \in Files :
        /\ f.qps \in Nat /\ f.capacity \in Nat
        /\ f.routes \in Seq([prefix : Seq(STRING) \ {<<>>}, exact : BOOLEAN, targets : Seq(Hosts) \ {<<>>}])
ASSUME RequestsAssumption ==
    \A r \in Requests :
        r.kind = "plain" => r.path \in Seq(STRING) /\ (r.token = NoToken \/ r.token.exp \in Nat)
ASSUME PathsAssumption == Paths \subseteq Seq(STRING)
ASSUME FiniteAssumption == IsFiniteSet(Conns) /\ IsFiniteSet(Fds)
ASSUME NullAssumption == NoConn \notin Conns /\ NoFile \notin Files /\ Resolvable \subseteq Hosts

VARIABLES
    disk,       \* gateway.conf
    edits,      \* how often it was changed
    log,        \* the configurations that were in force; the last one is
    known,      \* m_config_path is set
    cache,      \* JwtCache
    late,       \* tokens put into it after the configuration had changed
    now,        \* the clock
    limiter,    \* RateLimitFilter: second and count; the rest is history
    index,      \* s_index of the router
    server,     \* life of the TcpServer
    accepted,   \* how many connections it has accepted
    arrays,     \* the arrays allocated for g_conns; the last one is g_conns
    conn        \* the handler of each connection

files == <<disk, edits>>
shared == <<cache, late, limiter, index>>
config == <<log, known>>
tcp == <<server, accepted>>
vars == <<files, config, shared, now, tcp, arrays, conn>>

NoRequest == [kind |-> "none"]
NoHost == "no host"

(* The local state of a handler: its place, its fd and the array it uses,  *)
(* the request, what it has read from the rate limiter, the RouteConfig*   *)
(* it holds (with the configuration it points into), the upstream, the     *)
(* response, and the file and settings of a load.  History: whether a      *)
(* request was read and sent on, the configurations at the start and the   *)
(* end of the filters, the second of the decision, and whether it rested   *)
(* on a late cache entry or on a dangling pointer.                         *)
Idle == [pc |-> "none", fd |-> 0, this |-> 0, req |-> NoRequest, count |-> 0, limit |-> 0,
         route |-> 0, routes |-> 0, upstream |-> NoHost, status |-> 0, file |-> NoFile, base |-> 0,
         read |-> FALSE, sent |-> FALSE, from |-> 0, upto |-> 0, at |-> 0, excused |-> FALSE]

Cur == log[Len(log)]
At(c, l) == conn[c].pc = l
Req(c) == conn[c].req
Goto(c, l) == conn' = [conn EXCEPT ![c].pc = l]
(* Undefined behaviour: nothing is said of the process from here on.       *)
Undefine == conn' = [d \in Conns |-> [Idle EXCEPT !.pc = "undefined"]]
(* What a handler still needs when process() has come to place l.          *)
Left(c, l) == [Idle EXCEPT !.pc = l, !.fd = conn[c].fd, !.this = conn[c].this, !.read = TRUE]
(* send_simple_response, after which process() returns false.              *)
Respond(c, code) == conn' = [conn EXCEPT ![c] = [Left(c, "close") EXCEPT !.this = 0, !.status = code]]

(* Mutant: an exact route "/" counts as the default route.                 *)
HasDefaultAnyKind(routes) == \E i \in DOMAIN routes : routes[i].prefix = <<"/">>

(* A file that names no routes, or no prefix route "/", is rejected.       *)
HasDefault(routes) == \E i \in DOMAIN routes : ~routes[i].exact /\ routes[i].prefix = <<"/">>

Acceptable(file) == file # NoFile /\ HasDefault(file.routes)

(* resolved_targets: the targets that resolve, in their order.             *)
ResolvedTargets(targets) ==
    LET kept[i \in 0..Len(targets)] ==
            IF i = 0 THEN <<>>
            ELSE IF targets[i] \in Resolvable THEN Append(kept[i - 1], targets[i]) ELSE kept[i - 1]
    IN kept[Len(targets)]

(* The routes of a file with the targets that resolve and the token of     *)
(* each one's prefix.                                                      *)
Resolved(file) ==
    [i \in DOMAIN file.routes |->
        LET r == file.routes[i] IN
        [prefix |-> r.prefix, exact |-> r.exact, targets |-> r.targets,
         resolved |-> ResolvedTargets(r.targets),
         token |-> IF r.prefix \in DOMAIN file.tokens THEN file.tokens[r.prefix] ELSE NoToken]]

(* What load_from_file commits: settings the file leaves out keep the      *)
(* values read at its start, max_qps the value at the commit.              *)
Loaded(file, base, cur) ==
    [inited |-> TRUE, routes |-> Resolved(file), table |-> BuildTrie(file.routes),
     black |-> file.black,
     qps |-> IF file.qps > 0 THEN file.qps ELSE cur.qps,
     jwt |-> IF file.jwt = "absent" THEN base.jwt ELSE file.jwt = "on",
     secret |-> IF file.secret = "absent" THEN base.secret ELSE file.secret]

NoConfig == [inited |-> FALSE, routes |-> <<>>, table |-> BuildTrie(<<>>), black |-> {},
             qps |-> 0, jwt |-> FALSE, secret |-> ""]

(* jwt_cache_capacity takes effect while the file is read.                 *)
SetCapacity(file) ==
    IF file # NoFile /\ file.capacity > 0 THEN Empty(file.capacity) ELSE cache

Init ==
    /\ disk \in Files \cup {NoFile}
    /\ edits = 0 /\ now = 0 /\ index = 0
    /\ log = <<NoConfig>>
    /\ known = FALSE
    /\ cache = Empty(DefaultCapacity)
    /\ late = {}
    /\ limiter = [sec |-> MaxTime + 1, count |-> 0, passed |-> 0, top |-> 0, racy |-> FALSE]
    /\ server = "new" /\ accepted = 0
    /\ arrays = <<>>
    /\ conn = [c \in Conns |-> Idle]
-----------------------------------------------------------------------------
(* The world outside: the clock, and the operator's editor.  A change made *)
(* before the constructor ran is another initial state, and a file that it *)
(* did not find is never read.                                             *)

Tick ==
    /\ now < MaxTime
    /\ now' = now + 1
    /\ UNCHANGED <<files, config, shared, tcp, arrays, conn>>

EditFile(f) ==
    /\ known /\ edits < MaxEdits /\ f # disk
    /\ disk' = f
    /\ edits' = edits + 1
    /\ UNCHANGED <<config, shared, now, tcp, arrays, conn>>
-----------------------------------------------------------------------------
(* TcpServer                                                               *)

(* The constructor of gateway_server loads the file when there is one.     *)
Construct ==
    /\ server = "new"
    /\ server' = "made"
    /\ known' = (disk # NoFile)
    /\ \/ /\ Acceptable(disk)
          /\ log' = Append(log, Loaded(disk, Cur, Cur))
          /\ cache' = Empty(DefaultCapacity)
       \/ /\ ~Acceptable(disk)
          /\ cache' = SetCapacity(disk)
          /\ UNCHANGED log
    /\ UNCHANGED <<files, late, limiter, index, now, accepted, arrays, conn>>

(* bind() until it succeeds, then start() schedules startAccept.           *)
Start ==
    /\ server = "made"
    /\ server' = "listening"
    /\ UNCHANGED <<files, config, shared, now, accepted, arrays, conn>>

(* startAccept, whose loop does not end as nothing calls stop(): accept()  *)
(* gives a client the lowest free number, its receive timeout is set and   *)
(* handleClient is scheduled.                                              *)
Accept(c) ==
    /\ server = "listening"
    /\ At(c, "none") /\ accepted < MaxConns
    /\ accepted' = accepted + 1
    /\ LET free == Fds \ {conn[d].fd : d \in Conns} IN
        /\ free # {}
        /\ conn' = [conn EXCEPT ![c].pc = "handle", ![c].fd = Min(free)]
    /\ UNCHANGED <<files, config, shared, now, server, arrays>>
-----------------------------------------------------------------------------
(* gateway_server::handleClient                                            *)

(* Mutant: every connection allocates g_conns.                             *)
HandleAllocates(c) ==
    /\ At(c, "handle")
    /\ Goto(c, "alloc")
    /\ UNCHANGED <<files, config, shared, now, tcp, arrays>>

(* if (!g_conns)                                                           *)
Handle(c) ==
    /\ At(c, "handle")
    /\ Goto(c, IF arrays = <<>> THEN "alloc" ELSE "init")
    /\ UNCHANGED <<files, config, shared, now, tcp, arrays>>

(* g_conns = new gateway_conn[GW_MAX_FD]                                   *)
Alloc(c) ==
    /\ At(c, "alloc")
    /\ arrays' = Append(arrays, [fd \in Fds |-> NoConn])
    /\ Goto(c, "init")
    /\ UNCHANGED <<files, config, shared, now, tcp>>

(* Mutant: init() keeps the client of the connection before.               *)
InitSlotKeepsClient(c) ==
    /\ At(c, "init")
    /\ arrays' = [arrays EXCEPT ![Len(arrays)][conn[c].fd] = IF @ = NoConn THEN c ELSE @]
    /\ Goto(c, "read")
    /\ UNCHANGED <<files, config, shared, now, tcp>>

(* g_conns[fd].init(client): the buffers are reset and the upstream        *)
(* sockets left by the connection before are closed.                       *)
InitSlot(c) ==
    /\ At(c, "init")
    /\ arrays' = [arrays EXCEPT ![Len(arrays)][conn[c].fd] = c]
    /\ Goto(c, "read")
    /\ UNCHANGED <<files, config, shared, now, tcp>>

(* read_once: a request is read, or recv() fails, times out or the buffer  *)
(* is full.  A slot without client ends the connection.                    *)
ReadOnce(c) ==
    LET client == arrays[Len(arrays)][conn[c].fd] IN
    /\ At(c, "read")
    /\ \/ client = NoConn /\ Goto(c, "close")
       \/ /\ client # NoConn
          /\ \/ Goto(c, "close")
             \/ \E r \in Requests : conn' = [conn EXCEPT ![c].pc = "process", ![c].req = r, ![c].read = TRUE]
    /\ UNCHANGED <<files, config, shared, now, tcp, arrays>>

(* Requests that need nothing but an answer: no request line, the admin    *)
(* metrics path, a body above max_body_size.                               *)
Immediate == [bad |-> 400, metrics |-> 200, oversize |-> 413]

(* process() up to the filters.  On a slot without client (g_conns was     *)
(* replaced after read_once) the request is empty and the 400 for it       *)
(* dereferences the null m_client.                                         *)
Process(c) ==
    LET r == Req(c)
        null == arrays[Len(arrays)][conn[c].fd] = NoConn IN
    /\ At(c, "process")
    /\ \/ null /\ Undefine
       \/ ~null /\ r.kind \in DOMAIN Immediate /\ Respond(c, Immediate[r.kind])
       \/ ~null /\ r.kind = "reload" /\ Goto(c, "reload")
       \/ /\ ~null /\ r.kind = "plain"
          /\ conn' = [conn EXCEPT ![c].pc = "black", ![c].this = Len(arrays), ![c].from = Len(log)]
    /\ UNCHANGED <<files, config, cache, late, limiter, index, now, tcp, arrays>>

(* client->close() frees the number; m_client stays in the slot.           *)
Close(c) ==
    /\ At(c, "close")
    /\ conn' = [conn EXCEPT ![c] = Idle]
    /\ UNCHANGED <<files, config, shared, now, tcp, arrays>>
-----------------------------------------------------------------------------
(* GatewayConfig::reload                                                   *)

(* load_from_file reads the file and the present settings without the      *)
(* lock.                                                                   *)
LoadRead(c) ==
    /\ At(c, "reload")
    /\ \/ /\ known
          /\ cache' = SetCapacity(disk)
          /\ late' = IF cache' = cache THEN late ELSE {}
          /\ IF Acceptable(disk)
             THEN conn' = [conn EXCEPT ![c].pc = "commit", ![c].file = disk, ![c].base = Len(log)]
             ELSE Respond(c, 500)
       \/ ~known /\ Respond(c, 500) /\ UNCHANGED <<cache, late>>
    /\ UNCHANGED <<files, config, limiter, index, now, tcp, arrays>>

(* Mutant: the tokens verified with the old secret stay in the cache.      *)
LoadCommitKeepsCache(c) ==
    /\ At(c, "commit")
    /\ log' = Append(log, Loaded(conn[c].file, log[conn[c].base], Cur))
    /\ Respond(c, 200)
    /\ UNCHANGED <<files, known, shared, now, tcp, arrays>>

(* The critical section: new settings, new trie, JwtCache::clear().        *)
LoadCommit(c) ==
    /\ At(c, "commit")
    /\ log' = Append(log, Loaded(conn[c].file, log[conn[c].base], Cur))
    /\ cache' = Empty(DefaultCapacity)
    /\ late' = {}
    /\ Respond(c, 200)
    /\ UNCHANGED <<files, known, limiter, index, now, tcp, arrays>>
-----------------------------------------------------------------------------
(* GatewayFilterChain::apply                                               *)

(* The blacklist holds texts; the client's is its address with its port.   *)
Blacklist(c) ==
    /\ At(c, "black")
    /\ \/ Req(c).addr \in Cur.black /\ Respond(c, 403)
       \/ Req(c).addr \notin Cur.black /\ Goto(c, "rate")
    /\ UNCHANGED <<files, config, cache, late, limiter, index, now, tcp, arrays>>

(* The handlers between their load of m_count and its comparison.          *)
Counting == {c \in Conns : conn[c].pc \in {"count", "check"}}

(* RateLimitFilter: max_qps and the second are read, a new second resets   *)
(* the count, and m_count is loaded.                                       *)
RateEnter(c) ==
    LET fresh == now # limiter.sec IN
    /\ At(c, "rate")
    /\ \/ Cur.qps = 0 /\ Goto(c, "auth") /\ UNCHANGED limiter
       \/ /\ Cur.qps > 0
          /\ limiter' = [sec |-> now, count |-> IF fresh THEN 0 ELSE limiter.count,
                         passed |-> IF fresh THEN 0 ELSE limiter.passed,
                         top |-> IF fresh \/ Cur.qps > limiter.top THEN Cur.qps ELSE limiter.top,
                         racy |-> Counting # {} \/ (~fresh /\ limiter.racy)]
          /\ conn' = [conn EXCEPT ![c].pc = "count", ![c].limit = Cur.qps, ![c].count = limiter'.count]
    /\ UNCHANGED <<files, config, cache, late, index, now, tcp, arrays>>

(* m_count++ stores what it loaded plus one.                               *)
RateCount(c) ==
    /\ At(c, "count")
    /\ conn' = [conn EXCEPT ![c].pc = "check", ![c].count = 0]
    /\ limiter' = [limiter EXCEPT !.count = conn[c].count + 1]
    /\ UNCHANGED <<files, config, cache, late, index, now, tcp, arrays>>

(* Mutant: the request that exceeds the limit by one is let through.       *)
RateCheckOffByOne(c) ==
    /\ At(c, "check")
    /\ \/ limiter.count > conn[c].limit + 1 /\ Respond(c, 429) /\ UNCHANGED limiter
       \/ /\ limiter.count <= conn[c].limit + 1
          /\ conn' = [conn EXCEPT ![c].pc = "auth", ![c].limit = 0]
          /\ limiter' = [limiter EXCEPT !.passed = @ + 1]
    /\ UNCHANGED <<files, config, cache, late, index, now, tcp, arrays>>

(* m_count is read again and compared with the limit read on entry.        *)
RateCheck(c) ==
    /\ At(c, "check")
    /\ \/ limiter.count > conn[c].limit /\ Respond(c, 429) /\ UNCHANGED limiter
       \/ /\ limiter.count <= conn[c].limit
          /\ conn' = [conn EXCEPT ![c].pc = "auth", ![c].limit = 0]
          /\ limiter' = [limiter EXCEPT !.passed = @ + 1]
    /\ UNCHANGED <<files, config, cache, late, index, now, tcp, arrays>>

(* The request leaves the filter chain, judged at second t under           *)
(* configuration k.                                                        *)
Admit(c, t, k, excused) ==
    conn' = [conn EXCEPT ![c] = [Left(c, "pick") EXCEPT !.req = Req(c), !.from = conn[c].from,
                                                       !.upto = k, !.at = t, !.excused = excused]]

(* JwtCache::is_valid_cached: a token whose exp is now counts as expired.  *)
CacheHit(tok) == tok \in Keys(cache) /\ Value(cache, tok) > now

(* AuthFilter.  With JWT the cache is asked first; without, the route may  *)
(* want a token.                                                           *)
Auth(c) ==
    LET tok == Req(c).token IN
    /\ At(c, "auth")
    /\ \/ Cur.jwt /\ tok = NoToken /\ Respond(c, 401) /\ UNCHANGED cache
       \/ /\ Cur.jwt /\ tok # NoToken
          /\ cache' = Get(cache, tok)
          /\ IF CacheHit(tok) THEN Admit(c, now, Len(log), tok \in late) ELSE Goto(c, "verify")
       \/ /\ ~Cur.jwt
          /\ conn' = [conn EXCEPT ![c].pc = "routeToken", ![c].routes = Len(log),
                                  ![c].route = MatchRoute(Cur.table, Req(c).path)]
          /\ UNCHANGED cache
    /\ UNCHANGED <<files, config, late, limiter, index, now, tcp, arrays>>

(* jwt::verify_hs256: the signature and the claims match the settings, and *)
(* exp, if there is one, has not passed.                                   *)
VerifyHs256(tok, secret, t) == tok.secret = secret /\ (tok.exp = 0 \/ tok.exp >= t)

Verify(c) ==
    LET tok == Req(c).token IN
    /\ At(c, "verify")
    /\ \/ ~VerifyHs256(tok, Cur.secret, now) /\ Respond(c, 401)
       \/ /\ VerifyHs256(tok, Cur.secret, now)
          /\ conn' = [conn EXCEPT ![c].pc = "put", ![c].base = Len(log), ![c].at = now]
    /\ UNCHANGED <<files, config, cache, late, limiter, index, now, tcp, arrays>>

(* JwtCache::put_valid of a token that has an exp.                         *)
Put(c) ==
    LET tok == Req(c).token IN
    /\ At(c, "put")
    /\ cache' = IF tok.exp > 0 THEN Push(cache, tok, tok.exp) ELSE cache
    /\ late' = IF conn[c].base # Len(log) THEN late \cup {tok} ELSE late
    /\ Admit(c, conn[c].at, conn[c].base, FALSE)
    /\ UNCHANGED <<files, config, limiter, index, now, tcp, arrays>>

(* What a RouteConfig* read in an earlier step yields: the route, or       *)
(* whatever lies there when a reload has replaced m_routes since.          *)
Fresh(c) == conn[c].routes = Len(log)
Route(c) == log[conn[c].routes].routes[conn[c].route]

(* Mutant: a route's token is taken for optional.                          *)
RouteTokenOptional(c) ==
    LET tok == Req(c).token
        wanted == IF conn[c].route = 0 THEN NoToken ELSE Route(c).token IN
    /\ At(c, "routeToken")
    /\ \/ Fresh(c) /\ tok \in {wanted, NoToken} /\ Admit(c, now, Len(log), FALSE)
       \/ Fresh(c) /\ tok \notin {wanted, NoToken} /\ Respond(c, 401)
    /\ UNCHANGED <<files, config, cache, late, limiter, index, now, tcp, arrays>>

(* rc->required_token against the request's.                               *)
RouteToken(c) ==
    LET tok == Req(c).token
        wanted == IF conn[c].route = 0 THEN NoToken ELSE Route(c).token IN
    /\ At(c, "routeToken")
    /\ \/ (Fresh(c) \/ conn[c].route = 0) /\ wanted \in {NoToken, tok} /\ Admit(c, now, Len(log), FALSE)
       \/ (Fresh(c) \/ conn[c].route = 0) /\ wanted \notin {NoToken, tok} /\ Respond(c, 401)
       \/ ~Fresh(c) /\ conn[c].route # 0 /\ Admit(c, now, Len(log), TRUE)
       \/ ~Fresh(c) /\ conn[c].route # 0 /\ Respond(c, 401)
       \/ ~Fresh(c) /\ conn[c].route # 0 /\ Undefine
    /\ UNCHANGED <<files, config, cache, late, limiter, index, now, tcp, arrays>>
-----------------------------------------------------------------------------
(* GatewayRouter::pick_upstream and the rest of process()                  *)

(* match_route under the lock; no route is a 502.                          *)
Pick(c) ==
    LET i == MatchRoute(Cur.table, Req(c).path) IN
    /\ At(c, "pick")
    /\ \/ i = 0 /\ Respond(c, 502)
       \/ i # 0 /\ conn' = [conn EXCEPT ![c] = [Left(c, "deref") EXCEPT !.req = Req(c), !.route = i,
                                                                   !.routes = Len(log)]]
    /\ UNCHANGED <<files, config, shared, now, tcp, arrays>>

Chosen(c, h, dangling) ==
    conn' = [conn EXCEPT ![c].pc = "connect", ![c].upstream = h, ![c].excused = dangling]

NextOf(targets) == targets[(index % Len(targets)) + 1]

(* The next target of the route in turn, after the lock is released.  A    *)
(* route none of whose targets was resolved resolves one now.              *)
Deref(c) ==
    LET r == Route(c) IN
    /\ At(c, "deref")
    /\ \/ Fresh(c) /\ r.resolved # <<>> /\ Chosen(c, NextOf(r.resolved), FALSE)
       \/ Fresh(c) /\ r.resolved = <<>> /\ Chosen(c, NextOf(r.targets), FALSE)
       \/ Fresh(c) /\ r.resolved = <<>> /\ Respond(c, 502)
       \/ ~Fresh(c) /\ \E h \in Hosts : Chosen(c, h, TRUE)
       \/ ~Fresh(c) /\ Respond(c, 502)
       \/ ~Fresh(c) /\ Undefine
    /\ index' = (index + 1) % IndexRange
    /\ UNCHANGED <<files, config, cache, late, limiter, now, tcp, arrays>>

(* The request is sent to the upstream, unless that is gone or too slow,   *)
(* and what it sends goes to the client until either side ends; an         *)
(* upstream that sends nothing leaves the client without a response.       *)
Forward(c) ==
    \/ Respond(c, 502)
    \/ \E code \in {0, 200} :
        conn' = [conn EXCEPT ![c] = [Left(c, "close") EXCEPT !.this = 0, !.status = code, !.sent = TRUE]]

(* Mutant: a failed connection ends process() without a response.          *)
ConnectSilent(c) ==
    /\ At(c, "connect")
    /\ Forward(c) \/ conn' = [conn EXCEPT ![c] = Left(c, "close")]
    /\ UNCHANGED <<files, config, shared, now, tcp, arrays>>

(* get_upstream_socket connects a new socket, or fails; from here on the   *)
(* handler uses its own two sockets only.  (As process() always returns    *)
(* false it runs once after init(), so m_upstreams is empty and never      *)
(* yields an old socket.)                                                  *)
Connect(c) ==
    /\ At(c, "connect")
    /\ Forward(c) \/ Respond(c, 502)
    /\ UNCHANGED <<files, config, shared, now, tcp, arrays>>
-----------------------------------------------------------------------------
Undefined == \E c \in Conns : At(c, "undefined")

(* Undefined behaviour: an operation of JwtCache, which has no lock, while *)
(* another handler is in one, or a setting read while a load assigns it.   *)
Race(c) ==
    LET cached(d) == \/ At(d, "auth") /\ Cur.jwt /\ Req(d).token # NoToken
                     \/ At(d, "put") /\ Req(d).token.exp > 0
                     \/ At(d, "reload") /\ known /\ disk # NoFile /\ disk.capacity > 0
                     \/ At(d, "commit") IN
    /\ \E d \in Conns \ {c} :
        \/ cached(c) /\ cached(d)
        \/ conn[c].pc \in {"black", "verify", "reload"} /\ At(d, "commit")
    /\ Undefine
    /\ UNCHANGED <<files, config, shared, now, tcp, arrays>>

Handler(c) ==
    \/ Race(c)
    \/ Handle(c) \/ Alloc(c) \/ InitSlot(c) \/ ReadOnce(c) \/ Process(c) \/ Close(c)
    \/ LoadRead(c) \/ LoadCommit(c)
    \/ Blacklist(c) \/ RateEnter(c) \/ RateCount(c) \/ RateCheck(c) \/ Auth(c) \/ Verify(c) \/ Put(c) \/ RouteToken(c)
    \/ Pick(c) \/ Deref(c) \/ Connect(c)

Server == Construct \/ Start \/ \E c \in Conns : Accept(c)

Next ==
    /\ ~Undefined
    /\ \/ \E c \in Conns : Handler(c)
       \/ Server
       \/ Tick
       \/ \E f \in Files : EditFile(f)

Spec == Init /\ [][Next]_vars
-----------------------------------------------------------------------------
(* Properties                                                              *)

(* Type of the state: files, configurations, cache, limiter, server,       *)
(* g_conns and handlers.  A connection loads at most one configuration,    *)
(* counts at most once in the limiter and allocates at most one array.     *)
TypeOK ==
    /\ disk \in Files \cup {NoFile} /\ edits \in 0..MaxEdits /\ now \in 0..MaxTime
    /\ Len(log) \in 1..(2 + MaxConns) /\ known \in BOOLEAN
    /\ limiter.count \in 0..MaxConns /\ index \in 0..(IndexRange - 1)
    /\ server \in {"new", "made", "listening"} /\ accepted \in 0..MaxConns
    /\ Len(arrays) <= Cardinality(Fds)
    /\ \A c \in Conns :
        /\ conn[c].fd \in Fds \cup {0} /\ conn[c].upstream \in Hosts \cup {NoHost}
        /\ conn[c].status \in {0, 200, 400, 401, 403, 413, 429, 500, 502}
        /\ conn[c].route # 0 =>
            conn[c].routes \in DOMAIN log /\ conn[c].route \in DOMAIN log[conn[c].routes].routes

(* match_route on the trie and the exact map of build_trie finds the exact *)
(* route of a path, else its longest prefix, the last of duplicates.       *)
(* (Stated where the constructor has loaded a file: each one is, and loads *)
(* differ in nothing but the file.)                                        *)
RouteIsLongestPrefix ==
    server = "made" => \A p \in Paths : MatchRoute(Cur.table, p) = BestRoute(Cur.routes, p)

(* Once a file was accepted every request whose path begins with "/" and   *)
(* that passes the filters finds a route, whatever files are loaded later  *)
(* and however loads overlap.                                              *)
DefaultRoute ==
    \A c \in Conns :
        At(c, "pick") /\ Cur.inited /\ IsPrefix(<<"/">>, Req(c).path)
            => MatchRoute(Cur.table, Req(c).path) # 0

(* The configuration admits a request whose credentials are judged at t.   *)
Admits(cfg, r, t) ==
    /\ r.addr \notin cfg.black
    /\ IF cfg.jwt THEN r.token # NoToken /\ VerifyHs256(r.token, cfg.secret, t)
       ELSE LET i == BestRoute(cfg.routes, r.path) IN i = 0 \/ cfg.routes[i].token \in {NoToken, r.token}

(* A request that passed the filters under one configuration is one that   *)
(* this configuration admits, from the cache or not; the exceptions are a  *)
(* cache entry made for an older configuration and a route pointer that a  *)
(* reload invalidated.                                                     *)
FiltersSound ==
    \A c \in Conns :
        conn[c].upto # 0 /\ conn[c].from = conn[c].upto /\ ~conn[c].excused
            => Admits(log[conn[c].upto], Req(c), conn[c].at)

(* A cached token is one the secret in force verifies, unless it was put   *)
(* by a request that had verified it before the last reload.               *)
CacheSound == \A tok \in Keys(cache) : tok \in late \/ tok.secret = Cur.secret

(* The JWT cache holds a token once and never more than its capacity.      *)
CacheWellFormed ==
    /\ Len(cache.list) <= cache.capacity
    /\ Cardinality(Keys(cache)) = Len(cache.list)

(* The slot a handler works on is its own connection's although numbers    *)
(* are reused; the null slot, and the crash on it, need two handlers that  *)
(* both allocated g_conns.                                                 *)
SlotServesOwner ==
    \A c \in Conns :
        /\ conn[c].pc \in {"read", "process"} =>
            arrays[Len(arrays)][conn[c].fd] \in {c} \cup (IF Len(arrays) > 1 THEN {NoConn} ELSE {})
        /\ conn[c].this # 0 => arrays[conn[c].this][conn[c].fd] = c

(* A request goes to a target of the route that matches its path, unless a *)
(* reload replaced m_routes between match_route and the use of its result. *)
UpstreamIsRouted ==
    \A c \in Conns :
        conn[c].upstream # NoHost /\ ~conn[c].excused =>
            LET rs == log[conn[c].routes].routes
                i == BestRoute(rs, Req(c).path)
            IN i # 0 /\ \E k \in DOMAIN rs[i].targets : rs[i].targets[k] = conn[c].upstream

(* No more requests pass the rate limiter in a second than the largest     *)
(* max_qps in force in it, unless two handlers were inside it at once.     *)
RateLimitHolds == ~limiter.racy => limiter.passed <= limiter.top

(* Every request that was read is answered, unless it was forwarded and    *)
(* the upstream sent nothing.                                              *)
Answered ==
    \A c \in Conns :
        At(c, "close") /\ conn[c].read /\ conn[c].status = 0 => conn[c].sent
=============================================================================
