----------------------------- MODULE MCGateway ------------------------------
(* Gateway on a small instance, for TLC.                                   *)
EXTENDS Gateway, TLC

CONSTANTS c1, c2

(* Interchangeable connections.                                            *)
Symmetry == Permutations(Conns)

slash == <<"/">>
ab == <<"/", "a", "b">>
MCPaths == {slash, <<"/", "a">>, ab, <<"/", "b">>, <<"/", "a", "b", "a">>}

(* Two tokens, with an early and a late expiry.                            *)
tok1 == [secret |-> "s1", exp |-> 1]
tok2 == [secret |-> "s1", exp |-> 9]

Prefix(p, ts) == [prefix |-> p, exact |-> FALSE, targets |-> ts]
Exact(p, ts) == [prefix |-> p, exact |-> TRUE, targets |-> ts]

(* Route lists with nested prefixes, an exact route inside a prefix, a     *)
(* duplicate, targets that do not resolve, and one list that is refused    *)
(* for want of a prefix route "/".                                         *)
full == <<Prefix(slash, <<"u1">>), Prefix(<<"/", "a">>, <<"u2", "u3">>),
          Exact(ab, <<"u1">>), Prefix(<<"/", "a">>, <<"u3", "x">>)>>
guarded == <<Exact(slash, <<"u1">>), Prefix(ab, <<"u2", "u3">>), Prefix(slash, <<"x">>)>>
refused == <<Exact(slash, <<"u1">>), Prefix(ab, <<"u2">>)>>

File(rs, toks, black, qps, jwt, secret, cap) ==
    [routes |-> rs, tokens |-> toks, black |-> black, qps |-> qps, jwt |-> jwt,
     secret |-> secret, capacity |-> cap]
(* The second file leaves jwt_enabled out: it is off when the file is the  *)
(* first to be loaded, on after the first one.                             *)
MCFiles ==
    {File(full, <<>>, {"ip", "ip:3"}, 1, "on", "s1", 0),
     File(guarded, ab :> tok2, {}, 0, "absent", "s2", 1),
     File(refused, <<>>, {}, 0, "absent", "s2", 2)}

Plain(p, tok, addr) == [kind |-> "plain", path |-> p, token |-> tok, addr |-> addr]
MCRequests ==
    {[kind |-> k] : k \in {"bad", "reload"}}
    \cup {Plain(<<"/", "b">>, tok1, "ip:1"), Plain(ab, tok2, "ip:2"),
          Plain(ab, NoToken, "ip:3")}
=============================================================================
