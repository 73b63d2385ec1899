---------------------------- MODULE ClientAddress ----------------------------
(***************************************************************************)
(* ClientIpResolver (controllers/clientIp.ts): the address a request is    *)
(* charged to, from the peer of the socket and the headers of the request. *)
(* An address is its normalised form; an entry that normalizeIpAddress     *)
(* turns into null is Junk.                                                *)
(*                                                                         *)
(* Delivered is external: what a client may send, and what the reverse     *)
(* proxies in front of the server make of it.                              *)
(***************************************************************************)
EXTENDS Integers, Sequences, FiniteSets

CONSTANTS
    Client,     \* addresses outside the trusted networks
    Proxy,      \* addresses within KEYZORI_TRUSTED_PROXY_CIDRS
    Junk,       \* an entry that is no IP address
    Absent,     \* a header that was not sent
    MaxChain,   \* MAX_FORWARDED_CHAIN_LENGTH
    MaxForged,  \* bound: entries a client writes into x-forwarded-for
    MaxRoute    \* bound: proxies between a client and the server

Address == Client \cup Proxy
Headers == {"x-forwarded-for", "cf-connecting-ip", "x-real-ip"}

ASSUME AddressAssumption ==
    /\ Client \cap Proxy = {}
    /\ Junk \notin Address \cup {Absent}
    /\ Absent \notin Address \cup Seq(Address \cup {Junk})
    /\ MaxChain \in Nat \ {0} /\ MaxForged \in Nat /\ MaxRoute \in Nat

(* Deliberate fault: the peer of the socket is always believed.            *)
IsTrustedAlways(address) == TRUE

(* isTrusted, for lists of addresses.  A CIDR of * is left out: it trusts  *)
(* every entry of a chain, so that behind a proxy that appends to          *)
(* x-forwarded-for the leftmost entry counts, which the client wrote.      *)
IsTrusted(address) == address \in Proxy

(* resolveForwardedChain: from the socket to the left, as long as the      *)
(* address at hand is a trusted proxy and there is a further entry.        *)
ResolveForwardedChain(chain, socketIp) ==
    LET hops == chain \o <<socketIp>>
        reached == {i \in DOMAIN hops : \A j \in i + 1 .. Len(hops) : IsTrusted(hops[j])}
    IN  IF \/ Len(chain) > MaxChain
           \/ \E i \in DOMAIN chain : chain[i] = Junk
        THEN socketIp
        ELSE hops[CHOOSE i \in reached : \A j \in reached : i <= j]

(* A header with a single address.                                         *)
ResolveSingle(value, socketIp) == IF value \in Address THEN value ELSE socketIp

(* The header value *: every header present has to name the same address.  *)
ResolveAgreed(request) ==
    LET singles == {request.cf, request.real} \ {Absent}
        resolved == singles \cup
                        IF request.forwarded = Absent THEN {}
                        ELSE {ResolveForwardedChain(request.forwarded, request.socket)}
    IN  IF Junk \in singles \/ Cardinality(resolved) # 1 THEN request.socket
        ELSE CHOOSE address \in resolved : TRUE

(* ClientIpResolver.resolve with KEYZORI_TRUSTED_PROXY_HEADER = header, or *)
(* "off" when KEYZORI_TRUST_PROXY_HEADERS is false.                        *)
Resolve(header, request) ==
    IF header = "off" \/ ~IsTrusted(request.socket) THEN request.socket
    ELSE CASE header = "*" -> ResolveAgreed(request)
           [] header = "cf-connecting-ip" -> ResolveSingle(request.cf, request.socket)
           [] header = "x-real-ip" -> ResolveSingle(request.real, request.socket)
           [] header = "x-forwarded-for" ->
                 IF request.forwarded = Absent THEN request.socket
                 ELSE ResolveForwardedChain(request.forwarded, request.socket)

-----------------------------------------------------------------------------
(* What arrives                                                            *)

Single == Address \cup {Junk, Absent}

Chains == UNION {[1 .. n -> Address \cup {Junk}] : n \in 0 .. MaxForged}

(* The headers a client may send.                                          *)
Forged == [forwarded : Chains \cup {Absent}, real : Single, cf : Single]

(* The route a request took: the proxies it passed, first the one the      *)
(* client talked to.                                                       *)
Routes == UNION {[1 .. n -> Proxy] : n \in 0 .. MaxRoute}

(* A proxy appends its peer to x-forwarded-for, or puts it into x-real-ip; *)
(* cf-connecting-ip is written at the edge.  A header the proxies do not   *)
(* set is passed on as the client sent it.                                 *)
Delivered(client, path, sets, forged) ==
    LET hops == <<client>> \o path
        last == Len(hops) - 1
        behind == path # <<>>
    IN  [socket |-> hops[Len(hops)],
         forwarded |-> IF behind /\ "x-forwarded-for" \in sets
                       THEN (IF forged.forwarded = Absent THEN <<>> ELSE forged.forwarded)
                                \o SubSeq(hops, 1, last)
                       ELSE forged.forwarded,
         real |-> IF behind /\ "x-real-ip" \in sets THEN hops[last] ELSE forged.real,
         cf |-> IF behind /\ "cf-connecting-ip" \in sets THEN client ELSE forged.cf]

(* The configurations of loadServerConfig but for a CIDR of *, with the    *)
(* headers the proxies set: the one that is configured, and for * one of   *)
(* them at least.                                                          *)
Deployments ==
    {d \in [header : Headers \cup {"off", "*"}, sets : (SUBSET Headers) \ {{}}] :
        d.header \in Headers => d.header \in d.sets}

(* Every client, with the addresses its requests may be charged to.        *)
Charges(deployment) ==
    {[source |-> sent.client,
      address |-> Resolve(deployment.header,
                          Delivered(sent.client, sent.path, deployment.sets, sent.forged))] :
        sent \in [client : Client, path : Routes, forged : Forged]}
=============================================================================
