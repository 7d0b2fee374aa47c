----------------------------- MODULE MCLibrary -----------------------------
(***************************************************************************)
(* The parts of the library that run by themselves, on small instances:    *)
(* the variable part says which one a behaviour is about, the others stay  *)
(* in one of their initial states.                                         *)
(***************************************************************************)
EXTENDS CryptoCalls, Ed25519, Sdp, Framing, Resolver, Broadcast, Metric, SocksDial

VARIABLE part

\* Arithmetic: limbs of 7 bits in place of 21, a field of 2^100 - 3 and one of
\* 2^25 - 3, the curve over 61 elements.
MCMu == <<40, -42>>
MCBasepoint == <<14, 27>>
MCScalarInputs == {<<0, 0, 0, 0>>, <<255, 255, 255, 255>>, <<1, 0, 0, 0>>, <<87, 24, 0, 16>>, <<171, 84, 254, 7>>}
MCDigestInputs == {[i \in 1..8 |-> (a * i + b) % 256] : a \in {0, 1, 85, 171}, b \in {0, 1, 128, 255}}
MCFeInputs ==
    {[i \in 0..9 |-> IF i % 2 = 0 THEN a ELSE b] : a \in {-563, 0, 511}, b \in {-281, 255}} \cup {FeP, FeOne}
MCFe51Inputs ==
    {[i \in 0..4 |-> IF i = 0 THEN a ELSE IF i = 4 THEN c ELSE b] : a \in {0, 29, 255}, b, c \in {0, 31, 255}}
MCMultipliers == {0, 1, 7, 8, 15, 16, 31, 63, 127, 4095, 8191, 2925, 5461, 6000, 21845, 32767, 30583}
MCDigests == {0, 9, 32767, 44444, 65535}
MCOffsets == {0, 1, 7, 8183, 8190}

\* Session descriptions.
MCZeroTime == -5000
Plain == [NewMessage EXCEPT !.Origin = [Username |-> "u", SessionID |-> 1, SessionVersion |-> 2, NetworkType |-> "",
                                        AddressType |-> "", Address |-> "ip4"], !.Name = "n"]
Conn(ip, ttl, n) == [BlankConnection EXCEPT !.IP = ip, !.TTL = ttl, !.Addresses = n]
Conns == {BlankConnection, Conn("ip4", 0, 0), Conn("ip4", 1, 0), Conn("ip4", 0, 2), Conn("ip4", 1, 2),
          Conn("ip6", 0, 0), Conn("ip6", 0, 3), [BlankConnection EXCEPT !.NetworkType = "ATM"]}
Timings == {<<>>, <<[Start |-> ZeroTime, End |-> 5, Repeat |-> 3600, Active |-> 90, Offsets |-> <<0, 86400>>]>>,
            <<[Start |-> 0, End |-> 5, Repeat |-> 0, Active |-> 0, Offsets |-> <<>>]>>}
Zones == {<<>>, <<[Start |-> 7, Offset |-> -3600], [Start |-> ZeroTime, Offset |-> 61]>>}
Attr == <<[Key |-> "a", Value |-> "1"], [Key |-> "f", Value |-> ""]>>
MediaOf(c, b, t, k, fmts) ==
    [NewMedia EXCEPT !.Title = t, !.Connection = c, !.Bandwidths = b, !.Encryption = k, !.Attributes = Attr,
       !.Description = [Type |-> "audio", Port |-> 9, PortsNumber |-> Len(fmts), Protocol |-> "RTP", Formats |-> fmts]]
ClearKey == [Method |-> "clear", Key |-> "s"]
Both == {<<"CT", 1>>, <<"AS", 0>>}
MCMessages ==
    {[Plain EXCEPT !.Info = i, !.URI = u, !.Email = e, !.Phone = p, !.Connection = Conn("ip4", 0, 0), !.Timing = t,
                   !.Attributes = a, !.Encryption = k] :
        i \in {"", "i"}, u \in {"", "u"}, e \in {"", "e"}, p \in {"", "p"}, t \in Timings, a \in {<<>>, Attr},
        k \in {BlankEncryption, ClearKey}}
    \cup {[Plain EXCEPT !.Connection = c, !.Medias = m, !.Bandwidths = Both] :
        c \in Conns,
        m \in {<<>>} \cup {<<MediaOf(d, {}, "", BlankEncryption, <<>>), MediaOf(BlankConnection, Both, "t", ClearKey, <<"0">>)>> :
                             d \in Conns}}
    \cup {[Plain EXCEPT !.Timing = t \o s, !.TZAdjustments = z, !.Encryption = ClearKey] : t, s \in Timings, z \in Zones}
    \cup {[Plain EXCEPT !.Bandwidths = b, !.Medias = <<MediaOf(BlankConnection, d, "t", BlankEncryption, <<"0", "8">>)>>] :
        b, d \in {{<<"TIAS", 4>>}, Both, {<<"AS", 7>>}}}
    \cup {[Plain EXCEPT !.Origin.Username = u, !.Origin.Address = x, !.Origin.AddressType = y, !.Name = n] :
        u \in {"", "u"}, x \in {"", "ip6"}, y \in {"", "IP4"}, n \in {"", "n"}}

\* Frames.
MCFrameMessages ==
    {[id |-> 1, len |-> 1, proxy |-> FALSE], [id |-> 2, len |-> 4, proxy |-> TRUE], [id |-> 3, len |-> 7, proxy |-> FALSE]}
MCSettings ==
    {[enable |-> FALSE, algo |-> 2, size |-> 0], [enable |-> TRUE, algo |-> 2, size |-> 3],
     [enable |-> TRUE, algo |-> 1, size |-> 0], [enable |-> TRUE, algo |-> 0, size |-> 0],
     [enable |-> TRUE, algo |-> 5, size |-> 2]}

\* Addresses.
Address(t, h, p) == [text |-> t, protocol |-> "tcp", host |-> h, port |-> p]
MCPeers ==
    {Address("a", "alpha", 1), Address("a", "beta", 1), Address("a", "10.0.0.1", 1), Address("a", "::1", 1),
     Address("bad", "alpha", 1), Address("", "", 0)}
MCOwn == Address("unified", "127.0.0.1", 1)

\* SOCKS: a byte is below 16, addresses have 2 and 4 bytes.
MCTargets == {[host |-> <<7>>, port |-> 18], [host |-> <<5, 1, 3>>, port |-> 3]}
MCLogins ==
    {[user |-> <<>>, pass |-> <<>>], [user |-> <<9>>, pass |-> <<>>], [user |-> <<2, 0>>, pass |-> <<5>>]}
Bound == {<<1, <<1, 2>>>>, <<4, <<0, 3, 1, 2>>>>, <<3, <<>>>>, <<3, <<5, 0, 0>>>>, <<3, [i \in 1..12 |-> 1]>>, <<2, <<1, 2>>>>}
MCProxies ==
    {[version |-> v, method |-> m, login |-> [user |-> <<2, 0>>, pass |-> <<5>>], status |-> s,
      atype |-> b[1], addr |-> b[2], port |-> 37, payload |-> <<5, 0>>] :
        v \in {4, 5}, m \in {0, 2, 15}, s \in {0, 5}, b \in Bound}
MCTarget == CHOOSE t \in MCTargets : TRUE
MCLogin == CHOOSE l \in MCLogins : TRUE
MCProxy == CHOOSE x \in MCProxies : TRUE

IdleSdp ==
    /\ input = NewMessage /\ text = <<>> /\ session = <<>> /\ phase = "idle" /\ pos = 0 /\ sPos = 0
    /\ oldPosition = 0 /\ dm = NewMedia /\ msg = NewMessage

Init ==
    /\ part \in {"arithmetic", "signature", "sdp", "framing", "resolver", "broadcast", "metric", "socks"}
    /\ CryptoInit /\ EdInit /\ MetricInit
    /\ IF part = "sdp" THEN SdpInit ELSE IdleSdp
    /\ FramingInit /\ (part = "framing" \/ (via = "tcp" /\ localNet = 1 /\ remoteNet = 1))
    /\ ResolverInit /\ (part = "resolver" \/ peers = <<CHOOSE p \in Peers : TRUE>>)
    /\ BroadcastInit /\ (part = "broadcast" \/ (keys = {} /\ workingProxy = 0 /\ method = "Broadcast"))
    /\ SocksInit /\ (part = "socks" \/ (target = MCTarget /\ login = MCLogin /\ proxy = MCProxy))

Next ==
    \/ part = "arithmetic" /\ CryptoNext
       /\ UNCHANGED <<part, edVars, sdpVars, frameVars, resolverVars, broadcastVars, metricVars, socksVars>>
    \/ part = "signature" /\ EdNext
       /\ UNCHANGED <<part, cryptoVars, sdpVars, frameVars, resolverVars, broadcastVars, metricVars, socksVars>>
    \/ part = "sdp" /\ SdpNext
       /\ UNCHANGED <<part, cryptoVars, edVars, frameVars, resolverVars, broadcastVars, metricVars, socksVars>>
    \/ part = "framing" /\ FramingNext
       /\ UNCHANGED <<part, cryptoVars, edVars, sdpVars, resolverVars, broadcastVars, metricVars, socksVars>>
    \/ part = "resolver" /\ ResolverNext
       /\ UNCHANGED <<part, cryptoVars, edVars, sdpVars, frameVars, broadcastVars, metricVars, socksVars>>
    \/ part = "broadcast" /\ BroadcastNext
       /\ UNCHANGED <<part, cryptoVars, edVars, sdpVars, frameVars, resolverVars, metricVars, socksVars>>
    \/ part = "metric" /\ MetricNext
       /\ UNCHANGED <<part, cryptoVars, edVars, sdpVars, frameVars, resolverVars, broadcastVars, socksVars>>
    \/ part = "socks" /\ SocksNext
       /\ UNCHANGED <<part, cryptoVars, edVars, sdpVars, frameVars, resolverVars, broadcastVars, metricVars>>

vars == <<part, cryptoVars, edVars, sdpVars, frameVars, resolverVars, broadcastVars, metricVars, socksVars>>

Spec == Init /\ [][Next]_vars
=============================================================================
