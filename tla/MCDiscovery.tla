---------------------------- MODULE MCDiscovery ----------------------------
(* Discovery for TLC: identities of three or four bits. *)
EXTENDS DiscoveryProofs

Key(s) == [i \in 0..Len(s) - 1 |-> s[i + 1] = 1]

MCself == Key(<<0, 0, 0>>)
MCPeers == {Key(<<0, 0, 1>>), Key(<<1, 0, 0>>), Key(<<1, 0, 1>>)}

MCself4 == Key(<<0, 0, 0, 0>>)
MCPeers4 == {Key(<<0, 1, 0, 0>>), Key(<<1, 0, 0, 0>>)}
=============================================================================
