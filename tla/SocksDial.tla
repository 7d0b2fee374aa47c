----------------------------- MODULE SocksDial -----------------------------
(***************************************************************************)
(* Proxy.dial of protocols/socks/tcp: the SOCKS5 handshake by which a      *)
(* connection to a proxy becomes one to a target, against a proxy that may *)
(* refuse at every stage and a connection that may break.                  *)
(*                                                                         *)
(* All messages are read into one buffer, whose slices are as long as the  *)
(* code makes them.  The numbers are scaled down: a byte is below          *)
(* SocksRadix.  The random login of TorIsolation is a login like others.   *)
(***************************************************************************)
EXTENDS Integers, Sequences

CONSTANTS
    SocksRadix,     \* 256 in the code
    BufBase,        \* bytes of the buffer besides host, user and password; 32 in the code
    V4Len, V6Len,   \* bytes of an address; 4 and 16
    Targets,        \* records [host, port]; the host is a sequence of bytes
    Logins,         \* records [user, pass], of sequences of bytes
    Proxies         \* records [version, method, login, status, atype, addr, port, payload]

\* A proxy answers with as many bytes as its type of address has.
ASSUME SocksAssumption ==
    /\ SocksRadix \in Nat /\ SocksRadix > 8
    /\ BufBase \in Nat /\ BufBase >= 7
    /\ V4Len \in 0..BufBase /\ V6Len \in 0..BufBase
    /\ \A t \in Targets :
          /\ t \in [host : Seq(Nat), port : Nat]
          /\ Len(t.host) < SocksRadix /\ t.port < SocksRadix * SocksRadix
    /\ \A l \in Logins :
          /\ l \in [user : Seq(Nat), pass : Seq(Nat)]
          /\ Len(l.user) < SocksRadix /\ Len(l.pass) < SocksRadix
    /\ \A x \in Proxies :
          /\ x.version \in Nat /\ x.method \in Nat /\ x.status \in Nat /\ x.atype \in Nat
          /\ x.addr \in Seq(Nat) /\ x.port \in Nat /\ x.payload \in Seq(Nat)
          /\ x.atype = 1 => Len(x.addr) = V4Len
          /\ x.atype = 4 => Len(x.addr) = V6Len

VARIABLES
    target, login, proxy,   \* the arguments of dial, the Proxy, and what the proxy does
    dpc,                    \* where dial is
    mem, blen,              \* the memory of buf, and its length
    toProxy, toClient,      \* bytes on their way
    linked, closed,         \* the connection is up; dial has closed it
    paddr,                  \* BoundAddr
    spc, asked, told        \* the proxy: its place, the target and the login it has decoded

socksVars == <<target, login, proxy, dpc, mem, blen, toProxy, toClient, linked, closed, paddr, spc, asked, told>>
arguments == <<target, login, proxy>>
proxySide == <<spc, asked, told>>

protocolVersion == 5
authNone == 0
authUsernamePassword == 2
addressTypeIPv4 == 1
addressTypeDomain == 3
addressTypeIPv6 == 4
statusRequestGranted == 0

Byte(n) == n % SocksRadix
Cap == BufBase + Len(target.host) + Len(login.user) + Len(login.pass)

SocksInit ==
    /\ target \in Targets /\ login \in Logins /\ proxy \in Proxies
    /\ dpc = "dial"
    /\ mem = [i \in 1..Cap |-> 0] /\ blen = Cap
    /\ toProxy = <<>> /\ toClient = <<>> /\ linked = TRUE /\ closed = FALSE
    /\ paddr = [host |-> <<>>, port |-> 0]
    /\ spc = "greeting" /\ asked = <<>> /\ told = <<>>
-----------------------------------------------------------------------------
(* dial: every step that fails closes the connection. *)

Goto(pc) == dpc' = pc /\ closed' = (pc = "error")

\* The first n bytes of buf are replaced.
Overwrite(bytes) == mem' = bytes \o SubSeq(mem, Len(bytes) + 1, Cap)

\* buf = buf[:n], all of it set, and conn.Write(buf).
WriteAll(bytes, next) ==
    /\ Overwrite(bytes) /\ blen' = Len(bytes)
    /\ \/ linked /\ toProxy' = toProxy \o bytes /\ Goto(next)
       \/ ~linked /\ UNCHANGED toProxy /\ Goto("error")
    /\ UNCHANGED <<arguments, toClient, linked, paddr, proxySide>>

\* io.ReadFull(conn, buf[:n]), without an error.
ReadFull(n) ==
    /\ Len(toClient) >= n
    /\ Overwrite(SubSeq(toClient, 1, n))
    /\ toClient' = SubSeq(toClient, n + 1, Len(toClient))
    /\ UNCHANGED <<arguments, blen, toProxy, linked, proxySide>>

\* net.DialTimeout, after addr has been parsed.
DialProxy ==
    /\ dpc = "dial"
    /\ \/ Goto("greet") \/ Goto("failed")
    /\ UNCHANGED <<arguments, mem, blen, toProxy, toClient, linked, paddr, proxySide>>

Greet ==
    /\ dpc = "greet"
    /\ WriteAll(IF login.user # <<>> THEN <<protocolVersion, 2, authNone, authUsernamePassword>>
                                     ELSE <<protocolVersion, 1, authNone>>, "choice")

AuthChoice ==
    /\ dpc = "choice" /\ ReadFull(2)
    /\ Goto(IF mem'[1] # protocolVersion THEN "error"
            ELSE CASE mem'[2] = authUsernamePassword -> "login"
                   [] mem'[2] = authNone -> "request"
                   [] OTHER -> "error")
    /\ UNCHANGED paddr

Login ==
    /\ dpc = "login"
    /\ WriteAll(<<1, Byte(Len(login.user))>> \o login.user \o <<Byte(Len(login.pass))>> \o login.pass, "verdict")

Verdict ==
    /\ dpc = "verdict" /\ ReadFull(2)
    /\ Goto(IF mem'[1] # 1 \/ mem'[2] # 0 THEN "error" ELSE "request")
    /\ UNCHANGED paddr

\* Mutant: the lower byte of the port first.
RequestSwapped ==
    /\ dpc = "request"
    /\ WriteAll(<<protocolVersion, 1, 0, addressTypeDomain, Byte(Len(target.host))>> \o target.host
                  \o <<target.port % SocksRadix, Byte(target.port \div SocksRadix)>>, "reply")

Request ==
    /\ dpc = "request"
    /\ WriteAll(<<protocolVersion, 1, 0, addressTypeDomain, Byte(Len(target.host))>> \o target.host
                  \o <<Byte(target.port \div SocksRadix), target.port % SocksRadix>>, "reply")

Reply ==
    /\ dpc = "reply" /\ ReadFull(4)
    /\ Goto(IF mem'[1] = protocolVersion /\ mem'[2] = statusRequestGranted
               /\ mem'[4] \in {addressTypeIPv4, addressTypeIPv6, addressTypeDomain}
            THEN "address" ELSE "error")
    /\ UNCHANGED paddr

AddressLen == CASE mem[4] = addressTypeIPv4 -> V4Len [] mem[4] = addressTypeIPv6 -> V6Len [] OTHER -> 1

\* The bound address is taken from all of buf, which is as long as the request
\* was; a domain follows its length.
BoundAddr ==
    /\ dpc = "address" /\ ReadFull(AddressLen)
    /\ IF mem[4] = addressTypeDomain THEN Goto("domain") /\ UNCHANGED paddr
       ELSE Goto("port") /\ paddr' = [paddr EXCEPT !.host = SubSeq(mem', 1, blen)]

\* buf[:domainLen] is out of range if the memory is shorter.
BoundDomain ==
    /\ dpc = "domain"
    /\ IF mem[1] > Cap
       THEN Goto("crash") /\ UNCHANGED <<arguments, mem, blen, toProxy, toClient, linked, paddr, proxySide>>
       ELSE /\ ReadFull(mem[1]) /\ Goto("port")
            /\ paddr' = [paddr EXCEPT !.host = SubSeq(mem', 1, mem[1])]

BoundPort ==
    /\ dpc = "port" /\ ReadFull(2)
    /\ paddr' = [paddr EXCEPT !.port = mem'[1] * SocksRadix + mem'[2]]
    /\ Goto("done")

\* A read for which the bytes will not come.
ReadFails ==
    /\ ~linked
    /\ \/ dpc \in {"choice", "verdict", "port"} /\ Len(toClient) < 2
       \/ dpc = "reply" /\ Len(toClient) < 4
       \/ dpc = "address" /\ Len(toClient) < AddressLen
       \/ dpc = "domain" /\ mem[1] <= Cap /\ Len(toClient) < mem[1]
    /\ Goto("error")
    /\ UNCHANGED <<arguments, mem, blen, toProxy, toClient, linked, paddr, proxySide>>

dial == DialProxy \/ Greet \/ AuthChoice \/ Login \/ Verdict \/ Request \/ Reply \/ BoundAddr \/ BoundDomain
        \/ BoundPort \/ ReadFails
-----------------------------------------------------------------------------
(* The proxy, by RFC 1928 and 1929, except that its version may be another and *)
(* that it insists on its method, offered or not.                             *)

Serve(bytes, next) ==
    /\ toProxy' = <<>> /\ toClient' = toClient \o bytes /\ spc' = next
    /\ UNCHANGED <<arguments, dpc, mem, blen, linked, closed, paddr>>

ServeGreeting ==
    /\ spc = "greeting" /\ linked /\ toProxy # <<>>
    /\ Serve(<<proxy.version, proxy.method>>, CASE proxy.method = authNone -> "request"
                                          [] proxy.method = authUsernamePassword -> "login" [] OTHER -> "end")
    /\ UNCHANGED <<asked, told>>

ServeLogin ==
    /\ spc = "login" /\ linked /\ toProxy # <<>>
    /\ LET ulen == toProxy[2]
           plen == toProxy[3 + ulen]
       IN  told' = [user |-> SubSeq(toProxy, 3, 2 + ulen), pass |-> SubSeq(toProxy, 4 + ulen, 3 + ulen + plen)]
    /\ Serve(<<1, IF told' = proxy.login THEN 0 ELSE 1>>, IF told' = proxy.login THEN "request" ELSE "end")
    /\ UNCHANGED asked

ServeRequest ==
    /\ spc = "request" /\ linked /\ toProxy # <<>>
    /\ LET len == toProxy[5]
       IN  asked' = [host |-> SubSeq(toProxy, 6, 5 + len), port |-> toProxy[6 + len] * SocksRadix + toProxy[7 + len]]
    /\ Serve(<<proxy.version, proxy.status, 0, proxy.atype>>
               \o (IF proxy.atype = addressTypeDomain THEN <<Len(proxy.addr)>> ELSE <<>>) \o proxy.addr
               \o <<proxy.port \div SocksRadix, proxy.port % SocksRadix>> \o proxy.payload, "end")
    /\ UNCHANGED told

\* The connection breaks, and some of the bytes do not arrive.
BreakLink ==
    /\ linked /\ linked' = FALSE
    /\ \E n \in 0..Len(toClient) : toClient' = SubSeq(toClient, 1, n)
    /\ UNCHANGED <<arguments, dpc, mem, blen, toProxy, closed, paddr, proxySide>>

SocksNext == dial \/ ServeGreeting \/ ServeLogin \/ ServeRequest \/ BreakLink

SocksSpec == SocksInit /\ [][SocksNext]_socksVars
-----------------------------------------------------------------------------
Willing ==
    /\ proxy.version = protocolVersion /\ proxy.status = statusRequestGranted
    /\ proxy.method = authNone \/ (proxy.method = authUsernamePassword /\ login = proxy.login)
    /\ proxy.atype \in {addressTypeIPv4, addressTypeIPv6, addressTypeDomain}

\* dial returns a connection only when the proxy has connected to the target it
\* was given, under the login it was given if it wanted one; all of the proxy's
\* answer has been read and nothing of what follows it, whatever its lengths; the
\* port and the domain it is bound to are the proxy's.  A failed dial leaves no
\* open connection, and fails only if the proxy refuses or the connection breaks;
\* only a domain that is longer than the buffer ends the program (socks/tcp/dial.go
\* dial).
DialResult ==
    /\ dpc = "done" =>
         /\ Willing /\ ~closed
         /\ asked = target /\ (proxy.method = authUsernamePassword => told = login)
         /\ IF linked THEN toClient = proxy.payload ELSE Len(toClient) <= Len(proxy.payload)
         /\ paddr.port = proxy.port /\ (proxy.atype = addressTypeDomain => paddr.host = proxy.addr)
    /\ dpc = "error" => closed /\ (~Willing \/ ~linked)
    /\ dpc = "crash" => proxy.atype = addressTypeDomain /\ Len(proxy.addr) > Cap
=============================================================================
