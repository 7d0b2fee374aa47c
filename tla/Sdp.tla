--------------------------------- MODULE Sdp ---------------------------------
(***************************************************************************)
(* Session descriptions: protocols/sdp.  Message.Append encodes a message  *)
(* as lines, Session.AppendTo writes them, DecodeSession scans them back   *)
(* and Decoder.Decode builds a message, one line per step.                 *)
(*                                                                         *)
(* The value of a line is the sequence of its subfields: what the code     *)
(* joins and splits at spaces, colons and slashes.  A text is a member of  *)
(* a small set and "" when empty; numbers stay numbers.  Times are seconds *)
(* (NtpDelta stands for 2208988800), durations whole seconds.              *)
(***************************************************************************)
EXTENDS Integers, Sequences, SequencesExt

CONSTANTS Messages, NtpDelta, ZeroTime

ASSUME SdpAssumption == ZeroTime < -NtpDelta

VARIABLES
    input,    \* the message that was encoded
    text,     \* the lines still to be scanned
    session,  \* the lines that DecodeSession has returned so far
    phase,    \* "scan", then the Decoder's section, then "done" or "failed"
    pos,      \* Decoder.pos: the lines that are used up
    sPos,     \* Decoder.sPos: the place in the ordering of the section
    oldPosition, \* decodeSession's, while it is in decodeTiming or decodeMedia
    dm,       \* Decoder.m, the media being decoded
    msg       \* the decoded message

sdpVars == <<input, text, session, phase, pos, sPos, oldPosition, dm, msg>>
-----------------------------------------------------------------------------
(* fields.go, message.go *)

Day == 86400
Units == <<<<Day, "d">>, <<3600, "h">>, <<60, "m">>>>

\* appendIntervalCompact: the largest unit that divides d, else seconds.
appendIntervalCompact(d) ==
    LET fit == SelectSeq(Units, LAMBDA u : d % u[1] = 0)
    IN  IF d = 0 \/ fit = <<>> THEN <<d, "">> ELSE <<d \div fit[1][1], fit[1][2]>>

decodeInterval(v) ==
    v[1] * (CASE v[2] = "d" -> Day [] v[2] = "h" -> 3600 [] v[2] = "m" -> 60 [] OTHER -> 1)

TimeToNTP(t) == IF t = ZeroTime THEN 0 ELSE t + NtpDelta
NTPToTime(v) == IF v = 0 THEN ZeroTime ELSE v - NtpDelta

getDefault(v, d) == IF v = "" THEN d ELSE v
isIPv4(ip) == ip = "ip4"
getAddressType(addr, addressType) == getDefault(addressType, IF addr = "ip6" THEN "IP6" ELSE "IP4")

BlankConnection == [NetworkType |-> "", AddressType |-> "", IP |-> "", TTL |-> 0, Addresses |-> 0]
BlankEncryption == [Method |-> "", Key |-> ""]
NewMedia ==
    [Title |-> "", Description |-> [Type |-> "", Port |-> 0, PortsNumber |-> 0, Protocol |-> "", Formats |-> <<>>],
     Connection |-> BlankConnection, Attributes |-> <<>>, Encryption |-> BlankEncryption, Bandwidths |-> {}]
NewMessage ==
    [Version |-> 0, Origin |-> [Username |-> "", SessionID |-> 0, SessionVersion |-> 0, NetworkType |-> "", AddressType |-> "", Address |-> ""],
     Name |-> "", Info |-> "", URI |-> "", Email |-> "", Phone |-> "", Connection |-> BlankConnection,
     Bandwidths |-> {}, Timing |-> <<>>, TZAdjustments |-> <<>>, Encryption |-> BlankEncryption,
     Attributes |-> <<>>, Medias |-> <<>>]

Line(t, f) == [t |-> t, f |-> f]
-----------------------------------------------------------------------------
(* encoder.go: Message.Append.  A map of bandwidths has no order of its own. *)

AddVersion(version) == <<Line("v", <<version>>)>>
Optional(t, v) == IF v = "" THEN <<>> ELSE <<Line(t, <<v>>)>>

AddOrigin(o) ==
    <<Line("o", <<o.Username, o.SessionID, o.SessionVersion, getDefault(o.NetworkType, "IN"),
                  getAddressType(o.Address, o.AddressType), o.Address>>)>>

\* An address is followed by its TTL and by its number, when they are not 0.
appendAddress(c) == <<c.IP>> \o SelectSeq(<<c.TTL, c.Addresses>>, LAMBDA n : n > 0)

AddConnectionData(c) ==
    IF c = BlankConnection THEN <<>>
    ELSE <<Line("c", <<getDefault(c.NetworkType, "IN"), getAddressType(c.IP, c.AddressType)>> \o appendAddress(c))>>

AddBandwidths(b, order) ==
    LET used == SelectSeq(order, LAMBDA t : \E n \in 0..255 : <<t, n>> \in b)
    IN  [i \in 1..Len(used) |-> Line("b", CHOOSE p \in b : p[1] = used[i])]

AddTiming(t) == <<Line("t", <<TimeToNTP(t.Start), TimeToNTP(t.End)>>)>>

AddRepeatTimesCompact(t) ==
    LET times == <<t.Repeat, t.Active>> \o t.Offsets
    IN  IF t.Offsets = <<>> THEN <<>> ELSE <<Line("r", [i \in DOMAIN times |-> appendIntervalCompact(times[i])])>>

AddTimeZones(z) ==
    IF z = <<>> THEN <<>>
    ELSE <<Line("z", [i \in 1..Len(z) |-> <<TimeToNTP(z[i].Start), appendIntervalCompact(z[i].Offset)>>])>>

\* The key is left out when it is empty, as the value of a flag is.
AddKV(t, k, v) == Line(t, IF v = "" THEN <<k>> ELSE <<k, v>>)
AddEncryption(e) == IF e = BlankEncryption THEN <<>> ELSE <<AddKV("k", e.Method, e.Key)>>
appendAttributes(a) == [i \in 1..Len(a) |-> AddKV("a", a[i].Key, a[i].Value)]

\* A space follows the protocol also when there are no formats.
AddMediaDescription(d) ==
    <<Line("m", <<d.Type, IF d.PortsNumber = 0 THEN <<d.Port>> ELSE <<d.Port, d.PortsNumber>>, d.Protocol>>
                  \o (IF d.Formats = <<>> THEN <<"">> ELSE d.Formats))>>

AppendMedia(d, order) ==
    AddMediaDescription(d.Description) \o Optional("i", d.Title) \o AddConnectionData(d.Connection)
      \o AddBandwidths(d.Bandwidths, order) \o AddEncryption(d.Encryption) \o appendAttributes(d.Attributes)

Encode(m, order) ==
    AddVersion(m.Version) \o AddOrigin(m.Origin) \o <<Line("s", <<m.Name>>)>>
      \o Optional("i", m.Info) \o Optional("u", m.URI) \o Optional("e", m.Email) \o Optional("p", m.Phone)
      \o AddConnectionData(m.Connection) \o AddBandwidths(m.Bandwidths, order)
      \o FlattenSeq([i \in 1..Len(m.Timing) |-> AddTiming(m.Timing[i]) \o AddRepeatTimesCompact(m.Timing[i])])
      \o AddTimeZones(m.TZAdjustments) \o AddEncryption(m.Encryption) \o appendAttributes(m.Attributes)
      \o FlattenSeq([i \in 1..Len(m.Medias) |-> AppendMedia(m.Medias[i], order)])
-----------------------------------------------------------------------------
(* decoder.go *)

Ordering ==
    [session |-> <<"v", "o", "s", "i", "u", "e", "p", "c", "b", "z", "k", "a">>,
     time |-> <<"t", "r">>,
     media |-> <<"m", "i", "c", "b", "k", "a">>]
orderingAfterTime == 10

isKnown(t) == t \in UNION {ToSet(Ordering[s]) : s \in DOMAIN Ordering}
isZeroOrMore(t) == t \in {"b", "a"}

Follows(t, s, p) == \E i \in (p + 1)..Len(Ordering[s]) : Ordering[s][i] = t

\* isExpected: t is at or after p in the ordering of s, or starts a section that
\* may come next.
isExpected(t, s, p) ==
    LET inMedia(q) == Follows(t, "media", q) \/ (q # 0 /\ Follows(t, "media", 0))
        afterTime == Follows(t, "session", orderingAfterTime) \/ inMedia(0)
    IN  CASE s = "media" -> inMedia(p)
          [] s = "time" -> Follows(t, "time", p) \/ afterTime
          [] s = "session" -> \/ Follows(t, "session", p)
                              \/ p < orderingAfterTime /\ (Follows(t, "time", 0) \/ afterTime)
                              \/ inMedia(0)

Value(f) == IF Len(f) = 2 THEN f[2] ELSE ""

\* What a line does to the message m and the media d being decoded.  A field that
\* both may have goes to the one of the section.
In(s, m, d, field, v) ==
    IF s = "media" THEN [m |-> m, d |-> [d EXCEPT ![field] = v]] ELSE [m |-> [m EXCEPT ![field] = v], d |-> d]
Of(s, m, d, field) == IF s = "media" THEN d[field] ELSE m[field]

\* The TTL of a media's address with no number is stored in the session's.
decodeConnectionData(f, s, m, d) ==
    LET c == [Of(s, m, d, "Connection") EXCEPT !.NetworkType = f[1], !.AddressType = f[2], !.IP = f[3]]
        both == [c EXCEPT !.TTL = f[4], !.Addresses = f[5]]
        named == In(s, m, d, "Connection", c)
    IN  CASE Len(f) = 3 -> named
          [] Len(f) = 4 -> [named EXCEPT !.m.Connection.TTL = f[4]]
          [] Len(f) = 5 -> In(s, m, d, "Connection", both)

\* An address that does not parse, a second suffix of an IPv6 address, and a
\* single one, of which the empty second suffix is parsed.
badConnectionData(f) == f[3] = "" \/ (~isIPv4(f[3]) /\ Len(f) > 3)

decodeBandwidth(f, s, m, d) ==
    In(s, m, d, "Bandwidths", {p \in Of(s, m, d, "Bandwidths") : p[1] # f[1]} \cup {<<f[1], f[2]>>})

decodeTimingField(f, m) ==
    [m EXCEPT !.Timing = Append(@, [Start |-> NTPToTime(f[1]), End |-> NTPToTime(f[2]),
                                    Repeat |-> 0, Active |-> 0, Offsets |-> <<>>])]

decodeTimeZoneAdjustments(f, m) ==
    [m EXCEPT !.TZAdjustments =
        @ \o [i \in 1..Len(f) |-> [Start |-> NTPToTime(f[i][1]), Offset |-> decodeInterval(f[i][2])]]]

decodeOrigin(f, m) ==
    [m EXCEPT !.Origin = [Username |-> f[1], SessionID |-> f[2], SessionVersion |-> f[3],
                          NetworkType |-> f[4], AddressType |-> f[5], Address |-> f[6]]]

decodeMediaDescription(f, d) ==
    [d EXCEPT !.Description = [Type |-> f[1], Port |-> f[2][1], PortsNumber |-> IF Len(f[2]) > 1 THEN f[2][2] ELSE 0,
                               Protocol |-> f[3], Formats |-> SubSeq(f, 4, Len(f))]]

\* decodeField, and the lines for which it returns an error.  The repeat times are
\* decoded into a copy of the last timing, which is then dropped.
decodeField(l, s, m, d) ==
    LET f == l.f
        Msg(mm) == [m |-> mm, d |-> d]
    IN  CASE l.t = "v" -> Msg([m EXCEPT !.Version = f[1]])
          [] l.t = "o" -> Msg(decodeOrigin(f, m))
          [] l.t = "s" -> Msg([m EXCEPT !.Name = f[1]])
          [] l.t = "i" -> In(s, m, d, IF s = "media" THEN "Title" ELSE "Info", f[1])
          [] l.t = "u" -> Msg([m EXCEPT !.URI = f[1]])
          [] l.t = "e" -> Msg([m EXCEPT !.Email = f[1]])
          [] l.t = "p" -> Msg([m EXCEPT !.Phone = f[1]])
          [] l.t = "c" -> decodeConnectionData(f, s, m, d)
          [] l.t = "b" -> decodeBandwidth(f, s, m, d)
          [] l.t = "t" -> Msg(decodeTimingField(f, m))
          [] l.t = "r" -> Msg(m)
          [] l.t = "z" -> Msg(decodeTimeZoneAdjustments(f, m))
          [] l.t = "k" -> In(s, m, d, "Encryption", [Method |-> f[1], Key |-> Value(f)])
          [] l.t = "a" -> In(s, m, d, "Attributes", Append(Of(s, m, d, "Attributes"), [Key |-> f[1], Value |-> Value(f)]))
          [] l.t = "m" -> [m |-> m, d |-> decodeMediaDescription(f, d)]

badField(l) ==
    \/ l.t = "o" /\ (Len(l.f) # 6 \/ l.f[1] = "")
    \/ l.t = "c" /\ badConnectionData(l.f)
    \/ l.t = "b" /\ l.f[1] \notin {"CT", "AS"}
-----------------------------------------------------------------------------
(* sdp.go: the text between encoder and decoder. *)

\* What may stand anywhere in a text: a line of an unknown type, a blank line.
Foreign == {<<Line("x", <<"">>)>>, <<Line("blank", <<"">>)>>, <<>>}

SdpInit ==
    /\ input \in Messages
    /\ \E order \in {<<"AS", "CT", "TIAS">>, <<"TIAS", "CT", "AS">>}, extra \in Foreign :
         LET lines == Encode(input, order)
         IN  \E k \in {0, 3, Len(lines) \div 2, Len(lines) - 1, Len(lines)} :
                text = SubSeq(lines, 1, k) \o extra \o SubSeq(lines, k + 1, Len(lines))
    /\ session = <<>> /\ phase = "scan" /\ pos = 0 /\ sPos = 0 /\ oldPosition = 0
    /\ dm = NewMedia /\ msg = NewMessage

\* Spaces at the end of a line are trimmed: an empty last subfield is lost.
TrimSpace(l) == IF l.t \in {"o", "m"} /\ Last(l.f) = "" THEN Line(l.t, Front(l.f)) ELSE l

\* DecodeSession: Scan skips blank lines, Line.Decode refuses an empty value.
ScanLine ==
    /\ phase = "scan"
    /\ \/ text = <<>> /\ phase' = "session" /\ UNCHANGED <<text, session>>
       \/ /\ text # <<>> /\ text' = Tail(text)
          /\ LET l == TrimSpace(Head(text))
             IN  \/ l.t = "blank" /\ UNCHANGED <<session, phase>>
                 \/ l = Line("s", <<"">>) /\ phase' = "failed" /\ UNCHANGED session
                 \/ /\ l.t # "blank" /\ l # Line("s", <<"">>)
                    /\ session' = Append(session, l) /\ UNCHANGED phase
    /\ UNCHANGED <<input, pos, sPos, oldPosition, dm, msg>>

Here == session[pos + 1]
AtEnd == pos = Len(session)
Advance(t) == IF isZeroOrMore(t) THEN sPos ELSE sPos + 1

\* A mutant: an unknown line counts in the ordering of its section.
SkipLineCounted ==
    /\ ~AtEnd /\ ~isKnown(Here.t)
    /\ pos' = pos + 1 /\ sPos' = sPos + 1
    /\ UNCHANGED <<input, text, session, phase, oldPosition, dm, msg>>

\* The line is skipped, or refused, or decodeField is called with it.
SkipLine ==
    /\ ~AtEnd /\ ~isKnown(Here.t)
    /\ pos' = pos + 1
    /\ UNCHANGED <<input, text, session, phase, sPos, oldPosition, dm, msg>>

Refuse ==
    /\ ~AtEnd /\ isKnown(Here.t) /\ ~isExpected(Here.t, phase, sPos)
    /\ phase' = "failed"
    /\ UNCHANGED <<input, text, session, pos, sPos, oldPosition, dm, msg>>

TakeField ==
    /\ pos' = pos + 1 /\ sPos' = Advance(Here.t)
    /\ IF badField(Here) THEN phase' = "failed" /\ UNCHANGED <<dm, msg>>
       ELSE LET r == decodeField(Here, phase, msg, dm) IN dm' = r.d /\ msg' = r.m /\ UNCHANGED phase
    /\ UNCHANGED <<input, text, session, oldPosition>>

Accepted == ~AtEnd /\ isKnown(Here.t) /\ isExpected(Here.t, phase, sPos)

\* One round of decodeSession: a timing or a media line is read again by the
\* decoder of its section.
decodeSession ==
    /\ phase = "session"
    /\ \/ SkipLine \/ Refuse
       \/ /\ Accepted /\ Here.t \in {"t", "m"}
          /\ phase' = (IF Here.t = "t" THEN "time" ELSE "media")
          /\ oldPosition' = Advance(Here.t) /\ sPos' = 0
          /\ dm' = (IF Here.t = "m" THEN NewMedia ELSE dm)
          /\ UNCHANGED <<input, text, session, pos, msg>>
       \/ Accepted /\ Here.t \notin {"t", "m"} /\ TakeField
       \/ /\ AtEnd
          /\ phase' = (IF msg.Origin.Address = "" \/ msg.Name = "" THEN "failed" ELSE "done")
          /\ UNCHANGED <<input, text, session, pos, sPos, oldPosition, dm, msg>>

ToSession == phase' = "session" /\ sPos' = oldPosition /\ UNCHANGED <<input, text, session, pos, oldPosition, dm>>

decodeTiming ==
    /\ phase = "time"
    /\ \/ SkipLine \/ Refuse
       \/ Accepted /\ Here.t \in {"t", "r"} /\ TakeField
       \/ (AtEnd \/ (Accepted /\ Here.t \notin {"t", "r"})) /\ ToSession /\ UNCHANGED msg

decodeMedia ==
    /\ phase = "media"
    /\ \/ SkipLine \/ Refuse
       \/ Accepted /\ (Here.t # "m" \/ sPos = 0) /\ TakeField
       \/ /\ AtEnd \/ (Accepted /\ Here.t = "m" /\ sPos # 0)
          /\ ToSession /\ msg' = [msg EXCEPT !.Medias = Append(@, dm)]

SdpNext == ScanLine \/ decodeSession \/ decodeTiming \/ decodeMedia
-----------------------------------------------------------------------------
(* What comes back. *)

Connections(m) == {m.Connection} \cup {m.Medias[i].Connection : i \in DOMAIN m.Medias}
SuffixCount(c) == Len(SelectSeq(<<c.TTL, c.Addresses>>, LAMBDA n : n > 0))

\* What the encoder writes and the decoder refuses.
Undecodable(m) ==
    \/ m.Origin.Username = "" \/ m.Origin.Address = "" \/ m.Name = ""
    \/ Len(m.Timing) > 1 \/ (m.Timing # <<>> /\ m.TZAdjustments # <<>>)
    \/ \E c \in Connections(m) : c # BlankConnection /\ (c.IP = "" \/ (~isIPv4(c.IP) /\ SuffixCount(c) > 0))
    \/ \E b \in m.Bandwidths \cup UNION {m.Medias[i].Bandwidths : i \in DOMAIN m.Medias} : b[1] \notin {"CT", "AS"}

NormalConnection(c) ==
    IF c = BlankConnection THEN c
    ELSE [c EXCEPT !.NetworkType = getDefault(@, "IN"), !.AddressType = getAddressType(c.IP, @)]

\* The session's TTL is the last single suffix of all the addresses.
NormalTTL(m) ==
    LET single == SelectSeq(<<m.Connection>> \o [i \in 1..Len(m.Medias) |-> m.Medias[i].Connection], LAMBDA c : SuffixCount(c) = 1)
    IN  IF single = <<>> THEN m.Connection.TTL ELSE Last(single).TTL + Last(single).Addresses

\* The message that comes back: defaults filled in, repeat times gone, a single
\* suffix of an address in the TTL of the session.
Normal(m) ==
    LET Single(c) == IF SuffixCount(c) = 1 THEN [c EXCEPT !.TTL = 0, !.Addresses = 0] ELSE c
    IN  [m EXCEPT
           !.Origin = [@ EXCEPT !.NetworkType = getDefault(@, "IN"), !.AddressType = getAddressType(m.Origin.Address, @)],
           !.Connection = [NormalConnection(Single(@)) EXCEPT !.TTL = NormalTTL(m)],
           !.Timing = [i \in DOMAIN @ |-> [@[i] EXCEPT !.Repeat = 0, !.Active = 0, !.Offsets = <<>>]],
           !.Medias = [i \in DOMAIN @ |-> [@[i] EXCEPT !.Connection = NormalConnection(Single(@))]]]

\* A message that is encoded, written, scanned and decoded is refused exactly when
\* Undecodable says so, and otherwise comes back as Normal says: the order in which
\* Append writes lines is one that isExpected accepts, whatever fields are present,
\* in every order of the bandwidth map, with unknown and blank lines in between,
\* and no field of a section ends up in another one.
RoundTrip ==
    /\ phase = "done" => ~Undecodable(input) /\ msg = Normal(input)
    /\ phase = "failed" => Undecodable(input)
=============================================================================
