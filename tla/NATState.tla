------------------------------ MODULE NATState ------------------------------
(***************************************************************************)
(* The NAT state that two conduit processes exchange, and the conversions  *)
(* of pkg/failover/leader.go between its two Go forms: client.NATState, as *)
(* the HTTP API of conduit has it, and FailoverNATState, as fRPC sends it. *)
(* A Go slice is a sequence; what no conversion looks into is a text.      *)
(***************************************************************************)
EXTENDS FrpcCodec

Uint16 == 0..65535

\* client.NATKey, NATValue, NATKeyValuePair, NATBitmapPair and NATState.
Key    == [DestinationIP : Text, DestinationPort : Uint16, SourceIP : Text, SourcePort : Uint16]
Value  == [LastSeen : Text, TranslateIP : Text, TranslatePort : Uint16]
Pair   == [Key : Key, Value : Value]
Bitmap == [Bitmap : Text, DestinationIP : Text \cup {Blank, Null}, LastChunk : Uint16, NATIP : Text]
State  == [IPs : Seq(Text), TCPInbound : Seq(Pair), TCPOutbound : Seq(Pair),
           UDPInbound : Seq(Pair), UDPOutbound : Seq(Pair), NATPorts : Seq(Bitmap)]

\* A bitmap, or a state, in which an absent destination is nil and never empty.
CanonicalBitmap(b) == [b EXCEPT !.DestinationIP = IF @ = Blank THEN Null ELSE @]
Canonical(s) == [s EXCEPT !.NATPorts = [i \in DOMAIN @ |-> CanonicalBitmap(@[i])]]

-----------------------------------------------------------------------------
(* Client form to wire form: the second half of SyncState *)

WireBlank(ip) == IF ip = Null THEN Blank ELSE ip

\* Ports and the last chunk are widened to 32 bits.
WirePair(kv) ==
  [Key |-> [DestinationIp |-> kv.Key.DestinationIP, DestinationPort |-> kv.Key.DestinationPort,
            SourceIp |-> kv.Key.SourceIP, SourcePort |-> kv.Key.SourcePort],
   Value |-> [LastSeen |-> kv.Value.LastSeen, TranslateIp |-> kv.Value.TranslateIP,
              TranslatePort |-> kv.Value.TranslatePort]]

WireBitmap(bp) ==
  [Bitmap |-> bp.Bitmap, DestinationIp |-> WireBlank(bp.DestinationIP),
   LastChunk |-> bp.LastChunk, Natip |-> bp.NATIP]

WirePairs(list) == [i \in DOMAIN list |-> WirePair(list[i])]

ToWire(s) ==
  [Ips |-> s.IPs,
   TcpInbound |-> WirePairs(s.TCPInbound), TcpOutbound |-> WirePairs(s.TCPOutbound),
   UdpInbound |-> WirePairs(s.UDPInbound), UdpOutbound |-> WirePairs(s.UDPOutbound),
   NatPorts |-> [i \in DOMAIN s.NATPorts |-> WireBitmap(s.NATPorts[i])]]

-----------------------------------------------------------------------------
(* Wire form to client form: the second half of syncFromPrimary *)

\* Mutant: the largest port counts as too large.
portUint32ToUint16_OffByOne(port) == IF port >= 65535 THEN 65534 ELSE port

\* Ports that do not fit are clamped.
portUint32ToUint16(port) == IF port > 65535 THEN 65535 ELSE port

\* Mutant: a pointer to whatever text was received.
DestIP_Pointer(ip) == ip

DestIP(ip) == IF ip # Blank THEN ip ELSE Null

ClientPair(kv) ==
  [Key |-> [DestinationIP |-> kv.Key.DestinationIp,
            DestinationPort |-> portUint32ToUint16(kv.Key.DestinationPort),
            SourceIP |-> kv.Key.SourceIp,
            SourcePort |-> portUint32ToUint16(kv.Key.SourcePort)],
   Value |-> [LastSeen |-> kv.Value.LastSeen, TranslateIP |-> kv.Value.TranslateIp,
              TranslatePort |-> portUint32ToUint16(kv.Value.TranslatePort)]]

ClientBitmap(bp) ==
  [Bitmap |-> bp.Bitmap, DestinationIP |-> DestIP(bp.DestinationIp),
   LastChunk |-> portUint32ToUint16(bp.LastChunk), NATIP |-> bp.Natip]

ClientPairs(list) == [i \in DOMAIN list |-> ClientPair(list[i])]

FromWire(w) ==
  [IPs |-> w.Ips,
   TCPInbound |-> ClientPairs(w.TcpInbound), TCPOutbound |-> ClientPairs(w.TcpOutbound),
   UDPInbound |-> ClientPairs(w.UdpInbound), UDPOutbound |-> ClientPairs(w.UdpOutbound),
   NATPorts |-> [i \in DOMAIN w.NatPorts |-> ClientBitmap(w.NatPorts[i])]]
=============================================================================
