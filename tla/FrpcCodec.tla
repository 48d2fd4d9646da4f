------------------------------- MODULE FrpcCodec -------------------------------
(***************************************************************************)
(* The messages of pkg/failover/failover.frpc.go and how they are encoded. *)
(* A message that is encoded is a list of items in the order in which its  *)
(* Encode method writes them; a message inside another one is one item;    *)
(* nil and an error have forms of their own.  What polyglot makes of a     *)
(* single item (a text, a number, a truth value) is not looked into,       *)
(* and the flags byte is left out: no code sets it.  Only a whole response *)
(* can carry an error, because no code puts one into a message inside it.  *)
(***************************************************************************)
EXTENDS Naturals, Sequences

CONSTANTS
  Text,   \* texts: request ids, addresses, bitmaps, times, errors, never empty
  Blank,  \* the empty text
  Null    \* the nil pointer and the nil error

ASSUME TextAssumption == Blank \notin Text /\ Null \notin Text \cup {Blank}

Nil         == [kind |-> "nil", items |-> <<>>]
Fields(f)   == [kind |-> "fields", items |-> f]
ErrorItem(e) == [kind |-> "error", items |-> <<e>>]
ErrorOf(b)   == IF b.kind = "error" THEN b.items[1] ELSE Null

\* FailoverNATKey to FailoverNATState.  Numbers of 32 bits are only copied.
WireText  == Text \cup {Blank}
WireKey   == [DestinationIp : WireText, DestinationPort : Nat, SourceIp : WireText, SourcePort : Nat]
WireValue == [LastSeen : WireText, TranslateIp : WireText, TranslatePort : Nat]
WirePairType   == [Key : WireKey, Value : WireValue]
WireBitmapType == [Bitmap : WireText, DestinationIp : WireText, LastChunk : Nat, Natip : WireText]
WireState == [Ips : Seq(WireText), TcpInbound : Seq(WirePairType), TcpOutbound : Seq(WirePairType),
              UdpInbound : Seq(WirePairType), UdpOutbound : Seq(WirePairType),
              NatPorts : Seq(WireBitmapType)]

\* A pointer to a message is not the nil pointer.
ASSUME PointerAssumption ==
  /\ Null \notin WireKey /\ Null \notin WireValue /\ Null \notin WirePairType
  /\ Null \notin WireBitmapType /\ Null \notin WireState

-----------------------------------------------------------------------------
(* FailoverNATKey, FailoverNATValue, FailoverNATKeyValuePair, FailoverNATBitmapPair *)

EncodeKey(k) ==
  IF k = Null THEN Nil
  ELSE Fields(<<k.DestinationIp, k.DestinationPort, k.SourceIp, k.SourcePort>>)

\* The Nil test is the one of the message around it, which leaves the field nil.
DecodeKey(b) ==
  IF b = Nil THEN Null
  ELSE [DestinationIp |-> b.items[1], DestinationPort |-> b.items[2],
        SourceIp |-> b.items[3], SourcePort |-> b.items[4]]

EncodeValue(v) ==
  IF v = Null THEN Nil ELSE Fields(<<v.LastSeen, v.TranslateIp, v.TranslatePort>>)

DecodeValue(b) ==
  IF b = Nil THEN Null
  ELSE [LastSeen |-> b.items[1], TranslateIp |-> b.items[2], TranslatePort |-> b.items[3]]

EncodePair(p) ==
  IF p = Null THEN Nil ELSE Fields(<<EncodeKey(p.Key), EncodeValue(p.Value)>>)

\* An element of a list is allocated first: a nil one arrives as an empty one.
DecodePair(b) ==
  IF b = Nil THEN [Key |-> Null, Value |-> Null]
  ELSE [Key |-> DecodeKey(b.items[1]), Value |-> DecodeValue(b.items[2])]

EncodeBitmap(p) ==
  IF p = Null THEN Nil ELSE Fields(<<p.Bitmap, p.DestinationIp, p.LastChunk, p.Natip>>)

DecodeBitmap(b) ==
  IF b = Nil THEN [Bitmap |-> Blank, DestinationIp |-> Blank, LastChunk |-> 0, Natip |-> Blank]
  ELSE [Bitmap |-> b.items[1], DestinationIp |-> b.items[2], LastChunk |-> b.items[3],
        Natip |-> b.items[4]]

EncodePairs(list)   == [i \in DOMAIN list |-> EncodePair(list[i])]
DecodePairs(list)   == [i \in DOMAIN list |-> DecodePair(list[i])]
EncodeBitmaps(list) == [i \in DOMAIN list |-> EncodeBitmap(list[i])]
DecodeBitmaps(list) == [i \in DOMAIN list |-> DecodeBitmap(list[i])]

-----------------------------------------------------------------------------
(* FailoverNATState and the message that carries it *)

EncodeState(s) ==
  IF s = Null THEN Nil
  ELSE Fields(<<s.Ips, EncodePairs(s.TcpInbound), EncodePairs(s.TcpOutbound),
                EncodePairs(s.UdpInbound), EncodePairs(s.UdpOutbound), EncodeBitmaps(s.NatPorts)>>)

DecodeState(b) ==
  IF b = Nil THEN Null
  ELSE [Ips |-> b.items[1], TcpInbound |-> DecodePairs(b.items[2]),
        TcpOutbound |-> DecodePairs(b.items[3]), UdpInbound |-> DecodePairs(b.items[4]),
        UdpOutbound |-> DecodePairs(b.items[5]), NatPorts |-> DecodeBitmaps(b.items[6])]

EncodeSyncStateResponse(r) ==
  IF r.error # Null THEN ErrorItem(r.error)
  ELSE Fields(<<r.RequestId, r.Success, r.ErrorMessage, EncodeState(r.State)>>)

DecodeSyncStateResponse(b) ==
  IF b.kind = "fields"
  THEN [error |-> Null, RequestId |-> b.items[1], Success |-> b.items[2],
        ErrorMessage |-> b.items[3], State |-> DecodeState(b.items[4])]
  ELSE [error |-> ErrorOf(b), RequestId |-> Blank,
        Success |-> FALSE, ErrorMessage |-> Blank, State |-> Null]

-----------------------------------------------------------------------------
(* Requests, and the responses to HealthCheck and Heartbeat *)

EncodeSyncStateRequest(r) == Fields(<<r.RequestId>>)
DecodeSyncStateRequest(b) == [RequestId |-> b.items[1]]

EncodeHealthCheckRequest(r) == Fields(<<r.RequestId>>)
DecodeHealthCheckRequest(b) == [RequestId |-> b.items[1]]

EncodeHeartbeatRequest(r) == Fields(<<r.RequestId, r.Timestamp, r.PrimaryEni>>)
DecodeHeartbeatRequest(b) ==
  [RequestId |-> b.items[1], Timestamp |-> b.items[2], PrimaryEni |-> b.items[3]]

EncodeHealthCheckResponse(r) ==
  IF r.error # Null THEN ErrorItem(r.error)
  ELSE Fields(<<r.RequestId, r.Success, r.NodeRole, r.InstanceId>>)

DecodeHealthCheckResponse(b) ==
  IF b.kind = "fields"
  THEN [error |-> Null, RequestId |-> b.items[1], Success |-> b.items[2],
        NodeRole |-> b.items[3], InstanceId |-> b.items[4]]
  ELSE [error |-> ErrorOf(b), RequestId |-> Blank,
        Success |-> FALSE, NodeRole |-> Blank, InstanceId |-> Blank]

EncodeHeartbeatResponse(r) ==
  IF r.error # Null THEN ErrorItem(r.error)
  ELSE Fields(<<r.RequestId, r.Success, r.Timestamp>>)

DecodeHeartbeatResponse(b) ==
  IF b.kind = "fields"
  THEN [error |-> Null, RequestId |-> b.items[1], Success |-> b.items[2], Timestamp |-> b.items[3]]
  ELSE [error |-> ErrorOf(b), RequestId |-> Blank,
        Success |-> FALSE, Timestamp |-> 0]
=============================================================================
