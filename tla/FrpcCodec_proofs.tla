---------------------------- MODULE FrpcCodec_proofs ----------------------------
(* What a Decode method of fRPC makes of what the Encode method has written,   *)
(* for any texts, numbers and lengths of the tables.                           *)
EXTENDS FrpcCodec, SequenceTheorems, TLAPS

\* A message is not the nil pointer.
LEMMA Pointers ==
  /\ \A k \in WireKey : k # Null
  /\ \A v \in WireValue : v # Null
  /\ \A p \in WirePairType : p # Null
  /\ \A p \in WireBitmapType : p # Null
  /\ \A s \in WireState : s # Null
  BY PointerAssumption DEF PointerAssumption

\* A message with fields is not taken for nil or for an error.
LEMMA FieldsAreNotNil ==
  ASSUME NEW f PROVE Fields(f) # Nil /\ Fields(f).items = f /\ Fields(f).kind = "fields"
  BY DEF Fields, Nil

\* A FailoverNATKey is decoded as it was.
LEMMA KeyRoundTrip ==
  ASSUME NEW k \in WireKey PROVE DecodeKey(EncodeKey(k)) = k
<1> DEFINE f == <<k.DestinationIp, k.DestinationPort, k.SourceIp, k.SourcePort>>
<1>1. EncodeKey(k) = Fields(f)
  BY Pointers DEF EncodeKey
<1>2. DecodeKey(Fields(f)) = [DestinationIp |-> f[1], DestinationPort |-> f[2],
                              SourceIp |-> f[3], SourcePort |-> f[4]]
  BY FieldsAreNotNil DEF DecodeKey
<1> QED
  BY <1>1, <1>2 DEF WireKey

\* A FailoverNATValue is decoded as it was.
LEMMA ValueRoundTrip ==
  ASSUME NEW v \in WireValue PROVE DecodeValue(EncodeValue(v)) = v
<1> DEFINE f == <<v.LastSeen, v.TranslateIp, v.TranslatePort>>
<1>1. EncodeValue(v) = Fields(f)
  BY Pointers DEF EncodeValue
<1>2. DecodeValue(Fields(f)) = [LastSeen |-> f[1], TranslateIp |-> f[2], TranslatePort |-> f[3]]
  BY FieldsAreNotNil DEF DecodeValue
<1> QED
  BY <1>1, <1>2 DEF WireValue

\* A FailoverNATKeyValuePair is decoded as it was.
LEMMA WirePairRoundTrip ==
  ASSUME NEW p \in WirePairType PROVE DecodePair(EncodePair(p)) = p
<1> DEFINE f == <<EncodeKey(p.Key), EncodeValue(p.Value)>>
<1>1. EncodePair(p) = Fields(f)
  BY Pointers DEF EncodePair
<1>2. DecodePair(Fields(f)) = [Key |-> DecodeKey(f[1]), Value |-> DecodeValue(f[2])]
  BY FieldsAreNotNil DEF DecodePair
<1>3. DecodeKey(f[1]) = p.Key /\ DecodeValue(f[2]) = p.Value
  BY KeyRoundTrip, ValueRoundTrip DEF WirePairType
<1> QED
  BY <1>1, <1>2, <1>3 DEF WirePairType

\* A FailoverNATBitmapPair is decoded as it was.
LEMMA WireBitmapRoundTrip ==
  ASSUME NEW p \in WireBitmapType PROVE DecodeBitmap(EncodeBitmap(p)) = p
<1> DEFINE f == <<p.Bitmap, p.DestinationIp, p.LastChunk, p.Natip>>
<1>1. EncodeBitmap(p) = Fields(f)
  BY Pointers DEF EncodeBitmap
<1>2. DecodeBitmap(Fields(f)) = [Bitmap |-> f[1], DestinationIp |-> f[2], LastChunk |-> f[3],
                                 Natip |-> f[4]]
  BY FieldsAreNotNil DEF DecodeBitmap
<1> QED
  BY <1>1, <1>2 DEF WireBitmapType

\* So are lists of them, element by element.
LEMMA TablesRoundTrip ==
  /\ \A list \in Seq(WirePairType) : DecodePairs(EncodePairs(list)) = list
  /\ \A list \in Seq(WireBitmapType) : DecodeBitmaps(EncodeBitmaps(list)) = list
<1>1. ASSUME NEW list \in Seq(WirePairType) PROVE DecodePairs(EncodePairs(list)) = list
  <2>1. \A i \in DOMAIN list : DecodePair(EncodePair(list[i])) = list[i]
    BY WirePairRoundTrip
  <2>2. DecodePairs(EncodePairs(list)) = [i \in DOMAIN list |-> DecodePair(EncodePair(list[i]))]
    BY DEF DecodePairs, EncodePairs
  <2> QED
    BY <2>1, <2>2
<1>2. ASSUME NEW list \in Seq(WireBitmapType) PROVE DecodeBitmaps(EncodeBitmaps(list)) = list
  <2>1. \A i \in DOMAIN list : DecodeBitmap(EncodeBitmap(list[i])) = list[i]
    BY WireBitmapRoundTrip
  <2>2. DecodeBitmaps(EncodeBitmaps(list)) = [i \in DOMAIN list |-> DecodeBitmap(EncodeBitmap(list[i]))]
    BY DEF DecodeBitmaps, EncodeBitmaps
  <2> QED
    BY <2>1, <2>2
<1> QED
  BY <1>1, <1>2

(***************************************************************************)
(* A NAT state is decoded as it was encoded: every table in its place, and *)
(* in it every entry, for every state that the program can hold.           *)
(***************************************************************************)
THEOREM StateRoundTrip ==
  ASSUME NEW s \in WireState PROVE DecodeState(EncodeState(s)) = s
<1> DEFINE f == <<s.Ips, EncodePairs(s.TcpInbound), EncodePairs(s.TcpOutbound),
                  EncodePairs(s.UdpInbound), EncodePairs(s.UdpOutbound), EncodeBitmaps(s.NatPorts)>>
<1>1. EncodeState(s) = Fields(f)
  BY Pointers DEF EncodeState
<1>2. DecodeState(Fields(f)) =
        [Ips |-> f[1], TcpInbound |-> DecodePairs(f[2]), TcpOutbound |-> DecodePairs(f[3]),
         UdpInbound |-> DecodePairs(f[4]), UdpOutbound |-> DecodePairs(f[5]),
         NatPorts |-> DecodeBitmaps(f[6])]
  BY FieldsAreNotNil DEF DecodeState
<1>3. /\ s.TcpInbound \in Seq(WirePairType) /\ s.TcpOutbound \in Seq(WirePairType)
      /\ s.UdpInbound \in Seq(WirePairType) /\ s.UdpOutbound \in Seq(WirePairType)
      /\ s.NatPorts \in Seq(WireBitmapType)
      /\ s = [Ips |-> s.Ips, TcpInbound |-> s.TcpInbound, TcpOutbound |-> s.TcpOutbound,
              UdpInbound |-> s.UdpInbound, UdpOutbound |-> s.UdpOutbound, NatPorts |-> s.NatPorts]
  BY DEF WireState
<1>4. /\ DecodePairs(f[2]) = s.TcpInbound /\ DecodePairs(f[3]) = s.TcpOutbound
      /\ DecodePairs(f[4]) = s.UdpInbound /\ DecodePairs(f[5]) = s.UdpOutbound
      /\ DecodeBitmaps(f[6]) = s.NatPorts
  BY <1>3, TablesRoundTrip
<1> QED
  BY <1>1, <1>2, <1>3, <1>4

(***************************************************************************)
(* The messages of the three methods.  A response holds an error or        *)
(* fields, but Go lets it hold both.                                       *)
(***************************************************************************)
Errors             == Text \cup {Null}
SyncStateRequest   == [RequestId : WireText]
HealthCheckRequest == [RequestId : WireText]
HeartbeatRequest   == [RequestId : WireText, Timestamp : Nat, PrimaryEni : WireText]
SyncStateResponse  == [error : Errors, RequestId : WireText, Success : BOOLEAN,
                       ErrorMessage : WireText, State : WireState \cup {Null}]
HealthCheckResponse == [error : Errors, RequestId : WireText, Success : BOOLEAN,
                        NodeRole : WireText, InstanceId : WireText]
HeartbeatResponse  == [error : Errors, RequestId : WireText, Success : BOOLEAN, Timestamp : Nat]

\* The nil pointer of State arrives as one.
LEMMA StatePointerRoundTrip ==
  ASSUME NEW s \in WireState \cup {Null} PROVE DecodeState(EncodeState(s)) = s
<1>1. CASE s = Null
  BY <1>1 DEF EncodeState, DecodeState
<1>2. CASE s \in WireState
  BY <1>2, StateRoundTrip
<1> QED
  BY <1>1, <1>2

\* A response that is an error is read as that error.
LEMMA ErrorsAreRead ==
  ASSUME NEW e PROVE ErrorItem(e).kind # "fields" /\ ErrorOf(ErrorItem(e)) = e
  BY DEF ErrorItem, ErrorOf

(***************************************************************************)
(* Every request that a client encodes is the one that the server decodes. *)
(***************************************************************************)
THEOREM RequestsArrive ==
  /\ \A r \in SyncStateRequest : DecodeSyncStateRequest(EncodeSyncStateRequest(r)) = r
  /\ \A r \in HealthCheckRequest : DecodeHealthCheckRequest(EncodeHealthCheckRequest(r)) = r
  /\ \A r \in HeartbeatRequest : DecodeHeartbeatRequest(EncodeHeartbeatRequest(r)) = r
<1>1. \A r \in SyncStateRequest : DecodeSyncStateRequest(EncodeSyncStateRequest(r)) = r
  BY DEF SyncStateRequest, DecodeSyncStateRequest, EncodeSyncStateRequest, Fields
<1>2. \A r \in HealthCheckRequest : DecodeHealthCheckRequest(EncodeHealthCheckRequest(r)) = r
  BY DEF HealthCheckRequest, DecodeHealthCheckRequest, EncodeHealthCheckRequest, Fields
<1>3. \A r \in HeartbeatRequest : DecodeHeartbeatRequest(EncodeHeartbeatRequest(r)) = r
  BY DEF HeartbeatRequest, DecodeHeartbeatRequest, EncodeHeartbeatRequest, Fields
<1> QED
  BY <1>1, <1>2, <1>3

(***************************************************************************)
(* A response arrives as the handler filled it, or, if it carries an       *)
(* error, as that error with nothing else: a caller never sees the fields  *)
(* of a failed call, nor Success next to an error.                         *)
(***************************************************************************)
THEOREM ResponsesArrive ==
  /\ \A r \in SyncStateResponse :
       DecodeSyncStateResponse(EncodeSyncStateResponse(r)) =
         IF r.error = Null THEN r
         ELSE [error |-> r.error, RequestId |-> Blank, Success |-> FALSE,
               ErrorMessage |-> Blank, State |-> Null]
  /\ \A r \in HealthCheckResponse :
       DecodeHealthCheckResponse(EncodeHealthCheckResponse(r)) =
         IF r.error = Null THEN r
         ELSE [error |-> r.error, RequestId |-> Blank, Success |-> FALSE,
               NodeRole |-> Blank, InstanceId |-> Blank]
  /\ \A r \in HeartbeatResponse :
       DecodeHeartbeatResponse(EncodeHeartbeatResponse(r)) =
         IF r.error = Null THEN r
         ELSE [error |-> r.error, RequestId |-> Blank, Success |-> FALSE, Timestamp |-> 0]
<1>1. ASSUME NEW r \in SyncStateResponse
      PROVE  DecodeSyncStateResponse(EncodeSyncStateResponse(r)) =
               IF r.error = Null THEN r
               ELSE [error |-> r.error, RequestId |-> Blank, Success |-> FALSE,
                     ErrorMessage |-> Blank, State |-> Null]
  <2>1. CASE r.error = Null
    <3> DEFINE f == <<r.RequestId, r.Success, r.ErrorMessage, EncodeState(r.State)>>
    <3>1. EncodeSyncStateResponse(r) = Fields(f)
      BY <2>1 DEF EncodeSyncStateResponse
    <3>2. DecodeState(f[4]) = r.State
      BY StatePointerRoundTrip DEF SyncStateResponse
    <3>3. DecodeSyncStateResponse(Fields(f)) =
            [error |-> Null, RequestId |-> f[1], Success |-> f[2], ErrorMessage |-> f[3],
             State |-> DecodeState(f[4])]
      BY FieldsAreNotNil DEF DecodeSyncStateResponse
    <3> QED
      BY <2>1, <3>1, <3>2, <3>3 DEF SyncStateResponse
  <2>2. CASE r.error # Null
    BY <2>2, ErrorsAreRead DEF EncodeSyncStateResponse, DecodeSyncStateResponse
  <2> QED
    BY <2>1, <2>2
<1>2. ASSUME NEW r \in HealthCheckResponse
      PROVE  DecodeHealthCheckResponse(EncodeHealthCheckResponse(r)) =
               IF r.error = Null THEN r
               ELSE [error |-> r.error, RequestId |-> Blank, Success |-> FALSE,
                     NodeRole |-> Blank, InstanceId |-> Blank]
  <2>1. CASE r.error = Null
    BY <2>1 DEF EncodeHealthCheckResponse, DecodeHealthCheckResponse, Fields, HealthCheckResponse
  <2>2. CASE r.error # Null
    BY <2>2, ErrorsAreRead DEF EncodeHealthCheckResponse, DecodeHealthCheckResponse
  <2> QED
    BY <2>1, <2>2
<1>3. ASSUME NEW r \in HeartbeatResponse
      PROVE  DecodeHeartbeatResponse(EncodeHeartbeatResponse(r)) =
               IF r.error = Null THEN r
               ELSE [error |-> r.error, RequestId |-> Blank, Success |-> FALSE, Timestamp |-> 0]
  <2>1. CASE r.error = Null
    BY <2>1 DEF EncodeHeartbeatResponse, DecodeHeartbeatResponse, Fields, HeartbeatResponse
  <2>2. CASE r.error # Null
    BY <2>2, ErrorsAreRead DEF EncodeHeartbeatResponse, DecodeHeartbeatResponse
  <2> QED
    BY <2>1, <2>2
<1> QED
  BY <1>1, <1>2, <1>3
=============================================================================
