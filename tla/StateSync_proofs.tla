--------------------------- MODULE StateSync_proofs ---------------------------
(* Theorems about NATState and StateSync, for any texts, states, number of     *)
(* sync loops, changes and failures.                                           *)
EXTENDS StateSync, FrpcCodec_proofs

(***************************************************************************)
(* What the two conversions do to one entry.                               *)
(***************************************************************************)
LEMMA PortsFit == \A p \in Uint16 : portUint32ToUint16(p) = p
  BY DEF Uint16, portUint32ToUint16

\* A pair survives the two conversions, its ports included.
LEMMA PairRoundTrip ==
  ASSUME NEW kv \in Pair
  PROVE  ClientPair(WirePair(kv)) = kv
<1>1. kv.Key \in Key /\ kv.Value \in Value /\ kv = [Key |-> kv.Key, Value |-> kv.Value]
  BY DEF Pair
<1>2. /\ kv.Key = [DestinationIP |-> kv.Key.DestinationIP, DestinationPort |-> kv.Key.DestinationPort,
                   SourceIP |-> kv.Key.SourceIP, SourcePort |-> kv.Key.SourcePort]
      /\ kv.Key.DestinationPort \in Uint16 /\ kv.Key.SourcePort \in Uint16
  BY <1>1 DEF Key
<1>3. /\ kv.Value = [LastSeen |-> kv.Value.LastSeen, TranslateIP |-> kv.Value.TranslateIP,
                     TranslatePort |-> kv.Value.TranslatePort]
      /\ kv.Value.TranslatePort \in Uint16
  BY <1>1 DEF Value
<1> QED
  BY PortsFit, <1>1, <1>2, <1>3 DEF ClientPair, WirePair

\* So does a bitmap, but for an empty DestinationIP.
LEMMA BitmapRoundTrip ==
  ASSUME NEW bp \in Bitmap
  PROVE  /\ ClientBitmap(WireBitmap(bp)) = CanonicalBitmap(bp)
         /\ CanonicalBitmap(bp) \in Bitmap
         /\ CanonicalBitmap(CanonicalBitmap(bp)) = CanonicalBitmap(bp)
<1> DEFINE d == IF bp.DestinationIP = Blank THEN Null ELSE bp.DestinationIP
<1>1. /\ bp = [Bitmap |-> bp.Bitmap, DestinationIP |-> bp.DestinationIP,
               LastChunk |-> bp.LastChunk, NATIP |-> bp.NATIP]
      /\ bp.Bitmap \in Text /\ bp.NATIP \in Text /\ bp.LastChunk \in Uint16
      /\ bp.DestinationIP \in Text \cup {Blank, Null}
  BY DEF Bitmap
<1>2. portUint32ToUint16(bp.LastChunk) = bp.LastChunk
  BY <1>1, PortsFit
<1>3. /\ DestIP(WireBlank(bp.DestinationIP)) = d
      /\ d \in Text \cup {Blank, Null} /\ d # Blank
  BY <1>1, TextAssumption DEF DestIP, WireBlank, TextAssumption
<1>4. CanonicalBitmap(bp) = [Bitmap |-> bp.Bitmap, DestinationIP |-> d,
                             LastChunk |-> bp.LastChunk, NATIP |-> bp.NATIP]
  BY <1>1 DEF CanonicalBitmap
<1>5. ClientBitmap(WireBitmap(bp)) = CanonicalBitmap(bp)
  BY <1>2, <1>3, <1>4 DEF ClientBitmap, WireBitmap
<1>6. CanonicalBitmap(bp) \in Bitmap
  BY <1>1, <1>3, <1>4 DEF Bitmap
<1>7. CanonicalBitmap(CanonicalBitmap(bp)) = CanonicalBitmap(bp)
  BY <1>3, <1>4 DEF CanonicalBitmap
<1> QED
  BY <1>5, <1>6, <1>7

\* So does a table.
LEMMA PairsRoundTrip ==
  ASSUME NEW list \in Seq(Pair)
  PROVE  ClientPairs(WirePairs(list)) = list
<1>1. \A i \in DOMAIN list : ClientPair(WirePair(list[i])) = list[i]
  BY PairRoundTrip
<1>2. DOMAIN WirePairs(list) = DOMAIN list
  BY DEF WirePairs
<1>3. ClientPairs(WirePairs(list)) = [i \in DOMAIN list |-> ClientPair(WirePair(list[i]))]
  BY <1>2 DEF ClientPairs, WirePairs
<1> QED
  BY <1>1, <1>3

(***************************************************************************)
(* The conversions lose nothing but the difference between an empty and an *)
(* absent DestinationIP: every port, every key and every table of a NAT    *)
(* state arrives in its place, for every state there is.                   *)
(***************************************************************************)
THEOREM ConversionIsFaithful ==
  ASSUME NEW s \in State
  PROVE  /\ FromWire(ToWire(s)) = Canonical(s)
         /\ Canonical(s) \in State
         /\ Canonical(Canonical(s)) = Canonical(s)
<1> DEFINE ports == [i \in DOMAIN s.NATPorts |-> CanonicalBitmap(s.NATPorts[i])]
<1>1. /\ s = [IPs |-> s.IPs, TCPInbound |-> s.TCPInbound, TCPOutbound |-> s.TCPOutbound,
              UDPInbound |-> s.UDPInbound, UDPOutbound |-> s.UDPOutbound, NATPorts |-> s.NATPorts]
      /\ s.TCPInbound \in Seq(Pair) /\ s.TCPOutbound \in Seq(Pair)
      /\ s.UDPInbound \in Seq(Pair) /\ s.UDPOutbound \in Seq(Pair)
      /\ s.NATPorts \in Seq(Bitmap)
  BY DEF State
<1>2. /\ ClientPairs(WirePairs(s.TCPInbound)) = s.TCPInbound
      /\ ClientPairs(WirePairs(s.TCPOutbound)) = s.TCPOutbound
      /\ ClientPairs(WirePairs(s.UDPInbound)) = s.UDPInbound
      /\ ClientPairs(WirePairs(s.UDPOutbound)) = s.UDPOutbound
  BY <1>1, PairsRoundTrip
<1>3. \A i \in DOMAIN s.NATPorts : s.NATPorts[i] \in Bitmap
  BY <1>1
<1>4. Canonical(s) = [s EXCEPT !.NATPorts = ports]
  BY DEF Canonical
<1>5. /\ Canonical(s) = [IPs |-> s.IPs, TCPInbound |-> s.TCPInbound, TCPOutbound |-> s.TCPOutbound,
                         UDPInbound |-> s.UDPInbound, UDPOutbound |-> s.UDPOutbound, NATPorts |-> ports]
      /\ Canonical(s).NATPorts = ports
  BY <1>1, <1>4
<1>6. [i \in DOMAIN s.NATPorts |-> ClientBitmap(WireBitmap(s.NATPorts[i]))] = ports
  BY <1>3, BitmapRoundTrip
<1>7. FromWire(ToWire(s)) = Canonical(s)
  <2> DEFINE wired == [i \in DOMAIN s.NATPorts |-> WireBitmap(s.NATPorts[i])]
  <2>1. /\ ToWire(s).Ips = s.IPs
        /\ ToWire(s).TcpInbound = WirePairs(s.TCPInbound)
        /\ ToWire(s).TcpOutbound = WirePairs(s.TCPOutbound)
        /\ ToWire(s).UdpInbound = WirePairs(s.UDPInbound)
        /\ ToWire(s).UdpOutbound = WirePairs(s.UDPOutbound)
        /\ ToWire(s).NatPorts = wired
    BY DEF ToWire
  <2>2. [i \in DOMAIN wired |-> ClientBitmap(wired[i])] = ports
    BY <1>6
  <2> QED
    BY <1>2, <1>5, <2>1, <2>2 DEF FromWire
<1>8. ports \in Seq(Bitmap)
  <2>1. DOMAIN s.NATPorts = 1..Len(s.NATPorts) /\ Len(s.NATPorts) \in Nat
    BY <1>1
  <2>2. ports \in [1..Len(s.NATPorts) -> Bitmap]
    BY <1>3, <2>1, BitmapRoundTrip
  <2> HIDE DEF ports
  <2> QED
    BY <2>1, <2>2, SeqDef
<1>9. Canonical(s) \in State
  BY <1>4, <1>8 DEF State
<1>10. Canonical(Canonical(s)) = Canonical(s)
  <2>1. [i \in DOMAIN ports |-> CanonicalBitmap(ports[i])] = ports
    BY <1>3, BitmapRoundTrip
  <2>2. Canonical(Canonical(s)) = [Canonical(s) EXCEPT !.NATPorts = ports]
    BY <1>5, <2>1 DEF Canonical
  <2> QED
    BY <1>4, <2>2, <1>5
<1> QED
  BY <1>7, <1>9, <1>10

(***************************************************************************)
(* The whole way of a state: converted, encoded, decoded and converted     *)
(* back.                                                                   *)
(***************************************************************************)
LEMMA WireTypes ==
  /\ \A kv \in Pair : WirePair(kv) \in WirePairType
  /\ \A bp \in Bitmap : WireBitmap(bp) \in WireBitmapType
<1>0. Uint16 \subseteq Nat /\ Text \subseteq WireText /\ Blank \in WireText
  BY DEF Uint16, WireText
<1>1. ASSUME NEW kv \in Pair PROVE WirePair(kv) \in WirePairType
  <2>1. kv.Key \in Key /\ kv.Value \in Value
    BY DEF Pair
  <2>5. /\ kv.Key.DestinationIP \in Text /\ kv.Key.SourceIP \in Text
        /\ kv.Key.DestinationPort \in Uint16 /\ kv.Key.SourcePort \in Uint16
    BY <2>1 DEF Key
  <2>6. /\ kv.Value.LastSeen \in Text /\ kv.Value.TranslateIP \in Text
        /\ kv.Value.TranslatePort \in Uint16
    BY <2>1 DEF Value
  <2> DEFINE k == [DestinationIp |-> kv.Key.DestinationIP, DestinationPort |-> kv.Key.DestinationPort,
                   SourceIp |-> kv.Key.SourceIP, SourcePort |-> kv.Key.SourcePort]
             v == [LastSeen |-> kv.Value.LastSeen, TranslateIp |-> kv.Value.TranslateIP,
                   TranslatePort |-> kv.Value.TranslatePort]
  <2>2. /\ kv.Key.DestinationIP \in WireText /\ kv.Key.SourceIP \in WireText
        /\ kv.Key.DestinationPort \in Nat /\ kv.Key.SourcePort \in Nat
    BY <1>0, <2>5
  <2>3. /\ kv.Value.LastSeen \in WireText /\ kv.Value.TranslateIP \in WireText
        /\ kv.Value.TranslatePort \in Nat
    BY <1>0, <2>6
  <2>4. k \in WireKey /\ v \in WireValue
    BY <2>2, <2>3 DEF WireKey, WireValue
  <2> QED
    BY <2>4 DEF WirePair, WirePairType
<1>2. ASSUME NEW bp \in Bitmap PROVE WireBitmap(bp) \in WireBitmapType
  <2>1. /\ bp.Bitmap \in Text /\ bp.DestinationIP \in Text \cup {Blank, Null}
        /\ bp.LastChunk \in Uint16 /\ bp.NATIP \in Text
    BY DEF Bitmap
  <2>2. WireBlank(bp.DestinationIP) \in WireText
    BY <1>0, <2>1 DEF WireBlank
  <2>3. bp.Bitmap \in WireText /\ bp.LastChunk \in Nat /\ bp.NATIP \in WireText
    BY <1>0, <2>1
  <2> QED
    BY <2>2, <2>3 DEF WireBitmap, WireBitmapType
<1> QED
  BY <1>1, <1>2

\* A conversion of a sequence element by element is a sequence.
LEMMA MapIsSequence ==
  ASSUME NEW S, NEW T, NEW list \in Seq(S), NEW g,
         DOMAIN g = DOMAIN list, g = [i \in DOMAIN list |-> g[i]],
         \A i \in DOMAIN list : g[i] \in T
  PROVE  g \in Seq(T)
<1>1. DOMAIN list = 1..Len(list) /\ Len(list) \in Nat
  OBVIOUS
<1>2. g \in [1..Len(list) -> T]
  BY <1>1
<1> QED
  BY <1>1, <1>2, SeqDef

\* SyncState converts a state to a message that the codec is about.
LEMMA ToWireType ==
  ASSUME NEW s \in State PROVE ToWire(s) \in WireState
<1>1. /\ s.IPs \in Seq(Text) /\ s.NATPorts \in Seq(Bitmap)
      /\ s.TCPInbound \in Seq(Pair) /\ s.TCPOutbound \in Seq(Pair)
      /\ s.UDPInbound \in Seq(Pair) /\ s.UDPOutbound \in Seq(Pair)
  BY DEF State
<1>2. ASSUME NEW list \in Seq(Pair) PROVE WirePairs(list) \in Seq(WirePairType)
  <2>1. \A i \in DOMAIN list : WirePair(list[i]) \in WirePairType
    BY WireTypes
  <2>2. /\ DOMAIN WirePairs(list) = DOMAIN list
        /\ WirePairs(list) = [i \in DOMAIN list |-> WirePairs(list)[i]]
        /\ \A i \in DOMAIN list : WirePairs(list)[i] \in WirePairType
    BY <2>1 DEF WirePairs
  <2> QED
    BY <2>2, MapIsSequence
<1>3. [i \in DOMAIN s.NATPorts |-> WireBitmap(s.NATPorts[i])] \in Seq(WireBitmapType)
  <2> DEFINE g == [i \in DOMAIN s.NATPorts |-> WireBitmap(s.NATPorts[i])]
  <2>1. \A i \in DOMAIN s.NATPorts : s.NATPorts[i] \in Bitmap
    BY <1>1
  <2>2. /\ DOMAIN g = DOMAIN s.NATPorts
        /\ g = [i \in DOMAIN s.NATPorts |-> g[i]]
        /\ \A i \in DOMAIN s.NATPorts : g[i] \in WireBitmapType
    BY <2>1, WireTypes
  <2>3. s.NATPorts \in Seq(Bitmap)
    BY <1>1
  <2> HIDE DEF g
  <2>4. g \in Seq(WireBitmapType)
    BY <2>2, <2>3, MapIsSequence
  <2> QED
    BY <2>4 DEF g
<1>4. s.IPs \in Seq(WireText)
  <2>1. /\ s.IPs = [i \in DOMAIN s.IPs |-> s.IPs[i]]
        /\ \A i \in DOMAIN s.IPs : s.IPs[i] \in WireText
    BY <1>1 DEF WireText
  <2> QED
    BY <1>1, <2>1, MapIsSequence
<1> QED
  BY <1>1, <1>2, <1>3, <1>4 DEF ToWire, WireState

Response(success, state) ==
  [error |-> Null, RequestId |-> Blank, Success |-> success, ErrorMessage |-> Blank, State |-> state]

\* A response is decoded as it was.
LEMMA ResponseRoundTrip ==
  ASSUME NEW ok \in BOOLEAN, NEW w, w = Null \/ w \in WireState
  PROVE  LET b == EncodeSyncStateResponse(Response(ok, w))
         IN  /\ b.kind = "fields"
             /\ DecodeSyncStateResponse(b).Success = ok
             /\ DecodeSyncStateResponse(b).State = w
<1> DEFINE f == <<Blank, ok, Blank, EncodeState(w)>>
<1>1. EncodeSyncStateResponse(Response(ok, w)) = Fields(f)
  BY DEF EncodeSyncStateResponse, Response
<1>2. DecodeState(EncodeState(w)) = w
  <2>1. CASE w = Null
    BY <2>1 DEF EncodeState, DecodeState
  <2>2. CASE w \in WireState
    BY <2>2, StateRoundTrip
  <2> QED
    BY <2>1, <2>2
<1>3. /\ Fields(f).kind = "fields" /\ Fields(f).items = f
  BY FieldsAreNotNil
<1>4. /\ DecodeSyncStateResponse(Fields(f)).Success = f[2]
      /\ DecodeSyncStateResponse(Fields(f)).State = DecodeState(f[4])
  BY <1>3 DEF DecodeSyncStateResponse
<1> QED
  BY <1>1, <1>2, <1>3, <1>4

(***************************************************************************)
(* What a secondary applies is the state that the primary read, whatever   *)
(* the state: the conversion to the wire form, the encoding, the decoding  *)
(* and the conversion back together lose nothing but the difference        *)
(* between an empty and an absent DestinationIP.                           *)
(***************************************************************************)
THEOREM SyncIsFaithful ==
  ASSUME NEW s \in State
  PROVE  LET r == DecodeSyncStateResponse(EncodeSyncStateResponse(Response(TRUE, ToWire(s))))
         IN  r.Success /\ r.State # Null /\ FromWire(r.State) = Canonical(s)
<1>1. ToWire(s) \in WireState /\ ToWire(s) # Null
  BY ToWireType, Pointers
<1>2. FromWire(ToWire(s)) = Canonical(s)
  BY ConversionIsFaithful
<1> HIDE DEF ToWire
<1> QED
  BY <1>1, <1>2, ResponseRoundTrip

(***************************************************************************)
(* Type correctness, together with what is on its way to a loop: the state *)
(* that the handler read for it, read after the loop's call.  That is the  *)
(* strengthening that CopyIsPrimaryState and NothingOlderThanCall need.    *)
(***************************************************************************)
Carried(l) ==
  /\ pc[l] = "answered" =>
       /\ daemon = "leader"
       /\ \E ok \in BOOLEAN, w \in {Null} \cup {ToWire(History[taken[l]])} :
            /\ answer[l] = EncodeSyncStateResponse(Response(ok, w))
            /\ w # Null => taken[l] > 0 /\ taken[l] >= asked[l]
  /\ pc[l] = "apply" =>
       taken[l] > 0 /\ taken[l] >= asked[l] /\ pending[l] = Form(History[taken[l]])

Waiting == \A x \in late : x.from \in 1..version /\ x.state = Form(History[x.from])

Basics ==
  /\ daemon \in {"leader", "socket"} /\ stopping \in BOOLEAN
  /\ version \in 1..Len(History) /\ applied \in 0..version /\ faults \in 0..MaxFaults
  /\ connected \in BOOLEAN
  /\ pc \in [Loops -> {"idle", "asked", "cut", "answered", "apply", "stopped"}]
  /\ asked \in [Loops -> 0..version] /\ taken \in [Loops -> 0..version]
  /\ DOMAIN answer = Loops /\ DOMAIN pending = Loops
  /\ copy = IF applied = 0 THEN Fresh ELSE Form(History[applied])

SyncInv == Basics /\ Waiting /\ \A l \in Loops : Carried(l)

\* What the assumptions say of the constants.
LEMMA Constants ==
  /\ Len(History) \in Nat /\ 1 \in 1..Len(History)
  /\ \A i \in 1..Len(History) : History[i] \in State
  /\ Fresh \in State /\ MaxFaults \in Nat
<1>1. History \in Seq(State) /\ History # <<>> /\ Fresh \in State
  BY StatesAssumption DEF StatesAssumption
<1>2. Len(History) \in Nat /\ Len(History) # 0
  BY <1>1, EmptySeq
<1>3. DOMAIN History = 1..Len(History)
  BY <1>1
<1> QED
  BY <1>1, <1>2, <1>3, SyncBoundAssumption DEF SyncBoundAssumption

\* The form in which a state arrives is a state.
LEMMA FormIsState ==
  ASSUME NEW s \in State PROVE Form(s) \in State /\ Form(Form(s)) = Form(s)
  BY ConversionIsFaithful DEF Form

\* The initial states satisfy the invariant.
LEMMA SyncInit == Init => SyncInv
<1> SUFFICES ASSUME Init PROVE SyncInv
  OBVIOUS
<1>1. version = 1 /\ applied = 0 /\ late = {} /\ faults = 0 /\ copy = Fresh
  BY DEF Init
<1>2. /\ pc \in [Loops -> {"idle", "asked", "cut", "answered", "apply", "stopped"}]
      /\ asked \in [Loops -> 0..version] /\ taken \in [Loops -> 0..version]
      /\ DOMAIN answer = Loops /\ DOMAIN pending = Loops
  BY <1>1 DEF Init
<1>7. /\ daemon \in {"leader", "socket"} /\ stopping \in BOOLEAN
      /\ version \in 1..Len(History) /\ applied \in 0..version /\ faults \in 0..MaxFaults
      /\ connected \in BOOLEAN
  <2>1. MaxFaults \in Nat /\ 1 \in 1..Len(History)
    BY Constants
  <2>2. daemon \in {"leader", "socket"} /\ stopping \in BOOLEAN /\ connected \in BOOLEAN
    BY DEF Init
  <2> QED
    BY <1>1, <2>1, <2>2
<1>8. copy = IF applied = 0 THEN Fresh ELSE Form(History[applied])
  BY <1>1
<1>3. Basics
  BY <1>2, <1>7, <1>8 DEF Basics
<1>4. \A l \in Loops : pc[l] = "idle"
  BY DEF Init
<1>5. ASSUME NEW l \in Loops PROVE Carried(l)
  <2>1. pc[l] # "answered" /\ pc[l] # "apply"
    BY <1>4
  <2> QED
    BY <2>1 DEF Carried
<1>6. Waiting
  BY <1>1 DEF Waiting
<1> QED
  BY <1>3, <1>5, <1>6 DEF SyncInv

\* Every step keeps the invariant.
LEMMA SyncStep == SyncInv /\ [Next]_vars => SyncInv'
<1> SUFFICES ASSUME SyncInv, [Next]_vars PROVE SyncInv'
  OBVIOUS
<1>0. Len(History) \in Nat /\ MaxFaults \in Nat
  BY Constants
<1> USE DEF SyncInv, Basics, Waiting, Form, Goto, hostVars, copyVars, loopVars
<1>1. CASE Change
  BY <1>0, <1>1 DEF Change, Carried
<1>2. CASE Stop
  BY <1>2 DEF Stop, Carried
<1>3. CASE Stopped \/ UNCHANGED vars
  BY <1>3 DEF Stopped, vars, Carried
<1>14. CASE Disconnect \/ Redial
  <2>1. /\ UNCHANGED <<daemon, stopping, version, copyVars, asked, taken, answer, pending>>
        /\ connected' \in BOOLEAN
    BY <1>14 DEF Disconnect, Redial
  <2>3. faults' \in 0..MaxFaults
    BY <1>0, <1>14 DEF Disconnect, Redial
  <2>2. /\ pc' \in [Loops -> {"idle", "asked", "cut", "answered", "apply", "stopped"}]
        /\ \A l \in Loops : pc'[l] \in {"cut", pc[l]}
    BY <1>14 DEF Disconnect, Redial, CutCalls
  <2> QED
    BY <2>1, <2>2, <2>3 DEF Carried
<1>4. ASSUME NEW l \in Loops, Request(l) PROVE SyncInv'
  BY <1>0, <1>4 DEF Request, Carried
<1>5. ASSUME NEW l \in Loops, Exit(l) PROVE SyncInv'
  BY <1>5 DEF Exit, Carried
<1>6. ASSUME NEW l \in Loops, Answer(l) PROVE SyncInv'
  <2>1. /\ answer' = [answer EXCEPT ![l] = EncodeSyncStateResponse(Response(TRUE, ToWire(History[version])))]
        /\ taken' = [taken EXCEPT ![l] = version]
    BY <1>6 DEF Answer, Respond, Response, Current
  <2>2. Basics' /\ Waiting'
    BY <1>6 DEF Answer, Respond
  <2>3. Carried(l)'
    <3>1. taken'[l] = version /\ asked'[l] = asked[l] /\ asked[l] \in 0..version /\ daemon' = "leader"
      BY <1>6, <2>1 DEF Answer, Respond
    <3>2. answer'[l] = EncodeSyncStateResponse(Response(TRUE, ToWire(History[taken'[l]])))
      BY <2>1, <3>1
    <3>3. pc'[l] = "answered" /\ version > 0 /\ version >= asked[l]
      BY <1>0, <1>6, <3>1 DEF Answer, Respond
    <3> HIDE DEF ToWire
    <3> QED
      BY <3>1, <3>2, <3>3 DEF Carried
  <2>4. ASSUME NEW k \in Loops, k # l PROVE Carried(k)'
    BY <1>6, <2>4 DEF Answer, Respond, Carried
  <2> QED
    BY <2>2, <2>3, <2>4
<1>7. ASSUME NEW l \in Loops, AnswerFails(l) PROVE SyncInv'
  <2>1. answer' = [answer EXCEPT ![l] = EncodeSyncStateResponse(Response(FALSE, Null))]
    BY <1>7 DEF AnswerFails, Respond, Response
  <2>2. Basics' /\ Waiting'
    BY <1>0, <1>7 DEF AnswerFails, Respond, Fault
  <2>3. Carried(l)'
    <3>1. answer'[l] = EncodeSyncStateResponse(Response(FALSE, Null)) /\ daemon' = "leader"
      BY <1>7, <2>1 DEF AnswerFails, Respond, Fault
    <3>2. pc'[l] = "answered"
      BY <1>7 DEF AnswerFails, Respond
    <3> QED
      BY <3>1, <3>2 DEF Carried
  <2>4. ASSUME NEW k \in Loops, k # l PROVE Carried(k)'
    BY <1>7, <2>4 DEF AnswerFails, Respond, Fault, Carried
  <2> QED
    BY <2>2, <2>3, <2>4
<1>8. ASSUME NEW l \in Loops, CallFails(l) PROVE SyncInv'
  BY <1>0, <1>8 DEF CallFails, Fault, Abandon, Finish, Carried
<1>9. ASSUME NEW l \in Loops, Receive(l) PROVE SyncInv'
  <2> DEFINE r == DecodeSyncStateResponse(answer[l])
  <2>1. CASE r.Success /\ r.State # Null
    <3>1. PICK ok \in BOOLEAN, w \in {Null} \cup {ToWire(History[taken[l]])} :
            /\ answer[l] = EncodeSyncStateResponse(Response(ok, w))
            /\ w # Null => taken[l] > 0 /\ taken[l] >= asked[l]
      BY <1>9 DEF Receive, Carried
    <3>2. w # Null
      <4>1. w = Null => r.State = Null
        BY <3>1, ResponseRoundTrip
      <4> QED
        BY <2>1, <4>1
    <3>3. taken[l] \in 1..Len(History) /\ History[taken[l]] \in State
      BY <1>0, <3>1, <3>2, Constants
    <3>4. w = ToWire(History[taken[l]]) /\ w \in WireState
      BY <3>2, <3>3, ToWireType
    <3>5. r.State = w
      BY <3>1, <3>4, ResponseRoundTrip
    <3>6. FromWire(r.State) = Canonical(History[taken[l]])
      BY <3>3, <3>4, <3>5, ConversionIsFaithful
    <3>7. daemon = "leader"
      BY <1>9 DEF Receive, Carried
    <3>8. /\ pending' = [pending EXCEPT ![l] = Canonical(History[taken[l]])]
          /\ Goto(l, "apply") /\ answer' = [answer EXCEPT ![l] = Nil]
          /\ UNCHANGED <<asked, taken, hostVars, copyVars>>
      BY <1>9, <2>1, <3>6 DEF Receive
    <3>9. taken[l] > 0 /\ taken[l] >= asked[l]
      BY <3>1, <3>2
    <3> HIDE DEF r
    <3> QED
      BY <3>7, <3>8, <3>9 DEF Carried
  <2>2. CASE ~(r.Success /\ r.State # Null)
    <3>1. Finish(l) /\ UNCHANGED <<hostVars, copyVars>>
      BY <1>9, <2>2 DEF Receive
    <3> QED
      BY <1>0, <3>1 DEF Finish, Carried
  <2> QED
    BY <2>1, <2>2
<1>10. ASSUME NEW l \in Loops, Export(l) PROVE SyncInv'
  BY <1>0, <1>10 DEF Export, Current, Carried
<1>11. ASSUME NEW l \in Loops, Apply(l) PROVE SyncInv'
  BY <1>0, <1>11 DEF Apply, Replace, Finish, Carried
<1>12. ASSUME NEW l \in Loops, ApplyFails(l) PROVE SyncInv'
  BY <1>0, <1>12 DEF ApplyFails, Replace, Finish, Fault, Abandon, Carried
<1>13. ASSUME NEW x \in late, Land(x) PROVE SyncInv'
  BY <1>0, <1>13 DEF Land, Carried
<1> QED
  BY <1>1, <1>2, <1>3, <1>4, <1>5, <1>6, <1>7, <1>8, <1>9, <1>10, <1>11, <1>12, <1>13, <1>14 DEF Next

\* The invariant implies TypeOK.
LEMMA SyncTypes == SyncInv => TypeOK
<1> SUFFICES ASSUME SyncInv PROVE TypeOK
  OBVIOUS
<1>1. Basics /\ Waiting /\ \A l \in Loops : Carried(l)
  BY DEF SyncInv
<1>2. \A i \in 1..version : History[i] \in State
  BY <1>1, Constants DEF Basics
<1>3. copy \in State
  BY <1>1, <1>2, Constants, FormIsState DEF Basics
<1>4. \A x \in late : x.state \in State /\ x.from \in 1..version
  BY <1>1, <1>2, FormIsState DEF Waiting
<1>5. ASSUME NEW l \in Loops, pc[l] = "answered" PROVE answer[l].kind = "fields"
  <2>1. PICK ok \in BOOLEAN, w \in {Null} \cup {ToWire(History[taken[l]])} :
          answer[l] = EncodeSyncStateResponse(Response(ok, w))
    BY <1>1, <1>5 DEF Carried
  <2> QED
    BY <2>1, FieldsAreNotNil DEF EncodeSyncStateResponse, Response
<1>6. ASSUME NEW l \in Loops, pc[l] = "apply"
      PROVE  pending[l] \in State /\ taken[l] > 0 /\ Form(pending[l]) = pending[l]
  <2>1. taken[l] \in 1..version /\ pending[l] = Form(History[taken[l]])
    BY <1>1, <1>6, Constants DEF Carried, Basics
  <2>2. History[taken[l]] \in State
    BY <1>2, <2>1
  <2> QED
    BY <2>1, <2>2, FormIsState
<1> QED
  BY <1>1, <1>3, <1>4, <1>5, <1>6 DEF Basics, TypeOK

(***************************************************************************)
(* Every variable keeps its type (TypeOK), for any number of loops.        *)
(***************************************************************************)
THEOREM TypeCorrect == Spec => []TypeOK
  BY SyncInit, SyncStep, SyncTypes, PTL DEF Spec

(***************************************************************************)
(* However many loops, changes, failures and late effects there are, a     *)
(* secondary that has synced holds a state that the primary has had, whole *)
(* (CopyIsPrimaryState).                                                   *)
(***************************************************************************)
THEOREM CopyIsSound == Spec => []CopyIsPrimaryState
<1>1. SyncInv => CopyIsPrimaryState
  BY DEF SyncInv, Basics, CopyIsPrimaryState
<1> QED
  BY <1>1, SyncInit, SyncStep, PTL DEF Spec

(***************************************************************************)
(* No loop applies a state older than its call (NothingOlderThanCall).     *)
(***************************************************************************)
LEMMA FreshStep ==
  ASSUME SyncInv, [Next]_vars, NEW l \in Loops,
         pc[l] = "apply", pc'[l] # "apply", applied' # applied
  PROVE  applied' >= asked[l]
<1> USE DEF Goto, SyncInv, Basics, Carried, copyVars, loopVars
<1>1. CASE Change \/ Stop \/ Stopped \/ Disconnect \/ Redial \/ UNCHANGED vars
  BY <1>1 DEF Change, Stop, Stopped, Disconnect, Redial, vars
<1>2. ASSUME NEW k \in Loops,
             Request(k) \/ Answer(k) \/ AnswerFails(k) \/ CallFails(k) \/ Exit(k) \/ Receive(k) \/ Export(k)
      PROVE  FALSE
  BY <1>2 DEF Request, Answer, AnswerFails, Respond, CallFails, Finish, Exit, Receive, Export
<1>3. ASSUME NEW k \in Loops, Apply(k) \/ ApplyFails(k)
      PROVE  applied' >= asked[l]
  <2>1. k = l
    BY <1>3 DEF Apply, ApplyFails, Finish
  <2> QED
    BY <1>3, <2>1 DEF Apply, ApplyFails, Replace
<1>4. ASSUME NEW x \in late, Land(x) PROVE FALSE
  BY <1>4 DEF Land
<1> QED
  BY <1>1, <1>2, <1>3, <1>4 DEF Next

\* No loop applies a state older than its call (NothingOlderThanCall).
THEOREM NothingOlder == Spec => NothingOlderThanCall
<1>1. SyncInv /\ [Next]_vars =>
        \A l \in Loops : (pc[l] = "apply" /\ applied' # applied) =>
          (pc'[l] = "apply" \/ applied' >= asked[l])
  BY FreshStep
<1> QED
  BY <1>1, SyncInit, SyncStep, PTL DEF Spec, NothingOlderThanCall

(***************************************************************************)
(* The order of what a secondary holds.  It goes back to an older state of *)
(* the primary in two ways only: a call that was given up takes effect     *)
(* after all, or a loop that made its call before another one brought the  *)
(* newer state, and was overtaken by it, applies what it was sent.         *)
(***************************************************************************)
GivenUp == \E x \in late : late' = late \ {x} /\ applied' = x.from

Overtaken(l) == pc[l] = "apply" /\ pc'[l] # "apply" /\ asked[l] < applied

GoesBackOnlyThen == [][applied' < applied => GivenUp \/ \E l \in Loops : Overtaken(l)]_vars

\* A step that changes which state the secondary holds is one of these.
LEMMA WhoApplies ==
  ASSUME SyncInv, [Next]_vars, applied' # applied
  PROVE  GivenUp \/ \E l \in Loops : pc[l] = "apply" /\ pc'[l] = "idle"
<1> USE DEF Goto, copyVars, loopVars
<1>1. ASSUME NEW x \in late, Land(x) PROVE GivenUp
  BY <1>1 DEF Land, GivenUp
<1>2. ASSUME NEW l \in Loops, Apply(l) \/ ApplyFails(l) PROVE pc[l] = "apply" /\ pc'[l] = "idle"
  BY <1>2 DEF Apply, ApplyFails, Finish, SyncInv, Basics
<1>3. ASSUME NEW l \in Loops,
             Request(l) \/ Answer(l) \/ AnswerFails(l) \/ CallFails(l) \/ Exit(l) \/ Receive(l) \/ Export(l)
      PROVE  FALSE
  BY <1>3 DEF Request, Answer, AnswerFails, Respond, CallFails, Finish, Exit, Receive, Export
<1>4. CASE Change \/ Stop \/ Stopped \/ Disconnect \/ Redial \/ UNCHANGED vars
  BY <1>4 DEF Change, Stop, Stopped, Disconnect, Redial, vars
<1> QED
  BY <1>1, <1>2, <1>3, <1>4 DEF Next

\* One step of GoesBackOnlyThen.
LEMMA GoesBackStep ==
  ASSUME SyncInv, [Next]_vars, applied' < applied, ~GivenUp
  PROVE  \E l \in Loops : Overtaken(l)
<1>1. applied \in Nat /\ applied' \in Nat
  <2>1. SyncInv'
    BY SyncStep
  <2> QED
    BY <2>1, Constants DEF SyncInv, Basics
<1>2. PICK l \in Loops : pc[l] = "apply" /\ pc'[l] = "idle"
  BY <1>1, WhoApplies
<1>3. applied' >= asked[l]
  BY <1>1, <1>2, FreshStep
<1>4. asked[l] \in Nat
  BY Constants DEF SyncInv, Basics
<1> QED
  BY <1>1, <1>2, <1>3, <1>4 DEF Overtaken

\* Nothing but a late effect or an overtaken loop takes a secondary back.
THEOREM OnlyLateOrOvertaken == Spec => GoesBackOnlyThen
<1>1. SyncInv /\ [Next]_vars =>
        (applied' < applied => GivenUp \/ \E l \in Loops : Overtaken(l))
  BY GoesBackStep
<1> QED
  BY <1>1, SyncInit, SyncStep, PTL DEF Spec, GoesBackOnlyThen

(***************************************************************************)
(* One loop alone, which is what the socket daemon has and what a leader   *)
(* daemon is meant to have, never overtakes itself: while its call is      *)
(* under way nothing newer than the call is there to be replaced.          *)
(***************************************************************************)
Alone == daemon = "socket" \/ Loops = {SocketLoop}

InFlight(l) == pc[l] \in {"asked", "answered", "apply"}

AloneInv ==
  Alone => \A l \in Loops : InFlight(l) =>
             l = SocketLoop /\ applied <= asked[l] /\ \A x \in late : x.from <= asked[l]

NeverGoesBackAlone == [][Alone /\ applied' < applied => GivenUp]_vars

\* In the initial states no call is under way.
LEMMA AloneInit == Init => AloneInv
  BY DEF Init, AloneInv, InFlight

\* Every step keeps the invariant.
LEMMA AloneStep == SyncInv /\ AloneInv /\ [Next]_vars => AloneInv'
<1> SUFFICES ASSUME SyncInv, AloneInv, [Next]_vars, Alone' PROVE AloneInv'
  BY DEF AloneInv
<1> USE DEF Goto, InFlight, hostVars, copyVars, loopVars
<1>0. /\ Alone
      /\ pc \in [Loops -> {"idle", "asked", "cut", "answered", "apply", "stopped"}]
      /\ asked \in [Loops -> 0..version] /\ applied \in 0..version /\ version \in Nat
      /\ \A x \in late : x.from \in 1..version
  <2>1. daemon' = daemon
    BY DEF Next, Change, Stop, Stopped, Disconnect, Redial, Request, Answer, AnswerFails, Respond, CallFails, Fault, Abandon, Finish,
           Exit, Receive, Export, Apply, ApplyFails, Land, vars
  <2> QED
    BY <2>1, Constants DEF Alone, SyncInv, Basics, Waiting
<1>1. \A l \in Loops : InFlight(l) =>
        l = SocketLoop /\ applied <= asked[l] /\ \A x \in late : x.from <= asked[l]
  BY <1>0 DEF AloneInv
<1>2. CASE Change \/ Stop \/ Stopped \/ UNCHANGED vars
  BY <1>1, <1>2 DEF Change, Stop, Stopped, vars, AloneInv
<1>9. CASE Disconnect \/ Redial
  <2>1. UNCHANGED <<asked, applied, late>> /\ \A l \in Loops : pc'[l] \in {"cut", pc[l]}
    BY <1>9 DEF Disconnect, Redial, CutCalls
  <2> QED
    BY <1>1, <2>1 DEF AloneInv
<1>3. ASSUME NEW l \in Loops, Request(l) PROVE AloneInv'
  <2>1. l = SocketLoop
    BY <1>0, <1>3 DEF Request, Runs, Alone, SyncInv, Basics
  <2>2. asked'[l] = version /\ UNCHANGED <<applied, late>>
    BY <1>0, <1>3 DEF Request
  <2>3. \A k \in Loops : k # l => ~InFlight(k)'
    BY <1>0, <1>1, <1>3, <2>1 DEF Request
  <2> QED
    BY <1>0, <2>1, <2>2, <2>3 DEF AloneInv
<1>4. ASSUME NEW l \in Loops, Answer(l) \/ AnswerFails(l) \/ Exit(l) \/ Export(l) PROVE AloneInv'
  <2>1. UNCHANGED <<asked, applied, late>>
    BY <1>4 DEF Answer, AnswerFails, Respond, Exit, Export
  <2>2. \A k \in Loops : InFlight(k)' => InFlight(k)
    BY <1>0, <1>4 DEF Answer, AnswerFails, Respond, Exit, Export
  <2> QED
    BY <1>1, <2>1, <2>2 DEF AloneInv
<1>5. ASSUME NEW l \in Loops, Finish(l), InFlight(l) PROVE AloneInv'
  BY <1>0, <1>1, <1>5 DEF Finish, AloneInv
<1>6. ASSUME NEW l \in Loops, Receive(l) PROVE AloneInv'
  <2>1. CASE Finish(l)
    BY <1>5, <1>6, <2>1 DEF Receive
  <2>2. CASE UNCHANGED asked /\ Goto(l, "apply")
    BY <1>0, <1>1, <1>6, <2>2 DEF Receive, AloneInv
  <2> QED
    BY <1>6, <2>1, <2>2 DEF Receive
<1>7. ASSUME NEW l \in Loops, CallFails(l) \/ Apply(l) \/ ApplyFails(l) PROVE AloneInv'
  <2>1. CASE InFlight(l)
    BY <1>5, <1>7, <2>1 DEF CallFails, Apply, ApplyFails
  <2>2. CASE ~InFlight(l)
    <3>1. Finish(l) /\ UNCHANGED copyVars
      BY <1>7, <2>2 DEF CallFails, Apply, ApplyFails
    <3> QED
      BY <1>0, <1>1, <3>1 DEF Finish, AloneInv
  <2> QED
    BY <2>1, <2>2
<1>8. ASSUME NEW x \in late, Land(x) PROVE AloneInv'
  BY <1>1, <1>8 DEF Land, AloneInv
<1> QED
  BY <1>2, <1>3, <1>4, <1>6, <1>7, <1>8, <1>9 DEF Next

\* With one loop a secondary goes back only if a call that was given up takes
\* effect after all.
THEOREM OneLoopKeepsOrder == Spec => NeverGoesBackAlone
<1>1. SyncInv /\ AloneInv /\ [Next]_vars => (Alone /\ applied' < applied => GivenUp)
  <2> SUFFICES ASSUME SyncInv, AloneInv, [Next]_vars, Alone, applied' < applied, ~GivenUp PROVE FALSE
    OBVIOUS
  <2>1. PICK l \in Loops : Overtaken(l)
    BY GoesBackStep
  <2>2. applied <= asked[l] /\ asked[l] < applied
    BY <2>1 DEF AloneInv, InFlight, Overtaken
  <2>3. applied \in Nat /\ asked[l] \in Nat
    BY Constants DEF SyncInv, Basics
  <2> QED
    BY <2>2, <2>3
<1> QED
  BY <1>1, SyncInit, SyncStep, AloneInit, AloneStep, PTL DEF Spec, NeverGoesBackAlone

(***************************************************************************)
(* "For good": once the secondary holds the state that the primary is in,  *)
(* and nobody holds an older one that could still be applied, it keeps     *)
(* that state until the primary changes, whatever loops and failures do.   *)
(* This is the half of CatchesUp that fairness has no part in.             *)
(***************************************************************************)
Settled ==
  /\ applied = version
  /\ \A x \in late : x.from = version
  /\ \A l \in Loops : taken[l] \in {0, version}

SettledStays == [][Settled /\ version' = version => Settled']_vars

\* Every step keeps it, but a change of the primary.
LEMMA SettledStep ==
  ASSUME SyncInv, [Next]_vars, Settled, version' = version
  PROVE  Settled'
<1> USE DEF Settled, Goto, hostVars, copyVars, loopVars
<1>0. taken \in [Loops -> 0..version] /\ version \in Nat /\ version > 0
  BY Constants DEF SyncInv, Basics
<1>1. CASE Change
  BY <1>0, <1>1 DEF Change
<1>2. CASE Stop \/ Stopped \/ Disconnect \/ Redial \/ UNCHANGED vars
  BY <1>2 DEF Stop, Stopped, Disconnect, Redial, vars
<1>3. ASSUME NEW l \in Loops,
             Request(l) \/ AnswerFails(l) \/ Exit(l)
      PROVE  Settled'
  BY <1>3 DEF Request, AnswerFails, Respond, Exit
<1>4. ASSUME NEW l \in Loops, Answer(l) \/ Export(l) PROVE Settled'
  BY <1>0, <1>4 DEF Answer, Respond, Export
<1>5. ASSUME NEW l \in Loops, CallFails(l) \/ Receive(l) PROVE Settled'
  BY <1>0, <1>5 DEF CallFails, Receive, Finish
<1>6. ASSUME NEW l \in Loops, Apply(l) \/ ApplyFails(l) PROVE Settled'
  <2>1. taken[l] = version
    BY <1>0, <1>6 DEF Apply, ApplyFails, SyncInv, Carried
  <2>2. taken' = [taken EXCEPT ![l] = 0]
    BY <1>6 DEF Apply, ApplyFails, Finish
  <2>3. applied' = version /\ \A x \in late' : x.from = version
    BY <1>6, <2>1 DEF Apply, ApplyFails, Replace
  <2> QED
    BY <1>0, <2>2, <2>3
<1>7. ASSUME NEW x \in late, Land(x) PROVE Settled'
  BY <1>7 DEF Land
<1> QED
  BY <1>1, <1>2, <1>3, <1>4, <1>5, <1>6, <1>7 DEF Next

\* A secondary that has caught up stays with the state of the primary for good.
THEOREM CaughtUpForGood == Spec => [](Settled => copy = Form(Current)) /\ SettledStays
<1>1. SyncInv => (Settled => copy = Form(Current))
  <2> SUFFICES ASSUME SyncInv, Settled PROVE copy = Form(Current)
    OBVIOUS
  <2>1. applied = version /\ version # 0
    BY Constants DEF Settled, SyncInv, Basics
  <2> QED
    BY <2>1 DEF SyncInv, Basics, Current
<1>2. SyncInv /\ [Next]_vars => (Settled /\ version' = version => Settled')
  BY SettledStep
<1> QED
  BY <1>1, <1>2, SyncInit, SyncStep, PTL DEF Spec, SettledStays
=============================================================================
