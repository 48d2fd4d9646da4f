---------------------------- MODULE MCStateSync ----------------------------
(* An instance of StateSync for TLC: states that differ in every field, at *)
(* the boundaries of the ports, with all forms of DestinationIP.           *)
EXTENDS StateSync

CONSTANTS a, b, l1, l2

Entry(x, y, p, q) ==
  [Key |-> [DestinationIP |-> x, DestinationPort |-> p, SourceIP |-> y, SourcePort |-> q],
   Value |-> [LastSeen |-> y, TranslateIP |-> x, TranslatePort |-> q]]

Ports(x, d) == [Bitmap |-> x, DestinationIP |-> d, LastChunk |-> 65535, NATIP |-> b]

NoTables == [IPs |-> <<>>, TCPInbound |-> <<>>, TCPOutbound |-> <<>>,
             UDPInbound |-> <<>>, UDPOutbound |-> <<>>, NATPorts |-> <<>>]

Full == [IPs |-> <<a, b>>,
         TCPInbound |-> <<Entry(a, b, 0, 65535)>>, TCPOutbound |-> <<>>,
         UDPInbound |-> <<>>, UDPOutbound |-> <<Entry(b, b, 443, 65534)>>,
         NATPorts |-> <<Ports(a, Null), Ports(a, Blank)>>]

Other == [IPs |-> <<>>,
          TCPInbound |-> <<>>, TCPOutbound |-> <<Entry(b, a, 65535, 1), Entry(a, b, 1, 0)>>,
          UDPInbound |-> <<Entry(a, a, 53, 53)>>, UDPOutbound |-> <<>>,
          NATPorts |-> <<Ports(b, a)>>]

SomeStates == <<Other, Full, NoTables>>
=============================================================================
