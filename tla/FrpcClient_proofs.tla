--------------------------- MODULE FrpcClient_proofs ---------------------------
(* Theorems about FrpcClient, for any number of packet ids and of calls, and  *)
(* for each of the three methods.                                             *)
EXTENDS FrpcClient, TLAPS

(***************************************************************************)
(* The messages.                                                           *)
(***************************************************************************)
LEMMA RequestRoundTrip == \A c : RequestIdOf(EncodeRequest(c)) = c
<1> SUFFICES ASSUME NEW c PROVE RequestIdOf(EncodeRequest(c)) = c
  OBVIOUS
<1>1. CASE Method = "SyncState"
  BY <1>1 DEF RequestIdOf, EncodeRequest, EncodeSyncStateRequest, DecodeSyncStateRequest, Fields
<1>2. CASE Method = "HealthCheck"
  BY <1>2 DEF RequestIdOf, EncodeRequest, EncodeHealthCheckRequest, DecodeHealthCheckRequest, Fields
<1>3. CASE Method = "Heartbeat"
  BY <1>3 DEF RequestIdOf, EncodeRequest, EncodeHeartbeatRequest, DecodeHeartbeatRequest, Fields
<1> QED
  BY <1>1, <1>2, <1>3, MethodAssumption DEF MethodAssumption

(***************************************************************************)
(* A response is decoded as it was encoded, unless it carries an error: it *)
(* has the id of the request it answers.                                   *)
(***************************************************************************)
LEMMA AnswerRoundTrip ==
  ASSUME NEW r
  PROVE  LET res == DecodeAnswer(EncodeAnswer(r))
         IN  res.error = Null => res.RequestId = r
<1> DEFINE res == DecodeAnswer(EncodeAnswer(r))
<1>1. CASE Method = "SyncState"
  <2> DEFINE f == <<r, r \notin Refused, IF r \in Refused THEN Failure ELSE Blank, EncodeState(Null)>>
  <2>1. EncodeAnswer(r) = Fields(f)
    BY <1>1 DEF EncodeAnswer, EncodeSyncStateResponse
  <2>2. DecodeAnswer(Fields(f)).RequestId = f[1]
    BY <1>1 DEF DecodeAnswer, DecodeSyncStateResponse, Fields
  <2> QED
    BY <2>1, <2>2
<1>2. CASE Method = "HealthCheck"
  BY <1>2 DEF EncodeAnswer, DecodeAnswer, EncodeHealthCheckResponse, DecodeHealthCheckResponse, Fields
<1>3. CASE Method = "Heartbeat"
  <2>1. CASE r \in Refused
    <3>1. Failure # Null
      BY IdAssumption, TextAssumption DEF IdAssumption, TextAssumption
    <3>2. EncodeAnswer(r) = ErrorItem(Failure)
      BY <1>3, <2>1, <3>1 DEF EncodeAnswer, EncodeHeartbeatResponse
    <3>3. DecodeAnswer(ErrorItem(Failure)).error = Failure
      BY <1>3 DEF DecodeAnswer, DecodeHeartbeatResponse, ErrorItem, ErrorOf
    <3> QED
      BY <3>1, <3>2, <3>3
  <2>2. CASE r \notin Refused
    BY <1>3, <2>2 DEF EncodeAnswer, DecodeAnswer, EncodeHeartbeatResponse, DecodeHeartbeatResponse, Fields
  <2> QED
    BY <2>1, <2>2
<1> QED
  BY <1>1, <1>2, <1>3, MethodAssumption DEF MethodAssumption

\* What the assumptions say of the numbers.
LEMMA Sizes == IdSpace \in Nat \ {0} /\ MaxCalls \in Nat /\ 0 \in Ids
  BY IdAssumption DEF IdAssumption, Ids

(***************************************************************************)
(* The inductive invariant.  Numbered: the calls that have begun are those *)
(* up to some k, the ids of the last IdSpace of them count back from the   *)
(* counter, and calls less than IdSpace apart have different ids.  The     *)
(* rest says that the call a packet, an answer or a table entry belongs to *)
(* has the id under which it is found, and that an answer exists once.     *)
(***************************************************************************)
Back(x, j) == IF x >= j THEN x - j ELSE x - j + IdSpace

UpTo(k) ==
  /\ \A c \in Calls : Started(c) <=> c <= k
  /\ \A d \in Calls : (d <= k /\ k - d < IdSpace) => id[d] = Back(next, k - d)
  /\ \A c, d \in Calls : (d < c /\ c <= k /\ c - d < IdSpace) => id[c] # id[d]

Numbered == \E k \in 0..MaxCalls : UpTo(k)

Sent(c) == pc[c] \in {"wait", "delete", "done"}
Reply(d) == DecodeAnswer(EncodeAnswer(d))
Shares(c, d) == Started(c) /\ Started(d) /\ id[c] = id[d]

Types ==
  /\ conn \in {"open", "closed"} /\ cause \in {Null, Failure}
  /\ next \in Ids /\ inflight \in [Ids -> {0} \cup Calls]
  /\ pc \in [Calls -> {"new", "register", "write", "wait", "delete", "done"}]
  /\ id \in [Calls -> Ids]
  /\ ctxDone \in BOOLEAN
  /\ DOMAIN channel = Calls /\ DOMAIN result = Calls

Packets ==
  /\ \A p \in requests :
       p.of \in Calls /\ Sent(p.of) /\ p = [id |-> id[p.of], of |-> p.of, body |-> EncodeRequest(p.of)]
  /\ \A p \in answers :
       p.of \in Calls /\ Sent(p.of) /\ p = [id |-> id[p.of], of |-> p.of, body |-> EncodeAnswer(p.of)]

Table == \A i \in Ids : inflight[i] # 0 =>
           pc[inflight[i]] \notin {"new", "register"} /\ id[inflight[i]] = i

Reading == reading = <<>> \/ \E c, d \in Calls :
             reading = <<[call |-> c, of |-> d, res |-> Reply(d)]>> /\ Sent(d) /\ Shares(c, d)

Channels == \A c \in Calls : channel[c] = <<>> \/ \E d \in Calls :
              channel[c] = <<[of |-> d, res |-> Reply(d)]>> /\ Sent(d) /\ Shares(c, d)

Results == \A c \in Calls :
  /\ pc[c] \notin {"delete", "done"} => result[c].of = 0 /\ result[c].res = Null
  /\ pc[c] \in {"delete", "done"} => result[c].of # 0
  /\ result[c].res # Null => \E d \in Calls :
       result[c] = [of |-> d, res |-> Reply(d), err |-> Reply(d).error] /\ Shares(c, d)

Once ==
  /\ \A p \in requests, q \in answers : p.of # q.of
  /\ reading # <<>> => \A p \in requests \cup answers : p.of # reading[1].of
  /\ \A c \in Calls : channel[c] # <<>> =>
       /\ \A p \in requests \cup answers : p.of # channel[c][1].of
       /\ reading # <<>> => reading[1].of # channel[c][1].of

IInv == Types /\ Numbered /\ Packets /\ Table /\ Reading /\ Channels /\ Results /\ Once

\* Two calls that share a packet id are a full turn of the counter apart.
LEMMA DifferentIds ==
  ASSUME IInv, NEW c \in Calls, NEW d \in Calls, Shares(c, d), c # d
  PROVE  FarApart(c, d)
<1>1. PICK k \in 0..MaxCalls : UpTo(k)
  BY DEF IInv, Numbered
<1>2. c <= k /\ d <= k /\ id[c] = id[d] /\ c \in Nat /\ d \in Nat /\ IdSpace \in Nat
  BY <1>1, Sizes DEF Shares, UpTo, Calls
<1>3. ~(d < c /\ c - d < IdSpace) /\ ~(c < d /\ d - c < IdSpace)
  BY <1>1, <1>2 DEF UpTo
<1> QED
  BY <1>2, <1>3 DEF FarApart

\* Then one of them came after the counter had wrapped.
LEMMA FarIsWrapped ==
  ASSUME NEW c \in Calls, NEW d \in Calls, FarApart(c, d)
  PROVE  c > IdSpace \/ d > IdSpace
  BY Sizes DEF FarApart, Calls

(***************************************************************************)
(* What follows from the invariant.                                        *)
(***************************************************************************)
LEMMA InvTypes == IInv => TypeOK
<1> SUFFICES ASSUME IInv PROVE TypeOK
  OBVIOUS
<1>1. \A c \in Calls : result[c].of # 0 <=> pc[c] \in {"delete", "done"}
  BY DEF IInv, Results
<1>2. \A p \in requests \cup answers : p.id \in Ids /\ p.of \in Calls
  <2>1. ASSUME NEW p \in requests PROVE p.id \in Ids /\ p.of \in Calls
    <3>1. p.of \in Calls /\ p.id = id[p.of]
      BY <2>1 DEF IInv, Packets
    <3> QED
      BY <3>1 DEF IInv, Types
  <2>2. ASSUME NEW p \in answers PROVE p.id \in Ids /\ p.of \in Calls
    <3>1. p.of \in Calls /\ p.id = id[p.of]
      BY <2>2 DEF IInv, Packets
    <3> QED
      BY <3>1 DEF IInv, Types
  <2> QED
    BY <2>1, <2>2
<1>3. reading # <<>> => reading[1].call \in Calls
  BY DEF IInv, Reading
<1> QED
  BY <1>1, <1>2, <1>3 DEF IInv, Types, TypeOK

\* An answer that a call returns is its own, or that of a call with its id.
LEMMA InvOwn == IInv => OwnAnswer
<1> SUFFICES ASSUME IInv, NEW c \in Calls, Answered(c)
             PROVE  /\ result[c].of = c \/ FarApart(c, result[c].of)
                    /\ result[c].err = Null => result[c].res.RequestId = result[c].of
  BY DEF OwnAnswer
<1>1. PICK d \in Calls :
        result[c] = [of |-> d, res |-> Reply(d), err |-> Reply(d).error] /\ Shares(c, d)
  BY DEF IInv, Results, Answered
<1>2. result[c].of = d /\ result[c].res = Reply(d) /\ result[c].err = Reply(d).error
  BY <1>1
<1> QED
  BY <1>1, <1>2, DifferentIds, AnswerRoundTrip DEF Reply

\* A channel that is full when the handler has an answer for it is one with two owners.
LEMMA InvReader == IInv => ReaderIsFree
<1> SUFFICES ASSUME IInv, reading # <<>>, channel[reading[1].call] # <<>>
             PROVE  \E d \in Calls : Started(d) /\ d > IdSpace
  BY DEF ReaderIsFree
<1>1. PICK c \in Calls, d \in Calls :
        reading = <<[call |-> c, of |-> d, res |-> Reply(d)]>> /\ Sent(d) /\ Shares(c, d)
  BY DEF IInv, Reading
<1>2. reading[1].call = c /\ reading[1].of = d
  BY <1>1
<1>3. PICK e \in Calls : channel[c] = <<[of |-> e, res |-> Reply(e)]>> /\ Shares(c, e)
  BY <1>2 DEF IInv, Channels
<1>4. channel[c][1].of = e
  BY <1>3
<1>5. d # e
  BY <1>2, <1>3, <1>4 DEF IInv, Once
<1>6. Shares(d, e)
  BY <1>1, <1>3 DEF Shares
<1>7. d > IdSpace \/ e > IdSpace
  BY <1>5, <1>6, DifferentIds, FarIsWrapped
<1> QED
  BY <1>6, <1>7 DEF Shares

(***************************************************************************)
(* The invariant is inductive.                                             *)
(***************************************************************************)
LEMMA InvInit == Init => IInv
<1> SUFFICES ASSUME Init PROVE IInv
  OBVIOUS
<1>1. Types
  BY Sizes DEF Init, Types
<1>2. Numbered
  <2>1. UpTo(0)
    BY DEF Init, UpTo, Started, Calls
  <2> QED
    BY <2>1, Sizes DEF Numbered
<1>3. Packets /\ Table /\ Reading /\ Channels /\ Results /\ Once
  BY DEF Init, Packets, Table, Reading, Channels, Results, Once
<1> QED
  BY <1>1, <1>2, <1>3 DEF IInv

\* The counter stays a packet id.
LEMMA NextIdType == \A i \in Ids : NextId(i) \in Ids
  BY Sizes DEF Ids, NextId

\* Only TakeId touches what Numbered is about.
LEMMA NumberedKept ==
  ASSUME Numbered, next' = next, id' = id, \A c \in Calls : Started(c)' <=> Started(c)
  PROVE  Numbered'
<1>1. PICK k \in 0..MaxCalls : UpTo(k)
  BY DEF Numbered
<1>2. UpTo(k)'
  BY <1>1 DEF UpTo, Back
<1> QED
  BY <1>2 DEF Numbered

\* The next call gets the next id.
LEMMA NumberedTakeId ==
  ASSUME IInv, NEW c \in Calls, TakeId(c)
  PROVE  Numbered'
<1>1. PICK k \in 0..MaxCalls : UpTo(k)
  BY DEF IInv, Numbered
<1>2. /\ pc[c] = "new" /\ \A d \in 1..(c - 1) : pc[d] # "new"
      /\ pc' = [pc EXCEPT ![c] = "register"]
      /\ next' = NextId(next) /\ id' = [id EXCEPT ![c] = NextId(next)]
      /\ DOMAIN pc = Calls /\ DOMAIN id = Calls /\ next \in Ids
  BY DEF TakeId, Goto, IInv, Types
<1>3. k \in Nat /\ c \in Nat /\ c >= 1 /\ c <= MaxCalls /\ MaxCalls \in Nat /\ IdSpace \in Nat \ {0}
  BY Sizes DEF Calls
<1>4. c = k + 1
  <2>1. c > k
    BY <1>1, <1>2, <1>3 DEF UpTo, Started
  <2>2. CASE c > k + 1
    <3>1. k + 1 \in Calls /\ k + 1 \in 1..(c - 1)
      BY <1>3, <2>2 DEF Calls
    <3> QED
      BY <1>1, <1>2, <1>3, <3>1 DEF UpTo, Started
  <2> QED
    BY <1>3, <2>1, <2>2
<1>5. \A d \in Calls : Started(d)' <=> d <= c
  BY <1>1, <1>2, <1>3, <1>4 DEF UpTo, Started, Calls
<1>6. \A d \in Calls : d # c => id'[d] = id[d]
  BY <1>2
<1>7. \A j \in Nat : j + 1 < IdSpace =>
        /\ Back(next, j) = IF next' >= j + 1 THEN next' - (j + 1) ELSE next' - (j + 1) + IdSpace
        /\ Back(next, j) # next'
  <2> SUFFICES ASSUME NEW j \in Nat, j + 1 < IdSpace
               PROVE  /\ Back(next, j) = IF next' >= j + 1 THEN next' - (j + 1) ELSE next' - (j + 1) + IdSpace
                      /\ Back(next, j) # next'
    OBVIOUS
  <2>1. next \in Nat /\ next < IdSpace /\ IdSpace \in Nat
    BY <1>2, <1>3 DEF Ids
  <2>2. CASE next + 1 = IdSpace
    <3>1. next' = 0
      BY <1>2, <2>2 DEF NextId
    <3> QED
      BY <2>1, <2>2, <3>1 DEF Back
  <2>3. CASE next + 1 # IdSpace
    <3>1. next' = next + 1
      BY <1>2, <2>3 DEF NextId
    <3> QED
      BY <2>1, <2>3, <3>1 DEF Back
  <2> QED
    BY <2>2, <2>3
<1> DEFINE back(j) == IF next' >= j THEN next' - j ELSE next' - j + IdSpace
<1>8. \A d \in Calls : (d <= c /\ c - d < IdSpace) => id'[d] = back(c - d)
  <2>1. ASSUME NEW d \in Calls, d <= k, c - d < IdSpace PROVE id'[d] = back(c - d)
    <3>1. k - d \in Nat /\ (k - d) + 1 = c - d /\ k - d < IdSpace /\ d # c
      BY <1>3, <1>4, <2>1 DEF Calls
    <3>2. id'[d] = Back(next, k - d)
      BY <1>1, <1>6, <2>1, <3>1 DEF UpTo
    <3> QED
      BY <1>7, <2>1, <3>1, <3>2
  <2>2. id'[c] = back(c - c)
    <3>1. id'[c] = next' /\ c - c = 0 /\ next' \in Nat
      BY <1>2, <1>3, <1>4, NextIdType DEF Ids
    <3> QED
      BY <3>1
  <2> QED
    BY <1>3, <1>4, <2>1, <2>2 DEF Calls
<1>9. \A e, d \in Calls : (d < e /\ e <= c /\ e - d < IdSpace) => id'[e] # id'[d]
  <2>1. ASSUME NEW e \in Calls, NEW d \in Calls, d < e, e <= k, e - d < IdSpace PROVE id'[e] # id'[d]
    <3>1. d # c /\ e # c
      BY <1>3, <1>4, <2>1 DEF Calls
    <3> QED
      BY <1>1, <1>6, <2>1, <3>1 DEF UpTo
  <2>2. ASSUME NEW d \in Calls, d < c, c - d < IdSpace PROVE id'[c] # id'[d]
    <3>1. k - d \in Nat /\ (k - d) + 1 < IdSpace /\ d <= k /\ d # c
      BY <1>3, <1>4, <2>2 DEF Calls
    <3>2. id'[d] = Back(next, k - d)
      BY <1>1, <1>3, <1>6, <3>1 DEF UpTo
    <3>3. id'[c] = next'
      BY <1>2
    <3> QED
      BY <1>7, <3>1, <3>2, <3>3
  <2> QED
    BY <1>3, <1>4, <2>1, <2>2 DEF Calls
<1>10. UpTo(c)'
  BY <1>5, <1>8, <1>9 DEF UpTo, Back
<1> QED
  BY <1>3, <1>10 DEF Numbered

\* No answer is there twice as long as answers only move on.
LEMMA OnceKept ==
  ASSUME Once, requests' \subseteq requests, answers' \subseteq answers,
         reading' = <<>> \/ reading' = reading,
         \A c \in Calls : channel'[c] = <<>> \/ channel'[c] = channel[c]
  PROVE  Once'
  BY DEF Once

\* Every step keeps the invariant.
LEMMA InvStep == IInv /\ [Next]_vars => IInv'
<1> SUFFICES ASSUME IInv, [Next]_vars PROVE IInv'
  OBVIOUS
<1> USE DEF Goto, connVars, callVars, netVars
<1>0. Types /\ Numbered /\ Packets /\ Table /\ Reading /\ Channels /\ Results /\ Once
  BY DEF IInv
<1>1. ASSUME NEW c \in Calls, TakeId(c) PROVE IInv'
  <2>1. Numbered'
    BY <1>1, NumberedTakeId
  <2>2. /\ pc[c] = "new" /\ pc' = [pc EXCEPT ![c] = "register"]
        /\ id' = [id EXCEPT ![c] = NextId(next)] /\ next' = NextId(next)
        /\ UNCHANGED <<conn, cause, requests, answers, reading, inflight, channel, result, ctxDone>>
    BY <1>1 DEF TakeId
  <2>3. Types'
    BY <1>0, <2>2, NextIdType DEF Types
  <2>4. \A d \in Calls : Started(d) => d # c /\ pc'[d] = pc[d] /\ id'[d] = id[d] /\ Started(d)'
    BY <1>0, <2>2 DEF Types, Started
  <2>5. \A d \in Calls : Sent(d) => Started(d) /\ Sent(d)'
    BY <1>0, <2>2 DEF Types, Sent, Started
  <2>6. \A d, e \in Calls : Shares(d, e) => Shares(d, e)'
    BY <2>4 DEF Shares
  <2>7. Packets'
    BY <1>0, <2>2, <2>4, <2>5 DEF Packets, EncodeRequest, EncodeAnswer
  <2>8. Table'
    <3> SUFFICES ASSUME NEW i \in Ids, inflight[i] # 0
                 PROVE  pc'[inflight[i]] \notin {"new", "register"} /\ id'[inflight[i]] = i
      BY <2>2 DEF Table
    <3>1. inflight[i] \in Calls
      BY <1>0 DEF Types
    <3> QED
      BY <1>0, <2>4, <3>1 DEF Table, Started
  <2>9. Reading'
    BY <1>0, <2>2, <2>5, <2>6 DEF Reading, Reply
  <2>10. Channels'
    BY <1>0, <2>2, <2>5, <2>6 DEF Channels, Reply
  <2>11. Results'
    BY <1>0, <2>2, <2>6 DEF Results, Reply, Types
  <2>12. Once'
    BY <1>0, <2>2 DEF Once
  <2> QED
    BY <2>1, <2>3, <2>7, <2>8, <2>9, <2>10, <2>11, <2>12 DEF IInv
\* Every other step leaves the ids alone, and no call that has begun is new again.
<1>2. ASSUME next' = next, id' = id, Types',
             \A d \in Calls : Started(d)' <=> Started(d),
             \A d \in Calls : Sent(d) => Sent(d)'
      PROVE  /\ Numbered'
             /\ \A d, e \in Calls : Shares(d, e) => Shares(d, e)'
             /\ requests' \subseteq requests /\ answers' \subseteq answers => Packets'
             /\ reading' = reading => Reading'
             /\ (\A d \in Calls : channel'[d] = channel[d] \/ channel'[d] = <<>>) => Channels'
  <2>1. Numbered'
    BY <1>0, <1>2, NumberedKept
  <2>2. \A d, e \in Calls : Shares(d, e) => Shares(d, e)'
    BY <1>2 DEF Shares
  <2>3. requests' \subseteq requests /\ answers' \subseteq answers => Packets'
    BY <1>0, <1>2 DEF Packets, EncodeRequest, EncodeAnswer
  <2>4. reading' = reading => Reading'
    BY <1>0, <1>2, <2>2 DEF Reading, Reply
  <2>5. (\A d \in Calls : channel'[d] = channel[d] \/ channel'[d] = <<>>) => Channels'
    BY <1>0, <1>2, <2>2 DEF Channels, Reply
  <2> QED
    BY <2>1, <2>2, <2>3, <2>4, <2>5
<1>3. ASSUME NEW c \in Calls, Register(c) PROVE IInv'
  <2>1. /\ pc[c] = "register" /\ pc' = [pc EXCEPT ![c] = "write"]
        /\ inflight' = [inflight EXCEPT ![id[c]] = c]
        /\ UNCHANGED <<conn, cause, requests, answers, reading, next, id, channel, result, ctxDone>>
    BY <1>3 DEF Register
  <2>2. Types' /\ (\A d \in Calls : Started(d)' <=> Started(d)) /\ (\A d \in Calls : Sent(d) => Sent(d)')
    BY <1>0, <2>1 DEF Types, Started, Sent
  <2>3. Table'
    BY <1>0, <2>1 DEF Table, Types
  <2>4. Results'
    <3>1. \A d \in Calls : pc'[d] \in {"delete", "done"} <=> pc[d] \in {"delete", "done"}
      BY <1>0, <2>1 DEF Types
    <3>2. \A d, e \in Calls : Shares(d, e) => Shares(d, e)'
      BY <2>1, <2>2 DEF Shares
    <3> QED
      BY <1>0, <2>1, <3>1, <3>2 DEF Results, Reply
  <2>5. Once'
    BY <1>0, <2>1, OnceKept
  <2>6. Numbered' /\ Packets' /\ Reading' /\ Channels'
    BY <1>2, <2>1, <2>2
  <2> QED
    BY <2>2, <2>3, <2>4, <2>5, <2>6 DEF IInv
<1>4. ASSUME NEW c \in Calls, Write(c) PROVE IInv'
  <2> DEFINE p == [id |-> id[c], of |-> c, body |-> EncodeRequest(c)]
  <2>1. /\ pc[c] = "write" /\ pc' = [pc EXCEPT ![c] = "wait"]
        /\ requests' = requests \cup {p}
        /\ UNCHANGED <<conn, cause, answers, reading, next, inflight, id, channel, result, ctxDone>>
    BY <1>4 DEF Write, Packet
  <2>2. Types' /\ (\A d \in Calls : Started(d)' <=> Started(d)) /\ (\A d \in Calls : Sent(d) => Sent(d)')
    BY <1>0, <2>1 DEF Types, Started, Sent
  <2>3. Numbered' /\ Reading' /\ Channels'
    BY <1>2, <2>1, <2>2
  <2>4. p.of = c /\ ~Sent(c) /\ Sent(c)'
    BY <1>0, <2>1 DEF Sent, Types
  <2>5. Packets'
    <3>1. ASSUME NEW q \in requests'
          PROVE  q.of \in Calls /\ Sent(q.of)' /\ q = [id |-> id'[q.of], of |-> q.of, body |-> EncodeRequest(q.of)']
      <4>1. CASE q \in requests
        BY <1>0, <2>1, <2>2, <4>1 DEF Packets, EncodeRequest
      <4>2. CASE q = p
        BY <2>1, <2>4, <4>2 DEF EncodeRequest
      <4> QED
        BY <2>1, <3>1, <4>1, <4>2
    <3>2. ASSUME NEW q \in answers'
          PROVE  q.of \in Calls /\ Sent(q.of)' /\ q = [id |-> id'[q.of], of |-> q.of, body |-> EncodeAnswer(q.of)']
      BY <1>0, <2>1, <2>2, <3>2 DEF Packets, EncodeAnswer
    <3> QED
      BY <3>1, <3>2 DEF Packets
  <2>6. Table'
    BY <1>0, <2>1 DEF Table, Types
  <2>7. Results'
    <3>1. \A d \in Calls : pc'[d] \in {"delete", "done"} <=> pc[d] \in {"delete", "done"}
      BY <1>0, <2>1 DEF Types
    <3>2. \A d, e \in Calls : Shares(d, e) => Shares(d, e)'
      BY <2>1, <2>2 DEF Shares
    <3> QED
      BY <1>0, <2>1, <3>1, <3>2 DEF Results, Reply
  <2>8. Once'
    <3>1. \A q \in answers : q.of # c
      BY <1>0, <2>4 DEF Packets
    <3>2. reading # <<>> => reading[1].of # c
      BY <1>0, <2>4 DEF Reading
    <3>3. ASSUME NEW d \in Calls, channel[d] # <<>> PROVE channel[d][1].of # c
      <4>1. PICK e \in Calls : channel[d] = <<[of |-> e, res |-> Reply(e)]>> /\ Sent(e)
        BY <1>0, <3>3 DEF Channels
      <4>2. channel[d][1].of = e
        BY <4>1
      <4> QED
        BY <2>4, <4>1, <4>2
    <3> HIDE DEF p
    <3> QED
      BY <1>0, <2>1, <2>4, <3>1, <3>2, <3>3 DEF Once
  <2> QED
    BY <2>2, <2>3, <2>5, <2>6, <2>7, <2>8 DEF IInv
<1>5. ASSUME NEW c \in Calls,
             WriteFails(c) \/ SelectClosed(c) \/ SelectDone(c)
      PROVE  IInv'
  <2>1. PICK r \in {[of |-> c, res |-> Null, err |-> Failure], [of |-> c, res |-> Null, err |-> cause]} :
          /\ pc[c] \in {"write", "wait"} /\ pc' \in {[pc EXCEPT ![c] = "delete"], [pc EXCEPT ![c] = "done"]}
          /\ result' = [result EXCEPT ![c] = r]
          /\ conn' \in {"open", "closed"} /\ cause' \in {Null, Failure}
          /\ UNCHANGED <<requests, answers, reading, next, inflight, id, channel, ctxDone>>
    BY <1>0, <1>5 DEF WriteFails, SelectClosed, SelectDone, Returns, Types
  <2>2. Types' /\ (\A d \in Calls : Started(d)' <=> Started(d)) /\ (\A d \in Calls : Sent(d) => Sent(d)')
    BY <1>0, <2>1 DEF Types, Started, Sent
  <2>3. Numbered' /\ Packets' /\ Reading' /\ Channels' /\ (\A d, e \in Calls : Shares(d, e) => Shares(d, e)')
    BY <1>2, <2>1, <2>2
  <2>4. Table'
    BY <1>0, <2>1 DEF Table, Types
  <2>5. Results'
    <3>1. \A d \in Calls : d # c => pc'[d] = pc[d] /\ result'[d] = result[d]
      BY <1>0, <2>1 DEF Types
    <3>3. r.of = c /\ r.res = Null /\ c # 0
      BY <2>1 DEF Calls
    <3>2. pc'[c] \in {"delete", "done"} /\ result'[c] = r /\ r.of = c /\ r.res = Null /\ c # 0
      BY <1>0, <2>1, <3>3 DEF Types
    <3> QED
      BY <1>0, <2>3, <3>1, <3>2 DEF Results, Reply
  <2>6. Once'
    BY <1>0, <2>1, OnceKept
  <2> QED
    BY <2>2, <2>3, <2>4, <2>5, <2>6 DEF IInv
<1>6. ASSUME NEW c \in Calls, SelectAnswer(c) PROVE IInv'
  <2>1. /\ pc[c] = "wait" /\ channel[c] # <<>> /\ pc' = [pc EXCEPT ![c] = "delete"]
        /\ result' = [result EXCEPT ![c] = [of |-> channel[c][1].of, res |-> channel[c][1].res,
                                            err |-> channel[c][1].res.error]]
        /\ channel' = [channel EXCEPT ![c] = <<>>]
        /\ UNCHANGED <<conn, cause, requests, answers, reading, next, inflight, id, ctxDone>>
    BY <1>6 DEF SelectAnswer, Returns
  <2>2. Types' /\ (\A d \in Calls : Started(d)' <=> Started(d)) /\ (\A d \in Calls : Sent(d) => Sent(d)')
    BY <1>0, <2>1 DEF Types, Started, Sent
  <2>3. \A d \in Calls : channel'[d] = channel[d] \/ channel'[d] = <<>>
    BY <1>0, <2>1 DEF Types
  <2>4. Numbered' /\ Packets' /\ Reading' /\ Channels' /\ (\A d, e \in Calls : Shares(d, e) => Shares(d, e)')
    BY <1>2, <2>1, <2>2, <2>3
  <2>5. Table'
    BY <1>0, <2>1 DEF Table, Types
  <2>6. Results'
    <3>1. \A d \in Calls : d # c => pc'[d] = pc[d] /\ result'[d] = result[d]
      BY <1>0, <2>1 DEF Types
    <3>2. PICK d \in Calls : channel[c] = <<[of |-> d, res |-> Reply(d)]>> /\ Shares(c, d)
      BY <1>0, <2>1 DEF Channels
    <3>3. result'[c] = [of |-> d, res |-> Reply(d), err |-> Reply(d).error] /\ d # 0 /\ Shares(c, d)'
      BY <1>0, <2>1, <2>4, <3>2 DEF Types, Calls
    <3>4. pc'[c] = "delete"
      BY <1>0, <2>1 DEF Types
    <3> QED
      BY <1>0, <2>4, <3>1, <3>3, <3>4 DEF Results, Reply
  <2>7. Once'
    BY <1>0, <2>1, <2>3, OnceKept
  <2> QED
    BY <2>2, <2>4, <2>5, <2>6, <2>7 DEF IInv
<1>7. ASSUME NEW c \in Calls, Delete(c) PROVE IInv'
  <2>1. /\ pc[c] = "delete" /\ pc' = [pc EXCEPT ![c] = "done"]
        /\ inflight' = [inflight EXCEPT ![id[c]] = 0]
        /\ UNCHANGED <<conn, cause, requests, answers, reading, next, id, channel, result, ctxDone>>
    BY <1>7 DEF Delete
  <2>2. Types' /\ (\A d \in Calls : Started(d)' <=> Started(d)) /\ (\A d \in Calls : Sent(d) => Sent(d)')
    BY <1>0, <2>1 DEF Types, Started, Sent
  <2>3. Numbered' /\ Packets' /\ Reading' /\ Channels' /\ (\A d, e \in Calls : Shares(d, e) => Shares(d, e)')
    BY <1>2, <2>1, <2>2
  <2>4. Table'
    BY <1>0, <2>1 DEF Table, Types
  <2>5. Results'
    <3>1. \A d \in Calls : pc'[d] \in {"delete", "done"} <=> pc[d] \in {"delete", "done"}
      BY <1>0, <2>1 DEF Types
    <3> QED
      BY <1>0, <2>1, <2>3, <3>1 DEF Results, Reply
  <2>6. Once'
    BY <1>0, <2>1, OnceKept
  <2> QED
    BY <2>2, <2>3, <2>4, <2>5, <2>6 DEF IInv
<1>8. ASSUME NEW p \in requests, Serve(p) PROVE IInv'
  <2> DEFINE q == [id |-> id[p.of], of |-> p.of, body |-> EncodeAnswer(p.of)]
  <2>1. p.of \in Calls /\ Sent(p.of) /\ p = [id |-> id[p.of], of |-> p.of, body |-> EncodeRequest(p.of)]
    BY <1>0, <1>8 DEF Packets
  <2>2. RequestIdOf(p.body) = p.of
    BY <2>1, RequestRoundTrip
  <2>3. [p EXCEPT !.body = EncodeAnswer(RequestIdOf(p.body))] = q
    BY <2>1, <2>2
  <2>4. /\ requests' = requests \ {p} /\ answers' = answers \cup {q}
        /\ UNCHANGED <<conn, cause, next, inflight, pc, id, channel, result, ctxDone, reading>>
    BY <1>8, <2>3 DEF Serve
  <2>5. Types' /\ (\A d \in Calls : Started(d)' <=> Started(d)) /\ (\A d \in Calls : Sent(d) => Sent(d)')
    BY <1>0, <2>4 DEF Types, Started, Sent
  <2>6. Numbered' /\ Reading' /\ Channels' /\ (\A d, e \in Calls : Shares(d, e) => Shares(d, e)')
    BY <1>2, <2>4, <2>5
  <2>7. q.of = p.of
    OBVIOUS
  <2>8. Packets'
    <3>1. ASSUME NEW x \in requests'
          PROVE  x.of \in Calls /\ Sent(x.of)' /\ x = [id |-> id'[x.of], of |-> x.of, body |-> EncodeRequest(x.of)']
      BY <1>0, <2>4, <2>5, <3>1 DEF Packets, EncodeRequest
    <3>2. ASSUME NEW x \in answers'
          PROVE  x.of \in Calls /\ Sent(x.of)' /\ x = [id |-> id'[x.of], of |-> x.of, body |-> EncodeAnswer(x.of)']
      <4>1. CASE x \in answers
        BY <1>0, <2>4, <2>5, <4>1 DEF Packets, EncodeAnswer
      <4>2. CASE x = q
        BY <2>1, <2>4, <2>5, <2>7, <4>2 DEF EncodeAnswer
      <4> QED
        BY <2>4, <3>2, <4>1, <4>2
    <3> QED
      BY <3>1, <3>2 DEF Packets
  <2>9. Table' /\ Results'
    BY <1>0, <2>4, <2>6 DEF Table, Results, Reply
  <2>10. Once'
    <3>1. \A x \in requests : x # p => x.of # p.of
      <4> SUFFICES ASSUME NEW x \in requests, x.of = p.of PROVE x = p
        OBVIOUS
      <4>1. x = [id |-> id[x.of], of |-> x.of, body |-> EncodeRequest(x.of)]
        BY <1>0 DEF Packets
      <4> QED
        BY <2>1, <4>1
    <3> HIDE DEF q
    <3> QED
      BY <1>0, <1>8, <2>4, <2>7, <3>1 DEF Once
  <2> QED
    BY <2>5, <2>6, <2>8, <2>9, <2>10 DEF IInv
<1>9. ASSUME Close \/ Break \/ Cancel \/ Over \/ (\E p \in requests : Ignore(p))
               \/ (\E p \in answers : Discard(p)) \/ UNCHANGED vars
      PROVE  IInv'
  <2>1. /\ requests' \subseteq requests /\ answers' \subseteq answers
        /\ conn' \in {"open", "closed"} /\ cause' \in {Null, Failure} /\ ctxDone' \in BOOLEAN
        /\ UNCHANGED <<reading, next, inflight, pc, id, channel, result>>
    BY <1>0, <1>9 DEF Close, Break, Cancel, Over, Ignore, Discard, Types, vars
  <2>2. Types' /\ (\A d \in Calls : Started(d)' <=> Started(d)) /\ (\A d \in Calls : Sent(d) => Sent(d)')
    BY <1>0, <2>1 DEF Types, Started, Sent
  <2>3. Numbered' /\ Packets' /\ Reading' /\ Channels' /\ (\A d, e \in Calls : Shares(d, e) => Shares(d, e)')
    BY <1>2, <2>1, <2>2
  <2>4. Table' /\ Results'
    BY <1>0, <2>1, <2>3 DEF Table, Results, Reply
  <2>5. Once'
    BY <1>0, <2>1, OnceKept
  <2> QED
    BY <2>2, <2>3, <2>4, <2>5 DEF IInv
<1>10. ASSUME NEW p \in answers, Lookup(p) PROVE IInv'
  <2> DEFINE c == inflight[p.id]
             r == [call |-> c, of |-> p.of, res |-> DecodeAnswer(p.body)]
  <2>1. p.of \in Calls /\ Sent(p.of) /\ p = [id |-> id[p.of], of |-> p.of, body |-> EncodeAnswer(p.of)]
    BY <1>0, <1>10 DEF Packets
  <2>2. /\ reading = <<>> /\ c # 0 /\ answers' = answers \ {p} /\ reading' = <<r>>
        /\ UNCHANGED <<conn, cause, next, inflight, pc, id, channel, result, ctxDone, requests>>
    BY <1>10 DEF Lookup
  <2>3. p.id \in Ids /\ p.id = id[p.of]
    BY <1>0, <2>1 DEF Types
  <2>4. c \in Calls /\ Started(c) /\ id[c] = p.id
    BY <1>0, <2>2, <2>3 DEF Table, Types, Started
  <2>5. r = [call |-> c, of |-> p.of, res |-> Reply(p.of)] /\ Shares(c, p.of)
    BY <2>1, <2>3, <2>4 DEF Reply, Shares, Sent, Started
  <2>6. Types' /\ (\A d \in Calls : Started(d)' <=> Started(d)) /\ (\A d \in Calls : Sent(d) => Sent(d)')
    BY <1>0, <2>2 DEF Types, Started, Sent
  <2>7. Numbered' /\ Packets' /\ Channels' /\ (\A d, e \in Calls : Shares(d, e) => Shares(d, e)')
    BY <1>2, <2>2, <2>6
  <2>8. Reading'
    <3> HIDE DEF c, r
    <3> QED
      BY <2>1, <2>2, <2>4, <2>5, <2>6, <2>7 DEF Reading, Reply
  <2>9. Table' /\ Results'
    BY <1>0, <2>2, <2>7 DEF Table, Results, Reply
  <2>10. Once'
    <3>1. \A x \in answers : x # p => x.of # p.of
      <4> SUFFICES ASSUME NEW x \in answers, x.of = p.of PROVE x = p
        OBVIOUS
      <4>1. x = [id |-> id[x.of], of |-> x.of, body |-> EncodeAnswer(x.of)]
        BY <1>0 DEF Packets
      <4> QED
        BY <2>1, <4>1
    <3>2. r.of = p.of
      OBVIOUS
    <3>3. \A x \in requests : x.of # p.of
      BY <1>0, <1>10 DEF Once
    <3>4. \A d \in Calls : channel[d] # <<>> => channel[d][1].of # p.of
      BY <1>0, <1>10 DEF Once
    <3>5. reading' # <<>> => reading'[1].of = p.of
      BY <2>2, <3>2
    <3> HIDE DEF c, r
    <3> QED
      BY <1>0, <2>2, <3>1, <3>3, <3>4, <3>5 DEF Once
  <2> QED
    BY <2>6, <2>7, <2>8, <2>9, <2>10 DEF IInv
<1>11. CASE Deliver
  <2>1. PICK c \in Calls, d \in Calls :
          reading = <<[call |-> c, of |-> d, res |-> Reply(d)]>> /\ Sent(d) /\ Shares(c, d)
    BY <1>0, <1>11 DEF Reading, Deliver
  <2>2. /\ channel' = [channel EXCEPT ![c] = <<[of |-> d, res |-> Reply(d)]>>]
        /\ reading' = <<>> /\ reading # <<>> /\ reading[1].of = d
        /\ UNCHANGED <<conn, cause, requests, answers, next, inflight, pc, id, result, ctxDone>>
    BY <1>11, <2>1 DEF Deliver
  <2>3. Types' /\ (\A e \in Calls : Started(e)' <=> Started(e)) /\ (\A e \in Calls : Sent(e) => Sent(e)')
    BY <1>0, <2>2 DEF Types, Started, Sent
  <2>4. Numbered' /\ Packets' /\ (\A x, y \in Calls : Shares(x, y) => Shares(x, y)')
    BY <1>2, <2>2, <2>3
  <2>5. Reading'
    BY <2>2 DEF Reading
  <2>6. channel'[c] = <<[of |-> d, res |-> Reply(d)]>> /\ \A e \in Calls : e # c => channel'[e] = channel[e]
    BY <1>0, <2>2 DEF Types
  <2>7. Channels'
    BY <1>0, <2>1, <2>3, <2>4, <2>6 DEF Channels, Reply
  <2>8. Table' /\ Results'
    BY <1>0, <2>2, <2>4 DEF Table, Results, Reply
  <2>9. Once'
    <3>1. \A x \in requests \cup answers : x.of # d
      BY <1>0, <2>2 DEF Once
    <3>2. channel'[c][1].of = d
      BY <2>6
    <3> QED
      BY <1>0, <2>2, <2>6, <3>1, <3>2 DEF Once
  <2> QED
    BY <2>3, <2>4, <2>5, <2>7, <2>8, <2>9 DEF IInv
<1> QED
  BY <1>1, <1>3, <1>4, <1>5, <1>6, <1>7, <1>8, <1>9, <1>10, <1>11 DEF Next

(***************************************************************************)
(* Every variable keeps its type (TypeOK), for any number of ids and calls. *)
(***************************************************************************)
THEOREM TypeCorrect == Spec => []TypeOK
  BY InvInit, InvStep, InvTypes, PTL DEF Spec

(***************************************************************************)
(* A call is answered by its own response, or by one of a call at least    *)
(* IdSpace calls away (OwnAnswer).                                         *)
(***************************************************************************)
THEOREM AnswersAreOwn == Spec => []OwnAnswer
  BY InvInit, InvStep, InvOwn, PTL DEF Spec

(***************************************************************************)
(* The client's handler does not block before the ids wrap (ReaderIsFree). *)
(***************************************************************************)
THEOREM ReaderStaysFree == Spec => []ReaderIsFree
  BY InvInit, InvStep, InvReader, PTL DEF Spec

(***************************************************************************)
(* No entry of a call that is over is left while the connection is open    *)
(* (NoStaleEntry).                                                         *)
(***************************************************************************)
LEMMA StaleStep == IInv /\ NoStaleEntry /\ [Next]_vars => NoStaleEntry'
<1> SUFFICES ASSUME IInv, NoStaleEntry, [Next]_vars PROVE NoStaleEntry'
  OBVIOUS
<1>0. Types /\ Table
  BY DEF IInv
<1> USE DEF Goto, connVars, callVars, netVars
<1>1. ASSUME NEW c \in Calls,
             TakeId(c) \/ Register(c) \/ Write(c) \/ SelectAnswer(c) \/ SelectClosed(c) \/ SelectDone(c)
      PROVE  NoStaleEntry'
  <2>1. /\ conn' = conn /\ pc[c] # "done" /\ pc'[c] # "done"
        /\ \A d \in Calls : d # c => pc'[d] = pc[d]
        /\ \A i \in Ids : inflight'[i] = inflight[i] \/ inflight'[i] = c
    BY <1>0, <1>1 DEF TakeId, Register, Write, SelectAnswer, SelectClosed, SelectDone, Types
  <2>2. \A i \in Ids : inflight[i] \in {0} \cup Calls
    BY <1>0 DEF Types
  <2> QED
    BY <2>1, <2>2 DEF NoStaleEntry
<1>2. ASSUME NEW c \in Calls, WriteFails(c) PROVE NoStaleEntry'
  BY <1>2 DEF WriteFails, NoStaleEntry
<1>3. ASSUME NEW c \in Calls, Delete(c) PROVE NoStaleEntry'
  <2>1. /\ conn' = conn /\ inflight' = [inflight EXCEPT ![id[c]] = 0]
        /\ \A d \in Calls : d # c => pc'[d] = pc[d]
    BY <1>0, <1>3 DEF Delete, Types
  <2>2. ASSUME NEW i \in Ids, inflight'[i] # 0 PROVE inflight'[i] = inflight[i] /\ inflight[i] \in Calls \ {c}
    BY <1>0, <2>1, <2>2 DEF Types, Table
  <2> QED
    BY <2>1, <2>2 DEF NoStaleEntry
<1>4. ASSUME (\E p \in requests : Serve(p) \/ Ignore(p)) \/ (\E p \in answers : Lookup(p) \/ Discard(p))
               \/ Deliver \/ Cancel \/ Close \/ Break \/ Over \/ UNCHANGED vars
      PROVE  NoStaleEntry'
  <2>1. UNCHANGED <<pc, inflight>> /\ conn' \in {conn, "closed"}
    BY <1>4 DEF Serve, Ignore, Lookup, Discard, Deliver, Cancel, Close, Break, Over, vars
  <2> QED
    BY <2>1 DEF NoStaleEntry
<1> QED
  BY <1>1, <1>2, <1>3, <1>4 DEF Next

\* While the connection is open the table holds no call that is over (NoStaleEntry).
THEOREM TableDoesNotGrow == Spec => []NoStaleEntry
<1>1. Init => NoStaleEntry
  BY DEF Init, NoStaleEntry
<1> QED
  BY <1>1, InvInit, InvStep, StaleStep, PTL DEF Spec

(***************************************************************************)
(* A call that waits is found in the table, unless a call IdSpace calls    *)
(* away has taken or deleted its entry (WaitingIsRegistered).              *)
(***************************************************************************)
LEMMA RegisteredStep == IInv /\ WaitingIsRegistered /\ [Next]_vars => WaitingIsRegistered'
<1> SUFFICES ASSUME IInv, WaitingIsRegistered, [Next]_vars PROVE WaitingIsRegistered'
  OBVIOUS
<1>0. Types /\ Table
  BY DEF IInv
<1> USE DEF Goto, connVars, callVars, netVars
\* What a step has to leave alone.
<1>1. ASSUME \A d \in Calls : Started(d) => Started(d)' /\ id'[d] = id[d],
             NEW c \in Calls,
             \A d \in Calls : pc'[d] \in {"write", "wait"} => d = c \/ pc[d] \in {"write", "wait"},
             pc'[c] \in {"write", "wait"} => inflight'[id'[c]] = c \/ (inflight' = inflight /\ pc[c] \in {"write", "wait"}),
             \A i \in Ids : inflight'[i] # inflight[i] => i = id[c] /\ Started(c)
      PROVE  WaitingIsRegistered'
  <2> SUFFICES ASSUME NEW d \in Calls, pc'[d] \in {"write", "wait"}
               PROVE  inflight'[id'[d]] = d \/ \E e \in Calls : Started(e)' /\ FarApart(d, e)
    BY DEF WaitingIsRegistered, FarApart
  <2>1. CASE pc[d] \in {"write", "wait"}
    <3>1. Started(d) /\ id'[d] = id[d] /\ id[d] \in Ids
      BY <1>0, <1>1, <2>1 DEF Started, Types
    <3>2. CASE \E e \in Calls : Started(e) /\ FarApart(d, e)
      BY <1>1, <3>2
    <3>3. CASE inflight[id[d]] = d /\ inflight'[id[d]] # d
      <4>1. id[d] = id[c] /\ Started(c)
        BY <1>1, <3>1, <3>3
      <4>2. d # c => FarApart(d, c)
        BY <3>1, <4>1, DifferentIds DEF Shares
      <4>3. d # c
        BY <1>1, <3>1, <3>3
      <4> QED
        BY <1>1, <4>1, <4>2, <4>3
    <3> QED
      BY <2>1, <3>1, <3>2, <3>3 DEF WaitingIsRegistered
  <2>2. CASE pc[d] \notin {"write", "wait"}
    BY <1>1, <2>2
  <2> QED
    BY <2>1, <2>2
<1>2. ASSUME NEW c \in Calls, TakeId(c) PROVE WaitingIsRegistered'
  BY <1>0, <1>1, <1>2 DEF TakeId, Types, Started
<1>3. ASSUME NEW c \in Calls, Register(c) PROVE WaitingIsRegistered'
  <2>1. /\ pc[c] = "register" /\ pc' = [pc EXCEPT ![c] = "write"] /\ id' = id
        /\ inflight' = [inflight EXCEPT ![id[c]] = c] /\ id[c] \in Ids
    BY <1>0, <1>3 DEF Register, Types
  <2>2. \A d \in Calls : Started(d) => Started(d)' /\ id'[d] = id[d]
    BY <1>0, <2>1 DEF Types, Started
  <2>3. \A d \in Calls : pc'[d] \in {"write", "wait"} => d = c \/ pc[d] \in {"write", "wait"}
    BY <1>0, <2>1 DEF Types
  <2>4. inflight'[id'[c]] = c /\ Started(c)
    BY <1>0, <2>1 DEF Types, Started
  <2>5. \A i \in Ids : inflight'[i] # inflight[i] => i = id[c] /\ Started(c)
    BY <1>0, <2>1, <2>4 DEF Types
  <2>6. pc'[c] \in {"write", "wait"} =>
          inflight'[id'[c]] = c \/ (inflight' = inflight /\ pc[c] \in {"write", "wait"})
    BY <2>4
  <2> QED
    BY <1>1, <2>2, <2>3, <2>5, <2>6
<1>4. ASSUME NEW c \in Calls, Write(c) PROVE WaitingIsRegistered'
  BY <1>0, <1>1, <1>4 DEF Write, Types, Started
<1>5. ASSUME NEW c \in Calls, WriteFails(c) \/ SelectAnswer(c) \/ SelectClosed(c) \/ SelectDone(c)
      PROVE  WaitingIsRegistered'
  BY <1>0, <1>1, <1>5 DEF WriteFails, SelectAnswer, SelectClosed, SelectDone, Types, Started
<1>6. ASSUME NEW c \in Calls, Delete(c) PROVE WaitingIsRegistered'
  BY <1>0, <1>1, <1>6 DEF Delete, Types, Started
<1>7. ASSUME (\E p \in requests : Serve(p) \/ Ignore(p)) \/ (\E p \in answers : Lookup(p) \/ Discard(p))
               \/ Deliver \/ Cancel \/ Close \/ Break \/ Over \/ UNCHANGED vars
      PROVE  WaitingIsRegistered'
  <2>1. UNCHANGED <<pc, inflight, id>>
    BY <1>7 DEF Serve, Ignore, Lookup, Discard, Deliver, Cancel, Close, Break, Over, vars
  <2> QED
    BY <2>1 DEF WaitingIsRegistered, Started, FarApart
<1> QED
  BY <1>2, <1>3, <1>4, <1>5, <1>6, <1>7 DEF Next

\* A waiting call is in the table, unless the counter has wrapped (WaitingIsRegistered).
THEOREM AnswersFindTheirCall == Spec => []WaitingIsRegistered
<1>1. Init => WaitingIsRegistered
  BY DEF Init, WaitingIsRegistered
<1> QED
  BY <1>1, InvInit, InvStep, RegisteredStep, PTL DEF Spec

(***************************************************************************)
(* A call that returns no error returns an answer, with one exception: the *)
(* connection was closed by this side, which leaves no error behind        *)
(* (cleanup closes the client while a sync loop is in its call).  Neither  *)
(* a write that fails, nor a peer that goes away, nor the end of the       *)
(* context ever makes a call return nothing at all.                        *)
(***************************************************************************)
Ended(c) == pc[c] \in {"delete", "done"}

ReturnsSomething ==
  \A c \in Calls : (Ended(c) /\ result[c].err = Null) =>
    \/ \E d \in Calls : result[c].res = Reply(d)
    \/ conn = "closed" /\ cause = Null

\* Every step keeps it: what closed the connection does not change afterwards.
LEMMA SomethingStep == IInv /\ ReturnsSomething /\ [Next]_vars => ReturnsSomething'
<1> SUFFICES ASSUME IInv, ReturnsSomething, [Next]_vars PROVE ReturnsSomething'
  OBVIOUS
<1>0. Types /\ Channels /\ Failure # Null
  BY IdAssumption, TextAssumption DEF IInv, IdAssumption, TextAssumption
<1> USE DEF Goto, connVars, callVars, netVars, Ended
\* What a step has to leave alone: all results but one.
<1>1. ASSUME conn = "closed" => conn' = "closed" /\ cause' = cause,
             NEW c \in Calls,
             \A d \in Calls : d # c => pc'[d] = pc[d] /\ result'[d] = result[d],
             \/ ~Ended(c)'
             \/ Ended(c) /\ result'[c] = result[c]
             \/ result'[c].err # Null
             \/ \E d \in Calls : result'[c].res = Reply(d)
             \/ conn' = "closed" /\ cause' = Null
      PROVE  ReturnsSomething'
  BY <1>1 DEF ReturnsSomething, Reply
<1>2. ASSUME NEW c \in Calls, TakeId(c) \/ Register(c) \/ Write(c) PROVE ReturnsSomething'
  BY <1>0, <1>1, <1>2 DEF TakeId, Register, Write, Types
<1>3. ASSUME NEW c \in Calls, WriteFails(c) \/ SelectDone(c) PROVE ReturnsSomething'
  <2>1. result' = [result EXCEPT ![c] = [of |-> c, res |-> Null, err |-> Failure]]
    BY <1>3 DEF WriteFails, SelectDone, Returns
  <2>2. result'[c].err # Null /\ \A d \in Calls : d # c => pc'[d] = pc[d] /\ result'[d] = result[d]
    BY <1>0, <1>3, <2>1 DEF WriteFails, SelectDone, Types
  <2>3. conn = "closed" => conn' = "closed" /\ cause' = cause
    BY <1>3 DEF WriteFails, SelectDone
  <2> QED
    BY <1>1, <2>2, <2>3
<1>4. ASSUME NEW c \in Calls, SelectAnswer(c) PROVE ReturnsSomething'
  <2>1. PICK d \in Calls : channel[c] = <<[of |-> d, res |-> Reply(d)]>>
    BY <1>0, <1>4 DEF SelectAnswer, Channels
  <2>2. result' = [result EXCEPT ![c] = [of |-> channel[c][1].of, res |-> channel[c][1].res,
                                         err |-> channel[c][1].res.error]]
    BY <1>4 DEF SelectAnswer, Returns
  <2>3. result'[c].res = Reply(d)
    <3>1. channel[c][1].res = Reply(d)
      BY <2>1
    <3> QED
      BY <1>0, <2>2, <3>1 DEF Types
  <2>4. /\ \A e \in Calls : e # c => pc'[e] = pc[e] /\ result'[e] = result[e]
        /\ UNCHANGED <<conn, cause>>
    BY <1>0, <1>4, <2>2 DEF SelectAnswer, Types
  <2> QED
    BY <1>1, <2>3, <2>4
<1>5. ASSUME NEW c \in Calls, SelectClosed(c) PROVE ReturnsSomething'
  <2>1. result' = [result EXCEPT ![c] = [of |-> c, res |-> Null, err |-> cause]]
    BY <1>5 DEF SelectClosed, Returns
  <2>2. result'[c].err = cause /\ conn = "closed" /\ UNCHANGED <<conn, cause>>
    BY <1>0, <1>5, <2>1 DEF SelectClosed, Types
  <2>3. \A d \in Calls : d # c => pc'[d] = pc[d] /\ result'[d] = result[d]
    BY <1>0, <1>5, <2>1 DEF SelectClosed, Types
  <2> QED
    BY <1>1, <2>2, <2>3
<1>6. ASSUME NEW c \in Calls, Delete(c) PROVE ReturnsSomething'
  BY <1>0, <1>1, <1>6 DEF Delete, Types
<1>7. ASSUME (\E p \in requests : Serve(p) \/ Ignore(p)) \/ (\E p \in answers : Lookup(p) \/ Discard(p))
               \/ Deliver \/ Cancel \/ Close \/ Break \/ Over \/ UNCHANGED vars
      PROVE  ReturnsSomething'
  <2>1. UNCHANGED <<pc, result>> /\ (conn = "closed" => conn' = "closed" /\ cause' = cause)
    BY <1>7 DEF Serve, Ignore, Lookup, Discard, Deliver, Cancel, Close, Break, Over, vars
  <2> QED
    BY <2>1 DEF ReturnsSomething, Reply
<1> QED
  BY <1>2, <1>3, <1>4, <1>5, <1>6, <1>7 DEF Next

\* Only a client closed by its own side lets a call return nothing.
THEOREM OnlyOwnCloseIsSilent == Spec => []ReturnsSomething
<1>1. Init => ReturnsSomething
  BY DEF Init, ReturnsSomething, Ended
<1> QED
  BY <1>1, InvInit, InvStep, SomethingStep, PTL DEF Spec
=============================================================================
