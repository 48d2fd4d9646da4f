------------------------------ MODULE FrpcClient ------------------------------
(***************************************************************************)
(* One fRPC connection: the client and the server of failover.frpc.go.     *)
(* The code of SyncState, HealthCheck and Heartbeat is the same but for    *)
(* the messages and has a counter and a table of its own for each, so the  *)
(* module is about any one of them.  A step of a call is what it does      *)
(* between two points where another goroutine can see it: the two mutexes, *)
(* the write, the select statement.  frisbee is external: it carries       *)
(* packets both ways, runs the server's handlers concurrently, so answers  *)
(* come in any order, and the client's one at a time.                      *)
(***************************************************************************)
EXTENDS FrpcCodec

CONSTANTS
  Method,    \* which of the three: SyncState, HealthCheck or Heartbeat
  IdSpace,   \* how many packet ids there are: 2^16 in the code
  MaxCalls,  \* bound on calls
  Refused,   \* the calls that the service does not answer as the caller would like
  Failure    \* the text of any error

ASSUME MethodAssumption == Method \in {"SyncState", "HealthCheck", "Heartbeat"}
ASSUME IdAssumption == IdSpace \in Nat \ {0} /\ MaxCalls \in Nat /\ Failure \in Text

Ids     == 0..(IdSpace - 1)
Calls   == 1..MaxCalls

\* The text that a request carries to tell it from the others.
RequestIds == Calls

ASSUME RequestIdAssumption == RequestIds \subseteq Text /\ Refused \subseteq Calls

VARIABLES
  conn,       \* whether the connection is "open" or "closed"
  cause,      \* what Error() returns once it is closed
  next,       \* the counter of packet ids
  inflight,   \* the table of channels by packet id: whose channel, or 0
  pc,         \* where each call is; calls are numbered in the order of their ids
  id,         \* the packet id of each call
  channel,    \* what is in the channel of each call, which has room for one answer
  result,     \* what each call returns, and whose answer it is
  ctxDone,    \* the context that the calls share, that of the daemon, is done
  requests,   \* packets on their way to the server
  answers,    \* packets on their way back
  reading     \* what the client's handler is about to put into which channel, if anything

connVars == <<conn, cause>>
callVars == <<next, inflight, pc, id, channel, result, ctxDone>>
netVars  == <<requests, answers, reading>>
vars == <<connVars, callVars, netVars>>

Init ==
  /\ conn = "open" /\ cause = Null
  /\ next = 0 /\ inflight = [i \in Ids |-> 0]
  /\ pc = [c \in Calls |-> "new"] /\ id = [c \in Calls |-> 0]
  /\ channel = [c \in Calls |-> <<>>]
  /\ result = [c \in Calls |-> [of |-> 0, res |-> Null, err |-> Null]]
  /\ ctxDone = FALSE /\ requests = {} /\ answers = {} /\ reading = <<>>

-----------------------------------------------------------------------------
(* The messages of the three methods *)

EncodeRequest(c) ==
  CASE Method = "SyncState"   -> EncodeSyncStateRequest([RequestId |-> c])
    [] Method = "HealthCheck" -> EncodeHealthCheckRequest([RequestId |-> c])
    [] Method = "Heartbeat"   ->
         EncodeHeartbeatRequest([RequestId |-> c, Timestamp |-> 0, PrimaryEni |-> Blank])

RequestIdOf(body) ==
  CASE Method = "SyncState"   -> DecodeSyncStateRequest(body).RequestId
    [] Method = "HealthCheck" -> DecodeHealthCheckRequest(body).RequestId
    [] Method = "Heartbeat"   -> DecodeHeartbeatRequest(body).RequestId

\* What the handler answers to the request with id r: only Heartbeat returns
\* errors, SyncState is unsuccessful without one.  States are left to StateSync.
EncodeAnswer(r) ==
  CASE Method = "SyncState"   -> EncodeSyncStateResponse(
         [error |-> Null, RequestId |-> r, Success |-> r \notin Refused,
          ErrorMessage |-> IF r \in Refused THEN Failure ELSE Blank, State |-> Null])
    [] Method = "HealthCheck" -> EncodeHealthCheckResponse(
         [error |-> Null, RequestId |-> r, Success |-> TRUE,
          NodeRole |-> Blank, InstanceId |-> Blank])
    [] Method = "Heartbeat"   -> EncodeHeartbeatResponse(
         [error |-> IF r \in Refused THEN Failure ELSE Null,
          RequestId |-> r, Success |-> r \notin Refused, Timestamp |-> 0])

DecodeAnswer(body) ==
  CASE Method = "SyncState"   -> DecodeSyncStateResponse(body)
    [] Method = "HealthCheck" -> DecodeHealthCheckResponse(body)
    [] Method = "Heartbeat"   -> DecodeHeartbeatResponse(body)

-----------------------------------------------------------------------------
(* A call *)

Goto(c, label) == pc' = [pc EXCEPT ![c] = label]

\* Mutant: a wider counter, which does not wrap.
NextId_Wide(i) == i + 1

\* A uint16 wraps.
NextId(i) == IF i + 1 = IdSpace THEN 0 ELSE i + 1

\* Mutant: the counter is read and stored without its lock, so that a call that
\* is interrupted in between lets the next one take the same id.
TakeId_Unlocked(c) ==
  /\ pc[c] = "new" /\ (\A d \in 1..(c - 1) : pc[d] # "new") /\ Goto(c, "register")
  /\ next' \in {next, NextId(next)} /\ id' = [id EXCEPT ![c] = NextId(next)]
  /\ UNCHANGED <<connVars, netVars, inflight, channel, result, ctxDone>>

\* The call gets its channel and, under the lock of the counter, its packet id.
TakeId(c) ==
  /\ pc[c] = "new" /\ (\A d \in 1..(c - 1) : pc[d] # "new") /\ Goto(c, "register")
  /\ next' = NextId(next) /\ id' = [id EXCEPT ![c] = NextId(next)]
  /\ UNCHANGED <<connVars, netVars, inflight, channel, result, ctxDone>>

\* The channel goes into the table before the request leaves.
Register(c) ==
  /\ pc[c] = "register" /\ Goto(c, "write")
  /\ inflight' = [inflight EXCEPT ![id[c]] = c]
  /\ UNCHANGED <<connVars, netVars, next, id, channel, result, ctxDone>>

Packet(c, body) == [id |-> id[c], of |-> c, body |-> body]

Write(c) ==
  /\ pc[c] = "write" /\ conn = "open" /\ Goto(c, "wait")
  /\ requests' = requests \cup {Packet(c, EncodeRequest(c))}
  /\ UNCHANGED <<connVars, answers, reading, next, inflight, id, channel, result, ctxDone>>

Returns(c, of, res, err) == result' = [result EXCEPT ![c] = [of |-> of, res |-> res, err |-> err]]

\* WritePacket fails, on a closed connection or because it breaks.  The call
\* returns at once and its channel stays in the table.
WriteFails(c) ==
  /\ pc[c] = "write" /\ Goto(c, "done")
  /\ Returns(c, c, Null, Failure)
  /\ conn' = "closed" /\ cause' = IF conn = "open" THEN Failure ELSE cause
  /\ UNCHANGED <<netVars, next, inflight, id, channel, ctxDone>>

SelectAnswer(c) ==
  /\ pc[c] = "wait" /\ channel[c] # <<>> /\ Goto(c, "delete")
  /\ LET answer == channel[c][1] IN Returns(c, answer.of, answer.res, answer.res.error)
  /\ channel' = [channel EXCEPT ![c] = <<>>]
  /\ UNCHANGED <<connVars, netVars, next, inflight, id, ctxDone>>

\* Mutant: an idle call does not look at the connection.
SelectClosed_Error(c) ==
  /\ pc[c] = "wait" /\ conn = "closed" /\ cause # Null /\ Goto(c, "delete")
  /\ Returns(c, c, Null, cause)
  /\ UNCHANGED <<connVars, netVars, next, inflight, id, channel, ctxDone>>

\* Error() is nil when Close was called on this side: the call then returns
\* neither a response nor an error.
SelectClosed(c) ==
  /\ pc[c] = "wait" /\ conn = "closed" /\ Goto(c, "delete")
  /\ Returns(c, c, Null, cause)
  /\ UNCHANGED <<connVars, netVars, next, inflight, id, channel, ctxDone>>

SelectDone(c) ==
  /\ pc[c] = "wait" /\ ctxDone /\ Goto(c, "delete")
  /\ Returns(c, c, Null, Failure)
  /\ UNCHANGED <<connVars, netVars, next, inflight, id, channel, ctxDone>>

\* Mutant: an answered call leaves its channel in the table.
Delete_UnlessAnswered(c) ==
  /\ pc[c] = "delete" /\ Goto(c, "done")
  /\ inflight' = IF result[c].res # Null THEN inflight ELSE [inflight EXCEPT ![id[c]] = 0]
  /\ UNCHANGED <<connVars, netVars, next, id, channel, result, ctxDone>>

\* Mutant: the entry is deleted by the counter, which another call may have moved.
Delete_Counter(c) ==
  /\ pc[c] = "delete" /\ Goto(c, "done")
  /\ inflight' = [inflight EXCEPT ![next] = 0]
  /\ UNCHANGED <<connVars, netVars, next, id, channel, result, ctxDone>>

\* The entry is deleted by id, whosever channel is there by then.
Delete(c) ==
  /\ pc[c] = "delete" /\ Goto(c, "done")
  /\ inflight' = [inflight EXCEPT ![id[c]] = 0]
  /\ UNCHANGED <<connVars, netVars, next, id, channel, result, ctxDone>>

Proceed(c) ==
  \/ Register(c) \/ Write(c) \/ WriteFails(c)
  \/ SelectAnswer(c) \/ SelectClosed(c) \/ SelectDone(c) \/ Delete(c)

\* The daemon is told to end.
Cancel ==
  /\ ~ctxDone /\ ctxDone' = TRUE
  /\ UNCHANGED <<connVars, netVars, next, inflight, pc, id, channel, result>>

-----------------------------------------------------------------------------
(* The handlers of the server and of the client *)

\* Mutant: the request stays where it is and is answered once more.
Serve_Again(p) ==
  /\ p \in requests /\ conn = "open"
  /\ answers' = answers \cup {[p EXCEPT !.body = EncodeAnswer(RequestIdOf(p.body))]}
  /\ UNCHANGED <<connVars, callVars, requests, reading>>

\* The answer goes into the packet that brought the request, whose id it keeps.
Serve(p) ==
  /\ p \in requests /\ conn = "open"
  /\ requests' = requests \ {p}
  /\ answers' = answers \cup {[p EXCEPT !.body = EncodeAnswer(RequestIdOf(p.body))]}
  /\ UNCHANGED <<connVars, callVars, reading>>

\* A request that does not decode gets no answer, not even an error.
Ignore(p) ==
  /\ p \in requests /\ conn = "open"
  /\ requests' = requests \ {p}
  /\ UNCHANGED <<connVars, callVars, answers, reading>>

\* The client's handler finds the channel for the packet id.
Lookup(p) ==
  /\ reading = <<>> /\ p \in answers
  /\ inflight[p.id] # 0
  /\ answers' = answers \ {p}
  /\ reading' = <<[call |-> inflight[p.id], of |-> p.of, res |-> DecodeAnswer(p.body)]>>
  /\ UNCHANGED <<connVars, callVars, requests>>

\* Nobody waits for the answer any more.
Discard(p) ==
  /\ reading = <<>> /\ p \in answers
  /\ inflight[p.id] = 0
  /\ answers' = answers \ {p}
  /\ UNCHANGED <<connVars, callVars, requests, reading>>

\* The channel has room for one answer; a second one makes the handler wait.
Deliver ==
  /\ reading # <<>> /\ channel[reading[1].call] = <<>>
  /\ channel' = [channel EXCEPT ![reading[1].call] = <<[of |-> reading[1].of, res |-> reading[1].res]>>]
  /\ reading' = <<>>
  /\ UNCHANGED <<connVars, requests, answers, next, inflight, pc, id, result, ctxDone>>

-----------------------------------------------------------------------------
(* The connection ends *)

\* The client is closed (cleanup), or the peer or the network goes away.
Close == conn = "open" /\ conn' = "closed" /\ UNCHANGED <<cause, callVars, netVars>>

Break ==
  /\ conn = "open" /\ conn' = "closed" /\ cause' = Failure
  /\ UNCHANGED <<callVars, netVars>>

Over == (\A c \in Calls : pc[c] = "done") /\ UNCHANGED vars

Next ==
  \/ \E c \in Calls :
       \/ TakeId(c) \/ Register(c) \/ Write(c) \/ WriteFails(c) \/ SelectAnswer(c)
       \/ SelectClosed(c) \/ SelectDone(c) \/ Delete(c)
  \/ \E p \in requests : Serve(p) \/ Ignore(p)
  \/ \E p \in answers : Lookup(p) \/ Discard(p)
  \/ Deliver \/ Cancel \/ Close \/ Break \/ Over

Spec == Init /\ [][Next]_vars

\* Goroutines that can run do run, and packets that have arrived are handled.
\* Nothing makes the server answer, a context end or the connection close.
Fairness ==
  /\ \A c \in Calls : WF_vars(Proceed(c))
  /\ WF_vars(Deliver \/ \E p \in answers : Lookup(p) \/ Discard(p))

FairSpec == Spec /\ Fairness

-----------------------------------------------------------------------------
(* Properties *)

Started(c) == pc[c] # "new"

\* c and d cannot be told apart: one got the id of the other after a wrap.
FarApart(c, d) == c >= d + IdSpace \/ d >= c + IdSpace

Answered(c) == result[c].res # Null

\* Every variable holds a value the code can give it; a call that is over, or
\* about to delete its entry, knows what it returns, and no other call does.
TypeOK ==
  /\ conn \in {"open", "closed"} /\ cause \in {Null, Failure}
  /\ next \in Ids /\ inflight \in [Ids -> {0} \cup Calls]
  /\ pc \in [Calls -> {"new", "register", "write", "wait", "delete", "done"}]
  /\ id \in [Calls -> Ids]
  /\ ctxDone \in BOOLEAN
  /\ DOMAIN channel = Calls /\ DOMAIN result = Calls
  /\ \A c \in Calls : result[c].of # 0 <=> pc[c] \in {"delete", "done"}
  /\ \A p \in requests \cup answers : p.id \in Ids /\ p.of \in Calls
  /\ reading # <<>> => reading[1].call \in Calls

\* A call returns the response to its own request, however calls overlap, are
\* given up, and answers overtake one another or come after a call is over: an
\* answer of another call can reach it only from a call so many calls earlier or
\* later that the counter has wrapped in between.
OwnAnswer ==
  \A c \in Calls : Answered(c) =>
    /\ result[c].of = c \/ FarApart(c, result[c].of)
    /\ result[c].err = Null => result[c].res.RequestId = result[c].of

\* A channel stays in the table after its call only if the request could not be
\* written, and then the connection is closed: as long as it is open, the table
\* does not grow beyond the calls that are waiting.
NoStaleEntry ==
  \A i \in Ids : (inflight[i] # 0 /\ pc[inflight[i]] = "done") => conn = "closed"

\* A call that has sent its request finds its channel in the table until it
\* deletes it, so its answer is not discarded as one nobody waits for: unless a
\* call that got the same id after a wrap has put its own there or deleted it.
WaitingIsRegistered ==
  \A c \in Calls : pc[c] \in {"write", "wait"} =>
    \/ inflight[id[c]] = c
    \/ \E d \in Calls : Started(d) /\ FarApart(c, d)

\* The handler, which serves all calls of the connection, never waits for room
\* in a channel, unless the counter has wrapped.
ReaderIsFree ==
  reading # <<>> => channel[reading[1].call] = <<>> \/ \E d \in Calls : Started(d) /\ d > IdSpace

\* A call whose answer has come back returns, even if its context never ends
\* and the connection stays open: the answer cannot come before the channel is
\* in the table, and no answer given up by another call blocks it.
AnsweredCallReturns ==
  \A c \in Calls :
    (pc[c] = "wait" /\ \E p \in answers : p.of = c) ~>
      (pc[c] = "done" \/ \E d \in Calls : Started(d) /\ d > IdSpace)

\* A call ends when its connection does or when its context does, also one that
\* begins only then.
EveryCallEnds ==
  \A c \in Calls : (Started(c) /\ (conn = "closed" \/ ctxDone)) ~> pc[c] = "done"
=============================================================================
