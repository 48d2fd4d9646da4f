------------------------------ MODULE StateSync ------------------------------
(***************************************************************************)
(* How the NAT state of one conduit process is copied to another one.  Two *)
(* daemons of pkg/failover do it:                                          *)
(*   - "leader": the sync loops of a secondary (syncFromPrimary and        *)
(*     applySyncedState of leader.go) against the SyncState handler of the *)
(*     primary, over fRPC.  LeaderFailover shows that several of its loops *)
(*     may run at once;                                                    *)
(*   - "socket": the one goroutine of type Failover (failover.go), which   *)
(*     reads from one local socket and writes to the other.                *)
(* The conduit processes are external: the primary's state changes at any  *)
(* time, the secondary's is replaced by what it is sent.  A call to set it *)
(* that the HTTP client gave up after 30 seconds may still take effect.    *)
(*   The HTTP clients dial for themselves.  The fRPC client does not: it   *)
(* is dialled once, by becomeSecondary, so a connection that was not made  *)
(* or that broke stays so until the node becomes secondary anew, and each  *)
(* call in between fails.  The retry that leader.go:440 logs is not there. *)
(***************************************************************************)
EXTENDS NATState, FiniteSets

CONSTANTS
  Loops,       \* the sync loops
  SocketLoop,  \* the one that type Failover runs
  History,     \* the states that the primary's conduit goes through, a sequence
  Fresh,       \* the state of the secondary's conduit before the first sync
  MaxFaults,   \* bound on failed calls, broken connections and new ones
  MaxLate      \* bound on states that wait to take effect late

ASSUME StatesAssumption == History \in Seq(State) /\ History # <<>> /\ Fresh \in State
ASSUME SyncBoundAssumption == MaxFaults \in Nat /\ MaxLate \in Nat
ASSUME LoopAssumption == SocketLoop \in Loops

VARIABLES
  daemon,    \* which of the two runs
  stopping,  \* its context is cancelled
  version,   \* which state of History the primary is in
  copy,      \* the state of the secondary's conduit
  applied,   \* which state of History copy is, 0 before the first sync
  late,      \* states that were sent, given up, and may still take effect
  faults,    \* how many of them there were
  connected, \* the fRPC client has a connection
  pc,        \* where each sync loop is
  asked,     \* which state the primary was in when the loop made its call
  taken,     \* which state was read for it
  answer,    \* the response on its way to it, as encoded
  pending    \* the state that it is about to apply

hostVars == <<daemon, stopping, version, faults, connected>>
copyVars == <<copy, applied, late>>
loopVars == <<pc, asked, taken, answer, pending>>
vars == <<hostVars, copyVars, loopVars>>

Init ==
  /\ daemon \in {"leader", "socket"} /\ stopping = FALSE
  /\ version = 1
  /\ copy = Fresh /\ applied = 0 /\ late = {} /\ faults = 0
  /\ connected \in IF daemon = "leader" THEN BOOLEAN ELSE {TRUE}
  /\ pc = [l \in Loops |-> "idle"]
  /\ asked = [l \in Loops |-> 0] /\ taken = [l \in Loops |-> 0]
  /\ answer = [l \in Loops |-> Nil] /\ pending = [l \in Loops |-> Null]

Runs(l) == daemon = "leader" \/ l = SocketLoop

Current == History[version]

\* Packets pass, connections come and go on the primary: its state changes.
Change ==
  /\ version < Len(History) /\ version' = version + 1
  /\ UNCHANGED <<daemon, stopping, faults, connected, copyVars, loopVars>>

\* The context ends: an interrupt, or Stop.
Stop ==
  /\ ~stopping /\ stopping' = TRUE
  /\ UNCHANGED <<daemon, version, faults, connected, copyVars, loopVars>>

\* One more call fails: conduit does not answer, or not in 30 seconds, or not well.
Fault ==
  /\ faults < MaxFaults /\ faults' = faults + 1
  /\ UNCHANGED <<daemon, stopping, version, connected>>

\* A call returns because its context has ended.
Abandon == stopping /\ UNCHANGED hostVars

\* The calls on the connection get no answer any more, unless it is there already.
CutCalls ==
  \E lost \in SUBSET Loops :
    pc' = [l \in Loops |-> IF pc[l] = "asked" \/ (pc[l] = "answered" /\ l \in lost)
                          THEN "cut" ELSE pc[l]]

\* The connection breaks: the primary steps down or dies, or the network fails.
Disconnect ==
  /\ daemon = "leader" /\ connected /\ connected' = FALSE
  /\ faults < MaxFaults /\ faults' = faults + 1
  /\ CutCalls
  /\ UNCHANGED <<daemon, stopping, version, copyVars, asked, taken, answer, pending>>

\* The node becomes secondary anew: the client is closed, another one is dialled,
\* which may fail.  (The panic that a call cut off may end in is LeaderFailover's.)
Redial ==
  /\ daemon = "leader" /\ connected' \in BOOLEAN
  /\ faults < MaxFaults /\ faults' = faults + 1
  /\ CutCalls
  /\ UNCHANGED <<daemon, stopping, version, copyVars, asked, taken, answer, pending>>

Goto(l, label) == pc' = [pc EXCEPT ![l] = label]

\* A sync is over, for better or worse: the loop waits for its next tick.
Finish(l) ==
  /\ Goto(l, "idle")
  /\ asked' = [asked EXCEPT ![l] = 0] /\ taken' = [taken EXCEPT ![l] = 0]
  /\ answer' = [answer EXCEPT ![l] = Nil] /\ pending' = [pending EXCEPT ![l] = Null]

\* The ticker fires and the loop calls SyncState on the primary, or GetState.
Request(l) ==
  /\ pc[l] = "idle" /\ Runs(l) /\ Goto(l, IF connected THEN "asked" ELSE "cut")
  /\ asked' = [asked EXCEPT ![l] = version]
  /\ UNCHANGED <<hostVars, copyVars, taken, answer, pending>>

\* The select statement finds the context done.
Exit(l) ==
  /\ pc[l] = "idle" /\ stopping /\ Goto(l, "stopped")
  /\ UNCHANGED <<hostVars, copyVars, asked, taken, answer, pending>>

Respond(l, success, state) ==
  /\ pc[l] = "asked" /\ daemon = "leader" /\ Goto(l, "answered")
  /\ answer' = [answer EXCEPT ![l] = EncodeSyncStateResponse(
       [error |-> Null, RequestId |-> Blank, Success |-> success, ErrorMessage |-> Blank,
        State |-> state])]
  /\ UNCHANGED <<copyVars, asked, pending>>

\* Mutant: the handler answers from the state it read first.
Answer_Cached(l) ==
  /\ Respond(l, TRUE, ToWire(History[1]))
  /\ taken' = [taken EXCEPT ![l] = 1]
  /\ UNCHANGED hostVars

\* SyncState reads the state of its conduit, converts it and sends it.
Answer(l) ==
  /\ Respond(l, TRUE, ToWire(Current))
  /\ taken' = [taken EXCEPT ![l] = version]
  /\ UNCHANGED hostVars

\* Conduit does not answer, or with an error or nothing: so does SyncState.
AnswerFails(l) == Respond(l, FALSE, Null) /\ Fault /\ UNCHANGED taken

\* Mutant: the call does not carry the context.
CallFails_NoContext(l) ==
  /\ \/ pc[l] = "cut" /\ UNCHANGED hostVars
     \/ pc[l] = "asked" /\ daemon = "socket" /\ Fault
  /\ Finish(l) /\ UNCHANGED copyVars

\* The call itself returns an error, whether or not the other side ran.
CallFails(l) ==
  /\ \/ pc[l] = "cut" /\ UNCHANGED hostVars
     \/ pc[l] \in {"asked", "answered"} /\ Abandon
     \/ pc[l] = "asked" /\ daemon = "socket" /\ Fault
  /\ Finish(l) /\ UNCHANGED copyVars

\* Mutant: the loop does not come round again after an unsuccessful response.
Receive_Stuck(l) ==
  /\ pc[l] = "answered" /\ DecodeSyncStateResponse(answer[l]).Success
  /\ Goto(l, "apply") /\ answer' = [answer EXCEPT ![l] = Nil]
  /\ pending' = [pending EXCEPT ![l] = FromWire(DecodeSyncStateResponse(answer[l]).State)]
  /\ UNCHANGED <<hostVars, copyVars, asked, taken>>

\* A successful response with a state is converted, any other one ends the sync.
Receive(l) ==
  /\ pc[l] = "answered"
  /\ LET response == DecodeSyncStateResponse(answer[l])
     IN  IF response.Success /\ response.State # Null
         THEN /\ Goto(l, "apply") /\ answer' = [answer EXCEPT ![l] = Nil]
              /\ pending' = [pending EXCEPT ![l] = FromWire(response.State)]
              /\ UNCHANGED <<asked, taken>>
         ELSE Finish(l)
  /\ UNCHANGED <<hostVars, copyVars>>

\* syncNATState has read the state that it is about to write as it is.
Export(l) ==
  /\ pc[l] = "asked" /\ daemon = "socket" /\ Goto(l, "apply")
  /\ taken' = [taken EXCEPT ![l] = version]
  /\ pending' = [pending EXCEPT ![l] = Current]
  /\ UNCHANGED <<hostVars, copyVars, asked, answer>>

\* The local conduit takes over the state.
Replace(l) == copy' = pending[l] /\ applied' = taken[l] /\ UNCHANGED late

Apply(l) ==
  /\ pc[l] = "apply" /\ Finish(l)
  /\ Replace(l)
  /\ UNCHANGED hostVars

\* The call to conduit fails: it took effect, or may do so later, or never does.
ApplyFails(l) ==
  /\ pc[l] = "apply" /\ (Fault \/ Abandon) /\ Finish(l)
  /\ \/ Replace(l)
     \/ /\ Cardinality(late) < MaxLate
        /\ late' = late \cup {[from |-> taken[l], state |-> pending[l]]}
        /\ UNCHANGED <<copy, applied>>
     \/ UNCHANGED copyVars

\* A state that was given up takes effect after all.
Land(x) ==
  /\ x \in late /\ late' = late \ {x}
  /\ copy' = x.state /\ applied' = x.from
  /\ UNCHANGED <<hostVars, loopVars>>

\* The daemon has ended.
Stopped ==
  /\ \A l \in Loops : Runs(l) => pc[l] = "stopped"
  /\ UNCHANGED vars

Next ==
  \/ Change \/ Stop \/ Stopped \/ Disconnect \/ Redial
  \/ \E l \in Loops :
       \/ Request(l) \/ Answer(l) \/ AnswerFails(l) \/ CallFails(l) \/ Exit(l)
       \/ Receive(l) \/ Export(l) \/ Apply(l) \/ ApplyFails(l)
  \/ \E x \in late : Land(x)

Spec == Init /\ [][Next]_vars

\* A call that its context or its connection has given up.
GivesUp(l) == (pc[l] = "cut" \/ stopping) /\ (CallFails(l) \/ ApplyFails(l))

\* The ticker of a loop keeps firing, a call returns when its context ends or its
\* connection breaks, and a select statement does not overlook a context that is
\* done for ever.  Conduit and the primary answer as long as nobody stops the
\* daemon; from then on nothing is assumed of them.  Nothing makes the primary
\* change, and nothing makes a call succeed, except that failures are bounded.
Fairness ==
  \A l \in Loops :
    /\ WF_vars(Request(l) \/ Receive(l))
    /\ WF_vars(~stopping /\ (Answer(l) \/ Export(l) \/ Apply(l)))
    /\ WF_vars(GivesUp(l))
    /\ SF_vars(Exit(l))

FairSpec == Spec /\ Fairness

-----------------------------------------------------------------------------
(* Properties *)

\* How a state arrives: fRPC cannot tell an absent DestinationIP from an empty one.
Form(s) == IF daemon = "socket" THEN s ELSE Canonical(s)

\* Every variable holds a value the code can give it; what the handler sends is
\* a state of the primary or nothing, and a state that came over fRPC has no
\* empty DestinationIP left in place of an absent one.
TypeOK ==
  /\ daemon \in {"leader", "socket"} /\ stopping \in BOOLEAN
  /\ version \in 1..Len(History)
  /\ copy \in State /\ applied \in 0..version
  /\ faults \in 0..MaxFaults /\ connected \in BOOLEAN
  /\ \A x \in late : x.state \in State /\ x.from \in 1..version
  /\ pc \in [Loops -> {"idle", "asked", "cut", "answered", "apply", "stopped"}]
  /\ asked \in [Loops -> 0..version] /\ taken \in [Loops -> 0..version]
  /\ DOMAIN answer = Loops /\ DOMAIN pending = Loops
  /\ \A l \in Loops :
       /\ pc[l] = "answered" => answer[l].kind = "fields"
       /\ pc[l] = "apply" =>
            pending[l] \in State /\ taken[l] > 0 /\ Form(pending[l]) = pending[l]

\* After the first sync the secondary always holds one state that the primary
\* has had, complete and with every field in its place: never a mixture of two,
\* nor one damaged by the encoding or by the conversions, however loops, changes,
\* failures and states that take effect late interleave.
CopyIsPrimaryState == applied # 0 => copy = Form(History[applied])

\* What a loop applies is no older than its call.  So one loop alone never
\* takes the secondary back in time, unless a call that was given up takes
\* effect late; and of several loops only one whose call is older than the
\* state it replaces can.
NothingOlderThanCall ==
  [][\A l \in Loops : (pc[l] = "apply" /\ applied' # applied) =>
       (pc'[l] = "apply" \/ applied' >= asked[l])]_vars

\* When the primary changes no more and nobody stops the daemon, the secondary
\* ends up with the state of the primary for good, also when an overtaken loop
\* or a call given up long ago has put an older one in between.  It does so as
\* long as its connection lasts, not beyond: no sync attempt dials again, although
\* leader.go:441 says so, and what the secondary has stays as old as it is.
CatchesUp == <>[](copy = Form(Current) \/ stopping \/ ~connected)

\* Stop, which waits for the goroutine, returns: each loop ends, whatever call
\* it is in, also one that is never answered, because all of them carry the
\* context (an fRPC call selects on it, which is its only deadline).
StopEnds == stopping ~> \A l \in Loops : Runs(l) => pc[l] = "stopped"
=============================================================================
