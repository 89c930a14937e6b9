---------------------------- MODULE MCServiceEdges ----------------------------
(* FederatedRouting and SubCardPools on small instances.  They share nothing here: *)
(* each is explored while the other stays put.                                 *)
EXTENDS FederatedRouting, SubCardPools

CONSTANTS h1, h2

\* Messages come, and the device gives up, while the clock stands still; the second
\* handler is used when the first one is busy.
ExploredPoolsNext ==
    \/ \E s \in SubCard :
          \/ Enrol(s) \/ FireReplenishment(s) \/ WasteUuid(s)
          \/ now = 0 /\ TakeMessage(s)
          \/ timers = {} /\ GiveUp(s)
    \/ \E h \in Handler :
          \/ (h = h2 => handler[h1] # Vacant) /\ (ReceiveEnvelope(h) \/ ReceiveCopy(h))
          \/ ResolvingFails(h) \/ RecordNonceIfNew(h) \/ Apply(h)
    \/ PruneActionNonces \/ LoseEnvelope \/ StopService
    \/ timers = {} /\ Cardinality(signed) < MaxSigned /\ Pass

EdgesInit == Init /\ PoolsInit
EdgesNext ==
    \/ PoolsInit /\ Next /\ UNCHANGED poolsVars
    \/ Init /\ ExploredPoolsNext /\ UNCHANGED vars

\* The fairness of each: its steps are possible once it is the one that is explored.
EdgesSpec ==
    /\ EdgesInit /\ [][EdgesNext]_<<vars, poolsVars>>
    /\ \A n \in Service : WF_vars(signed = {} /\ Handle(n))
    /\ PoolsFairness
=============================================================================
