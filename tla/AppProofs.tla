----------------------------- MODULE AppProofs -----------------------------
(***************************************************************************)
(* Proofs about the dispatcher, for any limit, any sets of workers, ids    *)
(* and addresses, and any requests the clients may send.                   *)
(***************************************************************************)
EXTENDS App, FiniteSetTheorems, TLAPS

\* The inductive invariant of the worker limit: the set of workers is finite,
\* and the valves tell exactly whether there is room.
RoomInv == /\ TypeOK
           /\ IsFiniteSet(workers)
           /\ WorkersWithinLimit
           /\ ValvesTrackRoom

\* The tables are consistent with the set of open workers.
TableInv == TypeOK /\ NoDanglingPointers

\* Sessions are routable; the id table never points at a stale worker.
RouteInv == TableInv /\ StreamSessionsRoutable

----------------------------------------------------------------------------
\* The dispatcher's tables are well-typed in every reachable state.
LEMMA InitType == Init => TypeOK
  BY NoneAssumption, ConfigAssumption DEF Init, TypeOK

LEMMA GreetingType ==
  ASSUME NEW w \in Worker, NEW s \in Session
  PROVE  \A ms \in Greeting(w, s) : ms \subseteq Message
  BY NoneAssumption, RequestAssumption
     DEF Greeting, Session, Request, Quiet, OutMessage, Message

LEMMA AdmitType ==
  ASSUME TypeOK, NEW w \in Worker, NEW s \in Session, Admit(w, s)
  PROVE  /\ workers' \subseteq Worker
         /\ DOMAIN session' = Worker
         /\ \A v \in Worker : IF v \in workers' THEN session'[v] \in Session
                                                ELSE session'[v] = None
         /\ inValve' \in BOOLEAN /\ reqValve' \in BOOLEAN
         /\ out' \subseteq Message
         /\ fault' \in {"none", "assert", "null"}
<1>1. out' \subseteq Message
  BY GreetingType DEF Admit
<1>2. \A v \in Worker : IF v \in workers' THEN session'[v] \in Session
                                          ELSE session'[v] = None
  BY DEF Admit, TypeOK
<1>3. inValve' \in BOOLEAN /\ reqValve' \in BOOLEAN
  BY DEF Admit, TypeOK
<1> QED BY <1>1, <1>2, <1>3 DEF Admit, TypeOK

LEMMA StepType == TypeOK /\ [Next]_vars => TypeOK'
<1> SUFFICES ASSUME TypeOK, [Next]_vars PROVE TypeOK'
  OBVIOUS
<1>1. CASE InInit
  <2>1. PICK req \in InitRequest, w \in Worker :
           /\ Admit(w, [mode |-> "stream", request |-> req])
           /\ streamWorkersByRid' = IF req.rid = None THEN streamWorkersByRid
                                    ELSE [streamWorkersByRid EXCEPT ![req.rid] = w]
           /\ UNCHANGED reqHeadersByWorker
    BY <1>1 DEF InInit
  <2>2. [mode |-> "stream", request |-> req] \in Session
    BY DEF Session
  <2>3. streamWorkersByRid' \in [Rid -> Worker \cup {None}]
    BY <2>1 DEF TypeOK
  <2> QED BY <2>1, <2>2, <2>3, AdmitType DEF TypeOK
<1>2. CASE InReq
  <2>1. PICK req \in ReqRequest, w \in Worker, p \in Peer :
           /\ Admit(w, [mode |-> "single", request |-> req])
           /\ reqHeadersByWorker' = [reqHeadersByWorker EXCEPT ![w] = p]
           /\ UNCHANGED streamWorkersByRid
    BY <1>2 DEF InReq
  <2>2. [mode |-> "single", request |-> req] \in Session
    BY DEF Session
  <2>3. reqHeadersByWorker' \in [Worker -> Peer \cup {None}]
    BY <2>1 DEF TypeOK
  <2> QED BY <2>1, <2>2, <2>3, AdmitType DEF TypeOK
<1>3. CASE RejectInUse
  BY <1>3 DEF RejectInUse, TypeOK
<1>4. CASE InStream
  <2>1. out' \subseteq Message
    BY <1>4 DEF InStream, OutMessage, Message
  <2> QED BY <1>4, <2>1 DEF InStream, TypeOK
<1>5. CASE ParseFailure
  <2>1. out' \subseteq Message
    BY <1>5 DEF ParseFailure, OutMessage, Message
  <2> QED BY <1>5, <2>1 DEF ParseFailure, TypeOK
<1>6. ASSUME NEW w \in Worker, WorkerReadyRead(w) PROVE TypeOK'
  <2>1. session[w] \in Session /\ session[w].request \in Request
    BY <1>6, RequestAssumption DEF WorkerReadyRead, TypeOK, Session
  <2>2. out' \subseteq Message
    BY <1>6, <2>1 DEF WorkerReadyRead, TypeOK, Request, OutMessage, ReqMessage, Message
  <2> QED BY <1>6, <2>2 DEF WorkerReadyRead, TypeOK
<1>7. ASSUME NEW w \in Worker, WorkerFinished(w) PROVE TypeOK'
  BY <1>7, ConfigAssumption DEF WorkerFinished, TypeOK
<1>8. CASE UNCHANGED vars
  BY <1>8 DEF vars, TypeOK
<1> QED BY <1>1, <1>2, <1>3, <1>4, <1>5, <1>6, <1>7, <1>8 DEF Next

THEOREM TypeCorrect == Spec => []TypeOK
  BY InitType, StepType, PTL DEF Spec

----------------------------------------------------------------------------
\* The number of open workers never exceeds max_open_requests, and a valve is
\* shut exactly while the limit is reached: admission through either interface
\* uses up the room of both, every finish returns it.
LEMMA AdmitRoom ==
  ASSUME RoomInv, NEW w \in Worker, NEW s \in Session, Admit(w, s),
         inValve \/ reqValve
  PROVE  IsFiniteSet(workers') /\ WorkersWithinLimit' /\ ValvesTrackRoom'
<1>1. /\ IsFiniteSet(workers')
      /\ Cardinality(workers') = Cardinality(workers) + 1
      /\ Cardinality(workers) \in Nat
  BY FS_AddElement, FS_CardinalityType DEF Admit, RoomInv
<1>2. workers = {} \/ ~AtLimit(workers)
  BY DEF RoomInv, ValvesTrackRoom
<1>3. workers = {} => Cardinality(workers) = 0
  BY FS_EmptySet
<1>4. WorkersWithinLimit'
  BY <1>1, <1>2, <1>3, LimitAssumption DEF WorkersWithinLimit, Limit, AtLimit
<1>5. workers' # {}
  BY DEF Admit
<1>6. ValvesTrackRoom'
  BY <1>2, <1>5 DEF Admit, RoomInv, ValvesTrackRoom, AtLimit
<1> QED BY <1>1, <1>4, <1>6

LEMMA FinishRoom ==
  ASSUME RoomInv, NEW w \in Worker, WorkerFinished(w)
  PROVE  IsFiniteSet(workers') /\ WorkersWithinLimit' /\ ValvesTrackRoom'
<1>1. /\ IsFiniteSet(workers')
      /\ Cardinality(workers') = Cardinality(workers) - 1
      /\ Cardinality(workers) \in Nat /\ Cardinality(workers') \in Nat
  BY FS_RemoveElement, FS_CardinalityType DEF WorkerFinished, RoomInv
<1>2. WorkersWithinLimit'
  BY <1>1, LimitAssumption DEF RoomInv, WorkersWithinLimit, Limit
<1>3. workers' # {} => Cardinality(workers') # 0
  BY <1>1, FS_EmptySet
<1>4. workers' # {} => ~AtLimit(workers)'
  BY <1>1, <1>3, LimitAssumption DEF RoomInv, WorkersWithinLimit, Limit, AtLimit
<1>5. ValvesTrackRoom'
  BY <1>4 DEF WorkerFinished, ValvesTrackRoom, AtLimit
<1> QED BY <1>1, <1>2, <1>5

LEMMA InitRoom == Init => RoomInv
<1> SUFFICES ASSUME Init PROVE RoomInv
  OBVIOUS
<1>1. IsFiniteSet(workers) /\ Cardinality(workers) = 0
  BY FS_EmptySet DEF Init
<1>2. WorkersWithinLimit
  BY <1>1, LimitAssumption DEF WorkersWithinLimit, Limit
<1>3. ValvesTrackRoom
  BY DEF Init, ValvesTrackRoom
<1> QED BY <1>1, <1>2, <1>3, InitType DEF RoomInv

LEMMA StepRoom == RoomInv /\ [Next]_vars => RoomInv'
<1> SUFFICES ASSUME RoomInv, [Next]_vars PROVE RoomInv'
  OBVIOUS
<1>1. TypeOK'
  BY StepType DEF RoomInv
<1>2. CASE InInit
  <2>1. PICK req \in InitRequest, w \in Worker :
           inValve /\ Admit(w, [mode |-> "stream", request |-> req])
    BY <1>2 DEF InInit
  <2>2. [mode |-> "stream", request |-> req] \in Session
    BY DEF Session
  <2> QED BY <1>1, <2>1, <2>2, AdmitRoom DEF RoomInv
<1>3. CASE InReq
  <2>1. PICK req \in ReqRequest, w \in Worker :
           reqValve /\ Admit(w, [mode |-> "single", request |-> req])
    BY <1>3 DEF InReq
  <2>2. [mode |-> "single", request |-> req] \in Session
    BY DEF Session
  <2> QED BY <1>1, <2>1, <2>2, AdmitRoom DEF RoomInv
<1>4. ASSUME NEW w \in Worker, WorkerFinished(w) PROVE RoomInv'
  BY <1>1, <1>4, FinishRoom DEF RoomInv
<1>5. CASE \/ RejectInUse \/ InStream \/ ParseFailure
           \/ \E w \in Worker : WorkerReadyRead(w)
           \/ UNCHANGED vars
  <2>1. UNCHANGED <<workers, inValve, reqValve>>
    BY <1>5 DEF RejectInUse, InStream, ParseFailure, WorkerReadyRead, vars
  <2> QED BY <1>1, <2>1 DEF RoomInv, WorkersWithinLimit, ValvesTrackRoom, AtLimit
<1> QED BY <1>2, <1>3, <1>4, <1>5 DEF Next

THEOREM LimitKept == Spec => []WorkersWithinLimit
<1>1. RoomInv => WorkersWithinLimit
  BY DEF RoomInv
<1> QED BY <1>1, InitRoom, StepRoom, PTL DEF Spec

THEOREM ValvesExact == Spec => []ValvesTrackRoom
<1>1. RoomInv => ValvesTrackRoom
  BY DEF RoomInv
<1> QED BY <1>1, InitRoom, StepRoom, PTL DEF Spec

----------------------------------------------------------------------------
\* Neither table keeps a pointer to a worker that was deleted.  The argument
\* for worker_finished: an id that leads to the finished worker is its own id.
LEMMA InitTable == Init => TableInv
  BY InitType DEF Init, TableInv, NoDanglingPointers

LEMMA StepTable == TableInv /\ [Next]_vars => TableInv'
<1> SUFFICES ASSUME TableInv, [Next]_vars PROVE NoDanglingPointers'
  BY StepType DEF TableInv
<1> USE DEF TableInv
<1>1. CASE InInit
  <2>1. PICK req \in InitRequest, w \in Worker :
           /\ Admit(w, [mode |-> "stream", request |-> req])
           /\ streamWorkersByRid' = IF req.rid = None THEN streamWorkersByRid
                                    ELSE [streamWorkersByRid EXCEPT ![req.rid] = w]
           /\ UNCHANGED reqHeadersByWorker
    BY <1>1 DEF InInit
  <2>2. session' = [session EXCEPT ![w] = [mode |-> "stream", request |-> req]]
        /\ w \notin workers /\ workers' = workers \cup {w}
    BY <2>1 DEF Admit
  <2> QED BY <2>1, <2>2, NoneAssumption DEF TypeOK, NoDanglingPointers
<1>2. CASE InReq
  <2>1. PICK req \in ReqRequest, w \in Worker, p \in Peer :
           /\ Admit(w, [mode |-> "single", request |-> req])
           /\ reqHeadersByWorker' = [reqHeadersByWorker EXCEPT ![w] = p]
           /\ UNCHANGED streamWorkersByRid
    BY <1>2 DEF InReq
  <2>2. session' = [session EXCEPT ![w] = [mode |-> "single", request |-> req]]
        /\ w \notin workers /\ workers' = workers \cup {w}
    BY <2>1 DEF Admit
  <2> QED BY <2>1, <2>2, NoneAssumption DEF TypeOK, NoDanglingPointers
<1>3. ASSUME NEW w \in Worker, WorkerFinished(w) PROVE NoDanglingPointers'
  BY <1>3, NoneAssumption DEF WorkerFinished, TypeOK, NoDanglingPointers
<1>4. CASE \/ RejectInUse \/ InStream \/ ParseFailure
           \/ \E w \in Worker : WorkerReadyRead(w)
           \/ UNCHANGED vars
  <2>1. UNCHANGED <<workers, session, streamWorkersByRid, reqHeadersByWorker>>
    BY <1>4 DEF RejectInUse, InStream, ParseFailure, WorkerReadyRead, vars
  <2> QED BY <2>1 DEF NoDanglingPointers
<1> QED BY <1>1, <1>2, <1>3, <1>4 DEF Next

THEOREM NoStaleTableEntry == Spec => []NoDanglingPointers
<1>1. TableInv => NoDanglingPointers
  BY DEF TableInv
<1> QED BY <1>1, InitTable, StepTable, PTL DEF Spec

----------------------------------------------------------------------------
\* Provided the clients of the two interfaces do not use the same ids, the id
\* table leads to every open stream session that has an id.
LEMMA InitRoute == Init => RouteInv
  BY InitTable DEF Init, RouteInv, StreamSessionsRoutable

LEMMA StepRoute ==
  ASSUME DistinctIds
  PROVE  RouteInv /\ [Next]_vars => RouteInv'
<1> SUFFICES ASSUME RouteInv, [Next]_vars PROVE StreamSessionsRoutable'
  BY StepTable DEF RouteInv
<1> USE DEF RouteInv, TableInv
<1>1. CASE InInit
  <2>1. PICK req \in InitRequest, w \in Worker :
           /\ ~IdInUse(req)
           /\ Admit(w, [mode |-> "stream", request |-> req])
           /\ streamWorkersByRid' = IF req.rid = None THEN streamWorkersByRid
                                    ELSE [streamWorkersByRid EXCEPT ![req.rid] = w]
    BY <1>1 DEF InInit
  <2>2. session' = [session EXCEPT ![w] = [mode |-> "stream", request |-> req]]
        /\ w \notin workers /\ workers' = workers \cup {w}
    BY <2>1 DEF Admit
  <2>3. req.rid \in Rid \cup {None}
    BY RequestAssumption DEF Request
  <2>4. ASSUME NEW v \in workers, session[v].mode = "stream",
               session[v].request.rid # None
        PROVE  session[v].request.rid # req.rid
    BY <2>1, <2>4, NoneAssumption DEF IdInUse, StreamSessionsRoutable, TypeOK
  <2> QED BY <2>1, <2>2, <2>3, <2>4 DEF TypeOK, StreamSessionsRoutable
<1>2. CASE InReq
  <2>1. PICK req \in ReqRequest, w \in Worker :
           /\ Admit(w, [mode |-> "single", request |-> req])
           /\ UNCHANGED streamWorkersByRid
    BY <1>2 DEF InReq
  <2>2. session' = [session EXCEPT ![w] = [mode |-> "single", request |-> req]]
        /\ w \notin workers /\ workers' = workers \cup {w}
    BY <2>1 DEF Admit
  <2> QED BY <2>1, <2>2 DEF TypeOK, StreamSessionsRoutable
<1>3. ASSUME NEW w \in Worker, WorkerFinished(w) PROVE StreamSessionsRoutable'
  <2> SUFFICES ASSUME NEW v \in workers', session'[v].mode = "stream",
                      session'[v].request.rid # None
               PROVE  streamWorkersByRid'[session'[v].request.rid] = v
    BY DEF StreamSessionsRoutable
  <2>1. v \in workers /\ v # w /\ session'[v] = session[v]
    BY <1>3 DEF WorkerFinished, TypeOK
  <2>2. session[v] \in Session /\ session[w] \in Session
    BY <1>3, <2>1 DEF WorkerFinished, TypeOK
  <2>3. session[v].request \in InitRequest /\ session[v].request.rid \in Rid
    BY <2>1, <2>2, RequestAssumption DEF Session, Request
  <2>4. session[w].request.rid # session[v].request.rid
    <3>1. CASE session[w].mode = "stream"
      BY <1>3, <2>1, <3>1 DEF WorkerFinished, StreamSessionsRoutable
    <3>2. CASE session[w].mode = "single"
      <4>1. session[w].request \in ReqRequest
        BY <2>2, <3>2 DEF Session
      <4> QED BY <2>1, <2>3, <4>1 DEF DistinctIds
    <3> QED BY <2>2, <3>1, <3>2 DEF Session
  <2> QED BY <1>3, <2>1, <2>3, <2>4 DEF WorkerFinished, StreamSessionsRoutable
<1>4. CASE \/ RejectInUse \/ InStream \/ ParseFailure
           \/ \E w \in Worker : WorkerReadyRead(w)
           \/ UNCHANGED vars
  <2>1. UNCHANGED <<workers, session, streamWorkersByRid>>
    BY <1>4 DEF RejectInUse, InStream, ParseFailure, WorkerReadyRead, vars
  <2> QED BY <2>1 DEF StreamSessionsRoutable
<1> QED BY <1>1, <1>2, <1>3, <1>4 DEF Next

THEOREM SessionsRoutable ==
  ASSUME DistinctIds
  PROVE  Spec => []StreamSessionsRoutable
<1>1. RouteInv => StreamSessionsRoutable
  BY DEF RouteInv
<1> QED BY <1>1, InitRoute, StepRoute, PTL DEF Spec

\* Under the same condition a session that is running is never reported as
\* gone: a follow-up that is answered with a cancel names an id that leads
\* nowhere, so no open session has it.
LEMMA CancelStep ==
  ASSUME RouteInv, [Next]_vars
  PROVE  [\A m \in out' : m.type = "cancel" =>
            ~ \E w \in workers : /\ session[w].mode = "stream"
                                 /\ session[w].request.rid = m.rid]_vars
<1> USE DEF RouteInv, TableInv
<1> DEFINE Quiets == \A m \in out' : m.type # "cancel"
<1>1. CASE InStream
  <2> SUFFICES ASSUME NEW m \in out', m.type = "cancel", NEW w \in workers,
                      session[w].mode = "stream", session[w].request.rid = m.rid
               PROVE  FALSE
    OBVIOUS
  <2>1. PICK r \in Rid, from \in Addr :
          m = OutMessage(from, r, None, "cancel") /\ streamWorkersByRid[r] = None
    BY <1>1, NoneAssumption DEF InStream
  <2>2. m.rid = r
    BY <2>1 DEF OutMessage
  <2> QED BY <2>1, <2>2, NoneAssumption DEF StreamSessionsRoutable, TypeOK
<1>2. CASE ParseFailure
  <2>1. Quiets
    BY <1>2 DEF ParseFailure, OutMessage
  <2> QED BY <2>1
<1>3. ASSUME NEW s, NEW w, Admit(w, s) PROVE Quiets
  BY <1>3 DEF Admit, Greeting, OutMessage
<1>4. CASE InInit \/ InReq
  <2>1. Quiets
    BY <1>3, <1>4 DEF InInit, InReq
  <2> QED BY <2>1
<1>5. ASSUME NEW w \in Worker, WorkerReadyRead(w) PROVE Quiets
  BY <1>5 DEF WorkerReadyRead, OutMessage, ReqMessage
<1>6. CASE RejectInUse \/ \E w \in Worker : WorkerFinished(w) \/ WorkerReadyRead(w)
  <2>1. Quiets
    BY <1>5, <1>6 DEF RejectInUse, WorkerFinished
  <2> QED BY <2>1
<1>7. CASE UNCHANGED vars
  BY <1>7
<1> QED BY <1>1, <1>2, <1>4, <1>6, <1>7 DEF Next

THEOREM LiveSessionsKept ==
  ASSUME DistinctIds
  PROVE  Spec => LiveSessionNotCancelled
<1>1. RouteInv /\ [Next]_vars =>
        [\A m \in out' : m.type = "cancel" =>
           ~ \E w \in workers : /\ session[w].mode = "stream"
                                /\ session[w].request.rid = m.rid]_vars
  BY CancelStep
<1> QED BY <1>1, InitRoute, StepRoute, PTL DEF Spec, LiveSessionNotCancelled

----------------------------------------------------------------------------
\* The dispatcher never meets a null socket or a missing return path, provided
\* that the stream interface is configured and that every stream request which
\* is not an http one names a return address: those are never run quietly.
Answerable == /\ HasStream
              /\ \A req \in InitRequest : req.from = None => req.target = "http"

ReplyInv == /\ TypeOK /\ NoFault
            /\ \A w \in workers : session[w].mode = "single" =>
                 reqHeadersByWorker[w] # None

LEMMA InitReply == Init => ReplyInv
  BY InitType DEF Init, ReplyInv, NoFault

LEMMA StepReply ==
  ASSUME Answerable
  PROVE  ReplyInv /\ [Next]_vars => ReplyInv'
<1> SUFFICES ASSUME ReplyInv, [Next]_vars
             PROVE  /\ NoFault'
                    /\ \A w \in workers' : session'[w].mode = "single" =>
                         reqHeadersByWorker'[w] # None
  BY StepType DEF ReplyInv
<1> USE DEF ReplyInv, NoFault
<1>1. CASE InInit
  <2>1. PICK req \in InitRequest, w \in Worker :
           /\ Admit(w, [mode |-> "stream", request |-> req])
           /\ UNCHANGED reqHeadersByWorker
    BY <1>1 DEF InInit
  <2> QED BY <2>1 DEF Admit, TypeOK
<1>2. CASE InReq
  <2>1. PICK req \in ReqRequest, w \in Worker, p \in Peer :
           /\ Admit(w, [mode |-> "single", request |-> req])
           /\ reqHeadersByWorker' = [reqHeadersByWorker EXCEPT ![w] = p]
    BY <1>2 DEF InReq
  <2> QED BY <2>1, NoneAssumption DEF Admit, TypeOK
<1>3. ASSUME NEW w \in Worker, WorkerReadyRead(w) PROVE NoFault'
  <2>1. session[w] \in Session
    BY <1>3 DEF WorkerReadyRead, TypeOK
  <2>2. CASE session[w].mode = "stream"
    <3>1. session[w].request \in InitRequest
      BY <2>1, <2>2 DEF Session
    <3>2. session[w].request.from # None
      BY <1>3, <2>2, <3>1 DEF WorkerReadyRead, Quiet, Answerable
    <3> QED BY <1>3, <3>2 DEF WorkerReadyRead, Answerable
  <2>3. CASE session[w].mode = "single"
    BY <1>3, <2>3 DEF WorkerReadyRead, Answerable
  <2> QED BY <2>1, <2>2, <2>3 DEF Session
<1>4. ASSUME NEW w \in Worker, WorkerFinished(w)
      PROVE  /\ NoFault'
             /\ \A v \in workers' : session'[v].mode = "single" =>
                  reqHeadersByWorker'[v] # None
  BY <1>4 DEF WorkerFinished, TypeOK
<1>5. CASE \/ RejectInUse \/ InStream \/ ParseFailure
           \/ \E w \in Worker : WorkerReadyRead(w)
           \/ UNCHANGED vars
  <2>1. UNCHANGED <<workers, session, reqHeadersByWorker>>
    BY <1>5 DEF RejectInUse, InStream, ParseFailure, WorkerReadyRead, vars
  <2>2. NoFault'
    BY <1>3, <1>5 DEF RejectInUse, InStream, ParseFailure, Answerable, vars
  <2> QED BY <2>1, <2>2
<1> QED BY <1>1, <1>2, <1>4, <1>5 DEF Next

THEOREM NoHandlerFails ==
  ASSUME Answerable
  PROVE  Spec => []NoFault
<1>1. ReplyInv => NoFault
  BY DEF ReplyInv
<1> QED BY <1>1, InitReply, StepReply, PTL DEF Spec
=============================================================================
