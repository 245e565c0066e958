-------------------------------- MODULE App --------------------------------
(***************************************************************************)
(* The dispatcher of zurl (class App::Private, src/src/app.cpp).           *)
(*                                                                         *)
(* It owns four sockets: in_sock (PULL, new stream requests),              *)
(* in_stream_sock (DEALER, follow-ups of stream sessions), out_sock (PUB,  *)
(* everything the stream workers say) and in_req_sock (ROUTER, one-shot    *)
(* requests and their replies).  in_sock and in_req_sock are read through  *)
(* valves, which are closed while max_open_requests workers are open.      *)
(*                                                                         *)
(* A worker is seen from outside: it is admitted, it says things           *)
(* (Worker::readyRead) and it finishes (Worker::finished).  Parsing,       *)
(* formats and logging are abstracted to their outcomes.  A failed assert  *)
(* or the use of a socket that was never created ends the program: fault   *)
(* records which, and nothing happens afterwards.                          *)
(***************************************************************************)
EXTENDS Integers, FiniteSets

CONSTANTS
  Worker,         \* names for worker objects
  Rid,            \* request ids
  Addr,           \* values of a request's "from" field
  Peer,           \* return paths of the ROUTER socket (reqHeaders)
  None,           \* an absent field or a null pointer
  MaxWorkers,     \* config.maxWorkers, -1: no limit
  HasStream,      \* in_spec, in_stream_spec and out_spec are configured
  HasReq,         \* in_req_spec is configured
  InitRequest,    \* requests that can arrive on in_sock
  ReqRequest      \* requests that can arrive on in_req_sock

\* What the dispatcher's behaviour depends on in a request.  target is the
\* outcome of Worker::start's uri and scheme checks.
Request == [rid : Rid \cup {None}, from : Addr \cup {None},
            target : {"http", "ws", "bad"}]

ASSUME LimitAssumption == MaxWorkers \in Int
ASSUME ConfigAssumption == HasStream \in BOOLEAN /\ HasReq \in BOOLEAN
ASSUME NoneAssumption == None \notin Worker \cup Rid \cup Addr \cup Peer
ASSUME RequestAssumption == InitRequest \subseteq Request /\ ReqRequest \subseteq Request

VARIABLES
  workers,             \* the open workers
  streamWorkersByRid,  \* the worker that follow-ups with an id go to
  reqHeadersByWorker,  \* the return path of a worker of in_req_sock
  session,             \* what each open worker was started with
  inValve,             \* is in_sock being read?
  reqValve,            \* is in_req_sock being read?
  out,                 \* messages written by the latest handler
  fault                \* "none", "assert" or "null"

vars == <<workers, streamWorkersByRid, reqHeadersByWorker, session,
          inValve, reqValve, out, fault>>

Session == [mode : {"stream"}, request : InitRequest]
             \cup [mode : {"single"}, request : ReqRequest]

\* A message on out_sock is addressed by the receiver's "from", one on
\* in_req_sock by its return path.  by is the worker that speaks, None when
\* the dispatcher answers by itself.
OutMessage(receiver, rid, worker, type) ==
  [sock |-> "out", to |-> receiver, rid |-> rid, by |-> worker, type |-> type]
ReqMessage(peer, rid, worker, type) ==
  [sock |-> "req", to |-> peer, rid |-> rid, by |-> worker, type |-> type]

Message == [sock : {"out", "req"}, to : Addr \cup Peer, rid : Rid \cup {None},
            by : Worker \cup {None}, type : {"reply", "cancel", "error"}]

\* Worker::start: a stream request over http that lacks an id or a return
\* address is run in fire-and-forget mode and never says anything.
\* Mutant: only the id is looked at.
QuietWithoutId(s) == s.mode = "stream" /\ s.request.target = "http" /\ s.request.rid = None

Quiet(s) == /\ s.mode = "stream"
            /\ s.request.target = "http"
            /\ s.request.rid = None \/ s.request.from = None

\* The number of workers at which the valves close.
\* Mutant: off by one.
AboveLimit(ws) == MaxWorkers # -1 /\ Cardinality(ws) > MaxWorkers

AtLimit(ws) == MaxWorkers # -1 /\ Cardinality(ws) >= MaxWorkers

Init == /\ workers = {}
        /\ streamWorkersByRid = [r \in Rid |-> None]
        /\ reqHeadersByWorker = [w \in Worker |-> None]
        /\ session = [w \in Worker |-> None]
        /\ inValve = HasStream
        /\ reqValve = HasReq
        /\ out = {}
        /\ fault = "none"

----------------------------------------------------------------------------
\* handleIncoming for a well-formed first message: the session's worker is
\* created and registered, the valves are closed when it is the last one
\* allowed, and the worker is started.  Worker::start may say something at
\* once (credits or an acknowledgement for a valid http request of the stream
\* interface), always to a return address.

\* Mutant: ids are not checked.
IdNeverInUse(req) == FALSE

IdInUse(req) == req.rid # None /\ streamWorkersByRid[req.rid] # None

\* Mutant: quiet sessions are greeted as well.
GreetingAlways(w, s) ==
  IF s.mode = "stream" /\ s.request.target = "http"
    THEN {{}, {OutMessage(s.request.from, s.request.rid, w, "reply")}}
    ELSE {{}}

Greeting(w, s) ==
  IF s.mode = "stream" /\ s.request.target = "http" /\ ~Quiet(s)
    THEN {{}, {OutMessage(s.request.from, s.request.rid, w, "reply")}}
    ELSE {{}}

\* Mutant: only one of the valves is closed.
AdmitOneValve(w, s) ==
  /\ w \notin workers
  /\ workers' = workers \cup {w}
  /\ session' = [session EXCEPT ![w] = s]
  /\ inValve' = (inValve /\ ~AtLimit(workers'))
  /\ out' \in Greeting(w, s)
  /\ UNCHANGED <<reqValve, fault>>

Admit(w, s) ==
  /\ w \notin workers
  /\ workers' = workers \cup {w}
  /\ session' = [session EXCEPT ![w] = s]
  /\ inValve' = (inValve /\ ~AtLimit(workers'))
  /\ reqValve' = (reqValve /\ ~AtLimit(workers'))
  /\ out' \in Greeting(w, s)
  /\ UNCHANGED fault

InInit == \E req \in InitRequest, w \in Worker :
  /\ fault = "none" /\ inValve
  /\ ~IdInUse(req)
  /\ Admit(w, [mode |-> "stream", request |-> req])
  /\ streamWorkersByRid' = IF req.rid = None THEN streamWorkersByRid
                           ELSE [streamWorkersByRid EXCEPT ![req.rid] = w]
  /\ UNCHANGED reqHeadersByWorker

InReq == \E req \in ReqRequest, w \in Worker, p \in Peer :
  /\ fault = "none" /\ reqValve
  /\ ~IdInUse(req)
  /\ Admit(w, [mode |-> "single", request |-> req])
  /\ reqHeadersByWorker' = [reqHeadersByWorker EXCEPT ![w] = p]
  /\ UNCHANGED streamWorkersByRid

\* handleIncoming drops a first message with an id of an open stream session.
Readable == (IF inValve THEN InitRequest ELSE {})
            \cup (IF reqValve THEN ReqRequest ELSE {})

RejectInUse ==
  /\ fault = "none"
  /\ \E req \in Readable : IdInUse(req)
  /\ out' = {}
  /\ UNCHANGED <<workers, streamWorkersByRid, reqHeadersByWorker, session,
                 inValve, reqValve, fault>>

\* Mutant: every id is answered with a cancel.
InStreamCancelsAll == \E ids \in SUBSET Rid \ {{}}, from \in Addr :
  /\ fault = "none" /\ HasStream
  /\ out' = {OutMessage(from, r, None, "cancel") : r \in ids}
  /\ UNCHANGED <<workers, streamWorkersByRid, reqHeadersByWorker, session,
                 inValve, reqValve, fault>>

\* A follow-up may carry several ids.  Those of open sessions are handed to
\* their worker (Worker::write, which never calls back into the dispatcher);
\* each of the others is answered with a cancel, unless the message ends the
\* session anyway or names no return address.
InStream == \E ids \in SUBSET Rid \ {{}}, from \in Addr \cup {None},
               ends \in BOOLEAN :
  /\ fault = "none" /\ HasStream
  /\ out' = IF ends \/ from = None THEN {}
            ELSE {OutMessage(from, r, None, "cancel") :
                    r \in {i \in ids : streamWorkersByRid[i] = None}}
  /\ UNCHANGED <<workers, streamWorkersByRid, reqHeadersByWorker, session,
                 inValve, reqValve, fault>>

\* A message that is not a valid packet but whose id and return address could
\* be read is answered on out_sock, whichever socket it came from.
ParseFailure == \E from \in Addr, rid \in Rid :
  /\ fault = "none"
  /\ HasStream \/ reqValve
  /\ out' = IF HasStream THEN {OutMessage(from, rid, None, "error")} ELSE {}
  /\ fault' = IF HasStream THEN "none" ELSE "null"
  /\ UNCHANGED <<workers, streamWorkersByRid, reqHeadersByWorker, session,
                 inValve, reqValve>>

----------------------------------------------------------------------------
\* The socket is chosen by the presence of a return address, not by the
\* interface the request came from.
WorkerReadyRead(w) ==
  LET req == session[w].request IN
  /\ fault = "none" /\ w \in workers
  /\ ~Quiet(session[w])
  /\ \/ /\ req.from # None
        /\ out' = IF HasStream THEN {OutMessage(req.from, req.rid, w, "reply")} ELSE {}
        /\ fault' = IF HasStream THEN "none" ELSE "null"
     \/ /\ req.from = None
        /\ out' = IF reqHeadersByWorker[w] # None
                    THEN {ReqMessage(reqHeadersByWorker[w], req.rid, w, "reply")}
                    ELSE {}
        /\ fault' = IF reqHeadersByWorker[w] # None THEN "none" ELSE "assert"
  /\ UNCHANGED <<workers, streamWorkersByRid, reqHeadersByWorker, session,
                 inValve, reqValve>>

\* Mutant: the id is not unregistered.
WorkerFinishedKeepsId(w) ==
  /\ fault = "none" /\ w \in workers
  /\ workers' = workers \ {w}
  /\ reqHeadersByWorker' = [reqHeadersByWorker EXCEPT ![w] = None]
  /\ session' = [session EXCEPT ![w] = None]
  /\ inValve' = HasStream /\ reqValve' = HasReq
  /\ out' = {}
  /\ UNCHANGED <<streamWorkersByRid, fault>>

\* The worker is unregistered under its id whatever its mode, deleted, and
\* both valves are opened.
WorkerFinished(w) ==
  /\ fault = "none" /\ w \in workers
  /\ workers' = workers \ {w}
  /\ streamWorkersByRid' =
       [r \in Rid |-> IF r = session[w].request.rid THEN None
                      ELSE streamWorkersByRid[r]]
  /\ reqHeadersByWorker' = [reqHeadersByWorker EXCEPT ![w] = None]
  /\ session' = [session EXCEPT ![w] = None]
  /\ inValve' = HasStream
  /\ reqValve' = HasReq
  /\ out' = {}
  /\ UNCHANGED fault

Next == \/ InInit \/ InReq \/ RejectInUse \/ InStream \/ ParseFailure
        \/ \E w \in Worker : WorkerReadyRead(w) \/ WorkerFinished(w)

Spec == Init /\ [][Next]_vars

----------------------------------------------------------------------------
\* Type invariant of the dispatcher's tables; every open worker has a session.
TypeOK ==
  /\ workers \subseteq Worker
  /\ streamWorkersByRid \in [Rid -> Worker \cup {None}]
  /\ reqHeadersByWorker \in [Worker -> Peer \cup {None}]
  /\ DOMAIN session = Worker
  /\ \A w \in Worker : IF w \in workers THEN session[w] \in Session
                                        ELSE session[w] = None
  /\ inValve \in BOOLEAN /\ reqValve \in BOOLEAN
  /\ out \subseteq Message
  /\ fault \in {"none", "assert", "null"}

\* max_open_requests bounds the open workers across both interfaces, although
\* each interface admits through a valve of its own and both are reopened by
\* every finish (app.cpp, the ends of handleIncoming and worker_finished).  A
\* limit below one admits one worker at a time.
Limit == IF MaxWorkers >= 1 THEN MaxWorkers ELSE 1
WorkersWithinLimit == MaxWorkers # -1 => Cardinality(workers) <= Limit

\* A configured interface is read exactly while there is room for another
\* worker: neither is left shut after a worker has gone, neither is left open
\* when the other one has used the last place.
ValvesTrackRoom == /\ inValve <=> (HasStream /\ ~(workers # {} /\ AtLimit(workers)))
                   /\ reqValve <=> (HasReq /\ ~(workers # {} /\ AtLimit(workers)))

\* Deleting a worker leaves no pointer to it in either table: the id table
\* leads to an open worker started with that very id, and return paths are
\* kept for open workers of in_req_sock only.
NoDanglingPointers ==
  /\ \A r \in Rid : streamWorkersByRid[r] # None =>
       /\ streamWorkersByRid[r] \in workers
       /\ session[streamWorkersByRid[r]].mode = "stream"
       /\ session[streamWorkersByRid[r]].request.rid = r
  /\ \A w \in Worker : reqHeadersByWorker[w] # None =>
       w \in workers /\ session[w].mode = "single"

\* Follow-ups of every open stream session reach its worker for as long as the
\* worker lives; hence two open stream sessions never share an id.
\* (Assuming DistinctIds: clients of the two interfaces draw ids from different
\* sets.)
DistinctIds == \A p \in InitRequest, q \in ReqRequest : p.rid # None => p.rid # q.rid

StreamSessionsRoutable == \A w \in workers :
  (session[w].mode = "stream" /\ session[w].request.rid # None)
    => streamWorkersByRid[session[w].request.rid] = w

\* The dispatcher tells a client that a session is gone (respondCancel) only
\* when no worker is running it.
LiveSessionNotCancelled ==
  [][\A m \in out' : m.type = "cancel" =>
       ~ \E w \in workers : /\ session[w].mode = "stream"
                            /\ session[w].request.rid = m.rid]_vars

\* No handler runs into the assert of worker_readyRead or uses a socket the
\* configuration did not create.
NoFault == fault = "none"
=============================================================================
