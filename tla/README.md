# A TLA+ model of zurl

Zurl is an HTTP and WebSocket client daemon: it takes requests as ZeroMQ
messages, carries them out and answers with messages.  It is a single-threaded
Qt program, so a handler is never interrupted; what makes it hard is that
handlers are run by many sources (sockets, timers, queued calls, libcurl's
callbacks) in almost any order, and that objects are deleted in the middle of
it.  Paths below are relative to the repository root; `app.cpp`, `worker.cpp`,
`httprequest.cpp` and `websocket.cpp` are in `src/`.

## Inventory

| component | state | operations | hard behaviour | what makes it correct |
|---|---|---|---|---|
| Dispatcher (`app.cpp`) | open workers, worker by id, return path by worker, two valves | first messages on two interfaces, follow-ups, output and end of workers | two valves and one limit; deletion of workers; ids chosen by clients | limit kept, no starving valve, no dangling pointer, follow-ups reach their session, answers reach the asker |
| HTTP session (`worker.cpp`, HTTP transport) | session state, sequence numbers, credits, buffers, five timers | start, write, update, slots of the request, timeouts | deferred update and deferred end, credits in both directions, timers racing with the last message | one ending, nothing after it, complete or reported as failed, limits kept, no lost wake-up |
| HTTP request (`HttpRequest`, `CurlConnection`) | buffers in both directions, pause bits, pending notification | start, writeBody, endBody, readResponseBody, curl callbacks | callbacks inside calls, pausing, rewind, queued notification | no byte lost or repeated, no pause for ever, asserts hold |
| Manager pool (`CurlConnectionManagerManager`) | current and old managers with reference counts, rotation timer | retainCurrent, release, rotate, set the period | rotation while in use | no use after deletion, nothing kept idle, rotation happens |
| curl glue (`CurlConnectionManager`) | socket notifiers, one timer | socket and timer callbacks, message processing | reentrancy of libcurl | curl makes progress |
| WebSocket session (`worker.cpp`, WebSocket transport) | as for HTTP plus closing states and pending writes | start, write, update, slots of the WebSocket | both sides closing, frames before close | close handshake ends once, all frames before it delivered |
| WebSocket (`websocket.cpp`) | handshake, redirect, address list, frame buffers, close states | start, writeFrame, readFrame, close, socket slots | failover between addresses, redirect, errors while closing | no connection after a close, no data lost, no null pointer |
| Frame and chunk codecs (`websocket.cpp:93-298`) | none | create, check and parse frames and chunks | limits and partial input | parse is the inverse of create |
| Address resolver (`addressresolver.cpp`) | one lookup | start, finish | late answer | one answer or none |
| Access policy (`worker.cpp:587-646`) | configuration | isAllowed | order of allow and deny | decision matches the configured order |
| Start-up, configuration, formats, TLS host check | - | - | - | - |

A request arrives at the dispatcher, which makes a worker (`Worker::start`).
The worker makes an `HttpRequest`, which holds a manager of the pool and gives
its `CurlConnection` to it.  libcurl calls back into `CurlConnection`; what
happened is told by one queued call, `doUpdate`, which runs
`HttpRequest::Private::conn_updated`; its signals run the slots of the worker.
The worker tells the dispatcher by `readyRead` what to send and by `finished`
that it may be deleted.  For the WebSocket transport the worker makes a
`WebSocket`, whose signals run the slots of the worker directly, in the middle
of the function that emits them.

## Modules

| module | models |
|---|---|
| `App` | the dispatcher; workers are seen from outside |
| `AppProofs` | its theorems |
| `ConnPool` | the manager pool and its use by requests |
| `ConnPoolProofs` | its theorems |
| `HttpTransfer` | the data of one request and connection: one operator per function of the code |
| `HttpTransferProofs` | lemmas: what each operator of `HttpTransfer` keeps |
| `HttpRequest` | a request between a user and libcurl, on top of `HttpTransfer` |
| `HttpRequestProofs` | its theorems |
| `Session` | what a session promises its client (abstract) |
| `WorkerHttp` | a worker with its `HttpRequest`, on top of `HttpTransfer`; implements `Session` |
| `WorkerHttpProofs` | its theorems, the refinement among them |
| `WebSocketClient` | the data of one WebSocket: one operator per function of the code |
| `WsSession` | what a WebSocket session promises its client (abstract) |
| `WorkerWs` | a worker with its `WebSocket`, its socket and a server, on top of `WebSocketClient`; implements `WsSession` |
| `WorkerWsProofs` | its theorems, the refinement among them |
| `FoldLemmas` | what a fold over a sequence computes, for any operator |
| `Codec` | the bytes of frames and chunks |
| `CodecProofs` | its theorems |
| `MCApp`, `MCWorkerHttp`, `MCWorkerWs` | what clients and servers send in the runs; `MCWorkerWs` also evaluates `Codec` |

An operator whose comment begins with "Mutant" is a faulty version of the
definition that follows it; it is used to see that a property notices the fault.

### App

`workers`, `streamWorkersByRid`, `reqHeadersByWorker`, `inValve` and `reqValve`
are the members of `App::Private`; `session` is what an open worker was started
with, `out` what the latest handler wrote, and `fault` a failed assert or a null
pointer, after which nothing happens.  `InInit` and `InReq` are
`handleIncoming` for a valid first message, `RejectInUse`, `InStream` and
`ParseFailure` its other outcomes, `WorkerReadyRead` and `WorkerFinished` the
slots of the workers.  A request is reduced to its id, its return address and
whether `Worker::start` takes it as HTTP, as WebSocket or refuses it, because
that decides when a worker may speak.  The valves stop reading at once, as
`QZmq::Valve` does in the way the code uses it.

### ConnPool

`current`, `old`, `refs` and `timer` are the pool's; `holder` is
`HttpRequest::Private::manager` and `handles` is
`CurlConnectionManager::connections`.  `StartConnect` and `Cleanup` are the two
places where a request takes and leaves a manager.  Names of managers are used
again after deletion, as addresses are, so a stale pointer may meet a new
object.

### HttpTransfer and HttpRequest

A request is a record.  Bodies are counted in bytes, as both buffers are
queues: what matters is how many bytes were taken from which position.  `in`,
`out`, `outPos`, `newlyReadOrEof`, `newlyWritten` and `pendingUpdate` are
fields of `CurlConnection`; `pauseRecv` and `pauseSend` are the two pause bits.
The histories `arrived`, `written`, `taken` and `eof` record what crossed the
interface of curl.  `aborted` is a failed assert.  Where the code calls into
curl and curl may call back before it returns (`Kick`, `Unpaused`), the
operator has a set of results.  Header parsing, redirects and failed addresses
show only as the header becoming complete, a rewind of the body, or a failed
transfer.  The methods are put into three classes, as `setupMethod` and `start`
treat them.

In `HttpRequest` the user may do anything the interface allows at any time: it
starts, writes and ends a body, reads any amount and deletes the request, at the
latest when it reports an error.

### Session and WorkerHttp

`Session` has five variables: the number of messages, the bytes that arrived,
were allowed and were passed on, and how the session ended.  It says that
messages come one at a time, that no byte is passed on before it arrived or
beyond the credits of the client, that the last message completes the body, and
that nothing follows an ending.

`WorkerHttp` has one record `w` for the worker, whose field `hreq` is the
request of `HttpTransfer`.  Its fields are the members of `Worker::Private`
that HTTP uses; `timers` and `updateTimer` are the running timers; the last
fields are histories.  `ClientStart` and `ClientWrite` are `start` and `write`,
`DoUpdate` the update timer, `ConnUpdated` the queued call with all slots it
runs (`req_readyRead`, `req_bytesWritten`, `req_error`) in their order, a slot
that ends the session cutting off the rest.  `QueuedError` is the queued error
of a HEAD request with a body.  The other timers may fire whenever they run.
The outcome of the checks on uri, scheme and policy is part of the request.
The refinement maps `seq` to the number of calls of `writeResponse`, `arrived`
to the request's history, `allowed` to the credits granted (to everything that
arrived for sessions that need no credits), and `delivered` to the body bytes in
messages.

### WsSession, WebSocketClient and WorkerWs

`WsSession` says that the client first hears that the server accepted, then gets
the server's frames, each once and never more bytes than it gave credits for,
the server's close at most once, and one ending, after which nothing is said;
and that a session ends in good order only after a close of the server.

A WebSocket is a record.  Its fields are the members of `WebSocket::Private`
(`in`, `inbuf`, `pendingWrites`, `peerClosing`, ...) and what the socket holds:
`net` is received and not read, `unwritten` given and not sent.  What a server
sends is a sequence of whole items: the head of a response, pieces of its body,
frames.  Payloads are sizes.  A function collects the signals it emits in
`signals`; `WorkerWs!Emitted` then runs the worker's slots in that order, until
one deletes the WebSocket.  That is the order of the code because no function
reads a member after an emission without asking first whether the object is
still there, and no slot changes what it reads.  `fault` is a failed assert, a
null socket or a loop that does not end.

`WorkerWs` has the worker `w`, whose field `ws` is its WebSocket, and the server
at the other end.  `ClientStart` and `ClientWrite` are `start` and `write`,
`DoUpdate` the update timer, `QueuedTryRead` the queued call of `tryRead`, the
actions of `SocketNext` the slots of the resolver and of the socket, those of
`ServerNext` the slot `sock_readyRead` with what the server sent.  The outcome
of the policy for an address is a choice (`WsNextAddress`), for the host a part
of the request (`valid`).

Some inputs are left out of the runs, each because the code does not cope with
it and no other property could be checked behind it.  Four are named in the
constant `Rare`, the last two are of the server; adding one shows what it does.
`Ordinary`, the hypothesis of the theorems, is that there are none of them:

| input | what happens |
|---|---|
| `early-write`: the client speaks before it is told that it is connected | `NoFault`: `writeFrame` and `close` use the socket, which is null until an address is resolved (`websocket.cpp:442`, `470`, `507`) |
| `lost-handshake`: an address fails before the handshake is sent and there is another | `WritesInStep`: the write of the first handshake stays in `pendingWrites` |
| `closing-error`: the connection fails after the client closed and there is another address | `NoFault`, `CloseCompletes`: the next address is tried and the handshake runs in a session that is closing (`websocket.cpp:1115`) |
| `after-close`: the server sends frames after its close frame | with four frames and a client without credits `NoFault`: a queued `tryRead` finds the socket gone (`websocket.cpp:931`); frames sent at once with a close frame before them are the same |
| a redirection with a body | `NoFault`: run `ws_redirect_body` (`websocket.cpp:418`) |
| a chunk that is there only in part when its size exceeds no limit | `NoFault`: the loop over the chunks does not end (`websocket.cpp:789`) |

One more is left out of the run `ws_session`, but not of the theorems: a frame of
an unknown type ahead of a close frame.  It ends the loop over the frames
(`websocket.cpp:728`), so the close stays in `inbuf` until the server sends
more, which it does not do, and `CloseCompletes` fails.  The other properties hold.

### Codec

`CreateFrame`, `CheckFrame`, `ParseFrame`, `FindLinebreak`, `CheckChunk` and
`ParseChunk` are the functions of the same name on sequences of bytes.  The
operator `^` and `QByteArray::toInt` are parameters, `BitXor` and `ToInt`.  Sizes
stay below 2^31, as an `int` does; the width of larger ones does not matter,
because `tryProcessFrame` compares the size with `maxFrameSize` before it looks
at anything else.  Size lines with a sign are not considered.

## Runs

| run | what it shows |
|---|---|
| `dispatcher` | 3 workers, limit 2, 3 ids, both interfaces: tables, valves, limit, routing, no failed assert |
| `dispatcher_same_id` | counterexample: one-shot and stream request with one id (`app.cpp:738`) |
| `dispatcher_no_from` | counterexample: refused stream request without return address trips `app.cpp:728` |
| `pool` | 3 requests, 4 managers: counts, lifetime, deadlines; a busy manager is rotated out |
| `request` | body of 4 bytes through a buffer of 3, upload of 4 with a rewind limit of 2, one rewind: safety, and progress in both directions |
| `session` | streamed responses and one-message responses on both interfaces, 3 follow-ups with any credits or body data, any order of timers: implements `Session`; limits, one reply, no lost wake-up |
| `session_progress` | a client that returns its credits is told the end of every transfer |
| `session_truncated` | counterexample: a broken transfer ends with an ordinary final message (`worker.cpp:828`) |
| `session_early_final` | counterexample: credits for a response that is not streamed end it early (`worker.cpp:583`) |
| `ws_session` | two addresses, two redirects of which the later ones need no Location, rejections with and without a length, in chunks; frames in runs of up to two, one beyond the limit, one of an unknown type; credits that are given late, both sides closing, all timers: implements `WsSession`; no fault, both lists of writes in step, nothing stuck, a close comes to its end |
| `ws_close_order` | counterexample: frames and the server's close that arrive together are passed on in the wrong order (`worker.cpp:1082`) |
| `ws_redirect_body` | counterexample: the body of a redirect counts as body of the next answer and trips `websocket.cpp:846` |

**Bounds.**  Two workers reach the limit and a third shows that it is kept; three
requests and four managers allow a rotated manager to have two users while
another is current and a deleted name is used again.  The buffer of curl data is
smaller than the body and not a multiple of the chunk, so it fills, is drained
partly and pauses; the rewind limit is below the body, so uploads cross it with
bytes taken and not taken.  In the sessions three follow-ups suffice for
credits, data and a message out of order in any arrangement.  In the WebSocket
sessions the largest frame has size 2 and a client starts with 1 or 2 credits,
so one frame waits for credits and two fill the buffer at which reading stops;
two frames are enough for one to be queued behind the other and before a close.
`MaxWrites`, `MaxFrames`, `MaxAddrs`, `MaxKeepAlives`, `MaxRewinds`, `MaxBody` and `MaxUpload` bound the environment
and stand in guards of its actions only; everything else is finite by itself.

**Fairness.**  `ConnPool!LiveSpec`: a Qt single-shot timer that is due is fired;
no request needs to end.  `HttpRequest!LiveSpec`: queued calls are run, curl
keeps a transfer going in both directions unless it is paused, and the user
reads what is there; nobody is obliged to end or delete anything.
`WorkerHttp!LiveSpec`: the update timer and queued calls run, and the client
returns as many credits as it received bytes, as `tools/getstream.py` does; curl
is not assumed to make progress, for only transfers that are over are claimed to
be reported.  No session timer is used as an excuse: the run has none.
`WorkerWs!FairSpec`: queued calls and the update timer run, the socket sends what
it is given and then disconnects if told to, a server answers the close of a
client, a client returns credits.  Timers may fire but need not, and no server
has to send anything else.  `CloseCompletes` is claimed for clients that start
with credits for the largest frame: one that starts with fewer has no reason to
return credits it did not receive bytes for.

**Deadlock.**  Sessions, requests and a dispatcher that has stopped at a failed
assert end; their runs do not check for deadlock.

## Proofs

All theorems are for arbitrary values of the constants under the assumptions
named in the modules.

* `AppProofs` - type correctness, then the limit, the valves and the tables.
  The limit is not inductive by itself: an admission is only allowed by an open
  valve, so it needs that a valve is open only below the limit
  (`ValvesTrackRoom`), which in turn needs the sets of workers to be finite.
  `SessionsRoutable` and `LiveSessionsKept`, an action property, assume
  `DistinctIds`; `dispatcher_same_id` shows why.  `NoHandlerFails` assumes that
  the stream interface is configured and that stream requests which are not
  run quietly name a return address (`Answerable`); `dispatcher_no_from` shows
  why.  It needs that every one-shot worker has a return path (`ReplyInv`).
* `ConnPoolProofs` - type correctness; `PoolInv` is the conjunction of all safety properties of
  the pool.  Deletion is safe because the reference count is the number of
  holders, and that a rotated manager always has a holder is what makes the
  last release find it; `HandlesAreHolders`, a part of `PoolInv`, gives the assert
  of the destructor.
* `HttpTransferProofs` - lemmas only.  `Good` and its parts say how the flags of a
  request depend on each other: which fields can be set before there is a
  connection, that the position never passes the buffer, that the buffer mode
  changes only beyond the limit.  Each operator has a lemma that it keeps `Good`
  and `Wired` (what the connection has to tell has a queued call on its way), and
  one on what it may change (`Onward`, `Reported`, `Moved`): bodies only grow, bytes
  taken by curl are reported once.
* `HttpRequestProofs` - `ReqInv` adds `Good` to the properties of the request; the
  step lemma cites the lemmas above, action by action.
* `WorkerHttpProofs` - all that the run `session` checks of one session.  The
  inductive invariant `WorkerInv(w, rewinds)` has three parts.  `Kept` holds from
  start to end: body bytes received are those passed on and those in the buffer,
  and what has been said fits the ending.  `Shape` says what each state means: a
  session that is not started or over has no request and no timers, a deferred
  one has its update timer.  `Running` holds while there is a request: it is `Good`
  and `Wired`; `Counted` relates the counters of worker and request; `Signalled`
  says that what is known is going to be said.  None of the properties is inductive
  without it: that the upload fits its window needs that credits are given for
  bytes that curl took and no others, up to rewinds; that no wake-up is lost needs
  which of the two wake-ups (the update timer, the queued call) is responsible in
  which state.  Since a slot runs inside the call that emits its signal, each
  function of the worker has a lemma of its own (`Owes`): it keeps the invariant,
  what it does is a step of `Session` (`Promised`), and the head is said with
  the first data and no other (`Headed`).  `SessionImplemented` then follows step
  by step.  It and `CollectedComplete` have the hypothesis `CreditsOnlyForStreams`: a
  client that asked for one message and gives credits all the same gets its
  final message early (`worker.cpp:583`), which is what the run
  `session_early_final` shows; the other theorems need no such hypothesis.  TLC
  has checked `WorkerInv` and the step relations on the instance of `session`, with
  its credits and with credits for every request.
* `FoldLemmas` - `FoldLeft` of a sequence with one more element is the operator
  applied to the fold of the sequence and to that element, and what holds of the
  base and is kept by the operator holds of the fold.  The operator is a constant
  of the module, instantiated once for each fold of the model, because a lemma
  that takes an operator cannot be cited.  It rests on the least element of a set
  of numbers, so it is induction over sequences, but for sets and not for
  predicates (`SeqInduction`).
* `WorkerWsProofs` - all invariants of the run `ws_session` and its refinement of
  `WsSession`, for every request, run of frames, number of addresses, size and
  bound.  The inductive invariant `WInv` has four parts.  `Good` is about the
  WebSocket alone: which socket a state has and whether it resolves (`ConnGood`),
  that what the socket holds is going to be read or waits for room (`ReadGood`),
  that the bytes not sent are those of the pending writes (`WriteGood`), that the body
  of a rejection stays within its length (`BodyGood`).  `Linked` is what the worker
  knows of it: which states go together, that the frames in `pendingWrites` are as
  many as `wsPendingWrites` has entries, that every frame that arrived is either
  passed on or waiting.  `Known` and `Passing` say that what waits, waits for
  credits.  `Served` ties the socket to the server, so that an answer, a body or
  frames come only when the WebSocket expects them or reads them as body.  None
  of the properties is inductive without these: no slot meets a failed assert
  only because the state of the worker and that of the WebSocket go together,
  and no `tryRead` meets a missing socket only because nothing is unread once the
  close of the server has been taken.  A function of the WebSocket may emit three
  signals, whose slots run one after the other and may end the session; between
  them only `Loose`, a part of the invariant, holds, and the worker is sound again
  after the last (`TookGood`, `Leads`).  Each function also has the step of `WsSession` it
  takes (`Moved`): nothing is taken back, and what was passed on was said.  The
  hypothesis `Ordinary` excludes the inputs in the table above and nothing else,
  and each of them breaks one of the properties; `MCWorkerWs` asserts that the
  instance of `ws_session` satisfies it.
* `CodecProofs` - what a frame is made of comes back from a buffer that begins
  with it, for every payload, mask and type, whatever follows; and while a frame
  or a chunk is there only in part, the checks wait for more and know no wrong
  size.  This is why `WebSocketClient` may take frames and chunks as whole items.
  `FrameLayout` says which byte is where, `HeadRead` that the first bytes tell
  the length; all that is assumed of `^` is that it undoes itself.

Only model-checked: the liveness properties `CurrentRotates`, `DownloadProgresses`,
`UploadProgresses`, `OutcomeReported` and `CloseCompletes`, which the prover cannot
treat.  All other properties of the runs that pass are stated by a theorem.

## What the model leaves out

Reloading (it rotates the log) and quitting; formats and their conversion; the
wording of errors; the choice among addresses and redirects inside libcurl; the
glue between Qt and curl_multi, which appears as curl making progress; connection
reuse; the host check of TLS.  `credits` in messages are never negative.  The
access policy (`worker.cpp:587-646`) is a function of configuration and name
without state: what it decides is an input of the sessions.

`HttpTransfer!Start` has no early error for a request without a method or with
another scheme (`httprequest.cpp:1051`), as `Worker::start` refuses those itself
(`worker.cpp:216`, `262`).  `CurlSeek` does not happen while sending is paused: a
transfer that waits for body data is not over, so curl does not follow a redirect
yet; a reused connection that is reset in the pause would be sent again and is
left out.

The headers of a response stay for the answers after it (`websocket.cpp:418`).  Of
these the model has the Location, because it decides whether a redirection is
followed (`HasLocation`), and not where it leads; Content-Length and
Transfer-Encoding are removed by the code (`websocket.cpp:618`).

In `WebSocketClient` a head, a chunk and a frame arrive as a whole.  The loop over
the chunks of a rejected handshake (`websocket.cpp:789`) does not end when a chunk
is there only in part; `Piece(n, FALSE)` is such a chunk and shows it.  Errors of
the socket are told apart as far as the code does, messages of the session only by
their number and kind.  A server answers only when it has the whole handshake.
A response that arrives when frames are expected is taken as bytes of a frame; its
first letter, H, makes that a close frame.

A rewind makes curl report the bytes it took before once more, so the client is
credited for them twice; `UploadWindow` therefore allows another
`RequestBodyMax` bytes for each rewind.

Known and not covered by a property:

* the final message of a stream needs a credit even if it is empty
  (`worker.cpp:969`), so a client that grants exactly the size of the body waits
  until the session expires;
* a request with a return address on the REQ interface is answered on the publish
  socket (`app.cpp:718`), although `README.md:134` speaks of a reply; `App` has this
  behaviour;
* a frame of an unknown type ends the loop over the frames (`websocket.cpp:728`), and
  those behind it wait for the next bytes of the server.

## Plan

Done: `App`, `ConnPool`, `HttpTransfer`, `HttpRequest`, `Session`, `WorkerHttp`,
then `WebSocketClient`, `WsSession`, `WorkerWs` and `Codec`, in this order, with
a theorem for every safety property of the runs and for both refinements.

1. The safety parts of the liveness arguments, as theorems: that a session which is
   closing always has the step that brings it on (a slot, a queued call or the
   disconnection of the socket), and the same for a transfer that is paused.
2. The curl glue, as a model of notifiers and timers between libcurl and the
   event loop; quitting as an action of `App`.
