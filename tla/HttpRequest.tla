---------------------------- MODULE HttpRequest ----------------------------
(***************************************************************************)
(* One outgoing HTTP request (class HttpRequest and class CurlConnection,  *)
(* src/src/httprequest.cpp) between a user and libcurl.                    *)
(*                                                                         *)
(* The user starts it, may provide a body in pieces, reads the response    *)
(* whenever it likes and deletes the request at the latest when it reports *)
(* an error.  curl calls back from the event loop; what it did is reported *)
(* to the user by a queued call, so anything can happen in between.        *)
(***************************************************************************)
EXTENDS HttpTransfer

CONSTANTS MaxUpload,  \* bound: bytes of a request body
          MaxRewinds  \* bound: how often curl rewinds the request body

ASSUME UploadAssumption == MaxUpload \in Nat /\ MaxRewinds \in Nat

VARIABLES
  h,        \* the request
  user,     \* "new", "open" (may provide body), "ended" or "gone" (deleted h)
  rewinds   \* how often curl rewound the body

vars == <<h, user, rewinds>>

Init == h = NewRequest /\ user = "new" /\ rewinds = 0

----------------------------------------------------------------------------
\* The user.

UserStart(method, willWriteBody) ==
  /\ user = "new"
  /\ h' \in Start(method, willWriteBody)
  /\ user' = IF willWriteBody THEN "open" ELSE "ended"
  /\ UNCHANGED rewinds

UserWriteBody(size) ==
  /\ user = "open" /\ h.written + size <= MaxUpload
  /\ h' \in WriteBody(h, size)
  /\ UNCHANGED <<user, rewinds>>

UserEndBody ==
  /\ user = "open"
  /\ h' \in EndBody(h)
  /\ user' = "ended"
  /\ UNCHANGED rewinds

UserRead(size) ==
  /\ user \in {"open", "ended"} /\ h.in > 0
  /\ h' \in ReadResponseBody(h, size)
  /\ UNCHANGED <<user, rewinds>>

UserDelete ==
  /\ user \in {"open", "ended"}
  /\ user' = "gone"
  /\ UNCHANGED <<h, rewinds>>

----------------------------------------------------------------------------
\* libcurl, while the transfer is under way.

Active == user \in {"open", "ended"} /\ h.conn /\ h.result = "none"

CurlHeader ==
  /\ Active /\ ~h.header
  /\ h' = HeaderFunction(h)
  /\ UNCHANGED <<user, rewinds>>

CurlWrite(size) ==
  /\ Active /\ h.header /\ ~h.pauseRecv
  /\ h.arrived + size <= MaxBody
  /\ h' = WriteFunction(h, size)
  /\ UNCHANGED <<user, rewinds>>

CurlRead(size) ==
  /\ Active /\ h.willWriteBody /\ ~h.pauseSend /\ ~h.eof
  /\ h' = ReadFunction(h, size)
  /\ UNCHANGED <<user, rewinds>>

\* Before the response is accepted: a followed redirect or a stale connection.
\* A transfer that is paused is not over, so curl does not go on to the next
\* one; that a reused connection is reset during the pause is left out.
CurlSeek ==
  /\ Active /\ h.willWriteBody /\ ~h.pauseSend /\ ~h.header
  /\ rewinds < MaxRewinds
  /\ h' = SeekFunction(h)
  /\ rewinds' = rewinds + 1
  /\ UNCHANGED user

\* A transfer cannot succeed before curl could hand over all it received.
CurlDone(result) ==
  /\ Active
  /\ result = "ok" => h.header /\ ~h.pauseRecv
  /\ h' = Done(h, result)
  /\ UNCHANGED <<user, rewinds>>

----------------------------------------------------------------------------
\* Queued calls.

\* The user deletes a request that reports an error.
ConnUpdated ==
  /\ user \in {"open", "ended"} /\ h.pendingUpdate
  /\ h' = Updated(h)
  /\ user' = IF h.result = "err" THEN "gone" ELSE user
  /\ UNCHANGED rewinds

QueuedError ==
  /\ user \in {"open", "ended"} /\ h.errorCondition = "body-not-allowed"
  /\ user' = "gone"
  /\ UNCHANGED <<h, rewinds>>

Next ==
  \/ \E method \in Methods, will \in BOOLEAN : UserStart(method, will)
  \/ \E size \in 0..MaxUpload : UserWriteBody(size)
  \/ \E size \in {-1} \cup Chunk : UserRead(size)
  \/ UserEndBody \/ UserDelete
  \/ CurlHeader \/ CurlSeek
  \/ \E size \in Chunk : CurlWrite(size) \/ CurlRead(size)
  \/ \E result \in {"ok", "err"} : CurlDone(result)
  \/ ConnUpdated \/ QueuedError

Spec == Init /\ [][Next]_vars

\* curl keeps a transfer going unless it is paused, and the user reads what
\* there is to read.  Nobody is obliged to end a transfer or to delete it.
LiveSpec == /\ Spec
            /\ WF_vars(\E size \in Chunk : CurlWrite(size))
            /\ WF_vars(\E size \in Chunk : CurlRead(size))
            /\ WF_vars(UserRead(-1))
            /\ WF_vars(ConnUpdated)

----------------------------------------------------------------------------
TypeOK == /\ h \in Request
          /\ user \in {"new", "open", "ended", "gone"}
          /\ rewinds \in 0..MaxRewinds

\* The asserts of writeBody, endBody, startConnect and setupMethod: in every
\* order of starting, writing and ending, a body is written only if one was
\* announced, the connection is made once, and HEAD never expects a body.
NoAssertFails == ~h.aborted

\* Receiving is paused only while there is data to read.  readResponseBody
\* unpauses only when it returns something, so otherwise the transfer would
\* wait for ever.
RecvPauseHasReader == h.pauseRecv => h.in > 0

\* Sending is paused only while curl has taken all there is and more may come.
\* Only a call of writeBody or endBody unpauses.
SendPauseOnlyWhenDrained == h.pauseSend => Unread(h) = 0 /\ ~h.outFinished

\* Whatever the user has not been told yet, a queued call is on its way to
\* tell: response data, the end of the transfer, body bytes sent.
NoLostSignal ==
  (user # "gone" /\ (h.newlyReadOrEof \/ h.newlyWritten > 0)) => h.pendingUpdate

\* The bytes curl will take next are those after the ones it took: neither the
\* switch to the unbuffered mode nor a rewind loses or repeats part of a body.
UploadPositionExact == h.taken + Unread(h) = h.written

\* curl is told that the body ends only after it took all of it, and then the
\* user adds nothing.
NoEarlyEof == h.eof => user # "open" /\ h.taken = h.written

\* A body can be sent again for as long as it fits into the buffer.
RewindableWhileSmall == h.outPos = -1 => h.written > RequestBodyMax

\* A response body arrives completely if its reader keeps reading, although
\* the transfer is paused whenever the buffer is full.
DownloadProgresses ==
  (user \in {"open", "ended"} /\ h.header) ~>
    (user = "gone" \/ h.arrived = MaxBody \/ h.result # "none")

\* Once the user has ended the body curl takes all of it and learns that it
\* ends, although sending was paused whenever the user was slower than curl.
UploadProgresses ==
  (user = "ended" /\ h.conn /\ h.willWriteBody) ~>
    (user = "gone" \/ h.eof \/ h.result # "none")
=============================================================================
