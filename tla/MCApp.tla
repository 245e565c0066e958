------------------------------- MODULE MCApp -------------------------------
(* Instances of the dispatcher for TLC: which requests its two front       *)
(* sockets receive.                                                        *)
EXTENDS App, TLC

CONSTANTS r1, r2, r3, a1

Req(rid, from, target) == [rid |-> rid, from |-> from, target |-> target]

\* Stream clients that always give a return address, or that ask for
\* something Worker::start accepts to run quietly.
StreamRequests == {Req(r1, a1, "http"), Req(r2, a1, "ws"), Req(r2, a1, "bad"),
                   Req(None, a1, "http"), Req(r1, None, "http")}

\* One-shot clients as in the tools: no return address, their own ids or none.
OneShotRequests == {Req(None, None, "http"), Req(r3, None, "http"),
                    Req(r3, None, "ws")}

\* A one-shot client that numbers its requests like a stream client does.
SameIdRequests == {Req(r1, None, "http")}

\* A stream request without a return address that Worker::start rejects.
UnaddressedRequests == {Req(r1, None, "bad"), Req(r1, a1, "http")}

Symmetries == Permutations(Worker)
=============================================================================
