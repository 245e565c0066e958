---- MODULE MCWorkerHttp ----
(* Small instances of WorkerHttp: the requests the client may start with.  *)
EXTENDS WorkerHttp

Get == [ mode |-> "stream", address |-> "both", valid |-> "ok", seq |-> 0,
         stream |-> TRUE, method |-> "get", body |-> 0, more |-> FALSE,
         credits |-> 1, maxSize |-> -1, timeout |-> FALSE ]
Post == [Get EXCEPT !.method = "post", !.body = 1, !.more = TRUE,
                     !.stream = FALSE, !.credits = -1]
Rep == [Get EXCEPT !.mode = "single", !.stream = FALSE, !.credits = -1]

\* Streamed responses: limits, clients that cannot be reached, refusals.
Streamed == {Get, [Get EXCEPT !.maxSize = 1], [Get EXCEPT !.address = "id"],
             [Get EXCEPT !.valid = "refused", !.address = "id"],
             [Get EXCEPT !.valid = "bad-uri", !.address = "none", !.seq = -1],
             [Get EXCEPT !.credits = -1, !.timeout = TRUE],
             [Get EXCEPT !.seq = -1, !.address = "none"]}

\* Responses collected into one message, on both interfaces; request bodies
\* that come with the request or in follow-ups, for methods that may have one
\* or not.
OneMessage == {Rep, [Rep EXCEPT !.maxSize = 1, !.timeout = TRUE],
              [Rep EXCEPT !.more = TRUE], [Rep EXCEPT !.valid = "bad-uri"],
              [Rep EXCEPT !.address = "none", !.seq = -1],
              [Rep EXCEPT !.method = "post", !.body = 1],
              [Get EXCEPT !.stream = FALSE, !.credits = -1]}

Uploads == {Post, [Post EXCEPT !.method = "get", !.body = 0],
            [Post EXCEPT !.method = "head"], [Post EXCEPT !.seq = 1],
            [Post EXCEPT !.more = FALSE, !.maxSize = 1]}

Collected == OneMessage \cup Uploads

CollectedByCredits == {[Get EXCEPT !.stream = FALSE]}

OneGet == {Get}

Live == {Get, [Get EXCEPT !.credits = 2], [Get EXCEPT !.maxSize = 1],
         [Get EXCEPT !.valid = "refused"]}

\* Clients that give credits whenever a response is streamed, and others.
CreditsOfStreams(req) == IF req.stream THEN {-1, 0, 1, 2} ELSE {-1}
NoCredits(req) == {-1}
OneCredit(req) == {-1, 1}

AnyRequest == Streamed \cup Collected
====
