------------------------------ MODULE WsSession ------------------------------
(***************************************************************************)
(* What a WebSocket session promises its client: first the word that the   *)
(* server accepted, then the frames of the server, each once and never     *)
(* more bytes than the client gave credits for, the server's close at most *)
(* once, and one ending, after which nothing is said.                      *)
(***************************************************************************)
EXTENDS Naturals

VARIABLES
  said,       \* messages said so far
  accepted,   \* the client knows that the handshake succeeded
  arrived,    \* frames received from the server
  allowed,    \* bytes the client is ready to take
  delivered,  \* frames passed on to the client
  bytes,      \* their bytes
  closes,     \* close messages passed on to the client
  ending      \* "no", or how the session ended

vars == <<said, accepted, arrived, allowed, delivered, bytes, closes, ending>>

Init == /\ said = 0 /\ ~accepted /\ arrived = 0 /\ allowed = 0
        /\ delivered = 0 /\ bytes = 0 /\ closes = 0 /\ ending = "no"

\* The server sends; the client allows more.
Inputs == arrived' >= arrived /\ allowed' >= allowed

\* Whatever is delivered was received before and is counted as a message; the
\* client knows by then that it is connected.
Pass(messages) ==
  /\ delivered' \in delivered..arrived'
  /\ bytes' >= bytes /\ bytes' <= allowed'
  /\ closes' \in closes..1
  /\ accepted => accepted'
  /\ delivered' > 0 \/ closes' > 0 => accepted'
  /\ messages >= (delivered' - delivered) + (closes' - closes)
                   + (IF accepted' # accepted THEN 1 ELSE 0)

Speak == /\ ending = "no" /\ Inputs
         /\ said' >= said /\ Pass(said' - said)
         /\ UNCHANGED ending

\* A session ends in good order after the close messages of both sides only.
\* Other endings pass on no frame, but may come right after the last one.
End == /\ ending = "no" /\ Inputs
       /\ said' >= said
       /\ \/ ending' = "closed" /\ closes' = 1 /\ Pass(said' - said)
          \/ ending' \in {"error", "cancel"} /\ Pass(said' - said - 1)
          \/ ending' = "silent" /\ Pass(said' - said)

Next == Speak \/ End

Spec == Init /\ [][Next]_vars
=============================================================================
