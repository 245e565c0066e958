------------------------------ MODULE Session ------------------------------
(***************************************************************************)
(* What a zurl session promises the client that started it, without any of *)
(* the machinery: a sequence of numbered messages that delivers the        *)
(* response body in pieces, never more of it than has arrived and than the *)
(* client allowed, and that ends once, after which nothing is said.        *)
(***************************************************************************)
EXTENDS Naturals

VARIABLES
  seq,        \* messages said so far
  arrived,    \* body bytes received from the server
  allowed,    \* body bytes the client is ready to take
  delivered,  \* body bytes passed on to the client
  ending      \* "no", or how the session ended

vars == <<seq, arrived, allowed, delivered, ending>>

Init == seq = 0 /\ arrived = 0 /\ allowed = 0 /\ delivered = 0 /\ ending = "no"

\* The server sends; the client allows more.
Inputs == arrived' >= arrived /\ allowed' >= allowed

Listen == ending = "no" /\ Inputs /\ UNCHANGED <<seq, delivered, ending>>

\* A message that carries no body.
Say == /\ ending = "no" /\ Inputs
       /\ seq' = seq + 1
       /\ UNCHANGED <<delivered, ending>>

\* A message with a piece of the body; the last one says that it is all.
Deliver == /\ ending = "no" /\ Inputs
           /\ seq' = seq + 1
           /\ delivered' >= delivered
           /\ delivered' <= arrived' /\ delivered' <= allowed'
           /\ \/ ending' = "no"
              \/ ending' = "final" /\ delivered' = arrived'

\* The session ends with an error or a cancel, or without a word.
End == /\ ending = "no" /\ Inputs
       /\ \/ ending' \in {"error", "cancel"} /\ seq' = seq + 1
          \/ ending' = "silent" /\ seq' = seq
       /\ UNCHANGED delivered

Next == Listen \/ Say \/ Deliver \/ End

Spec == Init /\ [][Next]_vars
=============================================================================
