------------------------------ MODULE ConnPool ------------------------------
(***************************************************************************)
(* The pool of curl connection managers (CurlConnectionManagerManager,     *)
(* src/src/httprequest.cpp) and its use by HttpRequest.                    *)
(*                                                                         *)
(* Persistent connections live in a manager.  New requests take the        *)
(* current manager; a timer rotates it out after connection_max_time, so   *)
(* that its connections are not kept forever.  A manager that was rotated  *)
(* out is kept in old until its last request has gone, then deleted with   *)
(* its connections.                                                        *)
(*                                                                         *)
(* A manager's name is reused after it was deleted, as an address may be.  *)
(* A failed assert, the use of a null pointer or of a deleted manager      *)
(* sets fault.                                                             *)
(***************************************************************************)
EXTENDS Integers, FiniteSets

CONSTANTS Conn,     \* requests that may hold a connection
          Manager,  \* names for managers
          None      \* the null pointer

ASSUME NoneAssumption == None \notin Manager
ASSUME ConnAssumption == IsFiniteSet(Conn)

VARIABLES
  current,   \* the manager new requests use
  old,       \* managers that were rotated out while in use
  refs,      \* Item::refs of every manager that is not deleted
  holder,    \* HttpRequest::Private::manager of every request
  handles,   \* CurlConnectionManager::connections
  timer,     \* the rotation timer is running
  maxTime,   \* persistentConnectionMaxTime > 0
  fault

vars == <<current, old, refs, holder, handles, timer, maxTime, fault>>

\* The managers that exist.
Live == old \cup ({current} \ {None})

Init == /\ current = None
        /\ old = {}
        /\ refs = [m \in Manager |-> 0]
        /\ holder = [c \in Conn |-> None]
        /\ handles = [m \in Manager |-> {}]
        /\ timer = FALSE
        /\ maxTime = FALSE
        /\ fault = "none"

\* App::start sets the rotation period from the configuration; the code allows
\* a change at any time.
\* Mutant: a manager that is already in use gets no deadline.
SetMaxTimeOnly(on) ==
  /\ fault = "none"
  /\ maxTime' = on
  /\ UNCHANGED <<current, old, refs, holder, handles, timer, fault>>

SetPersistentConnectionMaxTime(on) ==
  /\ fault = "none"
  /\ maxTime' = on
  /\ timer' = IF on /\ current # None THEN TRUE ELSE timer
  /\ UNCHANGED <<current, old, refs, holder, handles, fault>>

\* HttpRequest::startConnect: retainCurrent, and the transfer is added to the
\* manager.
\* Mutants: a new manager gets no deadline; an existing one is not counted.
RetainWithoutTimer(m) ==
  IF current = None
    THEN /\ m \in Manager \ Live
         /\ current' = m
         /\ refs' = [refs EXCEPT ![m] = 1]
         /\ UNCHANGED timer
    ELSE /\ m = current
         /\ refs' = [refs EXCEPT ![m] = @ + 1]
         /\ UNCHANGED <<current, timer>>

RetainWithoutCount(m) ==
  IF current = None
    THEN /\ m \in Manager \ Live
         /\ current' = m
         /\ timer' = IF maxTime THEN TRUE ELSE timer
         /\ refs' = [refs EXCEPT ![m] = 1]
    ELSE m = current /\ UNCHANGED <<refs, current, timer>>

RetainCurrent(m) ==
  IF current = None
    THEN /\ m \in Manager \ Live
         /\ current' = m
         /\ timer' = IF maxTime THEN TRUE ELSE timer
         /\ refs' = [refs EXCEPT ![m] = 1]
    ELSE /\ m = current
         /\ refs' = [refs EXCEPT ![m] = @ + 1]
         /\ UNCHANGED <<current, timer>>

StartConnect(c) == \E m \in Manager :
  /\ fault = "none" /\ holder[c] = None
  /\ RetainCurrent(m)
  /\ holder' = [holder EXCEPT ![c] = m]
  /\ handles' = [handles EXCEPT ![m] = @ \cup {c}]
  /\ UNCHANGED <<old, maxTime, fault>>

\* HttpRequest::cleanup: the transfer is removed from its manager and the
\* manager is released.  Deleting a manager asserts that it has no transfers.
\* Mutant: an old manager is never deleted.
ReleaseKeeps(m) ==
  /\ refs' = [refs EXCEPT ![m] = @ - 1]
  /\ fault' = IF refs[m] <= 0 \/ (m # current /\ m \notin old) THEN "assert" ELSE "none"
  /\ UNCHANGED old

Release(m) ==
  /\ refs' = [refs EXCEPT ![m] = @ - 1]
  /\ old' = IF m # current /\ refs[m] = 1 THEN old \ {m} ELSE old
  /\ fault' = IF \/ refs[m] <= 0
                 \/ m # current /\ m \notin old
                 \/ m # current /\ refs[m] = 1 /\ handles'[m] # {}
              THEN "assert" ELSE "none"

Cleanup(c) ==
  /\ fault = "none" /\ holder[c] # None
  /\ handles' = [handles EXCEPT ![holder[c]] = @ \ {c}]
  /\ Release(holder[c])
  /\ holder' = [holder EXCEPT ![c] = None]
  /\ UNCHANGED <<current, timer, maxTime>>

\* The timer fired.  A manager in use is kept.
\* Mutants: it is deleted all the same; a cleared pointer is kept.
RetiredNever == old
RetiredNull == old \cup {None}

Retired == IF refs[current] > 0 THEN old \cup {current} ELSE old

\* Mutant: the timer is not a single-shot one.
RotateRepeatedly ==
  /\ fault = "none" /\ timer
  /\ IF current = None THEN fault' = "null" /\ UNCHANGED old
                       ELSE old' = Retired /\ UNCHANGED fault
  /\ current' = None
  /\ UNCHANGED <<refs, holder, handles, maxTime, timer>>

Rotate ==
  /\ fault = "none" /\ timer
  /\ timer' = FALSE
  /\ IF current = None
       THEN fault' = "null" /\ UNCHANGED old
       ELSE /\ old' = Retired
            /\ fault' = IF refs[current] <= 0 /\ handles[current] # {}
                        THEN "assert" ELSE "none"
  /\ current' = None
  /\ UNCHANGED <<refs, holder, handles, maxTime>>

Next == \/ \E on \in BOOLEAN : SetPersistentConnectionMaxTime(on)
        \/ \E c \in Conn : StartConnect(c) \/ Cleanup(c)
        \/ Rotate

\* The event loop fires the single-shot timer once it is due.
Spec == Init /\ [][Next]_vars

LiveSpec == Spec /\ WF_vars(Rotate)

----------------------------------------------------------------------------
TypeOK == /\ current \in Manager \cup {None}
          /\ old \subseteq Manager
          /\ refs \in [Manager -> Int]
          /\ holder \in [Conn -> Manager \cup {None}]
          /\ handles \in [Manager -> SUBSET Conn]
          /\ timer \in BOOLEAN /\ maxTime \in BOOLEAN
          /\ fault \in {"none", "assert", "null"}

Holders(m) == {c \in Conn : holder[c] = m}

\* A manager's count is the number of requests that hold it, through any
\* sequence of rotations and name reuse.
RefsCountHolders == \A m \in Manager : refs[m] = Cardinality(Holders(m))

\* The transfers a manager knows are those of the requests that hold it.
HandlesAreHolders == \A m \in Manager : handles[m] = Holders(m)

\* No request holds a manager that was deleted.
NoUseAfterFree == \A c \in Conn : holder[c] # None => holder[c] \in Live

\* A manager that was rotated out is kept exactly while a request holds it:
\* nothing keeps an idle one, whose connections would never be closed.
OldInUse == /\ current \notin old
            /\ \A m \in old : Holders(m) # {}

\* None of the asserts of release, rotate and ~CurlConnectionManager fails,
\* and the timer never fires without a current manager.
NoFault == fault = "none"

\* A manager in use as current has been given its rotation deadline whenever
\* the configuration asks for one, and a deadline is never left running for a
\* manager that is gone.
DeadlineSet == /\ maxTime /\ current # None => timer
               /\ timer => current # None

\* With a rotation period set, no manager keeps taking new requests for ever,
\* whatever requests come and go meanwhile; so no persistent connection is
\* offered to new requests for ever.
CurrentRotates == (maxTime /\ current # None) ~> (current = None)
=============================================================================
