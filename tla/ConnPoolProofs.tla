--------------------------- MODULE ConnPoolProofs ---------------------------
(***************************************************************************)
(* Proofs about the connection pool, for any finite set of requests, any   *)
(* number of managers, and any history of rotations.                       *)
(***************************************************************************)
EXTENDS ConnPool, FiniteSetTheorems, TLAPS

\* What every step preserves.  The reference counts are exact, so a manager is
\* deleted by the last request that lets go of it and by no other.
PoolInv == /\ TypeOK
           /\ RefsCountHolders
           /\ HandlesAreHolders
           /\ NoUseAfterFree
           /\ OldInUse
           /\ NoFault
           /\ DeadlineSet

LEMMA HoldersFinite ==
  ASSUME NEW m
  PROVE  IsFiniteSet(Holders(m)) /\ Cardinality(Holders(m)) \in Nat
  BY ConnAssumption, FS_Subset, FS_CardinalityType DEF Holders

\* An empty set of holders and a zero count are the same thing.
LEMMA NoHolders ==
  ASSUME NEW m
  PROVE  Cardinality(Holders(m)) = 0 <=> Holders(m) = {}
  BY HoldersFinite, FS_EmptySet

LEMMA InitPool == Init => PoolInv
<1> SUFFICES ASSUME Init PROVE PoolInv
  OBVIOUS
<1>1. TypeOK
  <2>1. handles \in [Manager -> SUBSET Conn]
    BY DEF Init
  <2>2. refs \in [Manager -> Int] /\ holder \in [Conn -> Manager \cup {None}]
    BY DEF Init
  <2> QED BY <2>1, <2>2 DEF Init, TypeOK
<1>2. \A m \in Manager : Holders(m) = {}
  BY NoneAssumption DEF Init, Holders
<1>3. RefsCountHolders
  BY <1>2, FS_EmptySet DEF Init, RefsCountHolders
<1> QED BY <1>1, <1>2, <1>3
        DEF PoolInv, Init, HandlesAreHolders, NoUseAfterFree, OldInUse,
            NoFault, DeadlineSet

\* A request that takes the current manager, or a fresh one.
LEMMA StepStart ==
  ASSUME PoolInv, NEW c \in Conn, StartConnect(c)
  PROVE  PoolInv'
<1> USE DEF PoolInv
<1>1. PICK m \in Manager :
         /\ RetainCurrent(m)
         /\ holder' = [holder EXCEPT ![c] = m]
         /\ handles' = [handles EXCEPT ![m] = @ \cup {c}]
         /\ holder[c] = None
         /\ UNCHANGED <<old, maxTime, fault>>
  BY DEF StartConnect
<1>2. /\ current' = m
      /\ m \notin old
      /\ Holders(m)' = Holders(m) \cup {c}
      /\ c \notin Holders(m)
      /\ \A n \in Manager \ {m} : Holders(n)' = Holders(n)
  BY ZenonT(60), <1>1, NoneAssumption DEF RetainCurrent, TypeOK, Holders, OldInUse, Live
<1>3. Cardinality(Holders(m)') = Cardinality(Holders(m)) + 1
  BY <1>2, HoldersFinite, FS_AddElement
<1>4. refs[m] \in Int /\ refs'[m] = refs[m] + 1
  <2>1. CASE current = None
    <3>1. Holders(m) = {}
      BY <1>1, <2>1, NoneAssumption DEF RetainCurrent, Holders, NoUseAfterFree
    <3>2. refs[m] = 0
      BY <3>1, NoHolders DEF RefsCountHolders
    <3> QED BY <1>1, <2>1, <3>2 DEF RetainCurrent, TypeOK
  <2>2. CASE current # None
    BY <1>1, <2>2 DEF RetainCurrent, TypeOK
  <2> QED BY <2>1, <2>2
<1>5. /\ refs' \in [Manager -> Int]
      /\ \A n \in Manager \ {m} : refs'[n] = refs[n]
  <2>1. refs' = [refs EXCEPT ![m] = refs'[m]]
    BY <1>1 DEF RetainCurrent, TypeOK
  <2> QED BY <1>4, <2>1 DEF TypeOK
<1>6. RefsCountHolders'
  BY <1>2, <1>3, <1>4, <1>5 DEF RefsCountHolders
<1>7. TypeOK'
  BY <1>1, <1>2, <1>5 DEF RetainCurrent, TypeOK
<1>8. HandlesAreHolders'
  BY <1>1, <1>2 DEF TypeOK, HandlesAreHolders
<1>9. NoUseAfterFree'
  BY <1>1, <1>2, NoneAssumption DEF RetainCurrent, TypeOK, NoUseAfterFree, Live
<1>10. OldInUse'
  BY <1>1, <1>2 DEF TypeOK, OldInUse
<1>11. NoFault' /\ DeadlineSet'
  BY <1>1, <1>2, NoneAssumption DEF RetainCurrent, NoFault, DeadlineSet, TypeOK
<1> QED BY <1>6, <1>7, <1>8, <1>9, <1>10, <1>11

\* A request that lets go of its manager; the last one deletes an old manager.
LEMMA StepCleanup ==
  ASSUME PoolInv, NEW c \in Conn, Cleanup(c)
  PROVE  PoolInv'
<1> USE DEF PoolInv
<1>m. PICK m : m = holder[c]
  OBVIOUS
<1>1. /\ m \in Manager /\ m \in Live
      /\ handles' = [handles EXCEPT ![m] = @ \ {c}]
      /\ Release(m)
      /\ holder' = [holder EXCEPT ![c] = None]
      /\ UNCHANGED <<current, timer, maxTime>>
  BY <1>m DEF Cleanup, TypeOK, NoUseAfterFree
<1>2. /\ c \in Holders(m)
      /\ Holders(m)' = Holders(m) \ {c}
      /\ \A n \in Manager \ {m} : Holders(n)' = Holders(n)
  BY <1>m, <1>1, NoneAssumption DEF TypeOK, Holders
<1>3. /\ Cardinality(Holders(m)') = Cardinality(Holders(m)) - 1
      /\ Cardinality(Holders(m)) \in Nat /\ Cardinality(Holders(m)') \in Nat
  BY <1>2, HoldersFinite, FS_RemoveElement, FS_CardinalityType
<1>4. refs[m] = Cardinality(Holders(m)) /\ refs[m] >= 1
  BY <1>1, <1>3 DEF RefsCountHolders
<1>5. refs[m] = 1 <=> Holders(m)' = {}
  BY <1>2, <1>3, <1>4, HoldersFinite, FS_EmptySet, FS_Subset
<1>6. RefsCountHolders'
  BY <1>1, <1>2, <1>3, <1>4 DEF Release, TypeOK, RefsCountHolders
<1>7. HandlesAreHolders'
  BY <1>1, <1>2 DEF TypeOK, HandlesAreHolders
<1>8. NoFault'
  <2>1. handles'[m] = Holders(m)'
    BY <1>1, <1>7 DEF HandlesAreHolders
  <2>2. m # current => m \in old
    BY <1>1 DEF Live
  <2>3. ~(refs[m] <= 0) /\ (refs[m] = 1 => handles'[m] = {})
    BY <1>1, <1>3, <1>4, <1>5, <2>1 DEF TypeOK
  <2> QED BY <1>1, <2>2, <2>3 DEF Release, NoFault
<1>9. TypeOK'
  BY <1>1, <1>4, <1>8 DEF Release, TypeOK, NoFault
<1>10. NoUseAfterFree'
  <2> SUFFICES ASSUME NEW d \in Conn, holder'[d] # None
               PROVE  holder'[d] \in Live'
    BY DEF NoUseAfterFree
  <2>1. d # c /\ holder'[d] = holder[d] /\ holder[d] \in Live
    BY <1>1 DEF TypeOK, NoUseAfterFree
  <2>2. holder[d] = m => refs[m] # 1
    BY <1>1, <1>5, <2>1 DEF Holders
  <2> QED BY <1>1, <2>1, <2>2 DEF Release, Live
<1>11. OldInUse'
  BY <1>1, <1>2, <1>5 DEF Release, TypeOK, OldInUse
<1>12. DeadlineSet'
  BY <1>1 DEF DeadlineSet
<1> QED BY <1>6, <1>7, <1>8, <1>9, <1>10, <1>11, <1>12

\* The deadline of the current manager.
LEMMA StepRotate ==
  ASSUME PoolInv, Rotate
  PROVE  PoolInv'
<1> USE DEF PoolInv
<1>1. current \in Manager
  BY DEF Rotate, Retired, DeadlineSet, TypeOK
<1>2. /\ old' = IF refs[current] > 0 THEN old \cup {current} ELSE old
      /\ fault' = IF refs[current] <= 0 /\ handles[current] # {}
                  THEN "assert" ELSE "none"
      /\ current' = None /\ timer' = FALSE
      /\ UNCHANGED <<refs, holder, handles, maxTime>>
  BY <1>1, NoneAssumption DEF Rotate, Retired
<1>3. \A m \in Manager : Holders(m)' = Holders(m)
  BY <1>2 DEF Holders
<1>4. refs[current] > 0 <=> Holders(current) # {}
  BY <1>1, HoldersFinite, NoHolders DEF RefsCountHolders
<1>5. RefsCountHolders' /\ HandlesAreHolders'
  BY <1>2, <1>3 DEF RefsCountHolders, HandlesAreHolders
<1>6. NoFault'
  <2>1. refs[current] <= 0 => handles[current] = {}
    BY <1>1, <1>4 DEF HandlesAreHolders, TypeOK
  <2> QED BY <1>2, <2>1 DEF NoFault
<1>7. TypeOK'
  BY <1>1, <1>2, <1>6 DEF TypeOK, NoFault
<1>8. NoUseAfterFree'
  BY <1>1, <1>2, <1>4 DEF NoUseAfterFree, Live, Holders
<1>9. OldInUse'
  BY <1>1, <1>2, <1>3, <1>4, NoneAssumption DEF OldInUse, TypeOK
<1>10. DeadlineSet'
  BY <1>2 DEF DeadlineSet
<1> QED BY <1>5, <1>6, <1>7, <1>8, <1>9, <1>10

LEMMA StepPool == PoolInv /\ [Next]_vars => PoolInv'
<1> SUFFICES ASSUME PoolInv, [Next]_vars PROVE PoolInv'
  OBVIOUS
<1>1. ASSUME NEW on \in BOOLEAN, SetPersistentConnectionMaxTime(on)
      PROVE  PoolInv'
  <2>1. timer' \in BOOLEAN /\ DeadlineSet'
    BY <1>1 DEF SetPersistentConnectionMaxTime, PoolInv, DeadlineSet, TypeOK
  <2> QED BY <1>1, <2>1
          DEF SetPersistentConnectionMaxTime, PoolInv, TypeOK, RefsCountHolders,
              HandlesAreHolders, Holders, NoUseAfterFree, Live, OldInUse, NoFault
<1>2. CASE UNCHANGED vars
  BY <1>2 DEF vars, PoolInv, TypeOK, RefsCountHolders, HandlesAreHolders,
              Holders, NoUseAfterFree, Live, OldInUse, NoFault, DeadlineSet
<1> QED BY <1>1, <1>2, StepStart, StepCleanup, StepRotate DEF Next

----------------------------------------------------------------------------
\* The reference count of every manager is the number of requests holding it.
THEOREM RefsExact == Spec => []RefsCountHolders
<1>1. PoolInv => RefsCountHolders
  BY DEF PoolInv
<1> QED BY <1>1, InitPool, StepPool, PTL DEF Spec

\* No request uses a manager after it was deleted.
THEOREM NoManagerUsedAfterFree == Spec => []NoUseAfterFree
<1>1. PoolInv => NoUseAfterFree
  BY DEF PoolInv
<1> QED BY <1>1, InitPool, StepPool, PTL DEF Spec

\* The asserts of release and ~CurlConnectionManager hold, and rotate never
\* runs without a current manager.
THEOREM PoolAssertsHold == Spec => []NoFault
<1>1. PoolInv => NoFault
  BY DEF PoolInv
<1> QED BY <1>1, InitPool, StepPool, PTL DEF Spec

\* A manager that was rotated out is in use; the last user deletes it.
THEOREM OldManagersInUse == Spec => []OldInUse
<1>1. PoolInv => OldInUse
  BY DEF PoolInv
<1> QED BY <1>1, InitPool, StepPool, PTL DEF Spec

\* The current manager has its deadline, and a deadline has its manager.
THEOREM DeadlineKept == Spec => []DeadlineSet
<1>1. PoolInv => DeadlineSet
  BY DEF PoolInv
<1> QED BY <1>1, InitPool, StepPool, PTL DEF Spec

\* The tables of the pool are well-typed.
THEOREM TypeCorrect == Spec => []TypeOK
<1>1. PoolInv => TypeOK
  BY DEF PoolInv
<1> QED BY <1>1, InitPool, StepPool, PTL DEF Spec
=============================================================================
