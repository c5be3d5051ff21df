------------------------- MODULE StoreReloadProofs -------------------------
(***************************************************************************)
(* Proofs about StoreReload for any set of callers and any number of       *)
(* changes to the storage.                                                 *)
(***************************************************************************)
EXTENDS StoreReload, TLAPS

USE ReloadAssumption

(* A reload request of c that has not been answered: c leads a flight.     *)
Leading(c) == pc[c] \in {"leading", "locked", "forgotten", "read", "unlocking",
                         "finishing"}

(* reloadMu is held exactly by the caller between Lock and Unlock.         *)
LockInv == \A c \in Caller : Reloading(c) <=> reloadMu = c

(* The registered flight is the one whose leader has yet to call Forget.   *)
GroupInv == \A c \in Caller : pc[c] \in {"leading", "locked"} <=> sfGroup = c

(* Leaders fly their own flight, followers that of an unfinished leader.   *)
FlightInv ==
    \A c \in Caller :
        /\ Leading(c) => flight[c] = c
        /\ pc[c] = "joined" => flight[c] \in Caller /\ Leading(flight[c])
        /\ pc[c] \in {"idle", "returned"} => flight[c] = None

(* No caller of a flight asked for more than its reload has read.          *)
FreshInv ==
    /\ \A c \in Caller : requested[c] <= storage /\ loaded[c] <= storage
    /\ \A c, d \in Caller :
          pc[c] \in {"read", "unlocking", "finishing"} /\ flight[d] = c
             => requested[d] <= loaded[c]

(* The reload about to be applied read at least what was applied last.     *)
AppliedInv ==
    /\ applied <= storage
    /\ \A c \in Caller : pc[c] = "read" => applied <= loaded[c]

IInv ==
    /\ TypeOK
    /\ LockInv
    /\ GroupInv
    /\ FlightInv
    /\ FreshInv
    /\ AppliedInv
    /\ ServedByLaterReload

(* The invariant holds before any call of Reload.                          *)
LEMMA InitIInv == Init => IInv
BY DEF Init, IInv, TypeOK, LockInv, GroupInv, FlightInv, FreshInv, AppliedInv,
       ServedByLaterReload, Reloading, Leading, PC

(* Every step of a caller and every change of the storage keeps the types. *)
LEMMA NextTypeOK == TypeOK /\ [Next]_vars => TypeOK'
<1> SUFFICES ASSUME TypeOK, [Next]_vars PROVE TypeOK'
  OBVIOUS
<1> USE DEF TypeOK, PC
<1>1. CASE Change
  BY <1>1 DEF Change
<1>2. ASSUME NEW c \in Caller, Step(c) PROVE TypeOK'
  <2>1. CASE Lead(c) BY <2>1 DEF Lead
  <2>2. CASE Join(c) BY <2>2 DEF Join
  <2>3. CASE Lock(c) BY <2>3 DEF Lock
  <2>4. CASE Forget(c) BY <2>4 DEF Forget
  <2>5. CASE ReadStorage(c) BY <2>5 DEF ReadStorage
  <2>6. CASE Apply(c) BY <2>6 DEF Apply
  <2>7. CASE Unlock(c) BY <2>7 DEF Unlock
  <2>8. CASE Finish(c) BY <2>8 DEF Finish
  <2>9. CASE Return(c) BY <2>9 DEF Return
  <2> QED BY <1>2, <2>1, <2>2, <2>3, <2>4, <2>5, <2>6, <2>7, <2>8, <2>9 DEF Step
<1>3. CASE UNCHANGED vars
  BY <1>3 DEF vars
<1> QED BY <1>1, <1>2, <1>3 DEF Next

(* Every step preserves the inductive invariant.                           *)
LEMMA NextIInv == IInv /\ [Next]_vars => IInv'
<1> SUFFICES ASSUME IInv, [Next]_vars PROVE IInv'
  OBVIOUS
<1> USE DEF IInv
<1>0. TypeOK'
  BY NextTypeOK
<1> USE DEF TypeOK, PC, LockInv, GroupInv, FlightInv, FreshInv, AppliedInv,
        ServedByLaterReload, Reloading, Leading
<1>1. CASE Change
  BY <1>0, <1>1 DEF Change
<1>2. ASSUME NEW c \in Caller, Step(c) PROVE IInv'
  <2>1. CASE Lead(c) BY <1>0, <2>1 DEF Lead
  <2>2. CASE Join(c) BY <1>0, <2>2 DEF Join
  <2>3. CASE Lock(c) BY <1>0, <2>3 DEF Lock
  <2>4. CASE Forget(c) BY <1>0, <2>4 DEF Forget
  <2>5. CASE ReadStorage(c) BY <1>0, <2>5 DEF ReadStorage
  <2>6. CASE Apply(c)
    <3> USE <2>6 DEF Apply
    <3>1. LockInv' /\ GroupInv' /\ FlightInv'
      OBVIOUS
    <3>2. FreshInv'
      OBVIOUS
    <3>3. AppliedInv'
      OBVIOUS
    <3>4. ServedByLaterReload'
      OBVIOUS
    <3> QED BY <1>0, <3>1, <3>2, <3>3, <3>4 DEF IInv
  <2>7. CASE Unlock(c) BY <1>0, <2>7 DEF Unlock
  <2>8. CASE Finish(c) BY <1>0, <2>8 DEF Finish
  <2>9. CASE Return(c) BY <1>0, <2>9 DEF Return
  <2> QED BY <1>2, <2>1, <2>2, <2>3, <2>4, <2>5, <2>6, <2>7, <2>8, <2>9 DEF Step
<1>3. CASE UNCHANGED vars
  BY <1>0, <1>3 DEF vars
<1> QED BY <1>1, <1>2, <1>3 DEF Next

(* Types: the values that storage.Reload keeps stay in their types.        *)
THEOREM TypeCorrect == Spec => []TypeOK
<1>1. Init => TypeOK
  BY DEF Init, TypeOK, PC
<1> QED BY <1>1, NextTypeOK, PTL DEF Spec

(* The inductive invariant holds of every behaviour.                       *)
THEOREM Inductive == Spec => []IInv
BY InitIInv, NextIInv, PTL DEF Spec

(* Each caller of storage.Reload that is answered without an error is      *)
(* served by a reload that read the storage after the call.                *)
THEOREM Served == Spec => []ServedByLaterReload
<1>1. IInv => ServedByLaterReload
  BY DEF IInv
<1> QED BY <1>1, Inductive, PTL

(* Callers that arrive during a reload share one follow-up reload.         *)
THEOREM FollowUp == Spec => []OneFollowUp
<1>1. IInv => OneFollowUp
  BY DEF IInv, GroupInv, OneFollowUp
<1> QED BY <1>1, Inductive, PTL

(* What the server runs with never goes back to an older storage state,    *)
(* because reloadMu keeps the reads and the swaps of two reloads apart.    *)
THEOREM Forward == Spec => NeverGoesBack
<1>1. IInv /\ [Next]_vars => [applied' >= applied]_applied
  <2> SUFFICES ASSUME IInv, [Next]_vars, applied' # applied
               PROVE  applied' >= applied
    BY DEF IInv, TypeOK
  <2>1. PICK c \in Caller : Apply(c)
    BY DEF Next, vars, Step, Change, Lead, Join, Lock, Forget, ReadStorage,
           Unlock, Finish, Return
  <2> QED BY <2>1 DEF Apply, IInv, TypeOK, AppliedInv
<1> QED BY <1>1, Inductive, PTL DEF Spec, NeverGoesBack
=============================================================================
