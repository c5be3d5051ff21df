---------------------------- MODULE StoreReload ----------------------------
(***************************************************************************)
(* storage.Reload (internal/storage/reload.go): an administrator's reload  *)
(* requests, merged by a singleflight group and serialised by reloadMu.    *)
(*                                                                         *)
(* A flight is identified by the caller that leads it.  The storage is     *)
(* abstracted to the number of changes made to it; a reload loads the      *)
(* number it finds when it reads the storage.                              *)
(***************************************************************************)
EXTENDS Naturals, FiniteSets

CONSTANTS
    Caller,         \* the goroutines that call Reload
    None,           \* no caller: nil in the singleflight map, a free mutex
    MaxChanges      \* bound on the changes made to the storage

ASSUME ReloadAssumption ==
    /\ None \notin Caller
    /\ MaxChanges \in Nat

VARIABLES
    pc,             \* where each caller is
    flight,         \* the leader of the flight each caller takes part in
    sfGroup,        \* the leader of the flight registered under "admin_reload"
    reloadMu,       \* the holder of reloadMu
    storage,        \* changes made to the storage so far
    requested,      \* the storage when the caller called Reload
    loaded,         \* what the reload of each leader read from the storage
    err,            \* the error the rs.Reload of each leader returned
    applied,        \* the storage state the running server was last loaded with
    served          \* the storage state behind the answer each caller got

vars == <<pc, flight, sfGroup, reloadMu, storage, requested, loaded, err,
          applied, served>>

PC == {"idle", "leading", "locked", "forgotten", "read", "unlocking",
       "finishing", "joined", "returned"}

TypeOK ==
    /\ pc \in [Caller -> PC]
    /\ flight \in [Caller -> Caller \cup {None}]
    /\ sfGroup \in Caller \cup {None}
    /\ reloadMu \in Caller \cup {None}
    /\ storage \in 0 .. MaxChanges
    /\ requested \in [Caller -> Nat]
    /\ loaded \in [Caller -> Nat]
    /\ err \in [Caller -> {"nil", "failed"}]
    /\ applied \in Nat
    /\ served \in [Caller -> Nat]

Init ==
    /\ pc = [c \in Caller |-> "idle"]
    /\ flight = [c \in Caller |-> None]
    /\ sfGroup = None
    /\ reloadMu = None
    /\ storage = 0
    /\ requested = [c \in Caller |-> 0]
    /\ loaded = [c \in Caller |-> 0]
    /\ err = [c \in Caller |-> "nil"]
    /\ applied = 0
    /\ served = [c \in Caller |-> 0]

-----------------------------------------------------------------------------
(* The storage changes at any time: a commit is pushed, a row is written.  *)
Change ==
    /\ storage < MaxChanges
    /\ storage' = storage + 1
    /\ UNCHANGED <<pc, flight, sfGroup, reloadMu, requested, loaded, err,
                   applied, served>>

(* Mutant: the key is forgotten before reloadMu is acquired.               *)
LeadForgetsEarly(c) ==
    /\ pc[c] = "idle"
    /\ sfGroup = None
    /\ flight' = [flight EXCEPT ![c] = c]
    /\ requested' = [requested EXCEPT ![c] = storage]
    /\ pc' = [pc EXCEPT ![c] = "leading"]
    /\ UNCHANGED <<sfGroup, reloadMu, storage, loaded, err, applied, served>>

(* singleflight.Group.Do with no call registered under the key: the caller *)
(* registers one and runs the function itself.                             *)
Lead(c) ==
    /\ pc[c] = "idle"
    /\ sfGroup = None
    /\ sfGroup' = c
    /\ flight' = [flight EXCEPT ![c] = c]
    /\ requested' = [requested EXCEPT ![c] = storage]
    /\ pc' = [pc EXCEPT ![c] = "leading"]
    /\ UNCHANGED <<reloadMu, storage, loaded, err, applied, served>>

(* singleflight.Group.Do with a call registered: wait for its outcome.     *)
Join(c) ==
    /\ pc[c] = "idle"
    /\ sfGroup # None
    /\ flight' = [flight EXCEPT ![c] = sfGroup]
    /\ requested' = [requested EXCEPT ![c] = storage]
    /\ pc' = [pc EXCEPT ![c] = "joined"]
    /\ UNCHANGED <<sfGroup, reloadMu, storage, loaded, err, applied, served>>

(* Mutant: no mutex between the flights.                                   *)
LockNothing(c) ==
    /\ pc[c] = "leading"
    /\ pc' = [pc EXCEPT ![c] = "locked"]
    /\ UNCHANGED <<flight, sfGroup, reloadMu, storage, requested, loaded, err,
                   applied, served>>

Lock(c) ==
    /\ pc[c] = "leading"
    /\ reloadMu = None
    /\ reloadMu' = c
    /\ pc' = [pc EXCEPT ![c] = "locked"]
    /\ UNCHANGED <<flight, sfGroup, storage, requested, loaded, err,
                   applied, served>>

(* Mutant: the key stays registered while the reload runs.                 *)
ForgetNothing(c) ==
    /\ pc[c] = "locked"
    /\ pc' = [pc EXCEPT ![c] = "forgotten"]
    /\ UNCHANGED <<flight, sfGroup, reloadMu, storage, requested, loaded, err,
                   applied, served>>

(* Forget removes whatever call is registered under the key.               *)
Forget(c) ==
    /\ pc[c] = "locked"
    /\ sfGroup' = None
    /\ pc' = [pc EXCEPT ![c] = "forgotten"]
    /\ UNCHANGED <<flight, reloadMu, storage, requested, loaded, err,
                   applied, served>>

(* Mutant: the storage is read as it was before the last change.           *)
ReadStorageBehind(c) ==
    /\ pc[c] = "forgotten"
    /\ loaded' = [loaded EXCEPT ![c] = storage - 1]
    /\ pc' = [pc EXCEPT ![c] = "read"]
    /\ UNCHANGED <<flight, sfGroup, reloadMu, storage, requested, err,
                   applied, served>>

(* rs.Reload reads the storage ...                                         *)
ReadStorage(c) ==
    /\ pc[c] = "forgotten"
    /\ loaded' = [loaded EXCEPT ![c] = storage]
    /\ pc' = [pc EXCEPT ![c] = "read"]
    /\ UNCHANGED <<flight, sfGroup, reloadMu, storage, requested, err,
                   applied, served>>

(* ... and replaces what the server runs with, or fails: before that, or   *)
(* after it, when the wait for the subscribers is cancelled.               *)
Apply(c) ==
    /\ pc[c] = "read"
    /\ \/ /\ applied' = loaded[c]
          /\ err' = [err EXCEPT ![c] = "nil"]
       \/ /\ applied' \in {applied, loaded[c]}
          /\ err' = [err EXCEPT ![c] = "failed"]
    /\ pc' = [pc EXCEPT ![c] = "unlocking"]
    /\ UNCHANGED <<flight, sfGroup, reloadMu, storage, requested, loaded, served>>

(* Mutant: a failed reload returns without unlocking.                      *)
UnlockOnSuccess(c) ==
    /\ pc[c] = "unlocking"
    /\ reloadMu' = IF err[c] = "nil" THEN None ELSE reloadMu
    /\ pc' = [pc EXCEPT ![c] = "finishing"]
    /\ UNCHANGED <<flight, sfGroup, storage, requested, loaded, err,
                   applied, served>>

Unlock(c) ==
    /\ pc[c] = "unlocking"
    /\ reloadMu' = None
    /\ pc' = [pc EXCEPT ![c] = "finishing"]
    /\ UNCHANGED <<flight, sfGroup, storage, requested, loaded, err,
                   applied, served>>

(* The end of singleflight's doCall: every caller of the flight gets its   *)
(* outcome, and the key is removed if this call is still registered.       *)
Finish(c) ==
    LET riders == {d \in Caller : flight[d] = c}
    IN  /\ pc[c] = "finishing"
        /\ sfGroup' = IF sfGroup = c THEN None ELSE sfGroup
        /\ pc' = [d \in Caller |-> IF d \in riders THEN "returned" ELSE pc[d]]
        /\ served' = [d \in Caller |->
                        IF d \in riders /\ err[c] = "nil" THEN loaded[c] ELSE served[d]]
        /\ err' = [d \in Caller |-> IF d \in riders THEN err[c] ELSE err[d]]
        /\ flight' = [d \in Caller |-> IF d \in riders THEN None ELSE flight[d]]
        /\ loaded' = [loaded EXCEPT ![c] = 0]
        /\ UNCHANGED <<reloadMu, storage, requested, applied>>

(* The caller goes on with its own business and may call Reload again; its *)
(* locals are gone.                                                        *)
Return(c) ==
    /\ pc[c] = "returned"
    /\ pc' = [pc EXCEPT ![c] = "idle"]
    /\ requested' = [requested EXCEPT ![c] = 0]
    /\ err' = [err EXCEPT ![c] = "nil"]
    /\ served' = [served EXCEPT ![c] = 0]
    /\ UNCHANGED <<flight, sfGroup, reloadMu, storage, loaded, applied>>

Step(c) ==
    \/ Lead(c) \/ Join(c) \/ Lock(c) \/ Forget(c) \/ ReadStorage(c)
    \/ Apply(c) \/ Unlock(c) \/ Finish(c) \/ Return(c)

Next == Change \/ \E c \in Caller : Step(c)

(* A goroutine inside Reload is scheduled; nobody is obliged to call it.   *)
Fairness ==
    \A c \in Caller :
        WF_vars(Lock(c) \/ Forget(c) \/ ReadStorage(c) \/ Apply(c) \/ Unlock(c)
                \/ Finish(c))

Spec == Init /\ [][Next]_vars /\ Fairness
-----------------------------------------------------------------------------
Reloading(c) == pc[c] \in {"locked", "forgotten", "read", "unlocking"}

(* reload.go: "each caller is served by a reload that started after its    *)
(* call": a successful answer rests on the changes the caller had made.    *)
ServedByLaterReload ==
    \A c \in Caller : pc[c] = "returned" /\ err[c] = "nil" => served[c] >= requested[c]

(* reload.go: "Reloads never run concurrently", so a reload that read an   *)
(* older storage never overwrites the result of one that read a newer.     *)
NeverGoesBack == [][applied' >= applied]_applied

(* reload.go: callers arriving while a reload is in flight are merged into *)
(* one follow-up reload, so at most one flight waits behind the running.   *)
OneFollowUp ==
    \A c, d \in Caller : pc[c] = "leading" /\ pc[d] = "leading" => c = d

(* Every call of Reload is answered: a follower is not left waiting for a  *)
(* flight that was forgotten.                                              *)
EveryCallReturns ==
    \A c \in Caller : pc[c] \in {"leading", "joined"} ~> pc[c] = "returned"
=============================================================================
