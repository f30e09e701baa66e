----------------------------- MODULE MutexLock -----------------------------
(***************************************************************************)
(* A MutexLock (base/wf_mutex.h): a pthread mutex, and holder_, from which *)
(* isLockeddByThisThread() answers. lock() writes holder_ before it takes  *)
(* the mutex, unlock() before it gives it back, so that each is two steps. *)
(***************************************************************************)
CONSTANT Threads

VARIABLES holder,      \* holder_
          owner,       \* who has the pthread mutex
          used         \* lock() has been called

Nobody == "nobody"     \* no thread, or one that never locks

LockTypeOK ==
    /\ holder \in Threads \cup {Nobody}
    /\ owner \in Threads \cup {Nobody}
    /\ used \in BOOLEAN

(* The constructor leaves the thread it runs on in holder_.                *)
InitLock ==
    /\ holder \in Threads \cup {Nobody}
    /\ owner = Nobody
    /\ used = FALSE

(* lock(): first holder_ ...                                               *)
LockBegin(t) == holder' = t /\ used' = TRUE /\ UNCHANGED owner

(* ... then pthread_mutex_lock(), which waits for the mutex.               *)
LockEnd(t) == owner = Nobody /\ owner' = t /\ UNCHANGED <<holder, used>>

(* A mutant of UnlockBegin: holder_ is left as it is.                      *)
HolderKept(t) == UNCHANGED <<holder, owner, used>>

UnlockBegin(t) == holder' = Nobody /\ UNCHANGED <<owner, used>>

UnlockEnd(t) == owner = t /\ owner' = Nobody /\ UNCHANGED <<holder, used>>

isLockeddByThisThread(t) == holder = t
=============================================================================
