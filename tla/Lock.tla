-------------------------------- MODULE Lock --------------------------------
(***************************************************************************)
(* The lock of kvsrv1/lock/lock.go: clients that Acquire and Release one   *)
(* lock through their Clerks.  The lock is a key; its value names the      *)
(* owner, or is empty.  A client writes its random myID; here it writes    *)
(* itself.  Between two Clerk calls a client runs alone: an action is what *)
(* Acquire or Release do from the return of one call to the next one; the  *)
(* 100 ms sleeps are part of the call that follows.                        *)
(***************************************************************************)
EXTENDS KvClerk

CONSTANTS
    LockKey,     \* the name of the lock
    MaxVersion   \* bound: nobody starts to acquire a lock of this version

ASSUME LockAssumption ==
    /\ LockKey \in Key /\ MaxVersion \in Nat
    /\ Client \subseteq Value /\ Empty \in Value \ Client

VARIABLES
    owned,   \* lk.state.owned
    pc       \* the call that the client waits for, if any

lockVars == <<kvStore, call, owned, pc>>

LockInit ==
    /\ Init
    /\ owned = [c \in Client |-> FALSE]
    /\ pc = [c \in Client |-> "idle"]

Returned(c) == call[c].at = "returned"

\* The client goes on with a Get of the lock's key, or a Put of value v, at l.
GetNext(c, l) ==
    /\ StartGet(c, LockKey)
    /\ pc' = [pc EXCEPT ![c] = l]
    /\ UNCHANGED <<kvStore, owned>>

PutNext(c, v, n, l) ==
    /\ StartPut(c, LockKey, v, n)
    /\ pc' = [pc EXCEPT ![c] = l]
    /\ UNCHANGED <<kvStore, owned>>

\* Acquire or Release returns.
Done(c, own) ==
    /\ owned' = [owned EXCEPT ![c] = own]
    /\ pc' = [pc EXCEPT ![c] = "idle"]
    /\ UNCHANGED <<kvStore, call>>

-----------------------------------------------------------------------------
Acquire(c) ==
    /\ pc[c] = "idle" /\ ~owned[c]
    /\ kvStore[LockKey].version < MaxVersion
    /\ GetNext(c, "acquireGet")

\* Mutant: whoever owns it, take it.
VacantAny(c, r) == r.err = "OK" /\ r.value # c

\* The key exists and names no owner.
Vacant(c, r) == r.err = "OK" /\ r.value = Empty

\* Mutant: Acquire does not expect to find itself.
MineNever(c, r) == FALSE

\* The key names this client: an earlier Put took effect after all.
Mine(c, r) == r.err = "OK" /\ r.value = c

AcquireGot(c) ==
    LET r == call[c].reply
    IN  /\ pc[c] = "acquireGet" /\ Returned(c)
        /\ \/ Vacant(c, r) /\ PutNext(c, c, r.version, "acquirePut")
           \/ Mine(c, r) /\ Done(c, TRUE)
           \/ r.err = "OK" /\ ~Vacant(c, r) /\ ~Mine(c, r) /\ GetNext(c, "acquireGet")
           \/ r.err = "ErrNoKey" /\ PutNext(c, c, 0, "acquirePut")

\* After ErrMaybe, and after a lost race, look again.
AcquirePut(c) ==
    /\ pc[c] = "acquirePut" /\ Returned(c)
    /\ \/ call[c].reply.err = "OK" /\ Done(c, TRUE)
       \/ call[c].reply.err # "OK" /\ GetNext(c, "acquireGet")

Release(c) ==
    /\ pc[c] = "idle" /\ owned[c]
    /\ GetNext(c, "releaseGet")

\* Mutant: Release waits until it sees itself as the owner again.
ReleaseGotWaits(c) ==
    LET r == call[c].reply
    IN  /\ pc[c] = "releaseGet" /\ Returned(c)
        /\ \/ r.err = "OK" /\ r.value = c /\ PutNext(c, Empty, r.version, "releasePut")
           \/ r.err = "OK" /\ r.value # c /\ GetNext(c, "releaseGet")

\* A key that names someone else, or nobody, was released before.
ReleaseGot(c) ==
    LET r == call[c].reply
    IN  /\ pc[c] = "releaseGet" /\ Returned(c)
        /\ \/ r.err = "OK" /\ r.value = c /\ PutNext(c, Empty, r.version, "releasePut")
           \/ ~(r.err = "OK" /\ r.value = c) /\ Done(c, FALSE)

\* After ErrMaybe, look again; every other answer ends Release.
ReleasePut(c) ==
    /\ pc[c] = "releasePut" /\ Returned(c)
    /\ \/ call[c].reply.err = "ErrMaybe" /\ GetNext(c, "releaseGet")
       \/ call[c].reply.err # "ErrMaybe" /\ Done(c, FALSE)

\* What the client itself does, apart from the application's calls.
LockStep(c) == AcquireGot(c) \/ AcquirePut(c) \/ ReleaseGot(c) \/ ReleasePut(c)

LockNext ==
    \E c \in Client :
      \/ Acquire(c)
      \/ Release(c)
      \/ LockStep(c)
      \/ ClerkStep(c) /\ UNCHANGED <<owned, pc>>

LockSpec == LockInit /\ [][LockNext]_lockVars

\* Clients run, and the network delivers what is sent again and again.  The
\* application need not call Release.
LockFairness ==
    \A c \in Client :
      /\ WF_lockVars(LockStep(c))
      /\ SF_lockVars(Handle(c) /\ UNCHANGED <<owned, pc>>)
      /\ SF_lockVars(Return(c) /\ UNCHANGED <<owned, pc>>)

FairLockSpec == LockSpec /\ LockFairness

-----------------------------------------------------------------------------
(* Properties.                                                             *)

Acquiring(c) == pc[c] \in {"acquireGet", "acquirePut"}
Releasing(c) == pc[c] \in {"releaseGet", "releasePut"}

\* Client c is between the return of Acquire and the call of Release.
Holding(c) == pc[c] = "idle" /\ owned[c]

\* MutualExclusion: at most one client is between Acquire and Release, and
\* the key names it, so nobody else can take the lock (lock_test.go, "two
\* clients acquired lock").
MutualExclusion ==
    \A c \in Client : Holding(c) =>
      /\ kvStore[LockKey].value = c
      /\ \A d \in Client : Holding(d) => d = c

Stage(c) == IF Acquiring(c) THEN "acquiring"
            ELSE IF Releasing(c) THEN "releasing"
            ELSE IF owned[c] THEN "in" ELSE "out"

Service == INSTANCE LockService
             WITH Free <- Empty, holder <- kvStore[LockKey].value,
                  stage <- [c \in Client |-> Stage(c)]

\* ImplementsLock: over a Clerk that may answer ErrMaybe, Acquire and Release
\* implement a lock: only an acquiring client is granted a free lock, Acquire
\* returns only with the lock, Release only without it, and nobody else ever
\* gives a client's lock back.
ImplementsLock == Service!Spec

\* Available: when clients want the lock and nobody is between Acquire and
\* Release, some client gets it; no lost reply leaves the lock taken by a
\* client that does not know it.
Available == (\E c \in Client : Acquiring(c)) ~> (\E c \in Client : Holding(c))

\* ReleaseReturns: every Release returns, also when its Put took effect
\* without an answer and another client took the lock since.
ReleaseReturns == \A c \in Client : Releasing(c) ~> ~Releasing(c)
=============================================================================
