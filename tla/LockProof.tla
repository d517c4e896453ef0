----------------------------- MODULE LockProof ------------------------------
(***************************************************************************)
(* Theorems about KvClerk, for any Clerks, keys, values and versions: a    *)
(* Put is performed at most once and its verdict is true, and the service  *)
(* implements the sequential model of KvModel; and about Lock, for any     *)
(* number of clients: mutual exclusion, and that Acquire and Release       *)
(* implement LockService.                                                  *)
(*                                                                         *)
(* The inductive invariants are KvInv and, on top of it, what a client     *)
(* that waits for its Get or its Put knows of the lock's key.              *)
(***************************************************************************)
EXTENDS Lock, TLAPS

-----------------------------------------------------------------------------
(* The key/value service.                                                  *)

\* The Clerk of c is waiting for an answer.
Pending(c) == call[c].at \in {"sent", "answered"}

\* A Put that was performed has raised the version above its own, so no
\* resend of it can be performed again.
PerformedOnce(c) ==
    /\ call[c].times \in {0, 1}
    /\ call[c].times = 1 => /\ call[c].op = "Put"
                            /\ kvStore[call[c].key].version > call[c].version

\* What the last reply to a Put that is still under way says about it.
RepliesTrue(c) ==
    call[c].op = "Put" /\ Pending(c) =>
      /\ call[c].reply.value = Empty /\ call[c].reply.version = 0
      /\ call[c].times = 0 => call[c].reply.err \in {"none", "ErrVersion", "ErrNoKey"}
      /\ call[c].times = 1 => call[c].reply.err \in {"OK", "ErrVersion"}
      /\ call[c].times = 1 /\ ~call[c].retry
           => call[c].at = "answered" /\ call[c].reply.err = "OK"

\* The reply at hand, or returned, is one that a handler gave.
Answered(c) == call[c].at \in {"answered", "returned"} => call[c].reply.err # "none"

\* A Put that returned.
ReturnedTrue(c) == call[c].op = "Put" /\ call[c].at = "returned" => VerdictTrue(c)

\* Only Put remembers that it was sent again.
RetryIsPut(c) == call[c].retry => call[c].op = "Put"

CallSound(c) == /\ PerformedOnce(c) /\ RepliesTrue(c) /\ Answered(c)
                /\ ReturnedTrue(c) /\ RetryIsPut(c)

\* The inductive invariant.
KvInv == KvTypeOK /\ \A c \in Client : CallSound(c)

\* The initial state satisfies the invariant.
LEMMA KvInit == Init => KvInv
BY DEF Init, KvInv, KvTypeOK, Stored, CallType, ReplyType, Errs, NoCall, NoReply,
       CallSound, PerformedOnce, RepliesTrue, Answered, ReturnedTrue, RetryIsPut, Pending, VerdictTrue

\* A step of Clerk c leaves the calls of the others as they are, and lowers
\* no version: their performed Puts stay performed.
LEMMA OthersSound ==
    ASSUME KvInv, NEW c \in Client, NEW d \in Client, d # c,
           call'[d] = call[d],
           \A k \in Key : kvStore'[k].version >= kvStore[k].version,
           kvStore' \in [Key -> Stored]
    PROVE  CallSound(d)'
<1>1. CallSound(d) BY DEF KvInv
<1>2. PerformedOnce(d)'
  <2>1. CASE call[d].times = 1
    <3>1. call[d].key \in Key /\ call[d].version \in Nat
      BY <1>1, <2>1 DEF KvInv, KvTypeOK, CallType, CallSound, PerformedOnce
    <3>2. kvStore[call[d].key].version \in Nat /\ kvStore'[call[d].key].version \in Nat
      BY <3>1 DEF KvInv, KvTypeOK, Stored
    <3> QED BY <1>1, <2>1, <3>1, <3>2 DEF CallSound, PerformedOnce
  <2>2. CASE call[d].times # 1
    BY <1>1, <2>2 DEF CallSound, PerformedOnce
  <2> QED BY <2>1, <2>2
<1>3. (RepliesTrue(d) /\ Answered(d) /\ ReturnedTrue(d) /\ RetryIsPut(d))'
  BY <1>1 DEF CallSound, RepliesTrue, Answered, ReturnedTrue, RetryIsPut, Pending, VerdictTrue
<1> QED BY <1>2, <1>3 DEF CallSound

\* A step that gives Clerk c a well-typed call keeps the types.
LEMMA OneCallType ==
    ASSUME KvTypeOK, NEW c \in Client, NEW e \in CallType,
           e.op # "none", e.at # "idle", e.key \in Key,
           call' = [call EXCEPT ![c] = e], kvStore' \in [Key -> Stored]
    PROVE  KvTypeOK'
<1>1. call' \in [Client -> CallType] BY DEF KvTypeOK
<1>2. ASSUME NEW d \in Client PROVE
        /\ call'[d].op # "none" <=> call'[d].at # "idle"
        /\ call'[d].op # "none" => call'[d].key \in Key
  <2>1. CASE d = c BY <2>1 DEF KvTypeOK
  <2>2. CASE d # c BY <2>2 DEF KvTypeOK
  <2> QED BY <2>1, <2>2
<1> QED BY <1>1, <1>2 DEF KvTypeOK

\* The records that StartGet and StartPut make.
LEMMA StartType ==
    ASSUME NEW k \in Key, NEW v \in Value \cup {Empty}, NEW n \in Nat, NEW o \in {"Get", "Put"}
    PROVE  LET e == [op |-> o, key |-> k, value |-> v, version |-> n,
                     retry |-> FALSE, at |-> "sent", reply |-> NoReply, times |-> 0]
           IN  e \in CallType /\ e.op # "none" /\ e.at # "idle" /\ e.key \in Key
<1>1. NoReply \in ReplyType BY DEF NoReply, ReplyType, Errs
<1> QED BY <1>1 DEF CallType

\* A new Get or Put of Clerk c starts with a clean record.
LEMMA StartSound ==
    ASSUME KvInv, NEW c \in Client, NEW k \in Key, UNCHANGED kvStore,
           \/ StartGet(c, k)
           \/ \E v \in Value, n \in Nat : StartPut(c, k, v, n)
    PROVE  KvInv'
<1>1. KvTypeOK'
  <2>1. PICK e \in CallType : /\ e.op # "none" /\ e.at # "idle" /\ e.key \in Key
                             /\ call' = [call EXCEPT ![c] = e]
    BY Zenon, StartType DEF StartGet, StartPut
  <2> QED BY <2>1, OneCallType DEF KvInv, KvTypeOK
<1>2. CallSound(c)'
  BY DEF KvInv, KvTypeOK, StartGet, StartPut, NoReply, CallSound, PerformedOnce,
         RepliesTrue, Answered, ReturnedTrue, RetryIsPut, Pending
<1>3. ASSUME NEW d \in Client, d # c PROVE CallSound(d)'
  <2>1. call'[d] = call[d] BY <1>3 DEF KvInv, KvTypeOK, StartGet, StartPut
  <2>2. \A x \in Key : kvStore[x].version \in Nat BY DEF KvInv, KvTypeOK, Stored
  <2> QED BY <1>3, <2>1, <2>2, OthersSound DEF KvInv, KvTypeOK
<1> QED BY <1>1, <1>2, <1>3 DEF KvInv

\* A lost call is sent again with the same arguments.
LEMMA LoseSound == ASSUME KvInv, NEW c \in Client, Lose(c) PROVE KvInv'
<1> DEFINE e == [call[c] EXCEPT !.at = "sent", !.retry = (call[c].op = "Put")]
<1>0. /\ call[c] \in CallType /\ call[c].op # "none" /\ call[c].key \in Key
      /\ call' = [call EXCEPT ![c] = e] /\ call'[c] = e
  BY DEF KvInv, KvTypeOK, Lose
<1>1. KvTypeOK'
  <2>1. (call[c].op = "Put") \in BOOLEAN OBVIOUS
  <2>2. e \in CallType /\ e.op # "none" /\ e.at # "idle" /\ e.key \in Key
    <3>1. CASE call[c].op = "Put" BY <1>0, <3>1 DEF CallType
    <3>2. CASE call[c].op # "Put" BY <1>0, <3>2 DEF CallType
    <3> QED BY <3>1, <3>2
  <2> QED BY <1>0, <2>2, OneCallType DEF KvInv, KvTypeOK, Lose
<1>2. CallSound(c)'
  <2>1. /\ call'[c].at = "sent" /\ call'[c].op = call[c].op /\ call'[c].times = call[c].times
        /\ call'[c].key = call[c].key /\ call'[c].version = call[c].version
        /\ call'[c].reply = call[c].reply
    <3>1. call[c] \in CallType BY <1>0
    <3>2. /\ e.at = "sent" /\ e.op = call[c].op /\ e.times = call[c].times
          /\ e.key = call[c].key /\ e.version = call[c].version /\ e.reply = call[c].reply
      BY <3>1 DEF CallType
    <3>3. call'[c] = e BY <1>0
    <3> HIDE DEF e
    <3> QED BY <3>2, <3>3
  <2>2. ASSUME call[c].op = "Put" PROVE call'[c].retry
    <3>1. e.retry = (call[c].op = "Put") BY <1>0 DEF CallType
    <3> QED BY <1>0, <2>2, <3>1, Zenon
  <2>3. ASSUME call'[c].retry PROVE call[c].op = "Put"
    <3>1. e.retry = (call[c].op = "Put") BY <1>0 DEF CallType
    <3> QED BY <1>0, <2>3, <3>1, Zenon
  <2> QED BY <2>1, <2>2, <2>3 DEF KvInv, Lose, CallSound, PerformedOnce, RepliesTrue, Answered,
                      ReturnedTrue, RetryIsPut, Pending
<1>3. ASSUME NEW d \in Client, d # c PROVE CallSound(d)'
  <2>1. call'[d] = call[d] BY <1>3 DEF KvInv, KvTypeOK, Lose
  <2>2. \A x \in Key : kvStore[x].version \in Nat BY DEF KvInv, KvTypeOK, Stored
  <2> QED BY <1>3, <2>1, <2>2, OthersSound DEF KvInv, KvTypeOK, Lose
<1> QED BY <1>1, <1>2, <1>3 DEF KvInv

\* A call returns with a true verdict.
LEMMA ReturnSound == ASSUME KvInv, NEW c \in Client, Return(c) PROVE KvInv'
<1>1. call[c] \in CallType /\ call[c].at = "answered" /\ Verdict(c) \in Errs
  BY DEF KvInv, KvTypeOK, Return, CallType, ReplyType, Verdict, Errs
<1>2. call'[c] = [call[c] EXCEPT !.at = "returned", !.reply.err = Verdict(c)]
  BY DEF KvInv, KvTypeOK, Return
<1>3. KvTypeOK'
  BY <1>1 DEF KvInv, KvTypeOK, Return, CallType, ReplyType
<1>4. CallSound(c)'
  <2>1. /\ call'[c].at = "returned" /\ call'[c].op = call[c].op /\ call'[c].times = call[c].times
        /\ call'[c].key = call[c].key /\ call'[c].version = call[c].version
        /\ call'[c].reply.err = Verdict(c) /\ call'[c].retry = call[c].retry
    BY <1>1, <1>2 DEF CallType, ReplyType
  <2>2. CallSound(c) /\ kvStore' = kvStore BY DEF KvInv, Return
  <2> QED BY <1>1, <2>1, <2>2 DEF CallSound, PerformedOnce, RepliesTrue, Answered,
                ReturnedTrue, RetryIsPut, Pending, Verdict, VerdictTrue, CallType
<1>5. ASSUME NEW d \in Client, d # c PROVE CallSound(d)'
  <2>1. call'[d] = call[d] BY <1>5 DEF KvInv, KvTypeOK, Return
  <2>2. \A x \in Key : kvStore[x].version \in Nat BY DEF KvInv, KvTypeOK, Stored
  <2> QED BY <1>5, <2>1, <2>2, OthersSound DEF KvInv, KvTypeOK, Return
<1> QED BY <1>3, <1>4, <1>5 DEF KvInv

\* KVServer.Get changes no version and performs no Put.
LEMMA GetSound == ASSUME KvInv, NEW c \in Client, Get(c) PROVE KvInv'
<1>1. call[c] \in CallType /\ call[c].key \in Key /\ kvStore[call[c].key] \in Stored
      /\ call[c].op = "Get"
  BY DEF KvInv, KvTypeOK, Get
<1> DEFINE s == kvStore[call[c].key]
           r == [value |-> s.value, version |-> s.version,
                 err |-> IF s.version = 0 THEN "ErrNoKey" ELSE "OK"]
<1>2. call'[c] = [call[c] EXCEPT !.at = "answered", !.reply = r]
  BY DEF KvInv, KvTypeOK, Get
<1>3. KvTypeOK'
  BY <1>1 DEF KvInv, KvTypeOK, Get, CallType, ReplyType, Errs, Stored
<1>4. CallSound(c)'
  <2>1. /\ call'[c].at = "answered" /\ call'[c].op = "Get" /\ call'[c].times = call[c].times
        /\ call'[c].reply.err # "none" /\ call'[c].retry = call[c].retry
    BY <1>1, <1>2 DEF CallType
  <2>2. CallSound(c) BY DEF KvInv
  <2> QED BY <1>1, <2>1, <2>2 DEF CallSound, PerformedOnce, RepliesTrue, Answered, ReturnedTrue, RetryIsPut
<1>5. ASSUME NEW d \in Client, d # c PROVE CallSound(d)'
  <2>1. call'[d] = call[d] BY <1>5 DEF KvInv, KvTypeOK, Get
  <2>2. \A x \in Key : kvStore[x].version \in Nat BY DEF KvInv, KvTypeOK, Stored
  <2> QED BY <1>5, <2>1, <2>2, OthersSound DEF KvInv, KvTypeOK, Get
<1> QED BY <1>3, <1>4, <1>5 DEF KvInv

\* KVServer.Put raises the version of the key it changes, and finds the
\* version of a Put that was performed before to be too low.
LEMMA PutSound == ASSUME KvInv, NEW c \in Client, Put(c) PROVE KvInv'
<1> DEFINE m == call[c]
           s == kvStore[m.key]
           ok == Matches(s, m.version)
           err == IF ok THEN "OK" ELSE IF s.version = 0 THEN "ErrNoKey" ELSE "ErrVersion"
<1>1. /\ m \in CallType /\ m.key \in Key /\ s \in Stored
      /\ m.op = "Put" /\ m.at = "sent" /\ CallSound(c)
  BY DEF KvInv, KvTypeOK, Put
<1>2. m.version \in Nat /\ m.times \in Nat /\ s.version \in Nat /\ m.value \in Value \cup {Empty}
  BY <1>1 DEF CallType, Stored
<1>3. /\ call'[c].at = "answered" /\ call'[c].op = "Put" /\ call'[c].key = m.key
      /\ call'[c].version = m.version /\ call'[c].retry = m.retry
      /\ call'[c].reply = [value |-> Empty, version |-> 0, err |-> err]
      /\ call'[c].times = IF ok THEN m.times + 1 ELSE m.times
  BY <1>1 DEF KvInv, KvTypeOK, Put, CallType
<1>4. kvStore' = [kvStore EXCEPT ![m.key] =
                    IF ok THEN [value |-> m.value, version |-> m.version + 1] ELSE @]
  BY DEF Put
<1>5. kvStore' \in [Key -> Stored]
  BY <1>1, <1>2, <1>4 DEF KvInv, KvTypeOK, Stored
<1>6. \A k \in Key : kvStore'[k].version >= kvStore[k].version
  <2>1. ASSUME NEW k \in Key PROVE kvStore'[k].version >= kvStore[k].version
    <3>1. kvStore[k].version \in Nat BY DEF KvInv, KvTypeOK, Stored
    <3>2. CASE k = m.key /\ ok
      BY <1>2, <1>4, <3>1, <3>2 DEF KvInv, KvTypeOK, Matches
    <3>3. CASE ~(k = m.key /\ ok)
      BY <1>4, <3>1, <3>3 DEF KvInv, KvTypeOK
    <3> QED BY <3>2, <3>3
  <2> QED BY <2>1
<1>7. KvTypeOK'
  <2> DEFINE r == [value |-> Empty, version |-> 0, err |-> err]
             t == IF ok THEN m.times + 1 ELSE m.times
             e == [m EXCEPT !.at = "answered", !.reply = r, !.times = t]
  <2>1. r \in ReplyType /\ t \in Nat BY <1>2 DEF ReplyType, Errs
  <2>2. e \in CallType /\ e.op # "none" /\ e.at # "idle" /\ e.key \in Key
    BY <1>1, <2>1 DEF CallType
  <2>3. call' = [call EXCEPT ![c] = e] BY DEF Put
  <2> QED BY <1>5, <2>2, <2>3, OneCallType DEF KvInv
<1>8. CallSound(c)'
  <2>1. CASE ok
    <3>1. m.times = 0
      BY <1>1, <1>2, <2>1 DEF CallSound, PerformedOnce, Matches
    <3>2. kvStore'[m.key].version = m.version + 1
      BY <1>1, <1>4, <2>1 DEF KvInv, KvTypeOK
    <3> QED BY <1>2, <1>3, <2>1, <3>1, <3>2 DEF CallSound, PerformedOnce, RepliesTrue, Answered,
                                      ReturnedTrue, RetryIsPut, Pending
  <2>2. CASE ~ok
    <3>1. kvStore'[m.key] = s BY <1>1, <1>4, <2>2 DEF KvInv, KvTypeOK
    <3> QED BY <1>1, <1>2, <1>3, <2>2, <3>1 DEF CallSound, PerformedOnce, RepliesTrue, Answered,
                                      ReturnedTrue, RetryIsPut, Pending, Matches
  <2> QED BY <2>1, <2>2
<1>9. ASSUME NEW d \in Client, d # c PROVE CallSound(d)'
  <2>1. call'[d] = call[d] BY <1>9 DEF KvInv, KvTypeOK, Put
  <2> QED BY <1>5, <1>6, <1>9, <2>1, OthersSound
<1> QED BY <1>7, <1>8, <1>9 DEF KvInv

\* Every step of a call under way preserves the invariant.
LEMMA ClerkStepSound == ASSUME KvInv, NEW c \in Client, ClerkStep(c) PROVE KvInv'
BY GetSound, PutSound, LoseSound, ReturnSound DEF ClerkStep

\* A step that changes neither the store nor the calls preserves it, too.
LEMMA KvStutter == ASSUME KvInv, UNCHANGED vars PROVE KvInv'
BY DEF vars, KvInv, KvTypeOK, CallSound, PerformedOnce, RepliesTrue, Answered,
       ReturnedTrue, RetryIsPut, Pending, VerdictTrue

\* The invariant holds in every reachable state.
THEOREM KvCorrect == Spec => []KvInv
<1>1. KvInv /\ [Next]_vars => KvInv'
  <2> SUFFICES ASSUME KvInv, [Next]_vars PROVE KvInv' OBVIOUS
  <2>1. ASSUME NEW c \in Client, ClerkStep(c) PROVE KvInv' BY <2>1, ClerkStepSound
  <2>2. ASSUME NEW c \in Client, NEW k \in Key, InvokeGet(c, k) PROVE KvInv'
    BY <2>2, StartSound DEF InvokeGet
  <2>3. ASSUME NEW c \in Client, NEW k \in Key, NEW v \in Value, NEW n \in Version,
               InvokePut(c, k, v, n)
        PROVE KvInv'
    BY <2>3, StartSound, VersionAssumption DEF InvokePut
  <2>4. CASE UNCHANGED vars BY <2>4, KvStutter
  <2> QED BY <2>1, <2>2, <2>3, <2>4 DEF Next
<1> QED BY <1>1, KvInit, PTL DEF Spec

\* A Put is performed at most once and the Clerk's verdict on it is true
\* (Clerk.Put, KVServer.Put).
THEOREM VerdictCorrect == Spec => []VerdictSound
<1>1. KvInv => VerdictSound
  <2> SUFFICES ASSUME KvInv, NEW c \in Client
               PROVE  /\ call[c].times <= 1
                      /\ call[c].op = "Put" /\ call[c].at = "returned" => VerdictTrue(c)
    BY DEF VerdictSound
  <2>1. CallSound(c) BY DEF KvInv
  <2>2. call[c].times <= 1 BY <2>1 DEF CallSound, PerformedOnce
  <2> QED BY <2>1, <2>2 DEF CallSound, ReturnedTrue, RetryIsPut
<1> QED BY <1>1, KvCorrect, PTL

-----------------------------------------------------------------------------
(* The service implements the sequential model.                            *)

\* A step of Clerk c is a step of its operation if it changes no other one.
LEMMA OneOp ==
    ASSUME KvTypeOK, NEW c \in Client, NEW e, call' = [call EXCEPT ![c] = e]
    PROVE  [d \in Client |-> AbstractOp(d)]'
             = [[d \in Client |-> AbstractOp(d)] EXCEPT ![c] = AbstractOp(c)']
<1>1. ASSUME NEW d \in Client, d # c PROVE AbstractOp(d)' = AbstractOp(d)
  BY <1>1 DEF AbstractOp, KvTypeOK
<1> QED BY <1>1, Zenon

\* The initial states of the service are initial states of the model.
LEMMA ModelInit == Init => Model!Init
BY DEF Init, Model!Init, AbstractOp, NoCall, NoReply, Model!NoAnswer, Model!NoInput

\* An application's call begins an operation of the model.
LEMMA InvokeIsInvoke ==
    ASSUME KvInv, NEW c \in Client, NEW k \in Key, Ready(c), UNCHANGED kvStore,
           \/ StartGet(c, k)
           \/ \E v \in Value, n \in Version : StartPut(c, k, v, n)
    PROVE  Model!Next
<1> DEFINE absOp == [d \in Client |-> AbstractOp(d)]
<1>1. absOp[c].at \in {"idle", "returned"}
  BY DEF Ready, AbstractOp
<1>2. PICK input \in Model!Input :
        call' = [call EXCEPT ![c] =
                   [op |-> input.op, key |-> input.key, value |-> input.value,
                    version |-> input.version, retry |-> FALSE, at |-> "sent",
                    reply |-> NoReply, times |-> 0]]
  <2>1. CASE StartGet(c, k)
    <3> DEFINE i == [op |-> "Get", key |-> k, value |-> Empty, version |-> 0]
    <3>1. i \in Model!Input BY DEF Model!Input
    <3> QED BY <2>1, <3>1 DEF StartGet
  <2>2. ASSUME NEW v \in Value, NEW n \in Version, StartPut(c, k, v, n)
        PROVE  \E input \in Model!Input :
                 call' = [call EXCEPT ![c] =
                   [op |-> input.op, key |-> input.key, value |-> input.value,
                    version |-> input.version, retry |-> FALSE, at |-> "sent",
                    reply |-> NoReply, times |-> 0]]
    <3> DEFINE i == [op |-> "Put", key |-> k, value |-> v, version |-> n]
    <3>1. i \in Model!Input BY DEF Model!Input
    <3> QED BY <2>2, <3>1 DEF StartPut
  <2> QED BY <2>1, <2>2
<1>3. input = [op |-> input.op, key |-> input.key, value |-> input.value,
               version |-> input.version]
  BY DEF Model!Input
<1>4. AbstractOp(c)' = [at |-> "pending", input |-> input, answer |-> Model!NoAnswer]
  BY <1>2, <1>3 DEF AbstractOp, KvInv, KvTypeOK, NoReply, Model!NoAnswer
<1>5. absOp' = [absOp EXCEPT ![c] = [at |-> "pending", input |-> input,
                                     answer |-> Model!NoAnswer]]
  BY <1>2, <1>4, OneOp DEF KvInv
<1>6. Model!Invoke(c, input)
  BY <1>1, <1>5 DEF Model!Invoke
<1> QED BY <1>6 DEF Model!Next

\* A lost request or reply is no step of the model: the last answer stays.
LEMMA LoseIsNoStep ==
    ASSUME KvInv, NEW c \in Client, Lose(c)
    PROVE  UNCHANGED <<kvStore, [d \in Client |-> AbstractOp(d)]>>
<1> DEFINE e == [call[c] EXCEPT !.at = "sent", !.retry = (call[c].op = "Put")]
<1>1. call[c] \in CallType /\ call[c].at \in {"sent", "answered"}
      /\ call' = [call EXCEPT ![c] = e] /\ call'[c] = e
  BY DEF KvInv, KvTypeOK, Lose
<1>2. /\ e.at = "sent" /\ e.op = call[c].op /\ e.times = call[c].times /\ e.value = call[c].value
      /\ e.key = call[c].key /\ e.version = call[c].version /\ e.reply = call[c].reply
  <2>1. call[c] \in CallType BY <1>1
  <2> QED BY <2>1 DEF CallType
<1> HIDE DEF e
<1>3. AbstractOp(c)' = AbstractOp(c)
  BY <1>1, <1>2 DEF AbstractOp
<1>4. ASSUME NEW d \in Client PROVE AbstractOp(d)' = AbstractOp(d)
  <2>1. CASE d # c BY <1>1, <2>1 DEF AbstractOp, KvInv, KvTypeOK
  <2> QED BY <1>3, <2>1
<1> QED BY <1>4 DEF Lose

\* The return of Clerk.Get or Clerk.Put is the response of the model; a Put
\* that was performed is answered OK or ErrMaybe, any other by the last reply
\* or, after a resend, by ErrMaybe in the place of ErrVersion.
LEMMA ReturnIsRespond ==
    ASSUME KvInv, NEW c \in Client, Return(c)
    PROVE  Model!Next
<1> DEFINE absOp == [d \in Client |-> AbstractOp(d)]
           m == call[c]
           e == [m EXCEPT !.at = "returned", !.reply = [@ EXCEPT !.err = Verdict(c)]]
<1>1. m \in CallType /\ m.at = "answered" /\ m.op # "none" /\ CallSound(c)
      /\ call' = [call EXCEPT ![c] = e] /\ call'[c] = e
  BY DEF KvInv, KvTypeOK, Return
<1>2. /\ e.at = "returned" /\ e.op = m.op /\ e.times = m.times /\ e.value = m.value
      /\ e.key = m.key /\ e.version = m.version
      /\ e.reply = [m.reply EXCEPT !.err = Verdict(c)]
  <2>1. m \in CallType BY <1>1
  <2> QED BY <2>1 DEF CallType
<1> HIDE DEF e
<1> DEFINE input == [op |-> m.op, key |-> m.key, value |-> m.value, version |-> m.version]
           answer == IF m.times > 0 THEN [value |-> Empty, version |-> 0, err |-> "OK"]
                     ELSE m.reply
<1>3. AbstractOp(c) = [at |-> "pending", input |-> input, answer |-> answer]
  BY <1>1 DEF AbstractOp
<1>4. AbstractOp(c)' = [at |-> "returned", input |-> input,
                        answer |-> [m.reply EXCEPT !.err = Verdict(c)]]
  BY <1>1, <1>2 DEF AbstractOp
<1>5. m.times \in {0, 1} /\ m.reply \in ReplyType /\ m.reply.err # "none"
  BY <1>1 DEF CallSound, PerformedOnce, Answered, CallType
<1>6. answer.err # "none"
  BY <1>5
<1>7. \/ [m.reply EXCEPT !.err = Verdict(c)] = answer
      \/ /\ m.op = "Put" /\ answer.err \in {"OK", "ErrVersion"}
         /\ [m.reply EXCEPT !.err = Verdict(c)] = [answer EXCEPT !.err = "ErrMaybe"]
  <2>1. CASE m.times = 1
    <3>1. /\ m.op = "Put" /\ m.reply.value = Empty /\ m.reply.version = 0
          /\ m.reply.err \in {"OK", "ErrVersion"}
          /\ m.reply.err = "ErrVersion" => m.retry
      BY <1>1, <2>1 DEF CallSound, PerformedOnce, RepliesTrue, Pending
    <3>2. m.reply = [value |-> Empty, version |-> 0, err |-> m.reply.err]
      BY <1>5, <3>1 DEF ReplyType
    <3>3. Verdict(c) = IF m.reply.err = "OK" THEN "OK" ELSE "ErrMaybe"
      BY <3>1 DEF Verdict
    <3>4. answer = [value |-> Empty, version |-> 0, err |-> "OK"] BY <2>1
    <3> QED BY <3>1, <3>2, <3>3, <3>4
  <2>2. CASE m.times = 0
    <3>1. answer = m.reply BY <2>2
    <3>2. CASE Verdict(c) = m.reply.err BY <1>5, <3>1, <3>2 DEF ReplyType
    <3>3. CASE Verdict(c) # m.reply.err
      <4>1. m.reply.err = "ErrVersion" /\ m.retry /\ Verdict(c) = "ErrMaybe"
        BY <3>3 DEF Verdict
      <4>2. m.op = "Put" BY <1>1, <4>1 DEF CallSound, RetryIsPut
      <4> QED BY <3>1, <4>1, <4>2
    <3> QED BY <3>2, <3>3
  <2> QED BY <1>5, <2>1, <2>2
<1>8. absOp' = [absOp EXCEPT ![c] = AbstractOp(c)']
  BY <1>1, OneOp DEF KvInv
<1>9. Model!Respond(c)
  <2> DEFINE output == [m.reply EXCEPT !.err = Verdict(c)]
  <2>1. absOp[c] = [at |-> "pending", input |-> input, answer |-> answer] BY <1>3
  <2>2. output \in Model!Outputs(c)
    BY <1>7, <2>1 DEF Model!Outputs
  <2> HIDE DEF answer, input, output
  <2>3. AbstractOp(c)' = [at |-> "returned", input |-> absOp[c].input, answer |-> output]
    BY <1>4, <2>1 DEF output
  <2>4. absOp' = [absOp EXCEPT ![c] = [at |-> "returned", input |-> absOp[c].input,
                                       answer |-> output]]
    BY <1>8, <2>3, Zenon
  <2>5. absOp[c].at = "pending" /\ absOp[c].answer.err # "none" BY <1>6, <2>1
  <2>6. UNCHANGED kvStore BY DEF Return
  <2> QED BY <2>2, <2>4, <2>5, <2>6, Zenon DEF Model!Respond
<1> QED BY <1>9 DEF Model!Next

\* KVServer.Get is the model's step for a Get.
LEMMA GetIsStep ==
    ASSUME KvInv, NEW c \in Client, Get(c)
    PROVE  Model!Next
<1> DEFINE absOp == [d \in Client |-> AbstractOp(d)]
           m == call[c]
           s == kvStore[m.key]
           r == [value |-> s.value, version |-> s.version,
                 err |-> IF s.version = 0 THEN "ErrNoKey" ELSE "OK"]
           e == [m EXCEPT !.at = "answered", !.reply = r]
           input == [op |-> m.op, key |-> m.key, value |-> m.value, version |-> m.version]
<1>1. /\ m \in CallType /\ m.at = "sent" /\ m.op = "Get" /\ m.times = 0
      /\ call' = [call EXCEPT ![c] = e] /\ call'[c] = e
  BY DEF KvInv, KvTypeOK, Get, CallSound, PerformedOnce
<1>2. /\ e.at = "answered" /\ e.op = m.op /\ e.times = m.times /\ e.value = m.value
      /\ e.key = m.key /\ e.version = m.version /\ e.reply = r
  <2>1. m \in CallType BY <1>1
  <2> QED BY <2>1 DEF CallType
<1> HIDE DEF e
<1>3. absOp[c] = [at |-> "pending", input |-> input, answer |-> m.reply]
  BY <1>1 DEF AbstractOp
<1>4. AbstractOp(c)' = [at |-> "pending", input |-> input, answer |-> r]
  <2> HIDE DEF r
  <2> QED BY <1>1, <1>2 DEF AbstractOp
<1>5. absOp' = [absOp EXCEPT ![c] = AbstractOp(c)']
  BY <1>1, OneOp DEF KvInv
<1>6. absOp' = [absOp EXCEPT ![c].answer = r]
  <2> HIDE DEF r, input
  <2>1. AbstractOp(c)' = [absOp[c] EXCEPT !.answer = r] BY <1>3, <1>4
  <2> HIDE DEF absOp
  <2> QED BY <1>5, <2>1
<1>7. absOp[c].at = "pending" /\ absOp[c].input.op = "Get" /\ absOp[c].input.key = m.key
  BY <1>1, <1>3
<1>8. UNCHANGED kvStore BY DEF Get
<1>9. Model!StepGet(c)
  <2> HIDE DEF absOp
  <2> QED BY <1>6, <1>7, <1>8 DEF Model!StepGet, absOp
<1> QED BY <1>9 DEF Model!Next

\* KVServer.Put is one of the model's steps for a Put, unless the Put was performed
\* before: then it changes nothing, and the model has its answer already.
LEMMA PutIsStep ==
    ASSUME KvInv, NEW c \in Client, Put(c)
    PROVE  Model!Next \/ UNCHANGED <<kvStore, [d \in Client |-> AbstractOp(d)]>>
<1> DEFINE absOp == [d \in Client |-> AbstractOp(d)]
           m == call[c]
           s == kvStore[m.key]
           ok == s.version = m.version
           err == IF ok THEN "OK" ELSE IF s.version = 0 THEN "ErrNoKey" ELSE "ErrVersion"
           r == [value |-> Empty, version |-> 0, err |-> err]
           t == IF ok THEN m.times + 1 ELSE m.times
           e == [m EXCEPT !.at = "answered", !.reply = r, !.times = t]
           input == [op |-> m.op, key |-> m.key, value |-> m.value, version |-> m.version]
           okAnswer == [value |-> Empty, version |-> 0, err |-> "OK"]
<1>1. /\ m \in CallType /\ m.at = "sent" /\ m.op = "Put" /\ CallSound(c)
      /\ m.key \in Key /\ s \in Stored
      /\ call' = [call EXCEPT ![c] = e] /\ call'[c] = e
  BY DEF KvInv, KvTypeOK, Put, Matches
<1>2. /\ e.at = "answered" /\ e.op = m.op /\ e.times = t /\ e.value = m.value
      /\ e.key = m.key /\ e.version = m.version /\ e.reply = r
  <2>1. m \in CallType BY <1>1
  <2> HIDE DEF r, t
  <2> QED BY <2>1 DEF CallType
<1> HIDE DEF e
<1>3. m.times \in {0, 1} /\ m.version \in Nat /\ s.version \in Nat
  BY <1>1 DEF CallSound, PerformedOnce, CallType, Stored
<1>4. absOp' = [absOp EXCEPT ![c] = AbstractOp(c)']
  BY <1>1, OneOp DEF KvInv
<1>5. kvStore' = [kvStore EXCEPT ![m.key] =
                    IF ok THEN [value |-> m.value, version |-> m.version + 1] ELSE @]
  BY DEF Put, Matches
<1>6. CASE m.times = 1
  <2>1. ~ok BY <1>1, <1>3, <1>6 DEF CallSound, PerformedOnce
  <2>2. kvStore' = kvStore BY <1>1, <1>5, <2>1 DEF KvInv, KvTypeOK
  <2>3. absOp[c] = [at |-> "pending", input |-> input, answer |-> okAnswer]
    BY <1>1, <1>6 DEF AbstractOp
  <2>4. AbstractOp(c)' = [at |-> "pending", input |-> input, answer |-> okAnswer]
    <3>1. e.times = 1 BY <1>2, <1>6, <2>1
    <3> HIDE DEF r, t
    <3> QED BY <1>1, <1>2, <3>1 DEF AbstractOp
  <2>5. AbstractOp(c)' = absOp[c] BY <2>3, <2>4
  <2>6. absOp' = absOp
    <3>1. [absOp EXCEPT ![c] = absOp[c]] = absOp OBVIOUS
    <3> QED BY <1>4, <2>5, <3>1, Zenon
  <2> QED BY <2>2, <2>6
<1>7. CASE m.times = 0
  <2>1. absOp[c] = [at |-> "pending", input |-> input, answer |-> m.reply]
    BY <1>1, <1>7 DEF AbstractOp
  <2>2. AbstractOp(c)' = [at |-> "pending", input |-> input, answer |-> r]
    <3>1. (e.times > 0 /\ r = okAnswer) \/ e.times = 0
      BY <1>2, <1>7
    <3> HIDE DEF r, t
    <3> QED BY <1>1, <1>2, <3>1 DEF AbstractOp
  <2>3. absOp' = [absOp EXCEPT ![c].answer = r]
    <3> HIDE DEF r, input
    <3>1. AbstractOp(c)' = [absOp[c] EXCEPT !.answer = r] BY <2>1, <2>2
    <3> HIDE DEF absOp
    <3> QED BY <1>4, <3>1
  <2>4. /\ absOp[c].at = "pending" /\ absOp[c].answer.err # "OK"
        /\ absOp[c].input.op = "Put" /\ absOp[c].input.key = m.key
        /\ absOp[c].input.value = m.value /\ absOp[c].input.version = m.version
    BY <1>1, <1>7, <2>1 DEF CallSound, RepliesTrue, Pending
  <2>5. kvStore' = [kvStore EXCEPT ![m.key] =
                      IF ok THEN [value |-> m.value, version |-> s.version + 1] ELSE @]
    BY <1>5
  <2>6. CASE ok \/ s.version # 0
    <3>1. Model!StepPut(c)
      <4> HIDE DEF absOp
      <4> QED BY <1>1, <2>3, <2>4, <2>5, <2>6 DEF Model!StepPut, absOp
    <3> QED BY <3>1 DEF Model!Next
  <2>7. CASE ~ok /\ s.version = 0
    <3>1. kvStore' = kvStore
      BY <1>1, <2>5, <2>7 DEF KvInv, KvTypeOK
    <3>2. Model!StepPutNoKey(c)
      <4> HIDE DEF absOp
      <4> QED BY <1>1, <2>3, <2>4, <2>7, <3>1 DEF Model!StepPutNoKey, absOp
    <3> QED BY <3>2 DEF Model!Next
  <2> QED BY <2>6, <2>7
<1> QED BY <1>3, <1>6, <1>7

\* The key/value server and its Clerks implement the sequential model of
\* models1/kv.go, with the answer ErrNoKey that it lacks: every operation takes
\* effect at one moment between its call and its return, although requests and
\* replies are lost and Puts are sent again.
THEOREM LinearizableCorrect == Spec => Linearizable
<1> DEFINE absOp == [d \in Client |-> AbstractOp(d)]
<1>1. KvInv /\ [Next]_vars => [Model!Next]_(Model!vars)
  <2> SUFFICES ASSUME KvInv, [Next]_vars PROVE Model!Next \/ UNCHANGED <<kvStore, absOp>>
    BY DEF Model!vars
  <2>1. ASSUME NEW c \in Client, ClerkStep(c)
        PROVE Model!Next \/ UNCHANGED <<kvStore, absOp>>
    BY <2>1, GetIsStep, PutIsStep, LoseIsNoStep, ReturnIsRespond DEF ClerkStep
  <2>2. ASSUME NEW c \in Client, NEW k \in Key, InvokeGet(c, k) PROVE Model!Next
    BY <2>2, InvokeIsInvoke DEF InvokeGet
  <2>3. ASSUME NEW c \in Client, NEW k \in Key, NEW v \in Value, NEW n \in Version,
               InvokePut(c, k, v, n)
        PROVE Model!Next
    BY <2>3, InvokeIsInvoke DEF InvokePut
  <2>4. CASE UNCHANGED vars
    BY <2>4 DEF vars, AbstractOp
  <2> QED BY <2>1, <2>2, <2>3, <2>4 DEF Next
<1> QED BY <1>1, ModelInit, KvCorrect, PTL DEF Spec, Linearizable, Model!Spec

-----------------------------------------------------------------------------
(* The lock.                                                               *)

Owner == kvStore[LockKey].value
Ver == kvStore[LockKey].version

Labels == {"idle", "acquireGet", "acquirePut", "releaseGet", "releasePut"}

\* Type invariant of what Lock adds to KvClerk.
LockTypeOK == owned \in [Client -> BOOLEAN] /\ pc \in [Client -> Labels]

\* The call that client c waits for is of kind o and about the lock.
Waiting(c, o) == call[c].op = o /\ call[c].key = LockKey

\* Outside Acquire and Release a client has no call under way, and it owns
\* the lock exactly if the key names it.
IdleInv(c) ==
    pc[c] = "idle" => ~Pending(c) /\ (owned[c] <=> Owner = c)

\* What Acquire has read is true, unless the version has changed since; what
\* it has read of itself is true for good.
AcquireGetInv(c) ==
    pc[c] = "acquireGet" =>
      /\ ~owned[c] /\ Waiting(c, "Get")
      /\ call[c].reply.err = "OK" =>
           /\ call[c].reply.version <= Ver
           /\ call[c].reply.version = Ver => call[c].reply.value = Owner
           /\ call[c].reply.value = c => Owner = c

\* The Put of Acquire takes a lock that nobody owns, or fails.
AcquirePutInv(c) ==
    pc[c] = "acquirePut" =>
      /\ ~owned[c] /\ Waiting(c, "Put") /\ call[c].value = c
      /\ call[c].version <= Ver
      /\ call[c].times = 0 /\ call[c].version = Ver => Owner = Empty
      /\ call[c].times = 1 => Owner = c

\* What Release has read about itself is true.
ReleaseGetInv(c) ==
    pc[c] = "releaseGet" =>
      /\ owned[c] /\ Waiting(c, "Get")
      /\ call[c].reply.err # "none" =>
           (Owner = c <=> call[c].reply.err = "OK" /\ call[c].reply.value = c)
      /\ call[c].reply.err # "none" /\ Owner = c => call[c].reply.version = Ver

\* The Put of Release is performed the first time that it arrives.
ReleasePutInv(c) ==
    pc[c] = "releasePut" =>
      /\ owned[c] /\ Waiting(c, "Put") /\ call[c].value = Empty
      /\ \/ /\ call[c].times = 0 /\ call[c].at = "sent"
            /\ call[c].version = Ver /\ Owner = c
         \/ call[c].times = 1 /\ Owner # c

ClientInv(c) == /\ IdleInv(c) /\ AcquireGetInv(c) /\ AcquirePutInv(c)
                /\ ReleaseGetInv(c) /\ ReleasePutInv(c)

\* A key that does not exist names nobody.
NoKeyInv == Ver = 0 => Owner = Empty

\* The inductive invariant.
LockInv == /\ KvInv /\ LockTypeOK /\ NoKeyInv
           /\ \A c \in Client : ClientInv(c)

\* The initial state satisfies the invariant.
LEMMA LockInitInv == LockInit => LockInv
<1> SUFFICES ASSUME LockInit PROVE LockInv OBVIOUS
<1>1. KvInv BY KvInit DEF LockInit
<1>2. Owner = Empty /\ Ver = 0
  BY LockAssumption DEF LockInit, Init, Owner, Ver
<1>3. LockTypeOK /\ NoKeyInv BY <1>2 DEF LockInit, LockTypeOK, Labels, NoKeyInv
<1>4. ASSUME NEW c \in Client PROVE ClientInv(c)
  <2>1. c # Empty BY LockAssumption
  <2> QED BY <1>2, <2>1 DEF LockInit, Init, NoCall, Pending, ClientInv, IdleInv, AcquireGetInv,
               AcquirePutInv, ReleaseGetInv, ReleasePutInv
<1> QED BY <1>1, <1>3, <1>4 DEF LockInv

\* The versions are numbers.
LEMMA VerType ==
    ASSUME LockInv, NEW c \in Client
    PROVE  /\ Ver \in Nat /\ call[c] \in CallType /\ call[c].version \in Nat
           /\ call[c].reply \in ReplyType /\ call[c].reply.version \in Nat
           /\ call[c].times \in {0, 1} /\ c # Empty
<1>1. call[c] \in CallType /\ CallSound(c) /\ c # Empty /\ kvStore[LockKey] \in Stored
  BY LockAssumption DEF LockInv, KvInv, KvTypeOK
<1> QED BY <1>1 DEF Ver, Stored, CallType, ReplyType, CallSound, PerformedOnce

\* A step of c that leaves the store alone does not concern client d.
LEMMA OtherClient ==
    ASSUME LockInv, NEW c \in Client, NEW d \in Client, d # c,
           call'[d] = call[d], owned'[d] = owned[d], pc'[d] = pc[d],
           UNCHANGED kvStore
    PROVE  ClientInv(d)'
<1>1. ClientInv(d) BY DEF LockInv
<1>2. Owner' = Owner /\ Ver' = Ver BY DEF Owner, Ver
<1>3. IdleInv(d)' BY <1>1, <1>2 DEF ClientInv, IdleInv, Pending
<1>4. AcquireGetInv(d)' /\ AcquirePutInv(d)'
  BY <1>1, <1>2 DEF ClientInv, AcquireGetInv, AcquirePutInv, Waiting
<1>5. ReleaseGetInv(d)' /\ ReleasePutInv(d)'
  BY <1>1, <1>2 DEF ClientInv, ReleaseGetInv, ReleasePutInv, Waiting
<1> QED BY <1>3, <1>4, <1>5 DEF ClientInv

\* Assembling the invariant after a step of client c that does not touch the
\* store.
LEMMA OneClient ==
    ASSUME LockInv, NEW c \in Client, UNCHANGED kvStore, KvInv', LockTypeOK',
           \A d \in Client \ {c} : /\ call'[d] = call[d] /\ owned'[d] = owned[d]
                                   /\ pc'[d] = pc[d],
           ClientInv(c)'
    PROVE  LockInv'
<1>1. NoKeyInv' BY DEF LockInv, NoKeyInv, Owner, Ver
<1>2. ASSUME NEW d \in Client PROVE ClientInv(d)'
  <2>1. CASE d # c
    <3>1. call'[d] = call[d] /\ owned'[d] = owned[d] /\ pc'[d] = pc[d] BY <2>1
    <3> QED BY <2>1, <3>1, OtherClient
  <2> QED BY <2>1
<1> QED BY <1>1, <1>2 DEF LockInv

\* The client goes on with a Get: it has read nothing yet.
LEMMA GetNextInv ==
    ASSUME LockInv, NEW c \in Client, NEW l \in {"acquireGet", "releaseGet"},
           GetNext(c, l), l = "acquireGet" => ~owned[c], l = "releaseGet" => owned[c]
    PROVE  LockInv'
<1>1. KvInv'
  BY StartSound, LockAssumption DEF LockInv, GetNext
<1>2. LockTypeOK' BY DEF LockInv, LockTypeOK, GetNext, Labels
<1>3. \A d \in Client \ {c} : call'[d] = call[d] /\ owned'[d] = owned[d] /\ pc'[d] = pc[d]
  BY DEF LockInv, LockTypeOK, KvInv, KvTypeOK, GetNext, StartGet
<1>4. /\ pc'[c] = l /\ owned'[c] = owned[c] /\ call'[c].op = "Get" /\ call'[c].key = LockKey
      /\ call'[c].reply.err = "none"
  BY DEF LockInv, LockTypeOK, KvInv, KvTypeOK, GetNext, StartGet, NoReply
<1>5. ClientInv(c)'
  <2>1. CASE l = "acquireGet"
    BY <1>4, <2>1 DEF ClientInv, IdleInv, AcquireGetInv, AcquirePutInv,
          ReleaseGetInv, ReleasePutInv, Waiting
  <2>2. CASE l = "releaseGet"
    BY <1>4, <2>2 DEF ClientInv, IdleInv, AcquireGetInv, AcquirePutInv,
          ReleaseGetInv, ReleasePutInv, Waiting
  <2> QED BY <2>1, <2>2
<1> QED BY <1>1, <1>2, <1>3, <1>5, OneClient DEF GetNext

\* Acquire goes on with a Put of its own name, Release with one of no name.
LEMMA PutNextInv ==
    ASSUME LockInv, NEW c \in Client, NEW n \in Nat, NEW v \in Value,
           NEW l \in {"acquirePut", "releasePut"}, PutNext(c, v, n, l),
           l = "acquirePut" => /\ ~owned[c] /\ v = c /\ n <= Ver
                               /\ n = Ver => Owner = Empty,
           l = "releasePut" => /\ owned[c] /\ v = Empty /\ n = Ver /\ Owner = c
    PROVE  LockInv'
<1>1. KvInv'
  BY StartSound, LockAssumption DEF LockInv, PutNext
<1>2. LockTypeOK' BY DEF LockInv, LockTypeOK, PutNext, Labels
<1>3. \A d \in Client \ {c} : call'[d] = call[d] /\ owned'[d] = owned[d] /\ pc'[d] = pc[d]
  BY DEF LockInv, LockTypeOK, KvInv, KvTypeOK, PutNext, StartPut
<1>4. /\ pc'[c] = l /\ owned'[c] = owned[c] /\ call'[c].op = "Put" /\ call'[c].key = LockKey
      /\ call'[c].value = v /\ call'[c].version = n /\ call'[c].times = 0 /\ call'[c].at = "sent"
  BY DEF LockInv, LockTypeOK, KvInv, KvTypeOK, PutNext, StartPut
<1>5. Owner' = Owner /\ Ver' = Ver BY DEF PutNext, Owner, Ver
<1>6. ClientInv(c)'
  <2>1. CASE l = "acquirePut"
    BY <1>4, <1>5, <2>1 DEF ClientInv, IdleInv, AcquireGetInv, AcquirePutInv,
          ReleaseGetInv, ReleasePutInv, Waiting
  <2>2. CASE l = "releasePut"
    BY <1>4, <1>5, <2>2 DEF ClientInv, IdleInv, AcquireGetInv, AcquirePutInv,
          ReleaseGetInv, ReleasePutInv, Waiting
  <2> QED BY <2>1, <2>2
<1> QED BY <1>1, <1>2, <1>3, <1>6, OneClient DEF PutNext

\* Acquire or Release returns with owned as the key says.
LEMMA DoneInv ==
    ASSUME LockInv, NEW c \in Client, NEW b \in BOOLEAN, Done(c, b),
           ~Pending(c), b <=> Owner = c
    PROVE  LockInv'
<1>1. KvInv' BY KvStutter DEF LockInv, Done, vars
<1>2. LockTypeOK' BY DEF LockInv, LockTypeOK, Done, Labels
<1>3. \A d \in Client \ {c} : call'[d] = call[d] /\ owned'[d] = owned[d] /\ pc'[d] = pc[d]
  BY DEF LockInv, LockTypeOK, Done
<1>4. pc'[c] = "idle" /\ owned'[c] = b /\ call'[c] = call[c]
  BY DEF LockInv, LockTypeOK, Done
<1>5. Owner' = Owner BY DEF Done, Owner
<1>6. ClientInv(c)'
  BY <1>4, <1>5, Zenon DEF ClientInv, IdleInv, AcquireGetInv, AcquirePutInv,
        ReleaseGetInv, ReleasePutInv, Pending
<1> QED BY <1>1, <1>2, <1>3, <1>6, OneClient DEF Done

-----------------------------------------------------------------------------
(* The steps of a client.                                                  *)

\* Acquire and Release begin with a Get.
LEMMA CallInv ==
    ASSUME LockInv, NEW c \in Client, Acquire(c) \/ Release(c)
    PROVE  LockInv'
BY GetNextInv DEF Acquire, Release

\* Acquire after its Get.
LEMMA AcquireGotInv ==
    ASSUME LockInv, NEW c \in Client, AcquireGot(c) PROVE LockInv'
<1> DEFINE r == call[c].reply
<1>1. AcquireGetInv(c) /\ pc[c] = "acquireGet" /\ call[c].at = "returned"
  BY DEF LockInv, ClientInv, AcquireGot, Returned
<1>2. ~owned[c] BY <1>1 DEF AcquireGetInv
<1>3. CASE Vacant(c, r) /\ PutNext(c, c, r.version, "acquirePut")
  <2>1. r.version \in Nat /\ r.version <= Ver /\ (r.version = Ver => Owner = Empty) /\ c \in Value
    BY <1>1, <1>3, VerType, LockAssumption DEF AcquireGetInv, Vacant
  <2> QED BY <1>2, <1>3, <2>1, PutNextInv
<1>4. CASE Mine(c, r) /\ Done(c, TRUE)
  <2>1. Owner = c /\ ~Pending(c)
    BY <1>1, <1>4 DEF AcquireGetInv, Mine, Pending
  <2> QED BY <1>4, <2>1, DoneInv
<1>5. CASE GetNext(c, "acquireGet")
  BY <1>2, <1>5, GetNextInv
<1>6. CASE r.err = "ErrNoKey" /\ PutNext(c, c, 0, "acquirePut")
  <2>1. 0 <= Ver /\ (0 = Ver => Owner = Empty) /\ c \in Value
    BY VerType, LockAssumption DEF LockInv, NoKeyInv
  <2> QED BY <1>2, <1>6, <2>1, PutNextInv
<1> QED BY <1>3, <1>4, <1>5, <1>6 DEF AcquireGot

\* Acquire after its Put: OK means that the key names the client.
LEMMA AcquirePutDoneInv ==
    ASSUME LockInv, NEW c \in Client, AcquirePut(c) PROVE LockInv'
<1>1. AcquirePutInv(c) /\ pc[c] = "acquirePut" /\ call[c].at = "returned" /\ CallSound(c)
  BY DEF LockInv, KvInv, ClientInv, AcquirePut, Returned
<1>2. CASE call[c].reply.err = "OK" /\ Done(c, TRUE)
  <2>1. call[c].times = 1
    BY <1>1, <1>2 DEF CallSound, ReturnedTrue, VerdictTrue, AcquirePutInv, Waiting
  <2>2. Owner = c /\ ~Pending(c) BY <1>1, <2>1 DEF AcquirePutInv, Pending
  <2> QED BY <1>2, <2>2, DoneInv
<1>3. CASE GetNext(c, "acquireGet")
  BY <1>1, <1>3, GetNextInv DEF AcquirePutInv
<1> QED BY <1>2, <1>3 DEF AcquirePut

\* Release after its Get: it is done exactly if the key names somebody else.
LEMMA ReleaseGotInv ==
    ASSUME LockInv, NEW c \in Client, ReleaseGot(c) PROVE LockInv'
<1> DEFINE r == call[c].reply
<1>1. /\ ReleaseGetInv(c) /\ pc[c] = "releaseGet" /\ call[c].at = "returned"
      /\ r.err # "none" /\ owned[c]
  BY DEF LockInv, KvInv, ClientInv, ReleaseGot, Returned, CallSound, Answered, ReleaseGetInv
<1>2. CASE r.err = "OK" /\ r.value = c /\ PutNext(c, Empty, r.version, "releasePut")
  <2>1. Owner = c /\ r.version = Ver /\ Ver \in Nat /\ Empty \in Value
    BY <1>1, <1>2, VerType, LockAssumption DEF ReleaseGetInv
  <2> QED BY <1>1, <1>2, <2>1, PutNextInv
<1>3. CASE ~(r.err = "OK" /\ r.value = c) /\ Done(c, FALSE)
  <2>1. Owner # c /\ ~Pending(c)
    BY <1>1, <1>3 DEF ReleaseGetInv, Pending
  <2> QED BY <1>3, <2>1, DoneInv
<1> QED BY <1>2, <1>3 DEF ReleaseGot

\* Release after its Put: the Put was performed.
LEMMA ReleasePutDoneInv ==
    ASSUME LockInv, NEW c \in Client, ReleasePut(c) PROVE LockInv'
<1>1. ReleasePutInv(c) /\ pc[c] = "releasePut" /\ call[c].at = "returned"
  BY DEF LockInv, ClientInv, ReleasePut, Returned
<1>2. Owner # c /\ ~Pending(c) /\ owned[c] BY <1>1 DEF ReleasePutInv, Pending
<1>3. CASE GetNext(c, "releaseGet") BY <1>2, <1>3, GetNextInv
<1>4. CASE Done(c, FALSE) BY <1>2, <1>4, DoneInv
<1> QED BY <1>3, <1>4 DEF ReleasePut

-----------------------------------------------------------------------------
(* The steps of a call under way.                                          *)

\* A lost request or reply: the client knows what it knew.
LEMMA LoseInv ==
    ASSUME LockInv, NEW c \in Client, Lose(c), UNCHANGED <<owned, pc>> PROVE LockInv'
<1> DEFINE e == [call[c] EXCEPT !.at = "sent", !.retry = (call[c].op = "Put")]
<1>1. /\ call[c] \in CallType /\ call[c].at \in {"sent", "answered"}
      /\ call' = [call EXCEPT ![c] = e] /\ call'[c] = e
  BY DEF LockInv, KvInv, KvTypeOK, Lose
<1>2. /\ e.at = "sent" /\ e.op = call[c].op /\ e.times = call[c].times /\ e.value = call[c].value
      /\ e.key = call[c].key /\ e.version = call[c].version /\ e.reply = call[c].reply
  <2>1. call[c] \in CallType BY <1>1
  <2> QED BY <2>1 DEF CallType
<1> HIDE DEF e
<1>3. KvInv' BY LoseSound DEF LockInv
<1>4. \A d \in Client \ {c} : call'[d] = call[d] /\ owned'[d] = owned[d] /\ pc'[d] = pc[d]
  BY <1>1 DEF LockInv, KvInv, KvTypeOK
<1>5. Owner' = Owner /\ Ver' = Ver BY DEF Lose, Owner, Ver
<1>6. ClientInv(c)'
  <2>1. ClientInv(c) /\ pc[c] # "idle"
    BY <1>1 DEF LockInv, ClientInv, IdleInv, Pending
  <2>2. IdleInv(c)' /\ AcquireGetInv(c)' /\ AcquirePutInv(c)'
    BY <1>1, <1>2, <1>5, <2>1 DEF ClientInv, IdleInv, AcquireGetInv, AcquirePutInv, Waiting
  <2>3. ReleaseGetInv(c)' /\ ReleasePutInv(c)'
    BY <1>1, <1>2, <1>5, <2>1 DEF ClientInv, ReleaseGetInv, ReleasePutInv, Waiting
  <2> QED BY <2>2, <2>3 DEF ClientInv
<1>7. LockTypeOK' BY DEF LockInv, LockTypeOK
<1> QED BY <1>3, <1>4, <1>6, <1>7, OneClient DEF Lose

\* The return of a call: a Get returns what it read, and the Put of Release
\* has been performed.
LEMMA ReturnInv ==
    ASSUME LockInv, NEW c \in Client, Return(c), UNCHANGED <<owned, pc>> PROVE LockInv'
<1> DEFINE e == [call[c] EXCEPT !.at = "returned", !.reply = [@ EXCEPT !.err = Verdict(c)]]
<1>1. /\ call[c] \in CallType /\ call[c].at = "answered" /\ CallSound(c)
      /\ call' = [call EXCEPT ![c] = e] /\ call'[c] = e
  BY DEF LockInv, KvInv, KvTypeOK, Return
<1>2. /\ e.at = "returned" /\ e.op = call[c].op /\ e.times = call[c].times
      /\ e.value = call[c].value /\ e.key = call[c].key /\ e.version = call[c].version
      /\ e.reply = [call[c].reply EXCEPT !.err = Verdict(c)]
  <2>1. call[c] \in CallType BY <1>1
  <2> QED BY <2>1 DEF CallType
<1> HIDE DEF e
<1>3. call[c].op = "Get" => e.reply = call[c].reply
  <2> SUFFICES ASSUME call[c].op = "Get" PROVE e.reply = call[c].reply OBVIOUS
  <2>1. Verdict(c) = call[c].reply.err BY <1>1 DEF CallSound, RetryIsPut, Verdict
  <2>2. call[c].reply \in ReplyType BY <1>1 DEF CallType
  <2> QED BY <1>2, <2>1, <2>2 DEF ReplyType
<1>4. KvInv' BY ReturnSound DEF LockInv
<1>5. \A d \in Client \ {c} : call'[d] = call[d] /\ owned'[d] = owned[d] /\ pc'[d] = pc[d]
  BY <1>1 DEF LockInv, KvInv, KvTypeOK
<1>6. Owner' = Owner /\ Ver' = Ver BY DEF Return, Owner, Ver
<1>7. ClientInv(c)'
  <2>1. ClientInv(c) /\ pc[c] # "idle"
    BY <1>1 DEF LockInv, ClientInv, IdleInv, Pending
  <2>2. IdleInv(c)' /\ AcquireGetInv(c)' /\ AcquirePutInv(c)'
    BY <1>1, <1>2, <1>3, <1>6, <2>1 DEF ClientInv, IdleInv, AcquireGetInv, AcquirePutInv, Waiting
  <2>3. ReleaseGetInv(c)' /\ ReleasePutInv(c)'
    BY <1>1, <1>2, <1>3, <1>6, <2>1 DEF ClientInv, ReleaseGetInv, ReleasePutInv, Waiting
  <2> QED BY <2>2, <2>3 DEF ClientInv
<1>8. LockTypeOK' BY DEF LockInv, LockTypeOK
<1> QED BY <1>4, <1>5, <1>7, <1>8, OneClient DEF Return

\* KVServer.Get tells the client the owner and the version of this moment.
LEMMA GetInv ==
    ASSUME LockInv, NEW c \in Client, Get(c), UNCHANGED <<owned, pc>> PROVE LockInv'
<1> DEFINE s == kvStore[call[c].key]
           r == [value |-> s.value, version |-> s.version,
                 err |-> IF s.version = 0 THEN "ErrNoKey" ELSE "OK"]
           e == [call[c] EXCEPT !.at = "answered", !.reply = r]
<1>1. /\ call[c] \in CallType /\ call[c].at = "sent" /\ call[c].op = "Get"
      /\ call' = [call EXCEPT ![c] = e] /\ call'[c] = e
  BY DEF LockInv, KvInv, KvTypeOK, Get
<1>2. e.at = "answered" /\ e.op = "Get" /\ e.key = call[c].key /\ e.reply = r
  <2>1. call[c] \in CallType BY <1>1
  <2> HIDE DEF r
  <2> QED BY <1>1, <2>1 DEF CallType
<1> HIDE DEF e
<1>3. ClientInv(c) /\ pc[c] \in {"acquireGet", "releaseGet"} /\ call[c].key = LockKey
  BY <1>1 DEF LockInv, LockTypeOK, Labels, ClientInv, IdleInv, AcquireGetInv, AcquirePutInv,
              ReleaseGetInv, ReleasePutInv, Waiting, Pending
<1>4. /\ e.reply.value = Owner /\ e.reply.version = Ver
      /\ e.reply.err = IF Ver = 0 THEN "ErrNoKey" ELSE "OK"
  BY <1>2, <1>3 DEF Owner, Ver
<1>5. KvInv' BY GetSound DEF LockInv
<1>6. \A d \in Client \ {c} : call'[d] = call[d] /\ owned'[d] = owned[d] /\ pc'[d] = pc[d]
  BY <1>1 DEF LockInv, KvInv, KvTypeOK
<1>7. Owner' = Owner /\ Ver' = Ver /\ Ver \in Nat /\ (Owner = c => Ver # 0)
  BY VerType DEF Get, Owner, Ver, LockInv, NoKeyInv
<1>8. ClientInv(c)'
  <2>1. CASE pc[c] = "acquireGet"
    BY <1>1, <1>2, <1>3, <1>4, <1>7, <2>1 DEF ClientInv, IdleInv, AcquireGetInv, AcquirePutInv,
          ReleaseGetInv, ReleasePutInv, Waiting
  <2>2. CASE pc[c] = "releaseGet"
    BY <1>1, <1>2, <1>3, <1>4, <1>7, <2>2 DEF ClientInv, IdleInv, AcquireGetInv, AcquirePutInv,
          ReleaseGetInv, ReleasePutInv, Waiting
  <2> QED BY <1>3, <2>1, <2>2
<1>9. LockTypeOK' BY DEF LockInv, LockTypeOK
<1> QED BY <1>5, <1>6, <1>8, <1>9, OneClient DEF Get

\* The lock changes hands: from nobody to an acquiring client, or from a
\* releasing client to nobody.  Everybody else's knowledge stays true.
LEMMA HandOver ==
    ASSUME LockInv, NEW c \in Client, NEW d \in Client, d # c,
           call'[d] = call[d], owned'[d] = owned[d], pc'[d] = pc[d],
           Ver' = Ver + 1, Owner # d, Owner' # d
    PROVE  ClientInv(d)'
<1>1. ClientInv(d) /\ Ver \in Nat /\ call[d].version \in Nat /\ call[d].reply.version \in Nat
      /\ call[d].times \in {0, 1}
  BY VerType DEF LockInv
<1>2. IdleInv(d)' BY <1>1 DEF ClientInv, IdleInv, Pending
<1>3. AcquireGetInv(d)' /\ AcquirePutInv(d)'
  BY <1>1 DEF ClientInv, AcquireGetInv, AcquirePutInv, Waiting
<1>4. ReleaseGetInv(d)' /\ ReleasePutInv(d)'
  BY <1>1 DEF ClientInv, ReleaseGetInv, ReleasePutInv, Waiting
<1> QED BY <1>2, <1>3, <1>4 DEF ClientInv

\* What a Put of client c finds and does.
LEMMA PutEffect ==
    ASSUME LockInv, NEW c \in Client, Put(c)
    PROVE  /\ pc[c] \in {"acquirePut", "releasePut"}
           /\ call'[c].at = "answered" /\ call'[c].op = "Put" /\ call'[c].key = LockKey
           /\ call'[c].value = call[c].value /\ call'[c].version = call[c].version
           /\ \/ /\ call[c].version # Ver /\ UNCHANGED kvStore
                 /\ call'[c].times = call[c].times
              \/ /\ call[c].version = Ver /\ call[c].times = 0 /\ call'[c].times = 1
                 /\ Ver' = Ver + 1 /\ Owner' = call[c].value
                 /\ pc[c] = "acquirePut" => call[c].value = c /\ Owner = Empty
                 /\ pc[c] = "releasePut" => call[c].value = Empty /\ Owner = c
<1> DEFINE m == call[c]
           s == kvStore[m.key]
           ok == s.version = m.version
           err == IF ok THEN "OK" ELSE IF s.version = 0 THEN "ErrNoKey" ELSE "ErrVersion"
           r == [value |-> Empty, version |-> 0, err |-> err]
           t == IF ok THEN m.times + 1 ELSE m.times
           e == [m EXCEPT !.at = "answered", !.reply = r, !.times = t]
<1>1. /\ m \in CallType /\ m.at = "sent" /\ m.op = "Put" /\ CallSound(c)
      /\ call' = [call EXCEPT ![c] = e] /\ call'[c] = e
  BY DEF LockInv, KvInv, KvTypeOK, Put, Matches
<1>2. /\ e.at = "answered" /\ e.op = m.op /\ e.times = t /\ e.value = m.value
      /\ e.key = m.key /\ e.version = m.version
  <2>1. m \in CallType BY <1>1
  <2> HIDE DEF r, t
  <2> QED BY <2>1 DEF CallType
<1> HIDE DEF e
<1>3. ClientInv(c) /\ pc[c] \in {"acquirePut", "releasePut"} /\ m.key = LockKey
  BY <1>1 DEF LockInv, LockTypeOK, Labels, ClientInv, IdleInv, AcquireGetInv, AcquirePutInv,
              ReleaseGetInv, ReleasePutInv, Waiting, Pending
<1>4. Ver \in Nat /\ m.version \in Nat /\ m.times \in {0, 1} BY VerType
<1>5. s.version = Ver BY <1>3 DEF Ver
<1>6. kvStore' = [kvStore EXCEPT ![LockKey] =
                    IF ok THEN [value |-> m.value, version |-> m.version + 1] ELSE @]
  BY <1>3 DEF Put, Matches
<1>7. CASE ~ok
  <2>1. kvStore' = kvStore BY <1>6, <1>7, LockAssumption DEF LockInv, KvInv, KvTypeOK
  <2> QED BY <1>1, <1>2, <1>3, <1>5, <1>7, <2>1
<1>8. CASE ok
  <2>1. m.times = 0
    BY <1>1, <1>4, <1>5, <1>8 DEF CallSound, PerformedOnce
  <2>2. kvStore'[LockKey] = [value |-> m.value, version |-> m.version + 1]
    BY <1>6, <1>8, LockAssumption DEF LockInv, KvInv, KvTypeOK
  <2>3. Ver' = Ver + 1 /\ Owner' = m.value BY <1>5, <1>8, <2>2 DEF Ver, Owner
  <2>4. pc[c] = "acquirePut" => m.value = c /\ Owner = Empty
    BY <1>3, <1>5, <1>8, <2>1 DEF ClientInv, AcquirePutInv
  <2>5. pc[c] = "releasePut" => m.value = Empty /\ Owner = c
    BY <1>3, <2>1 DEF ClientInv, ReleasePutInv
  <2>6. e.times = 1 BY <1>2, <1>8, <2>1
  <2> QED BY <1>1, <1>2, <1>3, <1>5, <1>8, <2>1, <2>3, <2>4, <2>5, <2>6
<1> QED BY <1>7, <1>8

\* KVServer.Put takes a lock that nobody owns, frees one that the client
\* owns, or changes nothing.
LEMMA PutInv ==
    ASSUME LockInv, NEW c \in Client, Put(c), UNCHANGED <<owned, pc>> PROVE LockInv'
<1>1. KvInv' /\ LockTypeOK' BY PutSound DEF LockInv, LockTypeOK
<1>2. \A d \in Client \ {c} : call'[d] = call[d] /\ owned'[d] = owned[d] /\ pc'[d] = pc[d]
  BY DEF LockInv, KvInv, KvTypeOK, Put
<1>3. ClientInv(c) /\ Ver \in Nat /\ call[c].version \in Nat /\ call[c].times \in {0, 1}
      /\ c # Empty
  BY VerType DEF LockInv
<1>4. CASE /\ call[c].version # Ver /\ UNCHANGED kvStore /\ call'[c].times = call[c].times
  <2>1. Owner' = Owner /\ Ver' = Ver BY <1>4 DEF Owner, Ver
  <2>2. ClientInv(c)'
    <3>1. CASE pc[c] = "acquirePut"
      BY <1>3, <1>4, <2>1, <3>1, PutEffect DEF ClientInv, IdleInv, AcquireGetInv, AcquirePutInv,
            ReleaseGetInv, ReleasePutInv, Waiting
    <3>2. CASE pc[c] = "releasePut"
      BY <1>3, <1>4, <2>1, <3>2, PutEffect DEF ClientInv, IdleInv, AcquireGetInv, AcquirePutInv,
            ReleaseGetInv, ReleasePutInv, Waiting
    <3> QED BY <3>1, <3>2, PutEffect
  <2> QED BY <1>1, <1>2, <1>4, <2>2, OneClient
<1>5. CASE /\ call[c].version = Ver /\ call[c].times = 0 /\ call'[c].times = 1
           /\ Ver' = Ver + 1 /\ Owner' = call[c].value
           /\ pc[c] = "acquirePut" => call[c].value = c /\ Owner = Empty
           /\ pc[c] = "releasePut" => call[c].value = Empty /\ Owner = c
  <2>3. ClientInv(c)'
    <3>1. CASE pc[c] = "acquirePut"
      BY <1>3, <1>5, <3>1, PutEffect DEF ClientInv, IdleInv, AcquireGetInv, AcquirePutInv,
            ReleaseGetInv, ReleasePutInv, Waiting
    <3>2. CASE pc[c] = "releasePut"
      BY <1>3, <1>5, <3>2, PutEffect DEF ClientInv, IdleInv, AcquireGetInv, AcquirePutInv,
            ReleaseGetInv, ReleasePutInv, Waiting
    <3> QED BY <3>1, <3>2, PutEffect
  <2>4. ASSUME NEW d \in Client, d # c PROVE ClientInv(d)'
    <3>1. call'[d] = call[d] /\ owned'[d] = owned[d] /\ pc'[d] = pc[d] BY <1>2, <2>4
    <3>2. Owner # d /\ Owner' # d
      <4>1. d # Empty BY LockAssumption
      <4> QED BY <1>5, <2>4, <4>1, PutEffect
    <3> QED BY <1>5, <2>4, <3>1, <3>2, HandOver
  <2>5. NoKeyInv' BY <1>3, <1>5 DEF NoKeyInv
  <2> QED BY <1>1, <2>3, <2>4, <2>5 DEF LockInv
<1> QED BY <1>4, <1>5, PutEffect

\* A stuttering step preserves the invariant.
LEMMA LockStutter == ASSUME LockInv, UNCHANGED lockVars PROVE LockInv'
<1>1. KvInv' /\ LockTypeOK' /\ NoKeyInv'
  BY KvStutter DEF lockVars, vars, LockInv, LockTypeOK, NoKeyInv, Owner, Ver
<1>2. ASSUME NEW c \in Client PROVE ClientInv(c)'
  <2>1. ClientInv(c) BY DEF LockInv
  <2> QED BY <2>1 DEF lockVars, ClientInv, IdleInv, AcquireGetInv, AcquirePutInv,
               ReleaseGetInv, ReleasePutInv, Waiting, Pending, Owner, Ver
<1> QED BY <1>1, <1>2 DEF LockInv

\* The invariant holds in every reachable state.
THEOREM LockCorrect == LockSpec => []LockInv
<1>1. LockInv /\ [LockNext]_lockVars => LockInv'
  <2> SUFFICES ASSUME LockInv, [LockNext]_lockVars PROVE LockInv' OBVIOUS
  <2>1. ASSUME NEW c \in Client, Acquire(c) \/ Release(c) PROVE LockInv'
    BY <2>1, CallInv
  <2>2. ASSUME NEW c \in Client, LockStep(c) PROVE LockInv'
    BY <2>2, AcquireGotInv, AcquirePutDoneInv, ReleaseGotInv, ReleasePutDoneInv DEF LockStep
  <2>3. ASSUME NEW c \in Client, ClerkStep(c), UNCHANGED <<owned, pc>> PROVE LockInv'
    BY <2>3, GetInv, PutInv, LoseInv, ReturnInv DEF ClerkStep
  <2>4. CASE UNCHANGED lockVars BY <2>4, LockStutter
  <2> QED BY <2>1, <2>2, <2>3, <2>4 DEF LockNext
<1> QED BY <1>1, LockInitInv, PTL DEF LockSpec

\* At most one client is between Acquire and Release, and the key names it,
\* whatever the network loses.
THEOREM MutualExclusionCorrect == LockSpec => []MutualExclusion
<1>1. LockInv => MutualExclusion
  <2> SUFFICES ASSUME LockInv, NEW c \in Client, Holding(c)
               PROVE  /\ kvStore[LockKey].value = c
                      /\ \A d \in Client : Holding(d) => d = c
    BY DEF MutualExclusion
  <2>1. \A d \in Client : Holding(d) => Owner = d
    BY DEF LockInv, ClientInv, IdleInv, Holding
  <2> QED BY <2>1 DEF Owner
<1> QED BY <1>1, LockCorrect, PTL

-----------------------------------------------------------------------------
(* Acquire and Release implement LockService.                              *)

\* Client c moves from one stage to another; nobody else does.
LEMMA OneStage ==
    ASSUME LockTypeOK, NEW c \in Client,
           \A d \in Client \ {c} : owned'[d] = owned[d] /\ pc'[d] = pc[d]
    PROVE  [d \in Client |-> Stage(d)]'
             = [[d \in Client |-> Stage(d)] EXCEPT ![c] = Stage(c)']
<1>1. ASSUME NEW d \in Client, d # c PROVE Stage(d)' = Stage(d)
  BY <1>1 DEF Stage, Acquiring, Releasing
<1> QED BY <1>1, Zenon

\* The initial state is that of a free lock.
LEMMA ServiceInit == LockInit => Service!Init
BY LockAssumption DEF LockInit, Init, Service!Init, Stage, Acquiring, Releasing

\* A step in which no client changes its stage, and the lock not its owner.
LEMMA NoStageChange ==
    ASSUME LockTypeOK, NEW c \in Client, Stage(c)' = Stage(c), UNCHANGED kvStore,
           \A d \in Client \ {c} : owned'[d] = owned[d] /\ pc'[d] = pc[d]
    PROVE  UNCHANGED Service!vars
<1>1. \A d \in Client : Stage(d)' = Stage(d)
  BY DEF Stage, Acquiring, Releasing
<1> QED BY <1>1 DEF Service!vars

\* The steps of a client that has a Get or Put to go on with are no steps of
\* the lock service, unless they begin Acquire or Release.
LEMMA NextCallStage ==
    ASSUME LockInv, NEW c \in Client, NEW l \in Labels,
           pc' = [pc EXCEPT ![c] = l], UNCHANGED <<kvStore, owned>>,
           \/ Acquiring(c) /\ l \in {"acquireGet", "acquirePut"}
           \/ Releasing(c) /\ l \in {"releaseGet", "releasePut"}
    PROVE  UNCHANGED Service!vars
<1>1. LockTypeOK /\ pc'[c] = l /\ \A d \in Client \ {c} : owned'[d] = owned[d] /\ pc'[d] = pc[d]
  BY DEF LockInv, LockTypeOK
<1>2. Stage(c)' = Stage(c)
  BY <1>1 DEF Stage, Acquiring, Releasing
<1> QED BY <1>1, <1>2, NoStageChange

\* Acquire returns with the lock, Release without it.
LEMMA DoneStage ==
    ASSUME LockInv, NEW c \in Client, NEW b \in BOOLEAN, Done(c, b),
           \/ b /\ Acquiring(c) /\ Owner = c
           \/ ~b /\ Releasing(c) /\ Owner # c
    PROVE  Service!Next
<1> DEFINE stage == [d \in Client |-> Stage(d)]
<1>1. /\ LockTypeOK /\ pc'[c] = "idle" /\ owned'[c] = b /\ UNCHANGED kvStore
      /\ \A d \in Client \ {c} : owned'[d] = owned[d] /\ pc'[d] = pc[d]
  BY DEF LockInv, LockTypeOK, Done
<1>2. stage' = [stage EXCEPT ![c] = Stage(c)'] BY <1>1, OneStage
<1>3. CASE b /\ Acquiring(c) /\ Owner = c
  <2>1. Stage(c)' = "in" /\ stage[c] = "acquiring"
    BY <1>1, <1>3 DEF Stage, Acquiring, Releasing
  <2>2. Service!Enter(c) BY <1>1, <1>2, <1>3, <2>1 DEF Service!Enter, Owner
  <2> QED BY <2>2 DEF Service!Next
<1>4. CASE ~b /\ Releasing(c) /\ Owner # c
  <2>1. Stage(c)' = "out" /\ stage[c] = "releasing"
    BY <1>1, <1>4 DEF Stage, Acquiring, Releasing
  <2>2. Service!Leave(c) BY <1>1, <1>2, <1>4, <2>1 DEF Service!Leave, Owner
  <2> QED BY <2>2 DEF Service!Next
<1> QED BY <1>3, <1>4

\* The calls of Acquire and Release.
LEMMA CallStage ==
    ASSUME LockInv, NEW c \in Client, Acquire(c) \/ Release(c) PROVE Service!Next
<1> DEFINE stage == [d \in Client |-> Stage(d)]
<1>1. /\ LockTypeOK /\ UNCHANGED <<kvStore, owned>> /\ pc[c] = "idle"
      /\ pc'[c] \in {"acquireGet", "releaseGet"}
      /\ pc'[c] = "acquireGet" <=> ~owned[c]
      /\ \A d \in Client \ {c} : owned'[d] = owned[d] /\ pc'[d] = pc[d]
  BY DEF LockInv, LockTypeOK, Acquire, Release, GetNext
<1>2. stage' = [stage EXCEPT ![c] = Stage(c)'] BY <1>1, OneStage
<1>3. CASE ~owned[c]
  <2>1. Stage(c)' = "acquiring" /\ stage[c] = "out"
    BY <1>1, <1>3 DEF Stage, Acquiring, Releasing
  <2>2. Service!Acquire(c) BY <1>1, <1>2, <2>1 DEF Service!Acquire
  <2> QED BY <2>2 DEF Service!Next
<1>4. CASE owned[c]
  <2>1. Stage(c)' = "releasing" /\ stage[c] = "in"
    BY <1>1, <1>4 DEF Stage, Acquiring, Releasing
  <2>2. Service!Release(c) BY <1>1, <1>2, <2>1 DEF Service!Release
  <2> QED BY <2>2 DEF Service!Next
<1> QED BY <1>3, <1>4

\* What Acquire and Release do after a call.
LEMMA StepStage ==
    ASSUME LockInv, NEW c \in Client, LockStep(c)
    PROVE  Service!Next \/ UNCHANGED Service!vars
<1> DEFINE r == call[c].reply
<1>1. ClientInv(c) /\ CallSound(c) /\ call[c].at = "returned"
  BY DEF LockInv, KvInv, LockStep, AcquireGot, AcquirePut, ReleaseGot, ReleasePut, Returned
<1>2. CASE AcquireGot(c)
  <2>1. Acquiring(c) BY <1>2 DEF AcquireGot, Acquiring
  <2>2. CASE Mine(c, r) /\ Done(c, TRUE)
    <3>1. Owner = c BY <1>1, <1>2, <2>2 DEF ClientInv, AcquireGetInv, Mine, AcquireGot
    <3> QED BY <2>1, <2>2, <3>1, DoneStage
  <2>3. CASE ~Done(c, TRUE)
    <3>1. PICK l \in {"acquireGet", "acquirePut"} :
            pc' = [pc EXCEPT ![c] = l] /\ UNCHANGED <<kvStore, owned>>
      BY <1>2, <2>3 DEF AcquireGot, GetNext, PutNext
    <3> QED BY <2>1, <3>1, NextCallStage DEF Labels
  <2>4. CASE ~Mine(c, r)
    <3>1. PICK l \in {"acquireGet", "acquirePut"} :
            pc' = [pc EXCEPT ![c] = l] /\ UNCHANGED <<kvStore, owned>>
      BY <1>2, <2>4 DEF AcquireGot, GetNext, PutNext
    <3> QED BY <2>1, <3>1, NextCallStage DEF Labels
  <2> QED BY <2>2, <2>3, <2>4
<1>3. CASE AcquirePut(c)
  <2>1. Acquiring(c) BY <1>3 DEF AcquirePut, Acquiring
  <2>2. CASE r.err = "OK" /\ Done(c, TRUE)
    <3>1. call[c].times = 1
      BY <1>1, <1>3, <2>2 DEF CallSound, ReturnedTrue, VerdictTrue, ClientInv, AcquirePutInv,
                              Waiting, AcquirePut
    <3>2. Owner = c BY <1>1, <1>3, <3>1 DEF ClientInv, AcquirePutInv, AcquirePut
    <3> QED BY <2>1, <2>2, <3>2, DoneStage
  <2>3. CASE GetNext(c, "acquireGet")
    <3>1. pc' = [pc EXCEPT ![c] = "acquireGet"] /\ UNCHANGED <<kvStore, owned>>
      BY <2>3 DEF GetNext
    <3> QED BY <2>1, <3>1, NextCallStage DEF Labels
  <2> QED BY <1>3, <2>2, <2>3 DEF AcquirePut
<1>4. CASE ReleaseGot(c)
  <2>1. Releasing(c) /\ r.err # "none"
    BY <1>1, <1>4 DEF ReleaseGot, Releasing, CallSound, Answered
  <2>2. CASE ~(r.err = "OK" /\ r.value = c) /\ Done(c, FALSE)
    <3>1. Owner # c BY <1>1, <1>4, <2>1, <2>2 DEF ClientInv, ReleaseGetInv, ReleaseGot
    <3> QED BY <2>1, <2>2, <3>1, DoneStage
  <2>3. CASE PutNext(c, Empty, r.version, "releasePut")
    <3>1. pc' = [pc EXCEPT ![c] = "releasePut"] /\ UNCHANGED <<kvStore, owned>>
      BY <2>3 DEF PutNext
    <3> QED BY <2>1, <3>1, NextCallStage DEF Labels
  <2> QED BY <1>4, <2>2, <2>3 DEF ReleaseGot
<1>5. CASE ReleasePut(c)
  <2>1. Releasing(c) /\ Owner # c
    BY <1>1, <1>5 DEF ReleasePut, Releasing, ClientInv, ReleasePutInv
  <2>2. CASE Done(c, FALSE) BY <2>1, <2>2, DoneStage
  <2>3. CASE GetNext(c, "releaseGet")
    <3>1. pc' = [pc EXCEPT ![c] = "releaseGet"] /\ UNCHANGED <<kvStore, owned>>
      BY <2>3 DEF GetNext
    <3> QED BY <2>1, <3>1, NextCallStage DEF Labels
  <2> QED BY <1>5, <2>2, <2>3 DEF ReleasePut
<1> QED BY <1>2, <1>3, <1>4, <1>5 DEF LockStep

\* The Put of Acquire is the grant of a free lock, the Put of Release gives
\* the client's own lock back; nothing else on the server is a step.
LEMMA ClerkStage ==
    ASSUME LockInv, NEW c \in Client, ClerkStep(c), UNCHANGED <<owned, pc>>
    PROVE  Service!Next \/ UNCHANGED Service!vars
<1> DEFINE stage == [d \in Client |-> Stage(d)]
<1>1. stage' = stage BY DEF Stage, Acquiring, Releasing
<1>2. CASE UNCHANGED kvStore BY <1>1, <1>2 DEF Service!vars
<1>3. CASE Put(c) /\ kvStore' # kvStore
  <2>1. /\ pc[c] \in {"acquirePut", "releasePut"} /\ Owner' = call[c].value
        /\ pc[c] = "acquirePut" => call[c].value = c /\ Owner = Empty
        /\ pc[c] = "releasePut" => call[c].value = Empty /\ Owner = c
    BY <1>3, PutEffect
  <2>2. CASE pc[c] = "acquirePut"
    <3>1. stage[c] = "acquiring" BY <2>2 DEF Stage, Acquiring
    <3>2. Service!Grant(c) BY <1>1, <2>1, <2>2, <3>1 DEF Service!Grant, Owner
    <3> QED BY <3>2 DEF Service!Next
  <2>3. CASE pc[c] = "releasePut"
    <3>1. stage[c] = "releasing" BY <2>3 DEF Stage, Acquiring, Releasing
    <3>2. Service!GiveBack(c) BY <1>1, <2>1, <2>3, <3>1 DEF Service!GiveBack, Owner
    <3> QED BY <3>2 DEF Service!Next
  <2> QED BY <2>1, <2>2, <2>3
<1>4. CASE Get(c) \/ Lose(c) \/ Return(c)
  BY <1>2, <1>4 DEF Get, Lose, Return
<1> QED BY <1>2, <1>3, <1>4 DEF ClerkStep

\* Acquire and Release, over a Clerk that may answer ErrMaybe, implement a
\* lock: Acquire returns only with it and Release only without it.
THEOREM ImplementsLockCorrect == LockSpec => ImplementsLock
<1>1. LockInv /\ [LockNext]_lockVars => [Service!Next]_(Service!vars)
  <2> SUFFICES ASSUME LockInv, [LockNext]_lockVars
               PROVE  Service!Next \/ UNCHANGED Service!vars
    OBVIOUS
  <2>1. ASSUME NEW c \in Client, Acquire(c) \/ Release(c) PROVE Service!Next
    BY <2>1, CallStage
  <2>2. ASSUME NEW c \in Client, LockStep(c) PROVE Service!Next \/ UNCHANGED Service!vars
    BY <2>2, StepStage
  <2>3. ASSUME NEW c \in Client, ClerkStep(c), UNCHANGED <<owned, pc>>
        PROVE Service!Next \/ UNCHANGED Service!vars
    BY <2>3, ClerkStage
  <2>4. CASE UNCHANGED lockVars
    BY <2>4 DEF lockVars, Service!vars, Stage, Acquiring, Releasing
  <2> QED BY <2>1, <2>2, <2>3, <2>4 DEF LockNext
<1> QED BY <1>1, ServiceInit, LockCorrect, PTL DEF LockSpec, ImplementsLock, Service!Spec
=============================================================================
