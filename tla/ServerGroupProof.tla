------------------------- MODULE ServerGroupProof --------------------------
(***************************************************************************)
(* The simulated network and the group of servers, for any number of       *)
(* servers, clients, calls and restarts.  IInv carries what a reply means  *)
(* (ReplyMeansSaved, FalseMeansBroken), for which the links do not matter; *)
(* LinkInv, in the second half, carries the links: that they are symmetric *)
(* and that a partition leaves exactly those inside its sides.             *)
(***************************************************************************)
EXTENDS ServerGroup, TLAPS

\* The types the proofs need: every variable but those of the links.
CallTypeOK ==
    /\ servers \in [Server -> Nat]
    /\ done \in BOOLEAN
    /\ pc \in [Call -> {"idle", "sent", "reached", "unreached", "waiting", "checking",
                        "true", "false"}]
    /\ DOMAIN end = Call
    /\ \A c \in Call : end[c].to \in Server
    /\ target \in [Call -> Nat]
    /\ rel \in [Call -> BOOLEAN]
    /\ handler \in [Call -> {"none", "running", "returned"}]
    /\ disk \in [Server -> [Instance -> SUBSET Call]]
    /\ broken \in [Call -> BOOLEAN]
    /\ inst \in [Server -> Instance]
    /\ stage \in [Server -> {"up", "isolated", "deleted", "down", "started"}]
    /\ copy \in [Server -> SUBSET Call]

\* Only the present instance of a server is ever registered, and it is not once
\* DeleteServer has been called.
Registered ==
    \A s \in Server :
       servers[s] = IF stage[s] \in {"deleted", "down"} THEN 0 ELSE inst[s]

\* A call that was sent to an instance was sent to one that has been started.
\* Its handler runs only from then on, and a reply is one of the handler.
Sent ==
    \A c \in Call :
       /\ pc[c] \in {"idle", "sent", "reached"} => handler[c] = "none"
       /\ pc[c] = "checking" => handler[c] = "returned"
       /\ pc[c] \in {"reached", "waiting", "checking"} \/ handler[c] # "none"
             => target[c] \in 1..inst[end[c].to]

\* A handler that has returned left its effect in the Persister of its instance.
Effect ==
    \A c \in Call : handler[c] = "returned" => c \in disk[end[c].to][target[c]]

\* A server that cannot be reached is one whose call is broken.
UnreachedBroken == \A c \in Call : pc[c] = "unreached" => broken[c]

IInv ==
    /\ CallTypeOK /\ Registered /\ Sent /\ Effect
    /\ ReplyMeansSaved /\ UnreachedBroken /\ FalseMeansBroken

-----------------------------------------------------------------------------
LEMMA EndType == \A e \in End : e.to \in Server
BY DEF End

\* What the history of a step tells.
LEMMA WitnessedFacts ==
    ASSUME CallTypeOK, Witnessed
    PROVE  /\ broken' \in [Call -> BOOLEAN]
           /\ \A c \in Call : (broken[c] => broken'[c]) /\ (Breaks(c) => broken'[c])
<1>1. \A c \in Call : broken[c] \in BOOLEAN /\ Breaks(c) \in BOOLEAN
  BY DEF CallTypeOK, Breaks
<1> QED BY <1>1 DEF Witnessed

\* The group starts in a state of the invariant.
LEMMA InitIInv == Init => IInv
<1> SUFFICES ASSUME Init PROVE IInv
  OBVIOUS
<1>1. 1 \in Instance
  BY NetworkAssumption DEF Instance
<1>2. \E e : e \in End
  <2>1. PICK s \in Server : TRUE
    BY NetworkAssumption
  <2>2. [from |-> s, inst |-> 1, to |-> s] \in End
    BY <1>1, <2>1 DEF End
  <2> QED BY <2>2
<1>3. (CHOOSE e \in End : TRUE) \in End
  BY <1>2
<1>4. CallTypeOK
  BY <1>1, <1>3, EndType DEF Init, CallTypeOK
<1>5. Registered /\ Sent /\ Effect /\ UnreachedBroken
  BY DEF Init, Registered, Sent, Effect, UnreachedBroken
<1>6. ReplyMeansSaved /\ FalseMeansBroken
  BY DEF Init, ReplyMeansSaved, FalseMeansBroken
<1> QED BY <1>4, <1>5, <1>6 DEF IInv

\* A step of the test that changes links only, or cleans up.
LEMMA LinkStep ==
    ASSUME IInv, Witnessed,
           UNCHANGED <<servers, calls, disk, inst, stage, copy>>,
           done' \in BOOLEAN, done => done'
    PROVE  IInv'
<1>1. CallTypeOK /\ Registered /\ Sent /\ Effect /\ ReplyMeansSaved /\ UnreachedBroken
         /\ FalseMeansBroken
  BY DEF IInv
<1>2. /\ broken' \in [Call -> BOOLEAN]
      /\ \A c \in Call : broken[c] => broken'[c]
  BY <1>1, WitnessedFacts
<1>3. CallTypeOK'
  BY <1>1, <1>2 DEF CallTypeOK, calls
<1>4. Registered' /\ Sent' /\ Effect'
  BY <1>1 DEF Registered, Sent, Effect, calls
<1>5. ReplyMeansSaved'
  BY <1>1 DEF ReplyMeansSaved, Saved, calls
<1>6. UnreachedBroken' /\ FalseMeansBroken'
  BY <1>1, <1>2 DEF UnreachedBroken, FalseMeansBroken, calls, CallTypeOK
<1> QED BY <1>3, <1>4, <1>5, <1>6 DEF IInv

\* A step of ShutdownServer or of restart: the calls stay where they are, the
\* registration follows the stage, the present and earlier Persisters keep
\* what they hold, and what is saved stays saved.
LEMMA StageStep ==
    ASSUME IInv, Witnessed, UNCHANGED <<calls, done>>,
           servers' \in [Server -> Nat],
           disk' \in [Server -> [Instance -> SUBSET Call]],
           inst' \in [Server -> Instance],
           stage' \in [Server -> {"up", "isolated", "deleted", "down", "started"}],
           copy' \in [Server -> SUBSET Call],
           Registered',
           \A s \in Server : inst[s] <= inst'[s],
           \A s \in Server : \A k \in 1..inst[s] : disk'[s][k] = disk[s][k],
           \A s \in Server : Saved(s)' = Saved(s)
    PROVE  IInv'
<1>1. CallTypeOK /\ Registered /\ Sent /\ Effect /\ ReplyMeansSaved /\ UnreachedBroken
         /\ FalseMeansBroken
  BY DEF IInv
<1>2. /\ broken' \in [Call -> BOOLEAN]
      /\ \A c \in Call : broken[c] => broken'[c]
  BY <1>1, WitnessedFacts
<1>3. CallTypeOK'
  BY <1>1, <1>2 DEF CallTypeOK, calls
<1>4. Sent'
  <2> SUFFICES ASSUME NEW c \in Call
               PROVE  /\ pc[c] \in {"idle", "sent", "reached"} => handler[c] = "none"
                      /\ pc[c] = "checking" => handler[c] = "returned"
                      /\ pc[c] \in {"reached", "waiting", "checking"} \/ handler[c] # "none"
                            => target[c] \in 1..inst'[end[c].to]
    BY DEF Sent, calls
  <2>1. end[c].to \in Server /\ inst[end[c].to] \in Nat /\ inst'[end[c].to] \in Nat
           /\ target[c] \in Nat
    BY <1>1, <1>3 DEF CallTypeOK, Instance
  <2>2. inst[end[c].to] <= inst'[end[c].to]
    BY <2>1
  <2> QED BY <1>1, <2>1, <2>2 DEF Sent
<1>5. Effect'
  <2> SUFFICES ASSUME NEW c \in Call, handler[c] = "returned"
               PROVE  c \in disk'[end[c].to][target[c]]
    BY DEF Effect, calls
  <2>1. end[c].to \in Server /\ target[c] \in 1..inst[end[c].to]
    BY <1>1 DEF CallTypeOK, Sent
  <2> QED BY <1>1, <2>1 DEF Effect
<1>6. ReplyMeansSaved'
  BY <1>1 DEF ReplyMeansSaved, calls, CallTypeOK
<1>7. UnreachedBroken' /\ FalseMeansBroken'
  BY <1>1, <1>2 DEF UnreachedBroken, FalseMeansBroken, calls, CallTypeOK
<1> QED BY <1>3, <1>4, <1>5, <1>6, <1>7 DEF IInv

LEMMA ShutdownDeletePreserves ==
    ASSUME IInv, Witnessed, NEW i \in Server, ShutdownDelete(i)
    PROVE  IInv'
<1>1. CallTypeOK /\ Registered
  BY DEF IInv
<1>2. servers' \in [Server -> Nat] /\ stage' \in [Server -> {"up", "isolated", "deleted", "down", "started"}]
  BY <1>1 DEF ShutdownDelete, CallTypeOK
<1>3. Registered'
  BY <1>1 DEF ShutdownDelete, CallTypeOK, Registered
<1>4. \A s \in Server : inst[s] <= inst'[s]
  BY <1>1 DEF ShutdownDelete, CallTypeOK, Instance
<1>5. \A s \in Server : Saved(s)' = Saved(s)
  BY <1>1 DEF ShutdownDelete, CallTypeOK, Saved
<1> QED BY <1>1, <1>2, <1>3, <1>4, <1>5, StageStep DEF ShutdownDelete, CallTypeOK

\* The copy is made when nobody is registered any more.
LEMMA ShutdownCopyPreserves ==
    ASSUME IInv, Witnessed, NEW i \in Server, ShutdownCopy(i)
    PROVE  IInv'
<1>1. CallTypeOK /\ Registered
  BY DEF IInv
<1>2. copy' \in [Server -> SUBSET Call] /\ stage' \in [Server -> {"up", "isolated", "deleted", "down", "started"}]
  BY <1>1 DEF ShutdownCopy, CallTypeOK
<1>3. Registered'
  BY <1>1 DEF ShutdownCopy, CallTypeOK, Registered
<1>4. \A s \in Server : inst[s] <= inst'[s]
  BY <1>1 DEF ShutdownCopy, CallTypeOK, Instance
<1>5. \A s \in Server : Saved(s)' = Saved(s)
  BY <1>1 DEF ShutdownCopy, CallTypeOK, Saved
<1> QED BY <1>1, <1>2, <1>3, <1>4, <1>5, StageStep DEF ShutdownCopy, CallTypeOK

\* The new instance begins with the copy; no Persister in use is written.
LEMMA StartServerPreserves ==
    ASSUME IInv, Witnessed, NEW i \in Server, StartServer(i)
    PROVE  IInv'
<1>1. CallTypeOK /\ Registered
  BY DEF IInv
<1>2. inst[i] \in Nat /\ inst[i] + 1 \in Instance /\ copy[i] \in SUBSET Call
  BY <1>1, NetworkAssumption DEF StartServer, CallTypeOK, Instance
<1>3. inst' \in [Server -> Instance]
  BY <1>1, <1>2 DEF StartServer, CallTypeOK
<1>4. servers' \in [Server -> Nat] /\ stage' \in [Server -> {"up", "isolated", "deleted", "down", "started"}]
  BY <1>1, <1>2 DEF StartServer, CallTypeOK
<1>5. disk' \in [Server -> [Instance -> SUBSET Call]]
  <2>1. [disk[i] EXCEPT ![inst[i] + 1] = copy[i]] \in [Instance -> SUBSET Call]
    BY <1>1, <1>2 DEF CallTypeOK
  <2>2. disk' = [disk EXCEPT ![i] = [disk[i] EXCEPT ![inst[i] + 1] = copy[i]]]
    BY <1>1 DEF StartServer, CallTypeOK
  <2> QED BY <1>1, <2>1, <2>2 DEF CallTypeOK
<1>6. Registered'
  BY <1>1 DEF StartServer, CallTypeOK, Registered
<1>7. \A s \in Server : inst[s] <= inst'[s]
  BY <1>1, <1>2 DEF StartServer, CallTypeOK, Instance
<1>8. \A s \in Server : \A k \in 1..inst[s] : disk'[s][k] = disk[s][k]
  <2> SUFFICES ASSUME NEW s \in Server, NEW k \in 1..inst[s]
               PROVE  disk'[s][k] = disk[s][k]
    OBVIOUS
  <2>1. k # inst[i] + 1 \/ s # i
    BY <1>2
  <2>2. k \in Instance
    BY <1>1, NetworkAssumption DEF CallTypeOK, Instance
  <2> QED BY <1>1, <1>2, <2>1, <2>2 DEF StartServer, CallTypeOK
<1>9. \A s \in Server : Saved(s)' = Saved(s)
  <2> SUFFICES ASSUME NEW s \in Server PROVE Saved(s)' = Saved(s)
    OBVIOUS
  <2>1. CASE s # i
    BY <1>1, <2>1 DEF StartServer, CallTypeOK, Saved
  <2>2. CASE s = i
    <3>1. Saved(s) = copy[i]
      BY <2>2 DEF StartServer, Saved
    <3>2. Saved(s)' = disk'[i][inst[i] + 1]
      BY <1>1, <2>2 DEF StartServer, CallTypeOK, Saved
    <3>3. disk'[i][inst[i] + 1] = copy[i]
      BY <1>1, <1>2 DEF StartServer, CallTypeOK
    <3> QED BY <3>1, <3>2, <3>3
  <2> QED BY <2>1, <2>2
<1> QED
  BY <1>1, <1>3, <1>4, <1>5, <1>6, <1>7, <1>8, <1>9, StageStep DEF StartServer, CallTypeOK

\* The first and the last step: links and the stage.
LEMMA IsolateOrJoinPreserves ==
    ASSUME IInv, Witnessed, NEW i \in Server, ShutdownDisconnect(i) \/ Restarted(i)
    PROVE  IInv'
<1>1. CallTypeOK /\ Registered
  BY DEF IInv
<1>2. UNCHANGED <<servers, done, calls, disk, inst, copy>>
  BY DEF ShutdownDisconnect, Restarted, Become, BeginLoop
<1>3. \/ stage[i] = "up" /\ stage' = [stage EXCEPT ![i] = "isolated"]
      \/ stage[i] = "started" /\ stage' = [stage EXCEPT ![i] = "up"]
  BY DEF ShutdownDisconnect, Restarted
<1>4. stage' \in [Server -> {"up", "isolated", "deleted", "down", "started"}]
  BY <1>1, <1>3 DEF CallTypeOK
<1>5. Registered'
  BY <1>1, <1>2, <1>3 DEF CallTypeOK, Registered
<1>6. \A s \in Server : inst[s] <= inst'[s]
  BY <1>1, <1>2 DEF CallTypeOK, Instance
<1>7. \A s \in Server : Saved(s)' = Saved(s)
  BY <1>1, <1>2, <1>3 DEF CallTypeOK, Saved
<1> QED BY <1>1, <1>2, <1>4, <1>5, <1>6, <1>7, StageStep DEF CallTypeOK

-----------------------------------------------------------------------------
\* A step of processReq that changes only where the call is.
LEMMA PcStep ==
    ASSUME IInv, Witnessed, UNCHANGED group,
           NEW c \in Call, NEW label \in {"checking", "true", "false"},
           pc[c] \in {"reached", "unreached", "waiting", "checking"}, Goto(c, label),
           UNCHANGED <<servers, done, end, target, rel, handler, disk>>,
           label = "checking" => pc[c] = "waiting" /\ handler[c] = "returned",
           label = "true" => c \in Saved(end[c].to),
           label = "false" /\ (handler[c] = "running" \/ rel[c]) => broken'[c]
    PROVE  IInv'
<1>1. CallTypeOK /\ Registered /\ Sent /\ Effect /\ ReplyMeansSaved /\ UnreachedBroken
         /\ FalseMeansBroken
  BY DEF IInv
<1>2. /\ broken' \in [Call -> BOOLEAN]
      /\ \A d \in Call : broken[d] => broken'[d]
  BY <1>1, WitnessedFacts
<1>3. pc' = [pc EXCEPT ![c] = label]
  BY DEF Goto
<1>4. CallTypeOK'
  BY <1>1, <1>2, <1>3 DEF CallTypeOK, group
<1>5. Registered' /\ Effect'
  BY <1>1 DEF Registered, Effect, group
<1>6. Sent'
  BY <1>1, <1>3 DEF Sent, group, CallTypeOK
<1>7. ReplyMeansSaved'
  BY <1>1, <1>3 DEF ReplyMeansSaved, Saved, group, CallTypeOK
<1>8. UnreachedBroken'
  BY <1>1, <1>2, <1>3 DEF UnreachedBroken, CallTypeOK
<1>9. FalseMeansBroken'
  BY <1>1, <1>2, <1>3 DEF FalseMeansBroken, CallTypeOK
<1> QED BY <1>4, <1>5, <1>6, <1>7, <1>8, <1>9 DEF IInv

LEMMA TimeOutPreserves ==
    ASSUME IInv, Witnessed, UNCHANGED group, NEW c \in Call, TimeOut(c)
    PROVE  IInv'
<1>1. broken'[c]
  BY WitnessedFacts DEF IInv, UnreachedBroken, TimeOut
<1> QED BY <1>1, PcStep DEF TimeOut

LEMMA DropRequestPreserves ==
    ASSUME IInv, Witnessed, UNCHANGED group, NEW c \in Call, DropRequest(c)
    PROVE  IInv'
<1>1. handler[c] # "running"
  BY DEF IInv, Sent, DropRequest
<1> QED BY <1>1, PcStep DEF DropRequest

LEMMA TakeReplyPreserves ==
    ASSUME IInv, Witnessed, UNCHANGED group, NEW c \in Call, TakeReply(c)
    PROVE  IInv'
BY PcStep DEF TakeReply

\* A dead server breaks the call.
LEMMA DeadBreaks ==
    ASSUME IInv, Witnessed, NEW c \in Call, pc[c] # "idle", ~Alive(end[c], target[c]),
           pc'[c] = "false", UNCHANGED <<enabled, servers, end, target>>
    PROVE  broken'[c]
<1>1. Breaks(c)
  BY DEF Breaks, Alive
<1> QED BY <1>1, WitnessedFacts DEF IInv

LEMMA PollPreserves ==
    ASSUME IInv, Witnessed, UNCHANGED group, NEW c \in Call, Poll(c)
    PROVE  IInv'
<1>1. pc'[c] = "false"
  BY DEF IInv, CallTypeOK, Poll, Goto
<1>2. broken'[c]
  BY <1>1, DeadBreaks DEF Poll
<1> QED BY <1>2, PcStep DEF Poll

\* The second look at the server is what makes a reply mean something: it is
\* still the registered instance, so its Persister is the one that counts.
LEMMA CheckPreserves ==
    ASSUME IInv, Witnessed, UNCHANGED group, NEW c \in Call, Check(c)
    PROVE  IInv'
<1>1. CallTypeOK /\ Registered /\ Sent /\ Effect
  BY DEF IInv
<1>2. /\ pc[c] = "checking"
      /\ UNCHANGED <<enabled, servers, done, end, target, rel, handler, disk>>
  BY DEF Check
<1>3. handler[c] = "returned" /\ target[c] \in 1..inst[end[c].to] /\ end[c].to \in Server
  BY <1>1, <1>2 DEF Sent, CallTypeOK
<1>4. CASE Alive(end[c], target[c]) /\ Goto(c, "true")
  <2>1. servers[end[c].to] = target[c] /\ target[c] # 0
    BY <1>3, <1>4 DEF Alive
  <2>2. inst[end[c].to] = target[c] /\ stage[end[c].to] # "down"
    BY <1>1, <1>3, <2>1 DEF Registered
  <2>3. c \in Saved(end[c].to)
    BY <1>1, <1>3, <2>2 DEF Effect, Saved
  <2> QED BY <1>2, <1>4, <2>3, PcStep
<1>5. CASE ~Alive(end[c], target[c]) /\ Goto(c, "false")
  <2>1. pc'[c] = "false"
    BY <1>1, <1>5 DEF CallTypeOK, Goto
  <2>2. broken'[c]
    BY <1>2, <1>5, <2>1, DeadBreaks
  <2> QED BY <1>2, <1>5, <2>2, PcStep
<1>6. CASE ~rel[c] /\ Goto(c, "false")
  BY <1>2, <1>3, <1>6, PcStep
<1> QED BY <1>4, <1>5, <1>6 DEF Check

LEMMA CallSendPreserves ==
    ASSUME IInv, Witnessed, UNCHANGED group, NEW c \in Call, NEW e \in End, CallSend(c, e)
    PROVE  IInv'
<1>1. CallTypeOK /\ Registered /\ Sent /\ Effect /\ ReplyMeansSaved /\ UnreachedBroken
         /\ FalseMeansBroken
  BY DEF IInv
<1>2. /\ broken' \in [Call -> BOOLEAN]
      /\ \A d \in Call : broken[d] => broken'[d]
  BY <1>1, WitnessedFacts
<1>3. PICK label \in {"sent", "false"} :
         pc' = [pc EXCEPT ![c] = label] /\ (label = "false" => done)
  BY DEF CallSend, Goto
<1>4. /\ pc[c] = "idle" /\ handler[c] = "none"
      /\ end' = [end EXCEPT ![c] = e] /\ e.to \in Server
      /\ UNCHANGED <<servers, done, target, rel, handler, disk>>
  BY <1>1, EndType DEF CallSend, Sent
<1>5. CallTypeOK'
  BY <1>1, <1>2, <1>3, <1>4 DEF CallTypeOK, group
<1>6. Registered' /\ Effect'
  BY <1>1, <1>4 DEF Registered, Effect, group, CallTypeOK
<1>7. Sent'
  BY <1>1, <1>3, <1>4 DEF Sent, group, CallTypeOK
<1>8. ReplyMeansSaved'
  BY <1>1, <1>3, <1>4 DEF ReplyMeansSaved, Saved, group, CallTypeOK
<1>9. UnreachedBroken' /\ FalseMeansBroken'
  BY <1>1, <1>2, <1>3, <1>4 DEF UnreachedBroken, FalseMeansBroken, CallTypeOK
<1> QED BY <1>5, <1>6, <1>7, <1>8, <1>9 DEF IInv

LEMMA ReadEndnameInfoPreserves ==
    ASSUME IInv, Witnessed, UNCHANGED group, NEW c \in Call, ReadEndnameInfo(c)
    PROVE  IInv'
<1>1. CallTypeOK /\ Registered /\ Sent /\ Effect /\ ReplyMeansSaved /\ UnreachedBroken
         /\ FalseMeansBroken
  BY DEF IInv
<1>2. /\ broken' \in [Call -> BOOLEAN]
      /\ \A d \in Call : (broken[d] => broken'[d]) /\ (Breaks(d) => broken'[d])
  BY <1>1, WitnessedFacts
<1>3. PICK r \in BOOLEAN : rel' = [rel EXCEPT ![c] = r]
  BY DEF ReadEndnameInfo
<1>4. /\ pc[c] = "sent" /\ handler[c] = "none" /\ end[c].to \in Server
      /\ target' = [target EXCEPT ![c] = servers[end[c].to]]
      /\ UNCHANGED <<enabled, servers, done, end, handler, disk>>
  BY <1>1 DEF ReadEndnameInfo, Sent, CallTypeOK
<1>5. PICK label \in {"reached", "unreached"} :
         /\ pc' = [pc EXCEPT ![c] = label]
         /\ label = "reached" <=> end[c] \in enabled /\ servers[end[c].to] # 0
  BY DEF ReadEndnameInfo, Goto
<1>6. CallTypeOK'
  BY <1>1, <1>2, <1>3, <1>4, <1>5 DEF CallTypeOK, group
<1>7. Registered' /\ Effect'
  BY <1>1, <1>4 DEF Registered, Effect, group, CallTypeOK
<1>8. label = "reached" => servers[end[c].to] \in 1..inst[end[c].to]
  BY <1>1, <1>4, <1>5 DEF Registered, CallTypeOK, Instance
<1>9. Sent'
  BY <1>1, <1>4, <1>5, <1>8 DEF Sent, group, CallTypeOK
<1>10. ReplyMeansSaved'
  BY <1>1, <1>4, <1>5 DEF ReplyMeansSaved, Saved, group, CallTypeOK
<1>11. label = "unreached" => Breaks(c)
  BY <1>1, <1>4, <1>5 DEF Breaks, CallTypeOK
<1>12. UnreachedBroken'
  BY <1>1, <1>2, <1>5, <1>11 DEF UnreachedBroken, CallTypeOK
<1>13. FalseMeansBroken'
  BY <1>1, <1>2, <1>3, <1>4, <1>5 DEF FalseMeansBroken, CallTypeOK
<1> QED BY <1>6, <1>7, <1>9, <1>10, <1>12, <1>13 DEF IInv

LEMMA DispatchPreserves ==
    ASSUME IInv, Witnessed, UNCHANGED group, NEW c \in Call, Dispatch(c)
    PROVE  IInv'
<1>1. CallTypeOK /\ Registered /\ Sent /\ Effect /\ ReplyMeansSaved /\ UnreachedBroken
         /\ FalseMeansBroken
  BY DEF IInv
<1>2. /\ broken' \in [Call -> BOOLEAN]
      /\ \A d \in Call : broken[d] => broken'[d]
  BY <1>1, WitnessedFacts
<1>3. /\ pc[c] = "reached" /\ pc' = [pc EXCEPT ![c] = "waiting"]
      /\ handler' = [handler EXCEPT ![c] = "running"]
      /\ UNCHANGED <<servers, done, end, target, rel, disk>>
  BY DEF Dispatch, Goto
<1>4. CallTypeOK'
  BY <1>1, <1>2, <1>3 DEF CallTypeOK, group
<1>5. Registered' /\ Effect'
  BY <1>1, <1>3 DEF Registered, Effect, group, CallTypeOK
<1>6. Sent'
  BY <1>1, <1>3 DEF Sent, group, CallTypeOK
<1>7. ReplyMeansSaved'
  BY <1>1, <1>3 DEF ReplyMeansSaved, Saved, group, CallTypeOK
<1>8. UnreachedBroken' /\ FalseMeansBroken'
  BY <1>1, <1>2, <1>3 DEF UnreachedBroken, FalseMeansBroken, CallTypeOK
<1> QED BY <1>4, <1>5, <1>6, <1>7, <1>8 DEF IInv

\* Persisters only grow, the superseded ones too.
LEMMA HandlePreserves ==
    ASSUME IInv, Witnessed, UNCHANGED group, NEW c \in Call, Handle(c)
    PROVE  IInv'
<1>1. CallTypeOK /\ Registered /\ Sent /\ Effect /\ ReplyMeansSaved /\ UnreachedBroken
         /\ FalseMeansBroken
  BY DEF IInv
<1>2. /\ broken' \in [Call -> BOOLEAN]
      /\ \A d \in Call : broken[d] => broken'[d]
  BY <1>1, WitnessedFacts
<1> DEFINE s == end[c].to
           k == target[c]
<1>3. /\ handler[c] = "running" /\ handler' = [handler EXCEPT ![c] = "returned"]
      /\ UNCHANGED <<servers, done, pc, end, target, rel>>
  BY DEF Handle
<1>4. s \in Server /\ k \in 1..inst[s] /\ k \in Instance
  BY <1>1, <1>3, NetworkAssumption DEF CallTypeOK, Sent, Instance
<1>5. disk' = [disk EXCEPT ![s] = [disk[s] EXCEPT ![k] = disk[s][k] \union {c}]]
  BY <1>1, <1>4 DEF Handle, CallTypeOK
<1>6. disk' \in [Server -> [Instance -> SUBSET Call]]
  <2>1. disk[s] \in [Instance -> SUBSET Call] /\ disk[s][k] \union {c} \in SUBSET Call
    BY <1>1, <1>4 DEF CallTypeOK
  <2>2. [disk[s] EXCEPT ![k] = disk[s][k] \union {c}] \in [Instance -> SUBSET Call]
    BY <2>1
  <2> QED BY <1>1, <1>5, <2>2 DEF CallTypeOK
<1>7. \A t \in Server, n \in Instance : disk[t][n] \subseteq disk'[t][n]
  BY <1>1, <1>4, <1>5 DEF CallTypeOK
<1>8. c \in disk'[s][k]
  BY <1>1, <1>4, <1>5 DEF CallTypeOK
<1>9. CallTypeOK'
  BY <1>1, <1>2, <1>3, <1>6 DEF CallTypeOK, group
<1>10. Registered'
  BY <1>1, <1>3 DEF Registered, group
<1>11. Sent'
  BY <1>1, <1>3 DEF Sent, group, CallTypeOK
<1>12. Effect'
  <2> SUFFICES ASSUME NEW d \in Call, handler'[d] = "returned"
               PROVE  d \in disk'[end[d].to][target[d]]
    BY <1>3 DEF Effect
  <2>1. CASE d = c
    BY <1>8, <2>1
  <2>2. CASE d # c
    <3>1. handler[d] = "returned"
      BY <1>1, <1>3, <2>2 DEF CallTypeOK
    <3>2. end[d].to \in Server /\ target[d] \in Instance
      BY <1>1, <3>1, NetworkAssumption DEF CallTypeOK, Sent, Instance
    <3> QED BY <1>1, <1>7, <3>1, <3>2 DEF Effect
  <2> QED BY <2>1, <2>2
<1>13. ReplyMeansSaved'
  <2> SUFFICES ASSUME NEW d \in Call, pc[d] = "true"
               PROVE  d \in Saved(end[d].to)'
    BY <1>3 DEF ReplyMeansSaved
  <2>1. end[d].to \in Server /\ inst[end[d].to] \in Instance
    BY <1>1 DEF CallTypeOK
  <2> QED BY <1>1, <1>3, <1>7, <2>1 DEF ReplyMeansSaved, Saved, group
<1>14. UnreachedBroken' /\ FalseMeansBroken'
  BY <1>1, <1>2, <1>3 DEF UnreachedBroken, FalseMeansBroken, CallTypeOK
<1> QED BY <1>9, <1>10, <1>11, <1>12, <1>13, <1>14 DEF IInv

-----------------------------------------------------------------------------
LEMMA TestStepPreserves ==
    ASSUME IInv, Witnessed, TestStep
    PROVE  IInv'
<1>1. done \in BOOLEAN
  BY DEF IInv, CallTypeOK
<1>2. CASE \E i \in Server : ConnectOne(i) \/ DisconnectAll(i)
  BY <1>1, <1>2, LinkStep DEF ConnectOne, DisconnectAll, Become
<1>3. CASE \E i \in Server : ShutdownDisconnect(i)
  BY <1>3, IsolateOrJoinPreserves
<1>4. CASE \E i \in Server : StartServer(i)
  BY <1>4, StartServerPreserves
<1>5. CASE (\E p \in SUBSET Server : Partition(p)) \/ ConnectAll
  BY <1>1, <1>5, LinkStep DEF Partition, ConnectAll, BeginLoop
<1>6. CASE Cleanup /\ UNCHANGED group
  BY <1>1, <1>6, LinkStep DEF Cleanup, group
<1> QED BY <1>2, <1>3, <1>4, <1>5, <1>6 DEF TestStep

LEMMA CallStepPreserves ==
    ASSUME IInv, Witnessed, CallStep, UNCHANGED group
    PROVE  IInv'
<1>1. PICK c \in Call : \/ \E e \in End : Started(e) /\ CallSend(c, e)
                        \/ ProcessReq(c)
                        \/ Handle(c)
  BY DEF CallStep
<1>2. CASE \E e \in End : Started(e) /\ CallSend(c, e)
  BY <1>2, CallSendPreserves
<1>3. CASE ProcessReq(c)
  BY <1>3, ReadEndnameInfoPreserves, TimeOutPreserves, DropRequestPreserves, DispatchPreserves,
     TakeReplyPreserves, PollPreserves, CheckPreserves DEF ProcessReq
<1>4. CASE Handle(c)
  BY <1>4, HandlePreserves
<1> QED BY <1>1, <1>2, <1>3, <1>4

LEMMA NextIInv == IInv /\ [Next]_vars => IInv'
<1> SUFFICES ASSUME IInv, [Next]_vars PROVE IInv'
  OBVIOUS
<1>1. CASE Witnessed /\ TestStep
  BY <1>1, TestStepPreserves
<1>2. CASE Witnessed /\ TestGoesOn
  <2>1. done \in BOOLEAN
    BY DEF IInv, CallTypeOK
  <2>2. ASSUME NEW i \in Server, Iterate(i) PROVE IInv'
    BY <1>2, <2>1, <2>2, LinkStep DEF Iterate, Become
  <2> QED
    BY <1>2, <2>2, ShutdownDeletePreserves, ShutdownCopyPreserves, IsolateOrJoinPreserves
       DEF TestGoesOn
<1>3. CASE Witnessed /\ CallStep /\ UNCHANGED group
  BY <1>3, CallStepPreserves
<1>4. CASE UNCHANGED vars
  BY <1>4 DEF vars, netvars, group, IInv, CallTypeOK, Registered, Sent, Effect,
     ReplyMeansSaved, Saved, UnreachedBroken, FalseMeansBroken
<1> QED BY <1>1, <1>2, <1>3, <1>4 DEF Next

LEMMA AlwaysIInv == Spec => []IInv
BY InitIInv, NextIInv, PTL DEF Spec

\* A call that returned true has its effect in the Persister the server is
\* started with next, whenever the server was shut down, restarted or cut off
\* while the call was under way (processReq, ShutdownServer).
THEOREM ReplyMeansSavedAlways == Spec => []ReplyMeansSaved
<1>1. IInv => ReplyMeansSaved
  BY DEF IInv
<1> QED BY <1>1, AlwaysIInv, PTL

\* A call returns false on a reliable network, or while its handler runs, only
\* if its link or its server was lost during the call (processReq).
THEOREM FalseMeansBrokenAlways == Spec => []FalseMeansBroken
<1>1. IInv => FalseMeansBroken
  BY DEF IInv
<1> QED BY <1>1, AlwaysIInv, PTL

-----------------------------------------------------------------------------
(* Links.                                                                  *)

Linked(i, j) == EndOf(i, j) \in enabled

\* The test does one thing at a time.
OneAtATime ==
    /\ loop.left # {} => \A s \in Server : stage[s] \in {"up", "down"}
    /\ \A s, t \in Server : stage[s] \notin {"up", "down"} /\ stage[t] \notin {"up", "down"} => s = t

LoopShape ==
    /\ loop \in [side : SUBSET Server, left : SUBSET Server, then : SUBSET Server]
    /\ connected \subseteq Server
    /\ loop.left \subseteq loop.side
    /\ loop.then = {} \/ loop.then = Server \ loop.side

\* No end of an instance that has not been started is enabled.
NoFuture ==
    \A i, j \in Server : \A k \in Nat :
       k > inst[i] => [from |-> i, inst |-> k, to |-> j] \notin enabled

LinksConnected ==
    \A i, j \in Server : Linked(i, j) => i \in connected /\ j \in connected

\* A server that was started has its links only when ConnectAll has reached it.
Joined(i) == stage[i] # "started" /\ ~(loop.side = Server /\ i \in loop.left)

Symmetric ==
    \A i, j \in Server : Joined(i) /\ Joined(j) => (Linked(i, j) <=> Linked(j, i))

\* The loops of a Partition have been at server i.
Visited(i) == IF i \in loop.side THEN i \notin loop.left ELSE loop.then = {}

SameSide(i, j) == i \in loop.side <=> j \in loop.side

\* What the iterations so far have achieved: no later one undoes it.
LoopInv ==
    loop.left # {} =>
      /\ \A i \in Server : Visited(i) => i \in connected
      /\ \A i, j \in Server : SameSide(i, j) /\ Visited(i) /\ Visited(j) => Linked(i, j)
      /\ \A i, j \in Server : ~SameSide(i, j) /\ (Visited(i) \/ Visited(j)) => ~Linked(i, j)

LinkInv == OneAtATime /\ LoopShape /\ NoFuture /\ LinksConnected /\ Symmetric /\ LoopInv

\* A link is one of i's links if i is at one of its ends.
LEMMA LinkOf ==
    ASSUME NEW i \in Server, NEW S \in SUBSET Server, NEW x \in Server, NEW y \in Server
    PROVE  EndOf(x, y) \in Links(i, S) <=> (x = i /\ y \in S) \/ (y = i /\ x \in S)
  BY DEF Links, EndOf

\* Links are those of started instances.
LEMMA LinkStarted ==
    ASSUME NEW i \in Server, NEW S \in SUBSET Server, NEW x \in Server, NEW y \in Server,
           NEW k \in Nat, k > inst[x], inst[x] \in Nat
    PROVE  [from |-> x, inst |-> k, to |-> y] \notin Links(i, S)
<1>1. \A e \in Links(i, S) : e.inst = inst[e.from]
  BY DEF Links, EndOf
<1>2. k # inst[x]
  OBVIOUS
<1> QED
  BY <1>1, <1>2

\* Server i is cut off from all but own, and connected to the servers there that
\* are connected.
Relinked(i, own) ==
    /\ connected' = connected \union {i}
    /\ enabled' = (enabled \ Links(i, Server \ own))
                     \union Links(i, own \intersect (connected \union {i}))

LEMMA RelinkFacts ==
    ASSUME CallTypeOK, NEW i \in Server, NEW own \in SUBSET Server, i \in own,
           Relinked(i, own), UNCHANGED inst, connected \subseteq Server
    PROVE  /\ \A x, y \in Server : x # i /\ y # i => (Linked(x, y)' <=> Linked(x, y))
           /\ \A y \in own : y \in connected \union {i} => Linked(i, y)' /\ Linked(y, i)'
           /\ \A y \in own : y \notin connected \union {i} =>
                 (Linked(i, y)' <=> Linked(i, y)) /\ (Linked(y, i)' <=> Linked(y, i))
           /\ \A y \in Server \ own : ~Linked(i, y)' /\ ~Linked(y, i)'
           /\ NoFuture => NoFuture'
<1> DEFINE to == own \intersect (connected \union {i})
<1>1. to \in SUBSET Server /\ Server \ own \in SUBSET Server
  OBVIOUS
<1>2. \A x, y : Linked(x, y)' <=> \/ EndOf(x, y) \in enabled /\ EndOf(x, y) \notin Links(i, Server \ own)
                                  \/ EndOf(x, y) \in Links(i, to)
  BY DEF Relinked, Linked, EndOf
<1> HIDE DEF to
<1>3. \A x, y \in Server : Linked(x, y)' <=>
         \/ Linked(x, y) /\ ~((x = i /\ y \notin own) \/ (y = i /\ x \notin own))
         \/ (x = i /\ y \in to) \/ (y = i /\ x \in to)
  BY <1>1, <1>2, LinkOf DEF Linked
<1>4. NoFuture => NoFuture'
  <2> SUFFICES ASSUME NoFuture, NEW x \in Server, NEW y \in Server, NEW k \in Nat, k > inst[x]
               PROVE  [from |-> x, inst |-> k, to |-> y] \notin enabled'
    BY DEF NoFuture
  <2>1. inst[x] \in Nat
    BY DEF CallTypeOK, Instance
  <2>2. [from |-> x, inst |-> k, to |-> y] \notin Links(i, to)
    BY <1>1, <2>1, LinkStarted
  <2> QED
    BY <2>2 DEF NoFuture, Relinked, to
<1> QED
  BY <1>3, <1>4 DEF to

\* connect(i, all) is an iteration with nobody on the other side.
LEMMA ConnectRelinks ==
    ASSUME NEW i \in Server, Become(connect(Net, i, Server))
    PROVE  Relinked(i, Server) /\ UNCHANGED inst
<1>1. Server \ Server = {} /\ Links(i, {}) = {}
  BY DEF Links
<1>2. enabled' = enabled \union Links(i, Server \intersect (connected \union {i}))
  BY DEF Become, connect, Net
<1>3. connected' = connected \union {i} /\ UNCHANGED inst
  BY DEF Become, connect, Net
<1> QED
  BY <1>1, <1>2, <1>3 DEF Relinked

LEMMA CutRelinks ==
    ASSUME NEW i \in Server, NEW own, Become(Cut(Net, i, own))
    PROVE  Relinked(i, own) /\ UNCHANGED inst
<1>1. (connected \ {i}) \union {i} = connected \union {i}
  OBVIOUS
<1>2. /\ connected' = (connected \ {i}) \union {i}
      /\ enabled' = (enabled \ Links(i, Server \ own))
                       \union Links(i, own \intersect ((connected \ {i}) \union {i}))
      /\ UNCHANGED inst
  BY DEF Become, Cut, connect, disconnect, Net
<1> QED
  BY <1>1, <1>2 DEF Relinked

LEMMA DisconnectFacts ==
    ASSUME CallTypeOK, NEW i \in Server, Become(disconnect(Net, i, Server))
    PROVE  /\ connected' = connected \ {i} /\ enabled' \subseteq enabled /\ UNCHANGED inst
           /\ \A x, y \in Server : Linked(x, y)' <=> Linked(x, y) /\ x # i /\ y # i
<1>1. connected' = connected \ {i} /\ enabled' = enabled \ Links(i, Server) /\ UNCHANGED inst
  BY DEF Become, disconnect, Net
<1>2. \A x, y : Linked(x, y)' <=> EndOf(x, y) \in enabled /\ EndOf(x, y) \notin Links(i, Server)
  BY <1>1 DEF Linked, EndOf
<1> QED
  BY <1>1, <1>2, LinkOf DEF Linked

\* Steps that touch neither the links nor what the test is doing.
LEMMA SameLinks ==
    ASSUME LinkInv, UNCHANGED <<enabled, group>>
    PROVE  LinkInv'
  BY DEF LinkInv, OneAtATime, LoopShape, NoFuture, LinksConnected, Symmetric, LoopInv, Joined,
         Visited, SameSide, Linked, EndOf, group

\* One iteration.
LEMMA IterateLinks ==
    ASSUME IInv, LinkInv, NEW i \in Server, Iterate(i)
    PROVE  /\ LinkInv'
           /\ loop'.left = {} => \A x, y \in Server : Linked(x, y)' <=> SameSide(x, y)
<1> DEFINE own == loop.side
<1>0. CallTypeOK /\ OneAtATime /\ LoopShape /\ NoFuture /\ LinksConnected /\ Symmetric /\ LoopInv
  BY DEF IInv, LinkInv
<1>1. i \in loop.left /\ i \in own /\ own \in SUBSET Server /\ connected \subseteq Server
  BY <1>0 DEF Iterate, LoopShape
<1>2. Relinked(i, own) /\ UNCHANGED <<inst, stage>>
  BY CutRelinks DEF Iterate
<1>3. connected' = connected \union {i}
  BY <1>2 DEF Relinked
<1> HIDE DEF own
<1>4. /\ \A x, y \in Server : x # i /\ y # i => (Linked(x, y)' <=> Linked(x, y))
      /\ \A y \in own : y \in connected \union {i} => Linked(i, y)' /\ Linked(y, i)'
      /\ \A y \in own : y \notin connected \union {i} =>
            (Linked(i, y)' <=> Linked(i, y)) /\ (Linked(y, i)' <=> Linked(y, i))
      /\ \A y \in Server \ own : ~Linked(i, y)' /\ ~Linked(y, i)'
      /\ NoFuture'
  BY <1>0, <1>1, <1>2, RelinkFacts
<1>5. LinksConnected'
  BY <1>0, <1>1, <1>3, <1>4 DEF LinksConnected
<1>6. \A x \in Server : Visited(x) => x \in connected
  BY <1>0, <1>1 DEF LoopInv
<1>7. \A x, y \in Server : SameSide(x, y) /\ (Visited(x) \/ x = i) /\ (Visited(y) \/ y = i)
                              => Linked(x, y)'
  BY <1>0, <1>1, <1>4, <1>6 DEF LoopInv, SameSide, own
<1>8. \A x, y \in Server : ~SameSide(x, y) /\ (Visited(x) \/ Visited(y) \/ x = i \/ y = i)
                              => ~Linked(x, y)'
  BY <1>0, <1>1, <1>4 DEF LoopInv, SameSide, own
<1>9. \A x \in Server : (Linked(i, x)' <=> Linked(x, i)') \/ ~Joined(x)
  BY <1>0, <1>1, <1>4 DEF Symmetric, LinksConnected, Joined, own
<1>10. /\ loop.left # {} /\ loop.left \in SUBSET Server /\ loop.then \in SUBSET Server
       /\ loop.then = {} \/ loop.then = Server \ own
       /\ loop = [side |-> own, left |-> loop.left, then |-> loop.then]
  BY <1>0, <1>1 DEF LoopShape, own
<1>11. \A x \in Server : stage[x] \in {"up", "down"} /\ stage'[x] = stage[x]
  BY <1>0, <1>2, <1>10 DEF OneAtATime
<1>12. OneAtATime'
  BY <1>11 DEF OneAtATime
<1>13. ASSUME \A x \in Server : x # i /\ Joined(x)' => Joined(x)
       PROVE  Symmetric'
  BY <1>0, <1>4, <1>9, <1>13 DEF Symmetric
<1>14. CASE loop.left # {i}
  <2>1. loop' = [side |-> own, left |-> loop.left \ {i}, then |-> loop.then]
    BY <1>10, <1>14 DEF Iterate
  <2>2. LoopShape'
    BY <1>0, <1>1, <1>3, <1>10, <2>1 DEF LoopShape, own
  <2>3. \A x \in Server : Visited(x)' <=> Visited(x) \/ x = i
    BY <1>1, <2>1 DEF Visited, own
  <2>4. \A x, y \in Server : SameSide(x, y)' <=> SameSide(x, y)
    BY <2>1 DEF SameSide, own
  <2>5. LoopInv'
    BY <1>3, <1>6, <1>7, <1>8, <2>3, <2>4 DEF LoopInv
  <2>6. \A x \in Server : x # i /\ Joined(x)' => Joined(x)
    BY <1>11, <2>1 DEF Joined, own
  <2>7. loop'.left # {}
    BY <1>1, <1>14, <2>1
  <2> QED
    BY <1>4, <1>5, <1>12, <1>13, <2>2, <2>5, <2>6, <2>7 DEF LinkInv
<1>15. CASE loop.left = {i}
  <2>1. loop' = [side |-> loop.then, left |-> loop.then, then |-> {}]
    BY <1>15 DEF Iterate
  <2>2. LoopShape'
    BY <1>1, <1>3, <1>10, <2>1 DEF LoopShape
  <2>3. \A x \in own : Visited(x) \/ x = i
    BY <1>15 DEF Visited, own
  <2>4. \A x \in Server : x # i /\ Joined(x)' => Joined(x)
    BY <1>11, <1>15 DEF Joined
  <2>5. loop.then # {} => LoopInv'
    <3> SUFFICES ASSUME loop.then # {} PROVE LoopInv'
      OBVIOUS
    <3>1. \A x \in Server : Visited(x)' <=> x \in own
      BY <1>10, <2>1 DEF Visited
    <3>2. \A x, y \in Server : SameSide(x, y)' <=> SameSide(x, y)
      BY <1>10, <2>1 DEF SameSide, own
    <3> QED
      BY <1>3, <1>6, <1>7, <1>8, <2>3, <3>1, <3>2 DEF LoopInv
  <2>6. loop.then = {} => LoopInv'
    BY <2>1 DEF LoopInv
  <2>7. loop.then = {} => \A x \in Server : Visited(x) \/ x = i
    BY <2>3 DEF Visited, own
  <2>8. loop.then = {} => \A x, y \in Server : Linked(x, y)' <=> SameSide(x, y)
    BY <1>7, <1>8, <2>7
  <2>9. loop'.left = loop.then
    BY <2>1
  <2> QED
    BY <1>4, <1>5, <1>12, <1>13, <2>2, <2>4, <2>5, <2>6, <2>8, <2>9 DEF LinkInv
<1> QED
  BY <1>14, <1>15

\* Partition, ConnectAll and the end of restart begin a loop.
LEMMA BeginLoopLinks ==
    ASSUME IInv, LinkInv, NEW p \in SUBSET Server, p # {}, BeginLoop(p),
           \/ AtRest /\ UNCHANGED stage
           \/ p = Server /\ \E s \in Server : stage[s] = "started" /\ stage' = [stage EXCEPT ![s] = "up"]
    PROVE  LinkInv'
<1>0. CallTypeOK /\ OneAtATime /\ LoopShape /\ NoFuture /\ LinksConnected /\ Symmetric
  BY DEF IInv, LinkInv
<1>1. /\ loop' = [side |-> p, left |-> p, then |-> Server \ p]
      /\ UNCHANGED <<enabled, inst, connected>>
  BY DEF BeginLoop
<1>2. \A x \in Server : stage'[x] \in {"up", "down"}
  <2>1. CASE AtRest /\ UNCHANGED stage
    BY <2>1 DEF AtRest
  <2>2. CASE \E s \in Server : stage[s] = "started" /\ stage' = [stage EXCEPT ![s] = "up"]
    <3>1. PICK s \in Server : stage[s] = "started" /\ stage' = [stage EXCEPT ![s] = "up"]
      BY <2>2
    <3>2. \A x \in Server : x # s => stage[x] \in {"up", "down"}
      BY <1>0, <3>1 DEF OneAtATime
    <3> QED
      BY <1>0, <3>1, <3>2 DEF CallTypeOK
  <2> QED
    BY <2>1, <2>2
<1>3. OneAtATime' /\ LoopShape'
  BY <1>0, <1>1, <1>2 DEF OneAtATime, LoopShape
<1>4. \A x, y \in Server : Linked(x, y)' <=> Linked(x, y)
  BY <1>1 DEF Linked, EndOf
<1>5. NoFuture' /\ LinksConnected'
  BY <1>0, <1>1, <1>4 DEF NoFuture, LinksConnected
<1>6. \A x \in Server : ~Visited(x)'
  BY <1>1 DEF Visited
<1>7. LoopInv'
  BY <1>6 DEF LoopInv
<1>8. Symmetric'
  <2>1. CASE p = Server
    BY <1>1, <2>1 DEF Symmetric, Joined
  <2>2. CASE p # Server
    <3>1. \A x \in Server : Joined(x)
      BY <1>0, <2>2 DEF AtRest, Joined
    <3> QED
      BY <1>0, <1>4, <3>1 DEF Symmetric
  <2> QED
    BY <2>1, <2>2
<1> QED
  BY <1>3, <1>5, <1>7, <1>8 DEF LinkInv

\* ConnectOne, DisconnectAll and the beginning of ShutdownServer.
LEMMA ConnectOneLinks ==
    ASSUME IInv, LinkInv, AtRest, NEW i \in Server, ConnectOne(i)
    PROVE  LinkInv'
<1>0. CallTypeOK /\ OneAtATime /\ LoopShape /\ NoFuture /\ LinksConnected /\ Symmetric
  BY DEF IInv, LinkInv
<1>1. Relinked(i, Server) /\ UNCHANGED <<inst, stage, loop>>
  BY ConnectRelinks DEF ConnectOne
<1>2. connected' = connected \union {i} /\ connected \subseteq Server
  BY <1>0, <1>1 DEF Relinked, LoopShape
<1>3. /\ \A x, y \in Server : x # i /\ y # i => (Linked(x, y)' <=> Linked(x, y))
      /\ \A y \in Server : y \in connected \union {i} => Linked(i, y)' /\ Linked(y, i)'
      /\ \A y \in Server : y \notin connected \union {i} =>
            (Linked(i, y)' <=> Linked(i, y)) /\ (Linked(y, i)' <=> Linked(y, i))
      /\ NoFuture'
  BY <1>0, <1>1, <1>2, RelinkFacts
<1>4. OneAtATime' /\ LoopShape' /\ LoopInv'
  BY <1>0, <1>1, <1>2 DEF OneAtATime, LoopShape, LoopInv, AtRest
<1>5. LinksConnected'
  BY <1>0, <1>2, <1>3 DEF LinksConnected
<1>6. \A x \in Server : Joined(x)
  BY DEF AtRest, Joined
<1>7. Symmetric'
  BY <1>0, <1>3, <1>6 DEF Symmetric
<1> QED
  BY <1>3, <1>4, <1>5, <1>7 DEF LinkInv

LEMMA DisconnectLinks ==
    ASSUME IInv, LinkInv, AtRest, NEW i \in Server, DisconnectAll(i) \/ ShutdownDisconnect(i)
    PROVE  LinkInv'
<1>0. CallTypeOK /\ OneAtATime /\ LoopShape /\ NoFuture /\ LinksConnected /\ Symmetric
  BY DEF IInv, LinkInv
<1>1. Become(disconnect(Net, i, Server)) /\ UNCHANGED loop
  BY DEF DisconnectAll, ShutdownDisconnect
<1>2. /\ connected' = connected \ {i} /\ enabled' \subseteq enabled /\ UNCHANGED inst
      /\ \A x, y \in Server : Linked(x, y)' <=> Linked(x, y) /\ x # i /\ y # i
  BY <1>0, <1>1, DisconnectFacts
<1>3. \A x \in Server : stage[x] \in {"up", "down"} /\ (x # i => stage'[x] = stage[x])
  BY <1>0 DEF DisconnectAll, ShutdownDisconnect, AtRest, CallTypeOK
<1>4. OneAtATime' /\ LoopShape' /\ LoopInv'
  BY <1>0, <1>1, <1>2, <1>3 DEF OneAtATime, LoopShape, LoopInv, AtRest
<1>5. NoFuture' /\ LinksConnected'
  BY <1>0, <1>2 DEF NoFuture, LinksConnected
<1>6. \A x \in Server : Joined(x)
  BY DEF AtRest, Joined
<1>7. Symmetric'
  BY <1>0, <1>2, <1>6 DEF Symmetric
<1> QED
  BY <1>4, <1>5, <1>7 DEF LinkInv

\* The rest of ShutdownServer leaves the links alone.
LEMMA ShutdownLinks ==
    ASSUME IInv, LinkInv, NEW i \in Server, ShutdownDelete(i) \/ ShutdownCopy(i)
    PROVE  LinkInv'
<1>0. CallTypeOK /\ OneAtATime /\ LoopShape /\ NoFuture /\ LinksConnected /\ Symmetric
  BY DEF IInv, LinkInv
<1>1. /\ UNCHANGED <<enabled, inst, connected, loop>>
      /\ stage[i] \in {"isolated", "deleted"}
      /\ \E to \in {"deleted", "down"} : stage' = [stage EXCEPT ![i] = to]
  BY DEF ShutdownDelete, ShutdownCopy
<1>2. /\ stage'[i] \in {"deleted", "down"}
      /\ \A x \in Server : x # i => stage'[x] = stage[x] /\ stage[x] \in {"up", "down"}
  BY <1>0, <1>1 DEF CallTypeOK, OneAtATime
<1>3. loop.left = {}
  BY <1>0, <1>1 DEF OneAtATime
<1>4. OneAtATime' /\ LoopShape' /\ LoopInv'
  BY <1>0, <1>1, <1>2, <1>3 DEF OneAtATime, LoopShape, LoopInv
<1>5. \A x, y \in Server : Linked(x, y)' <=> Linked(x, y)
  BY <1>1 DEF Linked, EndOf
<1>6. NoFuture' /\ LinksConnected'
  BY <1>0, <1>1, <1>5 DEF NoFuture, LinksConnected
<1>7. \A x \in Server : Joined(x)
  BY <1>1, <1>2, <1>3 DEF Joined
<1>8. Symmetric'
  BY <1>0, <1>5, <1>7 DEF Symmetric
<1> QED
  BY <1>4, <1>6, <1>8 DEF LinkInv

\* The ends of a new instance are disabled.
LEMMA StartServerLinks ==
    ASSUME IInv, LinkInv, AtRest, NEW i \in Server, StartServer(i)
    PROVE  LinkInv'
<1>0. CallTypeOK /\ OneAtATime /\ LoopShape /\ NoFuture /\ LinksConnected /\ Symmetric
  BY DEF IInv, LinkInv
<1>1. /\ UNCHANGED <<enabled, connected, loop>> /\ loop.left = {}
      /\ inst' = [inst EXCEPT ![i] = inst[i] + 1] /\ stage' = [stage EXCEPT ![i] = "started"]
  BY DEF StartServer, AtRest
<1>2. /\ \A x \in Server : inst[x] \in Nat
      /\ inst'[i] = inst[i] + 1 /\ \A x \in Server : x # i => inst'[x] = inst[x]
  BY <1>0, <1>1 DEF CallTypeOK, Instance
<1>3. /\ stage'[i] = "started"
      /\ \A x \in Server : x # i => stage'[x] = stage[x] /\ stage[x] \in {"up", "down"}
  BY <1>0, <1>1 DEF CallTypeOK, AtRest
<1>4. OneAtATime' /\ LoopShape' /\ LoopInv'
  BY <1>0, <1>1, <1>3 DEF OneAtATime, LoopShape, LoopInv
<1>5. NoFuture'
  BY <1>0, <1>1, <1>2 DEF NoFuture
<1>6. \A y \in Server : ~Linked(i, y)'
  <2> SUFFICES ASSUME NEW y \in Server PROVE EndOf(i, y)' \notin enabled'
    BY DEF Linked
  <2>1. EndOf(i, y)' = [from |-> i, inst |-> inst[i] + 1, to |-> y]
    BY <1>2 DEF EndOf
  <2>2. inst[i] + 1 \in Nat /\ inst[i] + 1 > inst[i]
    BY <1>2
  <2> QED
    BY <1>0, <1>1, <2>1, <2>2 DEF NoFuture
<1>7. \A x, y \in Server : x # i => (Linked(x, y)' <=> Linked(x, y))
  BY <1>1, <1>2 DEF Linked, EndOf
<1>8. LinksConnected'
  BY <1>0, <1>1, <1>6, <1>7 DEF LinksConnected
<1>9. \A x \in Server : Joined(x)' => x # i /\ Joined(x)
  BY <1>1, <1>3 DEF Joined
<1>10. Symmetric'
  BY <1>0, <1>7, <1>9 DEF Symmetric
<1> QED
  BY <1>4, <1>5, <1>8, <1>10 DEF LinkInv

LEMMA InitLinks == Init => LinkInv
<1> SUFFICES ASSUME Init PROVE LinkInv
  OBVIOUS
<1>1. 1 \in Instance /\ \A x \in Server : inst[x] = 1 /\ stage[x] = "up"
  BY NetworkAssumption DEF Init, Instance
<1>2. \A x, y \in Server : Linked(x, y)
  <2> SUFFICES ASSUME NEW x \in Server, NEW y \in Server PROVE EndOf(x, y) \in enabled
    BY DEF Linked
  <2>1. EndOf(x, y) = [from |-> x, inst |-> 1, to |-> y]
    BY <1>1 DEF EndOf
  <2>2. EndOf(x, y) \in End /\ EndOf(x, y).inst = 1
    BY <1>1, <2>1 DEF End
  <2> QED
    BY <2>2 DEF Init
<1>3. NoFuture
  BY <1>1 DEF Init, NoFuture
<1>4. OneAtATime /\ LoopShape /\ LoopInv
  BY <1>1 DEF Init, OneAtATime, LoopShape, LoopInv, NoLoop
<1> QED
  BY <1>2, <1>3, <1>4 DEF Init, LinkInv, LinksConnected, Symmetric

\* What PartitionExact says of a step.
ExactStep ==
    loop.left # {} /\ loop'.left = {} =>
      \A i, j \in Server : EndOf(i, j)' \in enabled' <=> (i \in loop.side <=> j \in loop.side)

LEMMA NextLinks ==
    ASSUME IInv, LinkInv, [Next]_vars
    PROVE  LinkInv' /\ ExactStep
<1>1. CASE AtRest /\ TestStep
  <2>1. loop.left = {}
    BY <1>1 DEF AtRest
  <2>2. CASE \E i \in Server : ConnectOne(i) \/ DisconnectAll(i) \/ ShutdownDisconnect(i)
                                  \/ StartServer(i)
    BY <1>1, <2>1, <2>2, ConnectOneLinks, DisconnectLinks, StartServerLinks DEF ExactStep
  <2>3. CASE (\E p \in (SUBSET Server) \ {{}} : Partition(p)) \/ ConnectAll
    BY <1>1, <2>1, <2>3, BeginLoopLinks, NetworkAssumption DEF Partition, ConnectAll, ExactStep
  <2>4. CASE Cleanup /\ UNCHANGED group
    BY <2>1, <2>4, SameLinks DEF Cleanup, ExactStep
  <2> QED
    BY <1>1, <2>2, <2>3, <2>4 DEF TestStep
<1>2. ASSUME NEW i \in Server, ShutdownDelete(i) \/ ShutdownCopy(i)
      PROVE  LinkInv' /\ ExactStep
  BY <1>2, ShutdownLinks DEF ShutdownDelete, ShutdownCopy, ExactStep
<1>3. ASSUME NEW i \in Server, Restarted(i)
      PROVE  LinkInv' /\ ExactStep
  <2>1. LinkInv'
    BY <1>3, BeginLoopLinks DEF Restarted
  <2>2. loop'.left # {}
    BY <1>3 DEF Restarted, BeginLoop
  <2> QED
    BY <2>1, <2>2 DEF ExactStep
<1>4. ASSUME NEW i \in Server, Iterate(i)
      PROVE  LinkInv' /\ ExactStep
  BY <1>4, IterateLinks DEF ExactStep, Linked, SameSide
<1>5. CASE CallStep /\ UNCHANGED group
  <2>1. UNCHANGED enabled
    BY <1>5 DEF CallStep, CallSend, ProcessReq, ReadEndnameInfo, TimeOut, DropRequest, Dispatch,
                Handle, TakeReply, Poll, Check
  <2>2. UNCHANGED loop
    BY <1>5 DEF group
  <2> QED
    BY <1>5, <2>1, <2>2, SameLinks DEF ExactStep
<1>6. CASE UNCHANGED vars
  BY <1>6, SameLinks DEF vars, netvars, group, ExactStep
<1> QED
  BY <1>1, <1>2, <1>3, <1>4, <1>5, <1>6 DEF Next, TestGoesOn

LEMMA AlwaysLinkInv == Spec => []LinkInv
  BY InitLinks, NextLinks, AlwaysIInv, PTL DEF Spec

\* Between operations of the test two running servers have links in both
\* directions or in neither, and a disconnected one has none, for any servers and
\* any sequence of connects, partitions, shutdowns and restarts (connect and
\* disconnect in tester1/group.go).
THEOREM LinksSoundAlways == Spec => []LinksSound
<1>1. LinkInv => LinksSound
  BY DEF LinkInv, LinksSound, LinksConnected, Symmetric, Joined, Linked, AtRest
<1> QED
  BY <1>1, AlwaysLinkInv, PTL

\* A Partition, in whatever order it goes through its sides and whatever the links
\* were before, ends with exactly the links inside the two sides.
THEOREM PartitionExactAlways == Spec => PartitionExact
<1>1. IInv /\ LinkInv /\ [Next]_vars => [ExactStep]_vars
  BY NextLinks
<1> QED
  BY <1>1, AlwaysIInv, AlwaysLinkInv, PTL DEF Spec, PartitionExact, ExactStep
=============================================================================
