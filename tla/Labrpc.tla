------------------------------ MODULE Labrpc -------------------------------
(***************************************************************************)
(* The simulated network (labrpc/labrpc.go): ClientEnd.Call, the goroutine *)
(* that processReq runs for every request, the goroutine that runs the     *)
(* handler, and the tables of ends and servers that a test changes while   *)
(* calls are under way.                                                    *)
(*                                                                         *)
(* A server is registered under its name as one instance after another, in *)
(* the order in which they were started; 0 is none.  A handler is one step *)
(* that leaves its effect in the Persister of its instance, or never       *)
(* returns.  Delays are the freedom to take a step late.                   *)
(***************************************************************************)
EXTENDS Naturals

CONSTANTS Server,        \* the names of the servers
          Client,        \* the Clnts of the test, whose ends stay enabled
          Call,          \* the calls made
          MaxInstance    \* bound: starts of one server

ASSUME NetworkAssumption ==
    /\ MaxInstance \in Nat \ {0}
    /\ Server # {} /\ Server \intersect Client = {}

VARIABLES
    enabled,    \* the ends e with rn.enabled[e]
    servers,    \* rn.servers: the registered instance of a server
    done,       \* has the network been cleaned up?
    pc,         \* where a call is
    end,        \* its ClientEnd
    target,     \* the instance it was sent to
    rel,        \* rn.reliable when it was sent: the test may set it at any time
    handler,    \* of a call: not started, running, returned
    disk,       \* disk[s][k]: the calls whose effect the Persister of instance k holds
    broken      \* was a call's end disabled, or its server gone, during the call?

calls == <<pc, end, target, rel, handler>>
netvars == <<enabled, servers, done, pc, end, target, rel, handler, disk, broken>>

Instance == 1..MaxInstance

\* An end belongs to an instance of a server, or to a client, and is connected
\* once, to a server.
End == [from : Server, inst : Instance, to : Server]
          \union [from : Client, inst : {0}, to : Server]

\* The negation of isServerDead, for an instance k.
Alive(e, k) == e \in enabled /\ servers[e.to] = k

Goto(c, label) == pc' = [pc EXCEPT ![c] = label]

-----------------------------------------------------------------------------
(* ClientEnd.Call and processReq.                                          *)

\* The request is handed to the network, or the network is gone.
CallSend(c, e) ==
    /\ pc[c] = "idle"
    /\ \/ Goto(c, "sent")
       \/ done /\ Goto(c, "false")
    /\ end' = [end EXCEPT ![c] = e]
    /\ UNCHANGED <<enabled, servers, done, target, rel, handler, disk>>

ReadEndnameInfo(c) ==
    LET e == end[c] IN
    /\ pc[c] = "sent"
    /\ Goto(c, IF e \in enabled /\ servers[e.to] # 0 THEN "reached" ELSE "unreached")
    /\ target' = [target EXCEPT ![c] = servers[e.to]]
    /\ \E r \in BOOLEAN : rel' = [rel EXCEPT ![c] = r]
    /\ UNCHANGED <<enabled, servers, done, end, handler, disk>>

\* The server cannot be reached: a delay, then false.
TimeOut(c) ==
    /\ pc[c] = "unreached"
    /\ Goto(c, "false")
    /\ UNCHANGED <<enabled, servers, done, end, target, rel, handler, disk>>

DropRequest(c) ==
    /\ pc[c] = "reached" /\ ~rel[c]
    /\ Goto(c, "false")
    /\ UNCHANGED <<enabled, servers, done, end, target, rel, handler, disk>>

\* The handler gets a goroutine of its own.
Dispatch(c) ==
    /\ pc[c] = "reached"
    /\ Goto(c, "waiting")
    /\ handler' = [handler EXCEPT ![c] = "running"]
    /\ UNCHANGED <<enabled, servers, done, end, target, rel, disk>>

\* The handler runs, whether or not anyone still waits for it.
Handle(c) ==
    /\ handler[c] = "running"
    /\ handler' = [handler EXCEPT ![c] = "returned"]
    /\ disk' = [disk EXCEPT ![end[c].to][target[c]] = @ \union {c}]
    /\ UNCHANGED <<enabled, servers, done, pc, end, target, rel>>

TakeReply(c) ==
    /\ pc[c] = "waiting" /\ handler[c] = "returned"
    /\ Goto(c, "checking")
    /\ UNCHANGED <<enabled, servers, done, end, target, rel, handler, disk>>

\* Mutant: the wait is bounded.
PollTimesOut(c) ==
    /\ pc[c] = "waiting"
    /\ Goto(c, "false")
    /\ UNCHANGED <<enabled, servers, done, end, target, rel, handler, disk>>

\* Mutant: only DeleteServer ends the wait, and not a new registration.
PollLooksForNil(c) ==
    /\ pc[c] = "waiting" /\ servers[end[c].to] = 0
    /\ Goto(c, "false")
    /\ UNCHANGED <<enabled, servers, done, end, target, rel, handler, disk>>

\* Every 100 ms without a reply: stop waiting for a server that is dead.
Poll(c) ==
    /\ pc[c] = "waiting" /\ ~Alive(end[c], target[c])
    /\ Goto(c, "false")
    /\ UNCHANGED <<enabled, servers, done, end, target, rel, handler, disk>>

\* Mutant: a reply that has arrived is passed on as it is.
CheckTrusts(c) ==
    /\ pc[c] = "checking"
    /\ \/ Goto(c, "true")
       \/ ~rel[c] /\ Goto(c, "false")
    /\ UNCHANGED <<enabled, servers, done, end, target, rel, handler, disk>>

\* A reply has come: false if the server is dead by now or the reply is lost.
Check(c) ==
    /\ pc[c] = "checking"
    /\ \/ Alive(end[c], target[c]) /\ Goto(c, "true")
       \/ (~Alive(end[c], target[c]) \/ ~rel[c]) /\ Goto(c, "false")
    /\ UNCHANGED <<enabled, servers, done, end, target, rel, handler, disk>>

ProcessReq(c) ==
    \/ ReadEndnameInfo(c) \/ TimeOut(c) \/ DropRequest(c) \/ Dispatch(c)
    \/ TakeReply(c) \/ Poll(c) \/ Check(c)

-----------------------------------------------------------------------------
(* What the test does to the network.                                      *)

Cleanup ==
    /\ done' = TRUE
    /\ UNCHANGED <<enabled, servers, calls, disk>>

\* A history of the calls: from the moment it is sent, was the end of c ever
\* disabled, or was the server not the one c was sent to?
Breaks(c) ==
    /\ pc'[c] # "idle"
    /\ \/ end'[c] \notin enabled'
       \/ servers'[end'[c].to] = 0
       \/ pc'[c] \notin {"sent", "unreached"} /\ servers'[end'[c].to] # target'[c]

Witnessed == broken' = [c \in Call |-> broken[c] \/ Breaks(c)]
=============================================================================
