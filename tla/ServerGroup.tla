---------------------------- MODULE ServerGroup ----------------------------
(***************************************************************************)
(* A group of servers on the network of Labrpc (tester1/group.go, srv.go,  *)
(* persister.go): the test, a single thread, connects, disconnects and     *)
(* partitions the servers, shuts one down in the middle of calls, and      *)
(* starts it again with what its Persister holds.                          *)
(*                                                                         *)
(* Every start and every shutdown makes a new Persister.  The instance     *)
(* keeps writing to the one it was given (disk), of which copy is the      *)
(* successor made when the server was shut down.                           *)
(***************************************************************************)
EXTENDS Labrpc

CONSTANTS CanStop   \* bound: the servers the test shuts down

ASSUME CanStopAssumption == CanStop \subseteq Server

VARIABLES
    inst,        \* sg.srvs[i]: the number of its instance
    stage,       \* of a server: up, or how far its shutdown or restart has got
    connected,   \* sg.connected, as the set of the servers that are
    copy,        \* what s.saved holds once the server has been shut down
    loop         \* the loop of Partition or ConnectAll that the test is in

group == <<inst, stage, connected, copy, loop>>
vars == <<netvars, group>>

\* The end of i's present instance to j.
EndOf(i, j) == [from |-> i, inst |-> inst[i], to |-> j]
Links(i, others) == {EndOf(i, j) : j \in others} \union {EndOf(j, i) : j \in others}

\* A loop over the servers of one side, of which left are still to come, and the
\* other side if there is a second loop.
NoLoop == [side |-> {}, left |-> {}, then |-> {}]

\* The test is not inside ShutdownServer, restart, Partition or ConnectAll.
AtRest == loop.left = {} /\ \A s \in Server : stage[s] \in {"up", "down"}

\* MakeGroupStart: the servers are started and connected.
Init ==
    /\ servers = [s \in Server |-> 1] /\ inst = [s \in Server |-> 1]
    /\ stage = [s \in Server |-> "up"] /\ connected = Server
    /\ enabled = {e \in End : e.inst <= 1}
    /\ done = FALSE
    /\ pc = [c \in Call |-> "idle"] /\ end = [c \in Call |-> CHOOSE e \in End : TRUE]
    /\ target = [c \in Call |-> 0] /\ rel = [c \in Call |-> FALSE]
    /\ handler = [c \in Call |-> "none"] /\ broken = [c \in Call |-> FALSE]
    /\ disk = [s \in Server |-> [k \in Instance |-> {}]]
    /\ copy = [s \in Server |-> {}] /\ loop = NoLoop

-----------------------------------------------------------------------------
(* Links: a pair of the connected servers and the enabled ends.            *)

\* Mutant: incoming ends are enabled whoever they belong to.
ConnectBoth(net, i, to) ==
    [net EXCEPT !.connected = @ \union {i}, !.enabled = @ \union Links(i, to)]

connect(net, i, to) ==
    LET up == net.connected \union {i}
    IN  [connected |-> up, enabled |-> net.enabled \union Links(i, to \intersect up)]

disconnect(net, i, from) ==
    [connected |-> net.connected \ {i}, enabled |-> net.enabled \ Links(i, from)]

Net == [connected |-> connected, enabled |-> enabled]

Become(net) ==
    /\ connected' = net.connected /\ enabled' = net.enabled
    /\ UNCHANGED <<servers, done, calls, disk, inst, copy>>

ConnectOne(i) == Become(connect(Net, i, Server)) /\ UNCHANGED <<stage, loop>>

DisconnectAll(i) == Become(disconnect(Net, i, Server)) /\ UNCHANGED <<stage, loop>>

\* Partition begins with the loop over its first side.  ConnectAll is the loop
\* over all servers with nobody on the other side.
BeginLoop(p) ==
    /\ loop' = [side |-> p, left |-> p, then |-> Server \ p]
    /\ UNCHANGED <<enabled, servers, done, calls, disk, inst, connected, copy>>

Partition(p) == BeginLoop(p) /\ UNCHANGED stage

ConnectAll == BeginLoop(Server) /\ UNCHANGED stage

\* Mutant: each server is connected as ConnectOne does.
CutConnectsOne(net, i, own) == connect(disconnect(net, i, Server \ own), i, Server)

\* Server i is cut off from the other side and connected to its own.
Cut(net, i, own) == connect(disconnect(net, i, Server \ own), i, own)

\* One iteration of a loop; a slice may name its servers in any order.
Iterate(i) ==
    /\ i \in loop.left
    /\ Become(Cut(Net, i, loop.side))
    /\ loop' = IF loop.left # {i} THEN [loop EXCEPT !.left = @ \ {i}]
               ELSE [side |-> loop.then, left |-> loop.then, then |-> {}]
    /\ UNCHANGED stage

-----------------------------------------------------------------------------
(* ShutdownServer and restart, step by step.                               *)

ShutdownDisconnect(i) ==
    /\ stage[i] = "up" /\ i \in CanStop
    /\ Become(disconnect(Net, i, Server))
    /\ stage' = [stage EXCEPT ![i] = "isolated"]
    /\ UNCHANGED loop

ShutdownDelete(i) ==
    /\ stage[i] = "isolated"
    /\ servers' = [servers EXCEPT ![i] = 0]
    /\ stage' = [stage EXCEPT ![i] = "deleted"]
    /\ UNCHANGED <<enabled, done, calls, disk, inst, connected, copy, loop>>

\* shutdownServer: the Persister is copied, then the services are killed.
ShutdownCopy(i) ==
    /\ stage[i] = "deleted"
    /\ copy' = [copy EXCEPT ![i] = disk[i][inst[i]]]
    /\ stage' = [stage EXCEPT ![i] = "down"]
    /\ UNCHANGED <<enabled, servers, done, calls, disk, inst, connected, loop>>

\* Fresh ends, disabled; a copy of the saved Persister; AddServer.
StartServer(i) ==
    /\ stage[i] = "down" /\ inst[i] < MaxInstance
    /\ inst' = [inst EXCEPT ![i] = @ + 1]
    /\ disk' = [disk EXCEPT ![i][inst[i] + 1] = copy[i]]
    /\ servers' = [servers EXCEPT ![i] = inst[i] + 1]
    /\ stage' = [stage EXCEPT ![i] = "started"]
    /\ UNCHANGED <<enabled, done, calls, connected, copy, loop>>

\* restart: StartServer, then ConnectAll.
Restarted(i) ==
    /\ stage[i] = "started"
    /\ BeginLoop(Server)
    /\ stage' = [stage EXCEPT ![i] = "up"]

-----------------------------------------------------------------------------
\* The test begins something new; Cleanup is the last thing it does.
TestStep ==
    \/ \E i \in Server :
          \/ ConnectOne(i) \/ DisconnectAll(i) \/ ShutdownDisconnect(i) \/ StartServer(i)
    \/ \E p \in (SUBSET Server) \ {{}} : Partition(p)
    \/ ConnectAll
    \/ Cleanup /\ UNCHANGED group

\* The test goes on with what it has begun.
TestGoesOn ==
    \E i \in Server : ShutdownDelete(i) \/ ShutdownCopy(i) \/ Restarted(i) \/ Iterate(i)

\* Any instance started so far may call, a stopped one too.
Started(e) == e.from \in Server => e.inst <= inst[e.from]

CallStep ==
    \E c \in Call :
       \/ \E e \in End : Started(e) /\ CallSend(c, e)
       \/ ProcessReq(c)
       \/ Handle(c)

Next ==
    /\ \/ AtRest /\ ~done /\ TestStep
       \/ TestGoesOn
       \/ CallStep /\ UNCHANGED group
    /\ Witnessed

Spec == Init /\ [][Next]_vars

\* The goroutines of the network run.  A handler need not return, and the test
\* need not do anything.
FairSpec ==
    /\ Spec
    /\ \A c \in Call : WF_vars(ProcessReq(c) /\ UNCHANGED group /\ Witnessed)

-----------------------------------------------------------------------------
(* Properties.                                                             *)

\* What the server will be started with next: the Persister in use, or its copy.
Saved(s) == IF stage[s] = "down" THEN copy[s] ELSE disk[s][inst[s]]

\* A call that returned true has its effect in the Persister that counts: the
\* server never answers from a superseded one (labrpc.go:284-290, group.go:259-264).
ReplyMeansSaved == \A c \in Call : pc[c] = "true" => c \in Saved(end[c].to)

\* On a reliable network a call returns false only if its end was disabled, or
\* its server gone, while it was under way; and on any network a handler that
\* still runs after its call returned false belongs to such a call.
FalseMeansBroken ==
    \A c \in Call :
       pc[c] = "false" /\ (handler[c] = "running" \/ (rel[c] /\ ~done)) => broken[c]

\* Between operations of the test two running servers can call each other in
\* both directions or in neither, and a disconnected one has no link at all.
LinksSound ==
    AtRest =>
       \A i, j \in {s \in Server : stage[s] = "up"} :
          /\ EndOf(i, j) \in enabled <=> EndOf(j, i) \in enabled
          /\ EndOf(i, j) \in enabled => {i, j} \subseteq connected

\* Whatever the links were, and whoever is down, a partition leaves exactly the
\* links inside its two sides: the connect of a later server, which goes by the
\* connected flags, does not undo the disconnect of an earlier one.
PartitionExact ==
    [][loop.left # {} /\ loop'.left = {} =>
         \A i, j \in Server :
            EndOf(i, j)' \in enabled' <=> (i \in loop.side <=> j \in loop.side)]_vars

Returned(c) == pc[c] \in {"true", "false"}

\* Call returns (labrpc.go:37-38), unless its handler never does and the instance
\* that runs it is never shut down.
CallReturns ==
    \A c \in Call :
       pc[c] = "sent"
          ~> (Returned(c) \/ [](handler[c] = "running" /\ servers[end[c].to] = target[c]))
=============================================================================
