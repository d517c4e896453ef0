------------------------------ MODULE KvClerk ------------------------------
(***************************************************************************)
(* The versioned key/value server (kvsrv1/server.go) and its Clerks        *)
(* (kvsrv1/client.go) over a network that loses requests and replies.      *)
(*                                                                         *)
(* A Clerk makes one RPC at a time and sends it again until it is          *)
(* answered; labrpc reports a lost request and a lost reply alike, and     *)
(* never delivers a request after it reported it lost.  The handlers run   *)
(* under kv.mu: one action each.  Versions do not wrap around (uint64).    *)
(***************************************************************************)
EXTENDS Naturals

CONSTANTS
    Client,   \* one Clerk each
    Key,
    Value,    \* what is put
    Version,  \* bound: the versions that applications pass to Put
    Empty     \* the zero value "" of a string

ASSUME VersionAssumption == Version \subseteq Nat

VARIABLES
    kvStore,  \* value and version of each key; version 0: not in the map
    call      \* the Clerk's present or last call

vars == <<kvStore, call>>

NoReply == [value |-> Empty, version |-> 0, err |-> "none"]

\* What a Clerk is doing: the arguments of the call, whether it was sent
\* before (retry), where it is, and the last reply.  "times" counts how
\* often the server performed this Put; no code reads it.
NoCall == [op |-> "none", key |-> Empty, value |-> Empty, version |-> 0,
           retry |-> FALSE, at |-> "idle", reply |-> NoReply, times |-> 0]

Init ==
    /\ kvStore = [k \in Key |-> [value |-> Empty, version |-> 0]]
    /\ call = [c \in Client |-> NoCall]

-----------------------------------------------------------------------------
(* The Clerk's side of a call.                                             *)

\* The application may call: the last call has returned.
Ready(c) == call[c].at \in {"idle", "returned"}

StartGet(c, k) ==
    call' = [call EXCEPT ![c] =
               [op |-> "Get", key |-> k, value |-> Empty, version |-> 0,
                retry |-> FALSE, at |-> "sent", reply |-> NoReply, times |-> 0]]

StartPut(c, k, v, n) ==
    call' = [call EXCEPT ![c] =
               [op |-> "Put", key |-> k, value |-> v, version |-> n,
                retry |-> FALSE, at |-> "sent", reply |-> NoReply, times |-> 0]]

\* Call returns false: the request or its reply was lost.  The Clerk sleeps
\* and sends the same arguments again; only Put remembers that it did.
Lose(c) ==
    /\ call[c].at \in {"sent", "answered"}
    /\ call' = [call EXCEPT ![c].at = "sent",
                            ![c].retry = (call[c].op = "Put")]
    /\ UNCHANGED kvStore

\* Mutant: ErrVersion after a resend is taken for a success.
VerdictHopeful(c) ==
    IF call[c].reply.err = "ErrVersion" /\ call[c].retry
      THEN "OK" ELSE call[c].reply.err

\* Mutant: ErrVersion is reported as it comes.
VerdictPlain(c) == call[c].reply.err

\* What Clerk.Put and Clerk.Get tell the application.
Verdict(c) ==
    IF call[c].reply.err = "ErrVersion" /\ call[c].retry
      THEN "ErrMaybe" ELSE call[c].reply.err

\* Call returns true: so does Get or Put.
Return(c) ==
    /\ call[c].at = "answered"
    /\ call' = [call EXCEPT ![c].at = "returned", ![c].reply.err = Verdict(c)]
    /\ UNCHANGED kvStore

-----------------------------------------------------------------------------
(* The server.                                                             *)

\* KVServer.Get.
Get(c) ==
    LET s == kvStore[call[c].key]
    IN  /\ call[c].at = "sent" /\ call[c].op = "Get"
        /\ call' = [call EXCEPT ![c].at = "answered",
                                ![c].reply = [value |-> s.value, version |-> s.version,
                                              err |-> IF s.version = 0 THEN "ErrNoKey" ELSE "OK"]]
        /\ UNCHANGED kvStore

\* Mutant: an older version is good enough.
MatchesLoose(s, n) == n <= s.version

\* The versions agree; a key that does not exist wants version 0.
Matches(s, n) == s.version = n

\* KVServer.Put.
Put(c) ==
    LET m == call[c]
        s == kvStore[m.key]
        err == IF Matches(s, m.version) THEN "OK"
               ELSE IF s.version = 0 THEN "ErrNoKey" ELSE "ErrVersion"
    IN  /\ m.at = "sent" /\ m.op = "Put"
        /\ kvStore' = [kvStore EXCEPT ![m.key] =
               IF Matches(s, m.version)
                 THEN [value |-> m.value, version |-> m.version + 1] ELSE @]
        /\ call' = [call EXCEPT
               ![c].at = "answered",
               ![c].reply = [value |-> Empty, version |-> 0, err |-> err],
               ![c].times = IF Matches(s, m.version) THEN @ + 1 ELSE @]

-----------------------------------------------------------------------------
Handle(c) == Get(c) \/ Put(c)

\* A step of the call that Clerk c has under way.
ClerkStep(c) == Get(c) \/ Put(c) \/ Lose(c) \/ Return(c)

\* An application that calls anything at any time.
InvokeGet(c, k) == Ready(c) /\ StartGet(c, k) /\ UNCHANGED kvStore
InvokePut(c, k, v, n) == Ready(c) /\ StartPut(c, k, v, n) /\ UNCHANGED kvStore

Next ==
    \E c \in Client :
      \/ ClerkStep(c)
      \/ \E k \in Key : InvokeGet(c, k)
      \/ \E k \in Key, v \in Value, n \in Version : InvokePut(c, k, v, n)

Spec == Init /\ [][Next]_vars

-----------------------------------------------------------------------------
(* Properties.                                                             *)

Errs == {"none", "OK", "ErrNoKey", "ErrVersion", "ErrMaybe"}

Stored == [value : Value \cup {Empty}, version : Nat]

ReplyType == [value : Value \cup {Empty}, version : Nat, err : Errs]

CallType ==
    [op : {"none", "Get", "Put"}, key : Key \cup {Empty}, value : Value \cup {Empty},
     version : Nat, retry : BOOLEAN, at : {"idle", "sent", "answered", "returned"},
     reply : ReplyType, times : Nat]

\* Type invariant: the store, the arguments and the replies hold values of
\* their types, and every call has a key.
KvTypeOK ==
    /\ kvStore \in [Key -> Stored]
    /\ call \in [Client -> CallType]
    /\ \A c \in Client : call[c].op # "none" <=> call[c].at # "idle"
    /\ \A c \in Client : call[c].op # "none" => call[c].key \in Key

\* The Clerk's verdict on a Put that returned agrees with what the server did.
VerdictTrue(c) ==
    /\ call[c].reply.err = "OK" => call[c].times = 1
    /\ call[c].reply.err \in {"ErrVersion", "ErrNoKey"} => call[c].times = 0

\* VerdictSound: a Put is performed at most once, however often it was sent,
\* and the Clerk tells the truth about it: OK means performed, ErrVersion and
\* ErrNoKey mean not performed (client.go:50-56); only ErrMaybe leaves it open.
VerdictSound ==
    \A c \in Client :
      /\ call[c].times <= 1
      /\ call[c].op = "Put" /\ call[c].at = "returned" => VerdictTrue(c)

\* The abstract operation that Clerk c is executing.  A Put that was
\* performed is answered OK, whatever a resend is told.
AbstractOp(c) ==
    [at |-> IF call[c].at \in {"sent", "answered"} THEN "pending" ELSE call[c].at,
     input |-> [op |-> call[c].op, key |-> call[c].key,
                value |-> call[c].value, version |-> call[c].version],
     answer |-> IF call[c].times > 0 /\ call[c].at # "returned"
                  THEN [value |-> Empty, version |-> 0, err |-> "OK"]
                  ELSE call[c].reply]

Model == INSTANCE KvModel WITH kvState <- kvStore, op <- [c \in Client |-> AbstractOp(c)]

\* Linearizable: the server and its Clerks implement the sequential model of
\* models1/kv.go, with the server's ErrNoKey added, every operation taking
\* effect between its call and its return, although Puts are sent several times.
Linearizable == Model!Spec
=============================================================================
