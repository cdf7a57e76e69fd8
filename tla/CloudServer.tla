----------------------------- MODULE CloudServer -----------------------------
(***************************************************************************)
(* The nes-cloud server (nes-cloud/src/server): accept threads, one main   *)
(* thread that owns the list of connected players, one child process per   *)
(* session and one waiter thread per child.  The threads meet only in the  *)
(* event queue; the list is touched by the main thread alone.              *)
(*                                                                         *)
(* A connection is one element of Clients: its ClientId and its socket.    *)
(* The code uses the list only through its length, membership of an        *)
(* address and removal of an address, so it is a set of connections here.  *)
(***************************************************************************)
EXTENDS Naturals, Sequences, FiniteSets

CONSTANTS Clients,       \* connections that may ever be made
          IpOf,          \* function: the peer address of a connection
          MaxConcurrent, \* --max-concurrent
          BlockDup,      \* --block-dup
          MaxErrors,     \* bound: failed accepts waiting in the queue
          NoClient

ASSUME MaxConcurrentAssumption == MaxConcurrent \in Nat
ASSUME BlockDupAssumption == BlockDup \in BOOLEAN
ASSUME NoClientAssumption == NoClient \notin Clients

VARIABLES
  peer,      \* the remote end: not yet dialled, open, gone
  queue,     \* mpsc channel of events, read by the main thread
  connected, \* Server.connected
  spawned,   \* client between run() = Ok and connected.push, or NoClient
  instance,  \* child process of a client, and whether its end was reported
  sockets,   \* sockets[c]: processes that hold the socket of client c
  passable,  \* sockets of the server process whose FD_CLOEXEC is unset
  reply      \* what the remote end has been told

vars == <<peer, queue, connected, spawned, instance, sockets, passable, reply>>

(* The holder of a socket is the server process or the child of a client.  *)
Server == NoClient

Connect(c)      == [type |-> "Connect", client |-> c]
Disconnect(c)   == [type |-> "Disconnect", client |-> c]
Blocked(c, msg) == [type |-> "Blocked", client |-> c, msg |-> msg]
Error           == [type |-> "Error"]

Refusals == {"TooManyPlayers", "AlreadyConnected"}

Event == [type : {"Connect", "Disconnect"}, client : Clients]
           \cup [type : {"Blocked"}, client : Clients, msg : Refusals]
           \cup {Error}

SameIp(c, d) == IpOf[c] = IpOf[d]

(* Children that still run: what MaxConcurrent is about.                   *)
Running == {c \in Clients : instance[c] = "running"}

-----------------------------------------------------------------------------
Init ==
  /\ peer = [c \in Clients |-> "idle"]
  /\ queue = <<>>
  /\ connected = {}
  /\ spawned = NoClient
  /\ instance = [c \in Clients |-> "none"]
  /\ sockets = [c \in Clients |-> {}]
  /\ passable = {}
  /\ reply = [c \in Clients |-> "none"]

-----------------------------------------------------------------------------
(* The remote ends *)

Dial(c) ==
  /\ peer[c] = "idle"
  /\ peer' = [peer EXCEPT ![c] = "dialing"]
  /\ UNCHANGED <<queue, connected, spawned, instance, sockets, passable, reply>>

Leave(c) ==
  /\ peer[c] = "open"
  /\ peer' = [peer EXCEPT ![c] = "gone"]
  /\ UNCHANGED <<queue, connected, spawned, instance, sockets, passable, reply>>

-----------------------------------------------------------------------------
(* start_accepting: two threads, one per listening port, do the same; the  *)
(* order in which they reach the queue is arbitrary.                       *)

Accept(c) ==
  /\ peer[c] = "dialing"
  /\ peer' = [peer EXCEPT ![c] = "open"]
  /\ sockets' = [sockets EXCEPT ![c] = {Server}]
  /\ queue' = Append(queue, Connect(c))
  /\ UNCHANGED <<connected, spawned, instance, passable, reply>>

PendingErrors == Len(SelectSeq(queue, LAMBDA e : e = Error))

AcceptError ==
  /\ PendingErrors < MaxErrors
  /\ queue' = Append(queue, Error)
  /\ UNCHANGED <<peer, connected, spawned, instance, sockets, passable, reply>>

-----------------------------------------------------------------------------
(* The main thread takes one event at a time. *)

Receive(e) ==
  /\ spawned = NoClient
  /\ queue # <<>>
  /\ Head(queue) = e

(* Definitions marked "Mutant" are variants a bug in the code would make:   *)
(* Spec does not use them, each of them breaks a property of the runs.     *)

(* block_client: the capacity test comes first.                            *)
Full == Cardinality(connected) >= MaxConcurrent

Duplicate(c) == BlockDup /\ \E d \in connected : SameIp(c, d)

(* Mutant: the client is forgotten, with its socket open and no event.     *)
RefuseSilently(c, msg) ==
  /\ Receive(Connect(c))
  /\ \/ msg = "TooManyPlayers" /\ Full
     \/ msg = "AlreadyConnected" /\ ~Full /\ Duplicate(c)
  /\ queue' = Tail(queue)
  /\ UNCHANGED <<peer, connected, spawned, instance, sockets, passable, reply>>

(* client_connected, refused: the message is not written now, it becomes   *)
(* an event at the end of the queue and the socket travels with it.        *)
Refuse(c, msg) ==
  /\ Receive(Connect(c))
  /\ \/ msg = "TooManyPlayers" /\ Full
     \/ msg = "AlreadyConnected" /\ ~Full /\ Duplicate(c)
  /\ queue' = Append(Tail(queue), Blocked(c, msg))
  /\ UNCHANGED <<peer, connected, spawned, instance, sockets, passable, reply>>

Drop(c) == sockets' = [sockets EXCEPT ![c] = @ \ {Server}]

(* client_connected, when set_read_timeout or the spawn fails: the client  *)
(* is dropped without a word.                                              *)
FailToRun(c) ==
  /\ Receive(Connect(c))
  /\ ~Full /\ ~Duplicate(c)
  /\ Drop(c)
  /\ queue' = Tail(queue)
  /\ UNCHANGED <<peer, connected, spawned, instance, passable, reply>>

(* Mutant: the waiter keeps the client, and with it the passable socket.   *)
SpawnKeepingSocket(c) ==
  /\ Receive(Connect(c))
  /\ ~Full /\ ~Duplicate(c)
  /\ passable' = passable \cup {c}
  /\ sockets' = [d \in Clients |->
                   IF d \in passable' THEN sockets[d] \cup {c} ELSE sockets[d]]
  /\ instance' = [instance EXCEPT ![c] = "running"]
  /\ spawned' = c
  /\ queue' = Tail(queue)
  /\ UNCHANGED <<peer, connected, reply>>

(* client_connected up to the return of run(): the child inherits every    *)
(* passable socket of the server, and run() closes the server's own copy   *)
(* of the client it was given.                                             *)
Spawn(c) ==
  /\ Receive(Connect(c))
  /\ ~Full /\ ~Duplicate(c)
  /\ sockets' = [d \in Clients |->
                   LET inherited == IF d \in passable \cup {c} THEN {c} ELSE {}
                       dropped   == IF d = c THEN {Server} ELSE {}
                   IN (sockets[d] \cup inherited) \ dropped]
  /\ passable' = passable \ {c}
  /\ instance' = [instance EXCEPT ![c] = "running"]
  /\ spawned' = c
  /\ queue' = Tail(queue)
  /\ UNCHANGED <<peer, connected, reply>>

(* Mutant: the push does not wait for run() to return.                     *)
RegisterAnything ==
  /\ connected' = connected \cup {spawned}
  /\ spawned' = NoClient
  /\ UNCHANGED <<peer, queue, instance, sockets, passable, reply>>

(* ... and connected.push after it: the child and its waiter already run.  *)
Register ==
  /\ spawned # NoClient
  /\ connected' = connected \cup {spawned}
  /\ spawned' = NoClient
  /\ UNCHANGED <<peer, queue, instance, sockets, passable, reply>>

(* Mutant: the test of retain() is inverted.                               *)
RetainOnlyTheAddress(c) ==
  /\ Receive(Disconnect(c))
  /\ connected' = {d \in connected : SameIp(c, d)}
  /\ queue' = Tail(queue)
  /\ UNCHANGED <<peer, spawned, instance, sockets, passable, reply>>

(* client_disconnected: every entry with the address goes.                 *)
ClientDisconnected(c) ==
  /\ Receive(Disconnect(c))
  /\ connected' = {d \in connected : ~SameIp(c, d)}
  /\ queue' = Tail(queue)
  /\ UNCHANGED <<peer, spawned, instance, sockets, passable, reply>>

(* Event::Blocked: the result of the write is ignored.                     *)
WriteBlocked(c, msg) ==
  /\ Receive(Blocked(c, msg))
  /\ reply' = [reply EXCEPT ![c] = IF peer[c] = "open" THEN msg ELSE @]
  /\ Drop(c)
  /\ queue' = Tail(queue)
  /\ UNCHANGED <<peer, connected, spawned, instance, passable>>

LogError ==
  /\ Receive(Error)
  /\ queue' = Tail(queue)
  /\ UNCHANGED <<peer, connected, spawned, instance, sockets, passable, reply>>

Main ==
  \/ \E c \in Clients : \/ \E msg \in Refusals : Refuse(c, msg) \/ WriteBlocked(c, msg)
                        \/ FailToRun(c)
                        \/ Spawn(c)
                        \/ ClientDisconnected(c)
  \/ Register
  \/ LogError

-----------------------------------------------------------------------------
(* The child process, seen from the server (CloudInstance has its inside), *)
(* and the waiter thread of run().                                         *)

Greet(c) ==
  /\ instance[c] = "running" /\ peer[c] = "open" /\ reply[c] = "none"
  /\ reply' = [reply EXCEPT ![c] = "Welcome"]
  /\ UNCHANGED <<peer, queue, connected, spawned, instance, sockets, passable>>

Exit(c) ==
  /\ instance[c] = "running"
  /\ instance' = [instance EXCEPT ![c] = "exited"]
  /\ sockets' = [d \in Clients |-> sockets[d] \ {c}]
  /\ UNCHANGED <<peer, queue, connected, spawned, passable, reply>>

(* Mutant: the waiter takes the entry off the list itself.                 *)
ReapDirectly(c) ==
  /\ instance[c] = "exited"
  /\ instance' = [instance EXCEPT ![c] = "reaped"]
  /\ connected' = {d \in connected : ~SameIp(c, d)}
  /\ UNCHANGED <<peer, queue, spawned, sockets, passable, reply>>

Reap(c) ==
  /\ instance[c] = "exited"
  /\ instance' = [instance EXCEPT ![c] = "reaped"]
  /\ queue' = Append(queue, Disconnect(c))
  /\ UNCHANGED <<peer, connected, spawned, sockets, passable, reply>>

-----------------------------------------------------------------------------
Next ==
  \/ \E c \in Clients : Dial(c) \/ Leave(c) \/ Accept(c) \/ Greet(c) \/ Exit(c) \/ Reap(c)
  \/ AcceptError
  \/ Main

Spec == Init /\ [][Next]_vars

(* Threads keep running; a child whose peer is gone ends (CloudInstance),  *)
(* one whose peer stays may play for ever.  Peers are not obliged to act.  *)
Fairness ==
  /\ WF_vars(Main)
  /\ \A c \in Clients : /\ WF_vars(Accept(c))
                        /\ WF_vars(Greet(c))
                        /\ WF_vars(Exit(c) /\ peer[c] = "gone")
                        /\ WF_vars(Reap(c))

LiveSpec == Spec /\ Fairness

-----------------------------------------------------------------------------
(* Properties *)

(* The variables hold values of the code's types.                          *)
TypeOK ==
  /\ peer \in [Clients -> {"idle", "dialing", "open", "gone"}]
  /\ queue \in Seq(Event)
  /\ connected \subseteq Clients
  /\ spawned \in Clients \cup {NoClient}
  /\ instance \in [Clients -> {"none", "running", "exited", "reaped"}]
  /\ sockets \in [Clients -> SUBSET (Clients \cup {Server})]
  /\ passable \subseteq Clients
  /\ reply \in [Clients -> Refusals \cup {"none", "Welcome"}]

(* No more than max_concurrent instances run at once, although the list    *)
(* that is counted lags behind the processes in both directions.           *)
SessionLimit == Cardinality(Running) <= MaxConcurrent

(* With --block-dup, an address never plays two sessions at once, not even *)
(* while the end of its last one waits in the queue.                       *)
OneSessionPerIp ==
  BlockDup => \A c, d \in Running : SameIp(c, d) => c = d

(* No slot leaks: an entry of the list has a child whose end will still be *)
(* reported, or was reported in an event that waits in the queue.          *)
Reported(c) == \E i \in 1..Len(queue) : queue[i] = Disconnect(c)

Unfinished(c) == instance[c] \in {"running", "exited"} \/ Reported(c)

NoLeakedSlot == \A c \in connected : Unfinished(c)

(* Why the three above hold.  A client has one event at a time in the      *)
(* queue, in step with its instance; a client that still has an instance   *)
(* or an unread Disconnect is counted, and so is the one being registered. *)
Tenants == connected \cup ({spawned} \ {NoClient})

QueueInv ==
  /\ \A i, j \in 1..Len(queue) :
       queue[i] # Error /\ queue[j] # Error /\ queue[i].client = queue[j].client => i = j
  /\ \A i \in 1..Len(queue) : queue[i] # Error =>
       /\ peer[queue[i].client] \in {"open", "gone"}
       /\ instance[queue[i].client] =
            IF queue[i].type = "Disconnect" THEN "reaped" ELSE "none"
  /\ \A c \in Clients : peer[c] \in {"idle", "dialing"} => instance[c] = "none"

SlotInv ==
  /\ \A c \in Tenants : Unfinished(c)
  /\ spawned \notin connected
  /\ IsFiniteSet(connected)
  /\ Cardinality(connected) <= MaxConcurrent
  /\ spawned # NoClient => Cardinality(connected) < MaxConcurrent

DupInv ==
  BlockDup => /\ \A c \in Clients : Unfinished(c) => c \in Tenants
              /\ \A c, d \in Tenants : SameIp(c, d) => c = d

(* A session's socket is held by its own child alone: no other child       *)
(* inherits it, and once the child has ended the peer sees the close.      *)
SocketOfOwnInstanceOnly ==
  \A c \in Clients :
    /\ sockets[c] \subseteq {Server, c}
    /\ instance[c] = "running" => sockets[c] = {c}
    /\ instance[c] \in {"exited", "reaped"} => sockets[c] = {}

(* Before its instance exists a socket is the server's, or closed again;   *)
(* between two events of the main thread none of them can be inherited.    *)
SocketInv ==
  /\ passable = {}
  /\ SocketOfOwnInstanceOnly
  /\ \A c \in Clients : instance[c] = "none" => sockets[c] \subseteq {Server}

(* The server admits and ends sessions as SessionLimiter allows.           *)
Limiter == INSTANCE SessionLimiter WITH
  playing <- Running,
  ended   <- {c \in Clients : instance[c] \in {"exited", "reaped"}}

ImplementsLimiter == Limiter!Spec

(* A dialled client that stays is told something or its socket is closed;  *)
(* no connection hangs in the server unanswered.                           *)
EveryClientAnswered ==
  \A c \in Clients :
    peer[c] = "dialing" ~> \/ reply[c] # "none"
                           \/ peer[c] # "dialing" /\ sockets[c] = {}
                           \/ peer[c] = "gone"

(* A client that leaves frees its slot.                                    *)
SlotFreed ==
  \A c \in Clients : peer[c] = "gone" ~> [](c \notin connected)
=============================================================================
