------------------------- MODULE CloudServer_proofs -------------------------
(* Proofs about CloudServer, for any set of clients, any addresses, any     *)
(* limit and any number of failed accepts.                                  *)
EXTENDS CloudServer, FiniteSetTheorems, SequenceTheorems, TLAPS

(***************************************************************************)
(* The variables keep their types: the base of every argument below.       *)
(***************************************************************************)
THEOREM TypeCorrect == Spec => []TypeOK
<1> USE MaxConcurrentAssumption, BlockDupAssumption, NoClientAssumption
<1>1. Init => TypeOK
  BY DEF Init, TypeOK
<1>2. TypeOK /\ [Next]_vars => TypeOK'
  <2> SUFFICES ASSUME TypeOK, [Next]_vars PROVE TypeOK'
    OBVIOUS
  <2> USE DEF TypeOK
  <2>e. \A c \in Clients : /\ Connect(c) \in Event
                           /\ Disconnect(c) \in Event
                           /\ \A msg \in Refusals : Blocked(c, msg) \in Event
    BY DEF Connect, Disconnect, Blocked, Event
  <2>r. Error \in Event
    BY DEF Event
  <2>t. queue # <<>> => Tail(queue) \in Seq(Event)
    BY HeadTailProperties
  <2>a. ASSUME NEW e \in Event, NEW q \in Seq(Event) PROVE Append(q, e) \in Seq(Event)
    BY <2>a
  <2>1. ASSUME NEW c \in Clients, Dial(c) \/ Leave(c) PROVE TypeOK'
    BY <2>1 DEF Dial, Leave
  <2>2. ASSUME NEW c \in Clients, Accept(c) PROVE TypeOK'
    BY <2>2, <2>e, <2>a DEF Accept, Server
  <2>3. CASE AcceptError
    BY <2>3, <2>r, <2>a DEF AcceptError
  <2>4. ASSUME NEW c \in Clients, NEW msg \in Refusals, Refuse(c, msg) PROVE TypeOK'
    BY <2>4, <2>e, <2>t, <2>a DEF Refuse, Receive
  <2>5. ASSUME NEW c \in Clients, NEW msg \in Refusals, WriteBlocked(c, msg) PROVE TypeOK'
    BY <2>5, <2>t DEF WriteBlocked, Receive, Drop
  <2>6. ASSUME NEW c \in Clients, FailToRun(c) PROVE TypeOK'
    BY <2>6, <2>t DEF FailToRun, Receive, Drop
  <2>7. ASSUME NEW c \in Clients, Spawn(c) PROVE TypeOK'
    BY <2>7, <2>t DEF Spawn, Receive, Server
  <2>8. CASE Register
    BY <2>8 DEF Register
  <2>9. ASSUME NEW c \in Clients, ClientDisconnected(c) PROVE TypeOK'
    BY <2>9, <2>t DEF ClientDisconnected, Receive
  <2>10. CASE LogError
    BY <2>10, <2>t DEF LogError, Receive
  <2>11. ASSUME NEW c \in Clients, Greet(c) \/ Exit(c) PROVE TypeOK'
    BY <2>11 DEF Greet, Exit
  <2>12. ASSUME NEW c \in Clients, Reap(c) PROVE TypeOK'
    BY <2>12, <2>e, <2>a DEF Reap
  <2>13. CASE UNCHANGED vars
    BY <2>13 DEF vars
  <2> QED
    BY <2>1, <2>2, <2>3, <2>4, <2>5, <2>6, <2>7, <2>8, <2>9, <2>10, <2>11, <2>12, <2>13
       DEF Next, Main
<1> QED
  BY <1>1, <1>2, PTL DEF Spec

-----------------------------------------------------------------------------
(* What the two operations on the channel do to the events in it.           *)
LEMMA SendFacts ==
  ASSUME queue \in Seq(Event), NEW e \in Event, queue' = Append(queue, e)
  PROVE  /\ Len(queue) \in Nat /\ Len(queue') = Len(queue) + 1
         /\ queue'[Len(queue) + 1] = e
         /\ \A i \in 1..Len(queue) : queue'[i] = queue[i]
  BY AppendProperties

LEMMA ReceiveFacts ==
  ASSUME queue \in Seq(Event), queue # <<>>, queue' = Tail(queue)
  PROVE  /\ Len(queue) \in Nat \ {0} /\ Len(queue') = Len(queue) - 1
         /\ Head(queue) = queue[1] /\ queue[1] \in Event
         /\ \A i \in 1..Len(queue') : queue'[i] = queue[i + 1]
  BY HeadTailProperties

(* Refuse receives and sends in one step.                                   *)
LEMMA ForwardFacts ==
  ASSUME queue \in Seq(Event), queue # <<>>, NEW e \in Event,
         queue' = Append(Tail(queue), e)
  PROVE  /\ Len(queue) \in Nat \ {0} /\ Len(queue') = Len(queue)
         /\ Head(queue) = queue[1] /\ queue[1] \in Event
         /\ queue'[Len(queue)] = e
         /\ \A i \in 1..(Len(queue) - 1) : queue'[i] = queue[i + 1]
<1>1. /\ Tail(queue) \in Seq(Event) /\ Len(Tail(queue)) = Len(queue) - 1
      /\ \A i \in 1..Len(Tail(queue)) : Tail(queue)[i] = queue[i + 1]
      /\ Len(queue) \in Nat \ {0} /\ Head(queue) = queue[1] /\ queue[1] \in Event
  BY HeadTailProperties
<1> QED
  BY <1>1, AppendProperties

LEMMA EventTypes ==
  ASSUME NEW c \in Clients
  PROVE  /\ Connect(c) \in Event /\ Connect(c) # Error
         /\ Connect(c).client = c /\ Connect(c).type = "Connect"
         /\ Disconnect(c) \in Event /\ Disconnect(c) # Error
         /\ Disconnect(c).client = c /\ Disconnect(c).type = "Disconnect"
         /\ \A msg \in Refusals :
              /\ Blocked(c, msg) \in Event /\ Blocked(c, msg) # Error
              /\ Blocked(c, msg).client = c /\ Blocked(c, msg).type = "Blocked"
  BY DEF Connect, Disconnect, Blocked, Error, Event

(***************************************************************************)
(* A client never has two events in the channel, and the one it has agrees *)
(* with its instance: Connect and Blocked before it, Disconnect after it.  *)
(***************************************************************************)
THEOREM QueueCorrect == Spec => []QueueInv
<1> USE NoClientAssumption
<1>1. Init => QueueInv
  BY DEF Init, QueueInv
<1>2. TypeOK /\ QueueInv /\ [Next]_vars => QueueInv'
  <2> SUFFICES ASSUME TypeOK, QueueInv, [Next]_vars PROVE QueueInv'
    OBVIOUS
  <2>q. /\ queue \in Seq(Event) /\ peer \in [Clients -> {"idle", "dialing", "open", "gone"}]
        /\ instance \in [Clients -> {"none", "running", "exited", "reaped"}]
        /\ \A i \in 1..Len(queue) : queue[i] \in Event
        /\ \A e \in Event : e # Error => e.client \in Clients
    BY ElementOfSeq DEF TypeOK, Event
  <2> USE DEF QueueInv
  <2>1. ASSUME NEW c \in Clients, Dial(c) \/ Leave(c) PROVE QueueInv'
    BY <2>1, <2>q DEF Dial, Leave
  <2>2. ASSUME NEW c \in Clients, Accept(c) PROVE QueueInv'
    <3>1. queue' = Append(queue, Connect(c)) /\ Connect(c) \in Event
      BY <2>2, EventTypes DEF Accept
    <3>2. /\ Len(queue) \in Nat /\ Len(queue') = Len(queue) + 1
          /\ queue'[Len(queue) + 1] = Connect(c)
          /\ \A i \in 1..Len(queue) : queue'[i] = queue[i]
      BY <3>1, <2>q, SendFacts
    <3>3. \A i \in 1..Len(queue) : queue[i] # Error => queue[i].client # c
      BY <2>2 DEF Accept
    <3> QED
      BY <2>2, <2>q, <3>2, <3>3, EventTypes DEF Accept
  <2>3. CASE AcceptError
    BY <2>3, <2>q, SendFacts, EventTypes DEF AcceptError, Event
  <2>4. ASSUME NEW c \in Clients, NEW msg \in Refusals, Refuse(c, msg) PROVE QueueInv'
    BY <2>4, <2>q, ForwardFacts, EventTypes DEF Refuse, Receive
  <2>5. ASSUME NEW c \in Clients, NEW msg \in Refusals, WriteBlocked(c, msg) PROVE QueueInv'
    BY <2>5, <2>q, ReceiveFacts DEF WriteBlocked, Receive, Drop
  <2>6. ASSUME NEW c \in Clients, FailToRun(c) PROVE QueueInv'
    BY <2>6, <2>q, ReceiveFacts DEF FailToRun, Receive, Drop
  <2>7. ASSUME NEW c \in Clients, Spawn(c) PROVE QueueInv'
    <3>1. queue # <<>> /\ Head(queue) = Connect(c) /\ queue' = Tail(queue)
      BY <2>7 DEF Spawn, Receive
    <3>2. \A i \in 1..Len(queue') : queue'[i] # Error => queue'[i].client # c
      BY <3>1, <2>q, ReceiveFacts, EventTypes
    <3> QED
      BY <2>7, <2>q, <3>1, <3>2, ReceiveFacts, EventTypes DEF Spawn
  <2>8. CASE Register
    BY <2>8, <2>q DEF Register
  <2>9. ASSUME NEW c \in Clients, ClientDisconnected(c) PROVE QueueInv'
    BY <2>9, <2>q, ReceiveFacts DEF ClientDisconnected, Receive
  <2>10. CASE LogError
    BY <2>10, <2>q, ReceiveFacts DEF LogError, Receive
  <2>11. ASSUME NEW c \in Clients, Greet(c) \/ Exit(c) PROVE QueueInv'
    BY <2>11, <2>q DEF Greet, Exit
  <2>12. ASSUME NEW c \in Clients, Reap(c) PROVE QueueInv'
    <3>1. queue' = Append(queue, Disconnect(c)) /\ Disconnect(c) \in Event
      BY <2>12, EventTypes DEF Reap
    <3>2. /\ Len(queue) \in Nat /\ Len(queue') = Len(queue) + 1
          /\ queue'[Len(queue) + 1] = Disconnect(c)
          /\ \A i \in 1..Len(queue) : queue'[i] = queue[i]
      BY <3>1, <2>q, SendFacts
    <3>3. \A i \in 1..Len(queue) : queue[i] # Error => queue[i].client # c
      BY <2>12 DEF Reap
    <3> QED
      BY <2>12, <2>q, <3>2, <3>3, EventTypes DEF Reap
  <2>13. CASE UNCHANGED vars
    BY <2>13, <2>q DEF vars
  <2> QED
    BY <2>1, <2>2, <2>3, <2>4, <2>5, <2>6, <2>7, <2>8, <2>9, <2>10, <2>11, <2>12, <2>13
       DEF Next, Main
<1> QED
  BY <1>1, <1>2, TypeCorrect, PTL DEF Spec
-----------------------------------------------------------------------------
(* How each step changes the set of clients with a Disconnect in the queue. *)
LEMMA SendReports ==
  ASSUME queue \in Seq(Event), NEW e \in Event, queue' = Append(queue, e)
  PROVE  \A c \in Clients : Reported(c)' <=> Reported(c) \/ e = Disconnect(c)
  BY SendFacts DEF Reported, Disconnect

LEMMA ReceiveReports ==
  ASSUME queue \in Seq(Event), queue # <<>>, queue' = Tail(queue)
  PROVE  \A c \in Clients : /\ Reported(c)' => Reported(c)
                            /\ Reported(c) => Reported(c)' \/ Head(queue) = Disconnect(c)
<1> SUFFICES ASSUME NEW c \in Clients
             PROVE  /\ Reported(c)' => Reported(c)
                    /\ Reported(c) => Reported(c)' \/ Head(queue) = Disconnect(c)
  OBVIOUS
<1>1. ASSUME NEW i \in 1..Len(queue), queue[i] = Disconnect(c), i # 1
      PROVE  i - 1 \in 1..Len(queue') /\ queue'[i - 1] = Disconnect(c)
  BY <1>1, ReceiveFacts
<1>2. Reported(c)' => Reported(c)
  BY ReceiveFacts DEF Reported, Disconnect
<1> QED
  BY <1>1, <1>2, ReceiveFacts DEF Reported, Disconnect

LEMMA ForwardReports ==
  ASSUME queue \in Seq(Event), queue # <<>>, NEW e \in Event,
         queue' = Append(Tail(queue), e),
         \A c \in Clients : Head(queue) # Disconnect(c) /\ e # Disconnect(c)
  PROVE  \A c \in Clients : Reported(c)' <=> Reported(c)
<1> SUFFICES ASSUME NEW c \in Clients PROVE Reported(c)' <=> Reported(c)
  OBVIOUS
<1>1. ASSUME NEW i \in 1..Len(queue), queue[i] = Disconnect(c)
      PROVE  i - 1 \in 1..Len(queue') /\ queue'[i - 1] = Disconnect(c)
  BY <1>1, ForwardFacts
<1>2. ASSUME NEW i \in 1..Len(queue'), queue'[i] = Disconnect(c)
      PROVE  i + 1 \in 1..Len(queue) /\ queue[i + 1] = Disconnect(c)
  BY <1>2, ForwardFacts
<1> QED
  BY <1>1, <1>2 DEF Reported, Disconnect

(* The kinds of events differ.                                              *)
LEMMA EventKinds ==
  ASSUME NEW c \in Clients, NEW d \in Clients
  PROVE  /\ Connect(c) # Disconnect(d) /\ Error # Disconnect(d)
         /\ \A msg \in Refusals : Blocked(c, msg) # Disconnect(d)
         /\ Disconnect(c) = Disconnect(d) => c = d
  BY DEF Connect, Disconnect, Blocked, Error

(***************************************************************************)
(* Every counted client is unfinished, and there are at most max_concurrent *)
(* of them.  A step changes who is unfinished only in Spawn and at the      *)
(* client of the Disconnect that is read.                                   *)
(***************************************************************************)
LEMMA UnfinishedStep ==
  ASSUME TypeOK, QueueInv, [Next]_vars
  PROVE  \A d \in Clients :
           /\ Unfinished(d) => Unfinished(d)' \/ ClientDisconnected(d)
           /\ Unfinished(d)' => Unfinished(d) \/ Spawn(d)
<1>q. /\ queue \in Seq(Event)
      /\ instance \in [Clients -> {"none", "running", "exited", "reaped"}]
  BY DEF TypeOK
<1> USE DEF Unfinished
<1> DEFINE Goal == \A d \in Clients :
             /\ Unfinished(d) => Unfinished(d)' \/ ClientDisconnected(d)
             /\ Unfinished(d)' => Unfinished(d) \/ Spawn(d)
<1>1. ASSUME UNCHANGED <<queue, instance>> PROVE Goal
  BY <1>1 DEF Reported
<1>2. ASSUME NEW c \in Clients, Accept(c) PROVE Goal
  BY <1>2, <1>q, SendReports, EventTypes, EventKinds DEF Accept
<1>3. CASE AcceptError
  <2>1. Error \in Event /\ queue' = Append(queue, Error) /\ instance' = instance
    BY <1>3 DEF AcceptError, Event
  <2> QED
    BY <2>1, <1>q, SendReports, EventKinds
<1>4. ASSUME NEW c \in Clients, NEW msg \in Refusals, Refuse(c, msg) PROVE Goal
  <2>1. /\ queue # <<>> /\ Head(queue) = Connect(c) /\ instance' = instance
        /\ queue' = Append(Tail(queue), Blocked(c, msg)) /\ Blocked(c, msg) \in Event
    BY <1>4, EventTypes DEF Refuse, Receive
  <2>2. \A d \in Clients : Reported(d)' <=> Reported(d)
    BY <2>1, <1>q, EventKinds, ForwardReports
  <2> QED
    BY <2>1, <2>2
<1>5. ASSUME NEW c \in Clients, NEW msg \in Refusals, WriteBlocked(c, msg) PROVE Goal
  BY <1>5, <1>q, ReceiveReports, EventKinds DEF WriteBlocked, Receive
<1>6. ASSUME NEW c \in Clients, FailToRun(c) PROVE Goal
  BY <1>6, <1>q, ReceiveReports, EventKinds DEF FailToRun, Receive
<1>7. ASSUME NEW c \in Clients, Spawn(c) PROVE Goal
  <2>1. /\ queue # <<>> /\ Head(queue) = Connect(c) /\ queue' = Tail(queue)
        /\ instance' = [instance EXCEPT ![c] = "running"]
    BY <1>7 DEF Spawn, Receive
  <2>2. \A d \in Clients : Reported(d)' <=> Reported(d)
    BY <2>1, <1>q, EventKinds, ReceiveReports
  <2> QED
    BY <1>7, <1>q, <2>1, <2>2
<1>8. ASSUME NEW c \in Clients, ClientDisconnected(c) PROVE Goal
  <2>1. /\ queue # <<>> /\ Head(queue) = Disconnect(c) /\ queue' = Tail(queue)
        /\ instance' = instance
    BY <1>8 DEF ClientDisconnected, Receive
  <2> QED
    BY <1>8, <1>q, <2>1, EventKinds, ReceiveReports
<1>9. CASE LogError
  BY <1>9, <1>q, ReceiveReports, EventKinds DEF LogError, Receive
<1>10. ASSUME NEW c \in Clients, Exit(c) PROVE Goal
  BY <1>10, <1>q DEF Exit, Reported
<1>11. ASSUME NEW c \in Clients, Reap(c) PROVE Goal
  <2>1. /\ instance[c] = "exited" /\ instance' = [instance EXCEPT ![c] = "reaped"]
        /\ queue' = Append(queue, Disconnect(c)) /\ Disconnect(c) \in Event
    BY <1>11, EventTypes DEF Reap
  <2>2. \A d \in Clients : Reported(d)' <=> Reported(d) \/ d = c
    BY <2>1, <1>q, EventKinds, SendReports
  <2> QED
    BY <1>q, <2>1, <2>2
<1>12. ASSUME NEW c \in Clients, Dial(c) \/ Leave(c) \/ Greet(c) PROVE Goal
  BY <1>12, <1>1 DEF Dial, Leave, Greet
<1>13. CASE Register
  BY <1>13, <1>1 DEF Register
<1>14. CASE UNCHANGED vars
  BY <1>14, <1>1 DEF vars
<1> QED
  BY <1>2, <1>3, <1>4, <1>5, <1>6, <1>7, <1>8, <1>9, <1>10, <1>11, <1>12, <1>13, <1>14
     DEF Next, Main

(* Who is in the list of clients has a session that is not yet forgotten,  *)
(* and the list has room for the one that is about to be registered.       *)
THEOREM SlotsCorrect == Spec => []SlotInv
<1> USE NoClientAssumption, MaxConcurrentAssumption
<1>1. Init => SlotInv
  BY FS_EmptySet DEF Init, SlotInv, Tenants
<1>2. TypeOK /\ QueueInv /\ SlotInv /\ [Next]_vars => SlotInv'
  <2> SUFFICES ASSUME TypeOK, QueueInv, SlotInv, [Next]_vars PROVE SlotInv'
    OBVIOUS
  <2>t. connected \subseteq Clients /\ spawned \in Clients \cup {NoClient}
    BY DEF TypeOK
  <2>n. IsFiniteSet(connected) /\ Cardinality(connected) \in Nat
    BY FS_CardinalityType DEF SlotInv
  <2>1. ASSUME UNCHANGED <<connected, spawned>>, \A d \in Clients : ~ClientDisconnected(d)
        PROVE  SlotInv'
    BY <2>1, <2>t, UnfinishedStep DEF SlotInv, Tenants
  <2>2. ASSUME NEW c \in Clients, Spawn(c) PROVE SlotInv'
    <3>1. /\ spawned = NoClient /\ spawned' = c /\ connected' = connected
          /\ queue # <<>> /\ Head(queue) = Connect(c) /\ queue' = Tail(queue)
          /\ instance' = [instance EXCEPT ![c] = "running"]
          /\ ~Full
      BY <2>2 DEF Spawn, Receive
    <3>2. \A d \in Clients : ~ClientDisconnected(d)
      BY <3>1, EventKinds DEF ClientDisconnected, Receive
    <3>3. c \notin connected
      <4>1. queue[1] = Connect(c) /\ 1 \in 1..Len(queue)
        BY <3>1, ReceiveFacts DEF TypeOK
      <4>2. instance[c] = "none"
        BY <4>1, EventTypes DEF QueueInv
      <4>3. ~Reported(c)
        BY <4>2, EventTypes DEF QueueInv, Reported
      <4> QED
        BY <4>2, <4>3 DEF SlotInv, Tenants, Unfinished
    <3>4. Unfinished(c)'
      BY <3>1 DEF Unfinished, TypeOK
    <3>5. Cardinality(connected) < MaxConcurrent
      BY <3>1, <2>n DEF Full
    <3> QED
      BY <3>1, <3>2, <3>3, <3>4, <3>5, <2>t, UnfinishedStep DEF SlotInv, Tenants
  <2>3. CASE Register
    <3>1. /\ spawned \in Clients /\ connected' = connected \cup {spawned}
          /\ spawned' = NoClient /\ UNCHANGED <<queue, instance>>
      BY <2>3, <2>t DEF Register
    <3>2. IsFiniteSet(connected') /\ Cardinality(connected') = Cardinality(connected) + 1
      BY <3>1, <2>n, FS_AddElement DEF SlotInv
    <3>3. \A d \in Clients : Unfinished(d)' <=> Unfinished(d)
      BY <3>1 DEF Unfinished, Reported
    <3> QED
      BY <3>1, <3>2, <3>3, <2>t, <2>n DEF SlotInv, Tenants
  <2>4. ASSUME NEW c \in Clients, ClientDisconnected(c) PROVE SlotInv'
    <3>1. /\ spawned = NoClient /\ spawned' = NoClient
          /\ connected' = {d \in connected : ~SameIp(c, d)}
          /\ Head(queue) = Disconnect(c)
      BY <2>4 DEF ClientDisconnected, Receive
    <3>2. IsFiniteSet(connected') /\ Cardinality(connected') <= Cardinality(connected)
      BY <3>1, <2>n, FS_Subset
    <3>3. \A d \in connected' : ~ClientDisconnected(d)
      BY <3>1, <2>t, EventKinds DEF ClientDisconnected, Receive, SameIp
    <3>4. Cardinality(connected') \in Nat
      BY <3>2, FS_CardinalityType
    <3> QED
      BY <3>1, <3>2, <3>3, <3>4, <2>t, <2>n, UnfinishedStep DEF SlotInv, Tenants
  <2>5. ASSUME \A c \in Clients : ~Spawn(c) /\ ~ClientDisconnected(c), ~Register
        PROVE  UNCHANGED <<connected, spawned>>
    BY <2>5 DEF Next, Main, vars, Dial, Leave, Accept, AcceptError, Refuse, WriteBlocked,
                FailToRun, LogError, Greet, Exit, Reap
  <2> QED
    BY <2>1, <2>2, <2>3, <2>4, <2>5
<1> QED
  BY <1>1, <1>2, TypeCorrect, QueueCorrect, PTL DEF Spec

(***************************************************************************)
(* No slot leaks, whatever the settings.                                   *)
(***************************************************************************)
THEOREM NoSlotLeaks == Spec => []NoLeakedSlot
<1>1. SlotInv => NoLeakedSlot
  BY DEF SlotInv, NoLeakedSlot, Tenants
<1> QED
  BY <1>1, SlotsCorrect, PTL

(***************************************************************************)
(* With --block-dup everyone with a session is counted, and counted once   *)
(* per address: removing an address then removes that one client.          *)
(***************************************************************************)
THEOREM DuplicatesBlocked == Spec => []DupInv
<1> USE NoClientAssumption
<1>1. Init => DupInv
  BY DEF Init, DupInv, Tenants, Unfinished, Reported
<1>2. TypeOK /\ QueueInv /\ DupInv /\ [Next]_vars => DupInv'
  <2> SUFFICES ASSUME TypeOK, QueueInv, DupInv, [Next]_vars, BlockDup PROVE DupInv'
    BY DEF DupInv
  <2>t. connected \subseteq Clients /\ spawned \in Clients \cup {NoClient}
    BY DEF TypeOK
  <2>1. ASSUME UNCHANGED <<connected, spawned>>, \A d \in Clients : ~Spawn(d)
        PROVE  DupInv'
    BY <2>1, UnfinishedStep DEF DupInv, Tenants, SameIp
  <2>2. ASSUME NEW c \in Clients, Spawn(c) PROVE DupInv'
    <3>1. /\ spawned = NoClient /\ spawned' = c /\ connected' = connected /\ ~Duplicate(c)
      BY <2>2 DEF Spawn, Receive
    <3>2. \A d \in connected : ~SameIp(c, d) /\ ~SameIp(d, c)
      BY <3>1 DEF Duplicate, SameIp
    <3>3. \A d \in Clients : Spawn(d) => d = c
      BY <3>1 DEF Spawn
    <3> QED
      BY <3>1, <3>2, <3>3, UnfinishedStep DEF DupInv, Tenants, SameIp
  <2>3. CASE Register
    <3>1. /\ Tenants' = Tenants /\ \A d \in Clients : Unfinished(d)' <=> Unfinished(d)
      BY <2>3, <2>t DEF Register, Tenants, Unfinished, Reported
    <3> QED
      BY <3>1 DEF DupInv, SameIp
  <2>4. ASSUME NEW c \in Clients, ClientDisconnected(c) PROVE DupInv'
    <3>1. /\ spawned = NoClient /\ spawned' = NoClient
          /\ connected' = {d \in connected : ~SameIp(c, d)}
          /\ queue # <<>> /\ Head(queue) = Disconnect(c) /\ queue' = Tail(queue)
          /\ instance' = instance
      BY <2>4 DEF ClientDisconnected, Receive
    <3>2. /\ queue[1] = Disconnect(c) /\ 1 \in 1..Len(queue)
          /\ \A i \in 1..Len(queue') : queue'[i] = queue[i + 1] /\ i + 1 \in 1..Len(queue)
      BY <3>1, ReceiveFacts DEF TypeOK
    <3>3. c \in connected
      BY <3>1, <3>2, <2>t DEF DupInv, Tenants, Unfinished, Reported
    <3>4. ~Unfinished(c)'
      <4>1. instance[c] = "reaped"
        BY <3>2, EventTypes DEF QueueInv
      <4>2. \A i \in 1..Len(queue') : queue'[i] # Disconnect(c)
        BY <3>2, EventTypes DEF QueueInv
      <4> QED
        BY <3>1, <4>1, <4>2 DEF Unfinished, Reported, Disconnect
    <3>5. \A d \in Clients : ~Spawn(d)
      BY <3>1, EventKinds DEF Spawn, Receive
    <3>6. ASSUME NEW d \in Clients, Unfinished(d)' PROVE d \in connected'
      <4>1. d \in connected
        BY <3>5, <3>6, <3>1, UnfinishedStep DEF DupInv, Tenants
      <4>2. d # c
        BY <3>6, <3>4
      <4> QED
        BY <4>1, <4>2, <3>1, <3>3 DEF DupInv, Tenants
    <3> QED
      BY <3>1, <3>6 DEF DupInv, Tenants, SameIp
  <2>5. ASSUME \A c \in Clients : ~Spawn(c) /\ ~ClientDisconnected(c), ~Register
        PROVE  UNCHANGED <<connected, spawned>>
    BY <2>5 DEF Next, Main, vars, Dial, Leave, Accept, AcceptError, Refuse, WriteBlocked,
                FailToRun, LogError, Greet, Exit, Reap
  <2> QED
    BY <2>1, <2>2, <2>3, <2>4, <2>5
<1> QED
  BY <1>1, <1>2, TypeCorrect, QueueCorrect, PTL DEF Spec

-----------------------------------------------------------------------------
(* With duplicates blocked, running instances are among the counted ones.   *)
LEMMA RunningBound ==
  ASSUME TypeOK, SlotInv, DupInv, BlockDup
  PROVE  /\ Running \subseteq Tenants /\ IsFiniteSet(Running)
         /\ Cardinality(Running) \in Nat
         /\ Cardinality(Running) <= MaxConcurrent
         /\ spawned = NoClient => Cardinality(Running) <= Cardinality(connected)
<1> USE MaxConcurrentAssumption, NoClientAssumption
<1>1. Running \subseteq Tenants
  BY DEF Running, DupInv, Unfinished
<1>2. IsFiniteSet(connected) /\ Cardinality(connected) \in Nat
  BY FS_CardinalityType DEF SlotInv
<1>3. IsFiniteSet(Tenants) /\ Cardinality(Tenants) <= MaxConcurrent
      /\ (spawned = NoClient => Tenants = connected)
  <2>1. CASE spawned = NoClient
    <3>1. Tenants = connected
      BY <2>1 DEF Tenants
    <3> QED
      BY <2>1, <3>1, <1>2 DEF SlotInv
  <2>2. CASE spawned # NoClient
    <3>1. Tenants = connected \cup {spawned}
      BY <2>2 DEF Tenants
    <3>2. IsFiniteSet(Tenants) /\ Cardinality(Tenants) = Cardinality(connected) + 1
      BY <3>1, <1>2, FS_AddElement DEF SlotInv
    <3> QED
      BY <2>2, <3>2, <1>2 DEF SlotInv
  <2> QED
    BY <2>1, <2>2
<1>4. IsFiniteSet(Running) /\ Cardinality(Running) <= Cardinality(Tenants)
  BY <1>1, <1>3, FS_Subset
<1>5. Cardinality(Running) \in Nat /\ Cardinality(Tenants) \in Nat
  BY <1>3, <1>4, FS_CardinalityType
<1> QED
  BY <1>1, <1>3, <1>4, <1>5

(***************************************************************************)
(* With --block-dup, no more than max_concurrent instances ever run.       *)
(***************************************************************************)
THEOREM SessionLimitHolds ==
  ASSUME BlockDup
  PROVE  Spec => []SessionLimit
<1>1. TypeOK /\ SlotInv /\ DupInv => SessionLimit
  BY RunningBound DEF SessionLimit
<1> QED
  BY <1>1, TypeCorrect, SlotsCorrect, DuplicatesBlocked, PTL

(***************************************************************************)
(* With --block-dup, no address plays two sessions at a time.              *)
(***************************************************************************)
THEOREM OneSessionPerIpHolds == Spec => []OneSessionPerIp
<1>1. DupInv => OneSessionPerIp
  BY DEF DupInv, OneSessionPerIp, Running, Unfinished
<1> QED
  BY <1>1, DuplicatesBlocked, PTL

(***************************************************************************)
(* No child inherits another session's socket, and the socket of a session *)
(* that is over is closed everywhere.                                      *)
(***************************************************************************)
THEOREM SocketsCorrect == Spec => []SocketInv
<1> USE NoClientAssumption DEF SocketInv, SocketOfOwnInstanceOnly, Server
<1>1. Init => SocketInv
  BY DEF Init
<1>2. TypeOK /\ QueueInv /\ SocketInv /\ [Next]_vars => SocketInv'
  <2> SUFFICES ASSUME TypeOK, QueueInv, SocketInv, [Next]_vars PROVE SocketInv'
    OBVIOUS
  <2>t. /\ instance \in [Clients -> {"none", "running", "exited", "reaped"}]
        /\ sockets \in [Clients -> SUBSET (Clients \cup {NoClient})]
    BY DEF TypeOK, Server
  <2>h. ASSUME NEW c \in Clients, NEW e \in Event, Receive(e), e # Error,
               e.type # "Disconnect", e.client = c
        PROVE  instance[c] = "none"
    <3>1. queue[1] = e /\ 1 \in 1..Len(queue)
      BY <2>h, HeadTailProperties DEF Receive, TypeOK
    <3> QED
      BY <2>h, <3>1 DEF QueueInv
  <2>1. ASSUME UNCHANGED <<instance, sockets, passable>> PROVE SocketInv'
    BY <2>1
  <2>2. ASSUME NEW c \in Clients, Accept(c) PROVE SocketInv'
    BY <2>2, <2>t DEF Accept, QueueInv
  <2>3. ASSUME NEW c \in Clients, NEW msg \in Refusals, WriteBlocked(c, msg) PROVE SocketInv'
    <3>1. instance[c] = "none"
      BY <2>3, <2>h, EventTypes DEF WriteBlocked
    <3> QED
      BY <2>3, <2>t, <3>1 DEF WriteBlocked, Drop
  <2>4. ASSUME NEW c \in Clients, FailToRun(c) PROVE SocketInv'
    <3>1. instance[c] = "none"
      BY <2>4, <2>h, EventTypes DEF FailToRun
    <3> QED
      BY <2>4, <2>t, <3>1 DEF FailToRun, Drop
  <2>5. ASSUME NEW c \in Clients, Spawn(c) PROVE SocketInv'
    <3>1. instance[c] = "none"
      BY <2>5, <2>h, EventTypes DEF Spawn
    <3> QED
      BY <2>5, <2>t, <3>1 DEF Spawn
  <2>6. ASSUME NEW c \in Clients, Exit(c) PROVE SocketInv'
    BY <2>6, <2>t DEF Exit
  <2>7. ASSUME NEW c \in Clients, Reap(c) PROVE SocketInv'
    BY <2>7, <2>t DEF Reap
  <2>8. ASSUME \A c \in Clients : /\ ~Accept(c) /\ ~FailToRun(c) /\ ~Spawn(c)
                                  /\ ~Exit(c) /\ ~Reap(c)
                                  /\ \A msg \in Refusals : ~WriteBlocked(c, msg)
        PROVE  UNCHANGED <<instance, sockets, passable>>
    BY <2>8 DEF Next, Main, vars, Dial, Leave, AcceptError, Refuse, ClientDisconnected,
                Register, LogError, Greet
  <2> QED
    BY <2>1, <2>2, <2>3, <2>4, <2>5, <2>6, <2>7, <2>8
<1> QED
  BY <1>1, <1>2, TypeCorrect, QueueCorrect, PTL DEF Spec

(* No child inherits the socket of another player's session: what          *)
(* process.rs makes inheritable is closed before the next event.           *)
THEOREM SocketsOwned == Spec => []SocketOfOwnInstanceOnly
<1>1. SocketInv => SocketOfOwnInstanceOnly
  BY DEF SocketInv
<1> QED
  BY <1>1, SocketsCorrect, PTL

(***************************************************************************)
(* With --block-dup the server implements SessionLimiter: a Spawn admits,  *)
(* the end of a child ends a session, every other step stutters.           *)
(***************************************************************************)
THEOREM LimiterImplemented ==
  ASSUME BlockDup
  PROVE  Spec => ImplementsLimiter
<1> USE NoClientAssumption, MaxConcurrentAssumption
<1> DEFINE over == {c \in Clients : instance[c] \in {"exited", "reaped"}}
<1>1. Init => Limiter!Init
  BY DEF Init, Limiter!Init, Running
<1>2. TypeOK /\ QueueInv /\ SlotInv /\ DupInv /\ [Next]_vars => [Limiter!Next]_Limiter!vars
  <2> SUFFICES ASSUME TypeOK, QueueInv, SlotInv, DupInv, [Next]_vars
               PROVE  Limiter!Next \/ UNCHANGED <<Running, over>>
    BY DEF Limiter!vars
  <2>t. instance \in [Clients -> {"none", "running", "exited", "reaped"}]
    BY DEF TypeOK
  <2>1. ASSUME NEW c \in Clients, Spawn(c) PROVE Limiter!Admit(c)
    <3>1. /\ spawned = NoClient /\ queue # <<>> /\ Head(queue) = Connect(c)
          /\ ~Full /\ ~Duplicate(c) /\ instance' = [instance EXCEPT ![c] = "running"]
      BY <2>1 DEF Spawn, Receive
    <3>2. instance[c] = "none"
      <4>1. queue[1] = Connect(c) /\ 1 \in 1..Len(queue)
        BY <3>1, HeadTailProperties DEF TypeOK
      <4> QED
        BY <4>1, EventTypes DEF QueueInv
    <3>3. Running' = Running \cup {c} /\ over' = over
      BY <2>t, <3>1, <3>2 DEF Running
    <3>4. c \notin Running /\ c \notin over
      BY <3>2 DEF Running
    <3>5. Cardinality(Running) < MaxConcurrent
      <4>1. Cardinality(connected) \in Nat /\ Cardinality(connected) < MaxConcurrent
        BY <3>1, FS_CardinalityType DEF SlotInv, Full
      <4> QED
        BY <4>1, <3>1, RunningBound
    <3>6. \A d \in Running : IpOf[d] # IpOf[c]
      <4>1. Running \subseteq connected
        BY <3>1, RunningBound DEF Tenants
      <4> QED
        BY <4>1, <3>1 DEF Duplicate, SameIp
    <3>7. Limiter!Cardinality(Running) = Cardinality(Running)
      BY DEF Cardinality, Limiter!Cardinality
    <3> QED
      BY <3>3, <3>4, <3>5, <3>6, <3>7 DEF Limiter!Admit
  <2>2. ASSUME NEW c \in Clients, Exit(c) PROVE Limiter!End(c)
    BY <2>2, <2>t DEF Exit, Limiter!End, Running
  <2>3. ASSUME NEW c \in Clients, Reap(c) PROVE UNCHANGED <<Running, over>>
    BY <2>3, <2>t DEF Reap, Running
  <2>4. ASSUME \A c \in Clients : ~Spawn(c) /\ ~Exit(c) /\ ~Reap(c)
        PROVE  UNCHANGED <<Running, over>>
    <3>1. instance' = instance
      BY <2>4 DEF Next, Main, vars, Dial, Leave, Accept, AcceptError, Refuse, WriteBlocked,
                  FailToRun, Register, ClientDisconnected, LogError, Greet
    <3> QED
      BY <3>1 DEF Running
  <2> QED
    BY <2>1, <2>2, <2>3, <2>4 DEF Limiter!Next
<1> QED
  BY <1>1, <1>2, TypeCorrect, QueueCorrect, SlotsCorrect, DuplicatesBlocked, PTL
     DEF Spec, ImplementsLimiter, Limiter!Spec
=============================================================================
