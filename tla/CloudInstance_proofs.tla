------------------------- MODULE CloudInstance_proofs -------------------------
(***************************************************************************)
(* One game session, for any number of bytes typed, any limit on what is   *)
(* transmitted and any send buffer.                                        *)
(***************************************************************************)
EXTENDS CloudInstance, TLAPS

(* The threads start together, when the player has pressed a key.          *)
StartInv ==
  /\ main \in {"greet", "key", "key2"} => emu = "off" /\ recv = "off"
  /\ emu = "off" => transmitted = 0 /\ ~dead /\ ~cut

(* A frame is only rendered by a session that is alive and below its       *)
(* limit; the frame that reaches the limit kills it.                       *)
FrameInv ==
  /\ emu \in {"render", "write"} => ~dead /\ ~cut /\ transmitted < TxLimit
  /\ emu = "poll" => transmitted < TxLimit \/ (transmitted = TxLimit /\ dead)
  /\ emu = "done" => transmitted <= TxLimit

(* The emulation dies of the limit or a failed write, or of having nothing *)
(* left to play.                                                           *)
EndInv ==
  /\ emu = "poll" => (dead <=> cut)
  /\ emu = "done" /\ ~cut => recv = "done" /\ chan = 0 /\ ~pending

SessionInv == TypeOK /\ StartInv /\ FrameInv /\ EndInv

LEMMA SessionInit == Init => SessionInv
<1> SUFFICES ASSUME Init PROVE SessionInv
  OBVIOUS
<1>1. TypeOK
  <2>1. 0 \in 0..MaxBytes /\ 0 \in 0..SendBuffer /\ 0 \in Nat
    BY BoundsAssumption
  <2>2. QED
    BY <2>1, Zenon DEF Init, TypeOK
<1>2. StartInv /\ FrameInv /\ EndInv
  BY DEF Init, StartInv, FrameInv, EndInv
<1>3. QED
  BY <1>1, <1>2 DEF SessionInv

-----------------------------------------------------------------------------
(* The player and main().                                                  *)

LEMMA WriteKeepsType ==
  ASSUME TypeOK, NEW ok \in BOOLEAN, Write(ok)
  PROVE  outbox' \in 0..SendBuffer
BY BoundsAssumption DEF TypeOK, Write

LEMMA PeerKeeps == SessionInv /\ (PeerTypes \/ PeerReads \/ PeerLeaves) => SessionInv'
<1> SUFFICES ASSUME SessionInv, PeerTypes \/ PeerReads \/ PeerLeaves
             PROVE  SessionInv'
  OBVIOUS
<1>1. UNCHANGED <<main, recv, emu, chan, host, code>>
  BY DEF PeerTypes, PeerReads, PeerLeaves
<1>2. /\ peer' \in {"open", "gone"} /\ typed' \in 0..MaxBytes
      /\ inbox' \in Nat /\ outbox' \in 0..SendBuffer
  BY BoundsAssumption DEF SessionInv, TypeOK, PeerTypes, PeerReads, PeerLeaves
<1>3. QED
  BY <1>1, <1>2 DEF SessionInv, TypeOK, StartInv, FrameInv, EndInv, host

LEMMA GreetKeeps == SessionInv /\ Greet => SessionInv'
<1> SUFFICES ASSUME SessionInv, Greet PROVE SessionInv'
  OBVIOUS
<1>1. outbox' \in 0..SendBuffer
  BY WriteKeepsType DEF SessionInv, Greet
<1>2. /\ main = "greet" /\ UNCHANGED <<peer, typed, inbox, recv, emu, chan, host>>
      /\ \/ main' = "key" /\ UNCHANGED code
         \/ main' = "done" /\ code' = "error"
  BY DEF Greet, Exit
<1>3. QED
  BY <1>1, <1>2 DEF SessionInv, TypeOK, StartInv, FrameInv, EndInv, host

LEMMA AnyKeyKeeps == SessionInv /\ AnyKey => SessionInv'
<1> SUFFICES ASSUME SessionInv, AnyKey PROVE SessionInv'
  OBVIOUS
<1>1. /\ main \in {"key", "key2"}
      /\ UNCHANGED <<peer, typed, outbox, chan, host>>
      /\ inbox' \in Nat
  BY DEF AnyKey, TakeByte, ReadFails, SessionInv, TypeOK
<1>2. emu = "off" /\ recv = "off" /\ transmitted = 0 /\ ~dead /\ ~cut
  BY <1>1 DEF SessionInv, StartInv
<1>3. \/ main' = "key2" /\ UNCHANGED <<recv, emu, code>>
      \/ main' = "join" /\ recv' = "read" /\ emu' = "render" /\ UNCHANGED code
      \/ main' = "done" /\ code' = "error" /\ UNCHANGED <<recv, emu>>
  BY DEF AnyKey, Start, Exit
<1>4. QED
  BY <1>1, <1>2, <1>3, BoundsAssumption
     DEF SessionInv, TypeOK, StartInv, FrameInv, EndInv, host

LEMMA JoinKeeps == SessionInv /\ Join => SessionInv'
BY DEF Join, Exit, SessionInv, TypeOK, StartInv, FrameInv, EndInv, socket, host

-----------------------------------------------------------------------------
(* The threads.                                                            *)

LEMMA RecvKeeps == SessionInv /\ (RecvRead \/ RecvSend) => SessionInv'
<1>1. SessionInv /\ RecvRead => SessionInv'
  BY DEF RecvRead, TakeByte, ReadFails,
         SessionInv, TypeOK, StartInv, FrameInv, EndInv, host
<1>2. SessionInv /\ RecvSend => SessionInv'
  BY DEF RecvSend, Exit,
         SessionInv, TypeOK, StartInv, FrameInv, EndInv, socket, host
<1>3. QED
  BY <1>1, <1>2

LEMMA RenderKeeps == SessionInv /\ Render => SessionInv'
BY DEF Render, SessionInv, TypeOK, StartInv, FrameInv, EndInv, socket, host

(* The frame that reaches the limit is the last, and a failed write too.   *)
LEMMA SendFrameKeeps == SessionInv /\ SendFrame => SessionInv'
<1> SUFFICES ASSUME SessionInv, SendFrame PROVE SessionInv'
  OBVIOUS
<1>1. /\ emu = "write" /\ emu' = "poll"
      /\ UNCHANGED <<peer, typed, inbox, main, recv, chan, pending, code>>
  BY DEF SendFrame
<1>2. transmitted \in Nat /\ transmitted < TxLimit /\ TxLimit \in Nat
  BY <1>1, BoundsAssumption DEF SessionInv, TypeOK, FrameInv
<1>3. main \notin {"greet", "key", "key2"}
  BY <1>1 DEF SessionInv, StartInv
<1>4. PICK ok \in BOOLEAN :
        /\ Write(ok) /\ transmitted' = transmitted + 1
        /\ dead' = (~ok \/ Limit(transmitted')) /\ cut' = dead'
  BY DEF SendFrame
<1>5. outbox' \in 0..SendBuffer
  BY <1>4, WriteKeepsType DEF SessionInv
<1>6. dead' \in BOOLEAN /\ cut' \in BOOLEAN /\ (dead' <=> cut')
  BY <1>4, Zenon
<1>7. Limit(transmitted') => dead'
  BY <1>4, Zenon
<1>8. transmitted' < TxLimit \/ (transmitted' = TxLimit /\ dead')
  BY <1>2, <1>4, <1>7 DEF Limit
<1>9. TypeOK'
  BY <1>1, <1>2, <1>4, <1>5, <1>6 DEF SessionInv, TypeOK
<1>10. QED
  BY <1>1, <1>3, <1>6, <1>8, <1>9 DEF SessionInv, StartInv, FrameInv, EndInv

LEMMA PollKeeps == SessionInv /\ PollEvents => SessionInv'
<1> SUFFICES ASSUME SessionInv, PollEvents PROVE SessionInv'
  OBVIOUS
<1>1. /\ emu = "poll" /\ emu' = IF dead' THEN "done" ELSE "render"
      /\ UNCHANGED <<socket, main, recv, cut, transmitted, code>>
  BY DEF PollEvents
<1>2. main \notin {"greet", "key", "key2"}
  BY <1>1 DEF SessionInv, StartInv
<1>3. \/ /\ pending /\ pending' = FALSE /\ UNCHANGED <<chan, dead>>
      \/ /\ chan > 0 /\ chan' = chan - 1 /\ pending' \in BOOLEAN /\ UNCHANGED dead
      \/ /\ ~pending /\ chan = 0 /\ UNCHANGED <<chan, pending>>
         /\ dead' = (dead \/ recv = "done")
  BY DEF PollEvents
<1>4. chan \in Nat /\ pending \in BOOLEAN /\ dead \in BOOLEAN
  BY DEF SessionInv, TypeOK
<1>5. chan' \in Nat /\ pending' \in BOOLEAN /\ dead' \in BOOLEAN
  <2>1. chan' \in Nat
    BY <1>3, <1>4
  <2>2. pending' \in BOOLEAN /\ dead' \in BOOLEAN
    BY <1>3, <1>4, Zenon
  <2>3. QED
    BY <2>1, <2>2
<1>6. (dead => dead') /\ (dead' => dead \/ (recv = "done" /\ chan' = 0 /\ ~pending'))
  <2>1. CASE UNCHANGED dead
    BY <2>1
  <2>2. CASE /\ ~pending /\ chan = 0 /\ UNCHANGED <<chan, pending>>
             /\ dead' = (dead \/ recv = "done")
    BY <2>2
  <2>3. QED
    BY <1>3, <2>1, <2>2
<1>7. dead <=> cut
  BY <1>1 DEF SessionInv, EndInv
<1>8. transmitted \in Nat /\ TxLimit \in Nat
      /\ (transmitted < TxLimit \/ (transmitted = TxLimit /\ dead))
  BY <1>1, BoundsAssumption DEF SessionInv, TypeOK, FrameInv
<1>9. TypeOK'
  BY <1>1, <1>5 DEF SessionInv, TypeOK, socket
<1>10. QED
  BY <1>1, <1>2, <1>6, <1>7, <1>8, <1>9 DEF SessionInv, StartInv, FrameInv, EndInv

LEMMA PanicKeeps == SessionInv /\ EmulationPanic => SessionInv'
BY DEF EmulationPanic, Exit, SessionInv, TypeOK, StartInv, FrameInv, EndInv,
       socket, host

-----------------------------------------------------------------------------
LEMMA SessionStep == SessionInv /\ [Next]_vars => SessionInv'
<1>1. SessionInv /\ UNCHANGED vars => SessionInv'
  BY DEF vars, socket, host, SessionInv, TypeOK, StartInv, FrameInv, EndInv
<1>2. QED
  BY <1>1, PeerKeeps, GreetKeeps, AnyKeyKeeps, JoinKeeps, RecvKeeps, RenderKeeps,
     SendFrameKeeps, PollKeeps, PanicKeeps DEF Next

LEMMA SessionInvariant == Spec => []SessionInv
<1>1. QED
  BY SessionInit, SessionStep, PTL DEF Spec

(* The variables keep their types; the bytes in flight are never fewer     *)
(* than none, and the send buffer never holds more than it can.            *)
THEOREM TypeCorrect == Spec => []TypeOK
<1>1. SessionInv => TypeOK
  BY DEF SessionInv
<1>2. QED
  BY <1>1, SessionInvariant, PTL

(* Whatever the limit, no frame follows the one that reaches it.           *)
THEOREM LimitIsKept == Spec => []TxLimitRespected
<1>1. SessionInv => TxLimitRespected
  BY BoundsAssumption
     DEF SessionInv, TypeOK, StartInv, FrameInv, TxLimitRespected
<1>2. QED
  BY <1>1, SessionInvariant, PTL

(* A session that nobody cut off has played everything it was sent.        *)
THEOREM InputIsPlayed == Spec => []AllInputPlayed
<1>1. SessionInv => AllInputPlayed
  BY DEF SessionInv, EndInv, AllInputPlayed
<1>2. QED
  BY <1>1, SessionInvariant, PTL
=============================================================================
