---------------------------- MODULE CloudInstance ----------------------------
(***************************************************************************)
(* One game session: the process nes-cloud-instance (src/instance/main.rs, *)
(* host.rs).  Its main thread greets the player and waits for a key; then  *)
(* a receiving thread moves bytes from the socket into a channel, and an   *)
(* emulation thread renders frames to the socket and polls the channel.    *)
(* The process ends when both have ended, or at once when any of them      *)
(* panics (the hook calls exit(1)).                                        *)
(*                                                                         *)
(* Bytes are counted, not told apart: which button a byte stands for is    *)
(* the subject of CloudHost.                                               *)
(***************************************************************************)
EXTENDS Naturals

CONSTANTS MaxBytes,   \* bound: bytes the player types
          TxLimit,    \* frames that make up tx_mb_limit
          SendBuffer  \* frames the socket takes before a write blocks

ASSUME BoundsAssumption ==
  MaxBytes \in Nat /\ TxLimit \in Nat \ {0} /\ SendBuffer \in Nat \ {0}

VARIABLES
  peer,        \* remote end of the socket: open, gone
  typed,       \* bytes it has sent
  inbox,       \* bytes in the receive buffer
  outbox,      \* writes in the send buffer
  main,        \* main thread: greet, key, key2, join, done
  recv,        \* receiving thread: off, read, send, done (sender dropped)
  emu,         \* emulation thread: off, render, write, poll, done (receiver dropped)
  chan,        \* bytes in the channel
  pending,     \* CloudHost.pending holds a button
  dead,        \* CloudHost.dead
  cut,         \* history: the session was cut by the limit or a failed write
  transmitted, \* frames counted by CloudHost.transmitted
  code         \* how the process ended: none while it runs, ok, error, panic

socket == <<peer, typed, inbox, outbox>>
host   == <<pending, dead, cut, transmitted>>
vars   == <<socket, main, recv, emu, chan, host, code>>

Init ==
  /\ peer = "open" /\ typed = 0 /\ inbox = 0 /\ outbox = 0
  /\ main = "greet" /\ recv = "off" /\ emu = "off"
  /\ chan = 0 /\ pending = FALSE /\ dead = FALSE /\ cut = FALSE
  /\ transmitted = 0
  /\ code = "none"

Alive == code = "none"

-----------------------------------------------------------------------------
(* The player and the network *)

PeerTypes ==
  /\ peer = "open" /\ typed < MaxBytes
  /\ typed' = typed + 1 /\ inbox' = inbox + 1
  /\ UNCHANGED <<peer, outbox, main, recv, emu, chan, host, code>>

PeerReads ==
  /\ peer = "open" /\ outbox > 0
  /\ outbox' = outbox - 1
  /\ UNCHANGED <<peer, typed, inbox, main, recv, emu, chan, host, code>>

PeerLeaves ==
  /\ peer = "open"
  /\ peer' = "gone"
  /\ UNCHANGED <<typed, inbox, outbox, main, recv, emu, chan, host, code>>

(* Definitions marked "Mutant" are variants a bug in the code would make:   *)
(* Spec does not use them, each of them breaks a property of the runs.     *)

(* Mutant: the writer never waits for the reader.                          *)
WriteUnbuffered(ok) ==
  \/ /\ peer = "open" /\ ok
     /\ outbox' = outbox + 1
  \/ /\ peer = "gone"
     /\ UNCHANGED outbox

(* write_all blocks while the send buffer is full; once the peer is gone   *)
(* it fails, except that the first writes may still be accepted.           *)
Write(ok) ==
  \/ /\ peer = "open" /\ outbox < SendBuffer /\ ok
     /\ outbox' = outbox + 1
  \/ /\ peer = "gone"
     /\ UNCHANGED outbox

(* A read gets a byte, or fails: end of file, or the read timeout the      *)
(* server put on the socket.                                               *)
TakeByte  == inbox > 0 /\ inbox' = inbox - 1

(* Mutant: no read timeout.                                                *)
ReadFailsOnlyAtEof == peer = "gone" /\ inbox = 0 /\ UNCHANGED inbox

ReadFails == inbox = 0 /\ UNCHANGED inbox

-----------------------------------------------------------------------------
(* main() up to the start of the threads *)

Exit(how) == code' = how /\ main' = "done"

Greet ==
  /\ Alive /\ main = "greet"
  /\ \E ok \in BOOLEAN :
       /\ Write(ok)
       /\ \/ ok /\ main' = "key" /\ UNCHANGED code
          \/ ~ok /\ Exit("error")
  /\ UNCHANGED <<peer, typed, inbox, recv, emu, chan, host>>

Start == main' = "join" /\ recv' = "read" /\ emu' = "render" /\ UNCHANGED code

(* Any key boots, but for a line feed that may be left over from an        *)
(* earlier line: then one more byte is awaited, whatever it is.            *)
AnyKey ==
  /\ Alive /\ main \in {"key", "key2"}
  /\ \/ /\ TakeByte
        /\ \/ main = "key" /\ main' = "key2" /\ UNCHANGED <<recv, emu, code>>
           \/ Start
     \/ ReadFails /\ Exit("error") /\ UNCHANGED <<recv, emu>>
  /\ UNCHANGED <<peer, typed, outbox, chan, host>>

(* The end of the thread scope.                                            *)
Join ==
  /\ Alive /\ main = "join" /\ recv = "done" /\ emu = "done"
  /\ Exit("ok")
  /\ UNCHANGED <<socket, recv, emu, chan, host>>

-----------------------------------------------------------------------------
(* recv_thread *)

(* Mutant: a failed read is tried again.                                   *)
RecvReadAgain ==
  /\ Alive /\ recv = "read"
  /\ \/ TakeByte /\ recv' = "send"
     \/ ReadFails /\ UNCHANGED recv
  /\ UNCHANGED <<peer, typed, outbox, main, emu, chan, host, code>>

RecvRead ==
  /\ Alive /\ recv = "read"
  /\ \/ TakeByte /\ recv' = "send"
     \/ ReadFails /\ recv' = "done"
  /\ UNCHANGED <<peer, typed, outbox, main, emu, chan, host, code>>

(* tx.send(..).unwrap(): a panic when the receiver is gone.                *)
RecvSend ==
  /\ Alive /\ recv = "send"
  /\ \/ /\ emu # "done"
        /\ chan' = chan + 1 /\ recv' = "read"
        /\ UNCHANGED <<main, code>>
     \/ /\ emu = "done"
        /\ Exit("panic")
        /\ UNCHANGED <<chan, recv>>
  /\ UNCHANGED <<socket, emu, host>>

-----------------------------------------------------------------------------
(* emulation_thread: tick() until powered off; a frame is render(), with   *)
(* the write if it is to be sent, and then poll_events().                  *)

(* Mutant: the frame that reaches the limit does not end the session.      *)
LimitPassed(sent) == sent > TxLimit

Limit(sent) == sent >= TxLimit

(* A frame equal to the last one is not sent; one that differs has to be   *)
(* written before anything else is done.                                   *)
Render ==
  /\ Alive /\ emu = "render"
  /\ emu' \in {"write", "poll"}
  /\ UNCHANGED <<socket, main, recv, chan, host, code>>

SendFrame ==
  /\ Alive /\ emu = "write"
  /\ \E ok \in BOOLEAN :
       /\ Write(ok)
       /\ transmitted' = transmitted + 1
       /\ dead' = (~ok \/ Limit(transmitted'))
       /\ cut' = dead'
  /\ emu' = "poll"
  /\ UNCHANGED <<peer, typed, inbox, main, recv, chan, pending, code>>

(* Mutant: the end of the receiving thread ends the game at once.          *)
PollAbandonsInput ==
  /\ Alive /\ emu = "poll"
  /\ dead' = (dead \/ recv = "done")
  /\ emu' = IF dead' THEN "done" ELSE "render"
  /\ \/ chan > 0 /\ chan' = chan - 1
     \/ chan = 0 /\ UNCHANGED chan
  /\ UNCHANGED <<socket, main, recv, pending, cut, transmitted, code>>

(* At most one byte a frame; a repeated button takes a second frame.       *)
PollEvents ==
  /\ Alive /\ emu = "poll"
  /\ \/ /\ pending /\ pending' = FALSE
        /\ UNCHANGED <<chan, dead>>
     \/ /\ ~pending /\ chan > 0
        /\ chan' = chan - 1 /\ pending' \in BOOLEAN
        /\ UNCHANGED dead
     \/ /\ ~pending /\ chan = 0
        /\ dead' = (dead \/ recv = "done")
        /\ UNCHANGED <<chan, pending>>
  /\ emu' = IF dead' THEN "done" ELSE "render"
  /\ UNCHANGED <<socket, main, recv, cut, transmitted, code>>

(* The emulated machine may panic in any frame: an unknown opcode, a       *)
(* register the mapper does not know.                                      *)
EmulationPanic ==
  /\ Alive /\ emu = "render"
  /\ Exit("panic")
  /\ UNCHANGED <<socket, recv, emu, chan, host>>

-----------------------------------------------------------------------------
Next ==
  \/ PeerTypes \/ PeerReads \/ PeerLeaves
  \/ Greet \/ AnyKey \/ Join
  \/ RecvRead \/ RecvSend
  \/ Render \/ SendFrame \/ PollEvents \/ EmulationPanic

Spec == Init /\ [][Next]_vars

(* Each thread goes on while it can: the read timeout makes a read end,    *)
(* nothing makes a write end whose buffer is full.  The peer need not read.*)
Fairness ==
  /\ WF_vars(Greet) /\ WF_vars(AnyKey) /\ WF_vars(Join)
  /\ WF_vars(RecvRead) /\ WF_vars(RecvSend)
  /\ WF_vars(Render) /\ WF_vars(SendFrame) /\ WF_vars(PollEvents)

LiveSpec == Spec /\ Fairness

-----------------------------------------------------------------------------
(* Properties *)

(* The variables hold values of the code's types.                          *)
TypeOK ==
  /\ peer \in {"open", "gone"}
  /\ typed \in 0..MaxBytes /\ inbox \in Nat /\ outbox \in 0..SendBuffer
  /\ main \in {"greet", "key", "key2", "join", "done"}
  /\ recv \in {"off", "read", "send", "done"}
  /\ emu \in {"off", "render", "write", "poll", "done"}
  /\ chan \in Nat /\ transmitted \in Nat
  /\ pending \in BOOLEAN /\ dead \in BOOLEAN /\ cut \in BOOLEAN
  /\ code \in {"none", "ok", "error", "panic"}

(* The transmission limit is a limit: no frame is sent after the one that  *)
(* reaches it, although the flag is only looked at after the next poll.    *)
TxLimitRespected == transmitted <= TxLimit

(* A session ends by itself only when the player's last byte was played:   *)
(* bytes that wait in the channel outlive the thread that sent them.       *)
AllInputPlayed ==
  (emu = "done" /\ ~cut) => (recv = "done" /\ chan = 0 /\ ~pending)

(* A session does not outlive its player: when the peer has left, the      *)
(* process ends.  This is the fairness CloudServer asks of Exit.           *)
EndsWhenPeerLeaves == peer = "gone" ~> ~Alive

(* The frame waits for room in the buffer of a player who stays and does   *)
(* not read.                                                               *)
WriteBlocked == emu = "write" /\ peer = "open" /\ outbox = SendBuffer

(* A session whose player has fallen silent (here, every player in the     *)
(* end) is dropped by the read timeout, in whatever stage it is, with one  *)
(* exception: the socket has no write timeout, so that a player who stays  *)
(* but never again reads holds the emulation thread in a write, and the    *)
(* process does not end with its receiving thread alone.                   *)
SilentPlayerDropped == <>[](Alive => WriteBlocked)
=============================================================================
