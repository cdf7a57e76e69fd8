------------------------------ MODULE CloudHost ------------------------------
(***************************************************************************)
(* How a key typed at a terminal becomes a button of the joypad: the       *)
(* cloud host (nes-cloud/src/instance/host.rs) takes at most one key per   *)
(* frame from the channel that the receiving thread fills, and the joypad  *)
(* (nes/src/joypad.rs) hands a latched copy of its buttons to the game,    *)
(* one bit per read.                                                       *)
(*                                                                         *)
(* A terminal never reports a release, so the host releases what is        *)
(* pressed when another key comes; the same key again is released in one   *)
(* frame and pressed in the next (pending).                                *)
(***************************************************************************)
EXTENDS Naturals, Sequences, FiniteSets

CONSTANTS Keys,        \* bytes a player may type
          ButtonOrder, \* the buttons, in the order they are shifted out
          ButtonOf,    \* function: the button a key stands for, or NoButton
          NoButton,
          MaxKeys      \* bound: keys typed in a behaviour

Buttons == {ButtonOrder[i] : i \in 1..Len(ButtonOrder)}

ASSUME ButtonsAssumption ==
  /\ ButtonOrder \in Seq(Buttons)
  /\ ButtonOf \in [Keys -> Buttons \cup {NoButton}]
  /\ NoButton \notin Buttons

VARIABLES
  chan,      \* bytes sent by the receiving thread, not yet taken
  hungUp,    \* the receiving thread dropped its sender
  pressed,   \* CloudHost.pressed: its keys, the time stamps are never read
  pending,   \* CloudHost.pending
  dead,      \* CloudHost.dead
  state,     \* Joypad.state
  out,       \* Joypad.out: the bits still to be shifted out
  typed,     \* history: buttons of the keys sent
  presses,   \* history: buttons of the Press events
  latched,   \* history: Joypad.state when the game last strobed
  bits       \* history: what the game has read since

host == <<pressed, pending, dead, state, presses>>
game == <<out, latched, bits>>
vars == <<chan, hungUp, host, game, typed>>

Init ==
  /\ chan = <<>> /\ hungUp = FALSE
  /\ pressed = {} /\ pending = NoButton /\ dead = FALSE
  /\ state = {}
  /\ out = [i \in 1..Len(ButtonOrder) |-> FALSE]
  /\ typed = <<>> /\ presses = <<>>
  /\ latched = {} /\ bits = <<>>

-----------------------------------------------------------------------------
(* The receiving thread *)

Send(key) ==
  /\ ~hungUp /\ Len(typed) < MaxKeys
  /\ chan' = Append(chan, key)
  /\ typed' = Append(typed, ButtonOf[key])
  /\ UNCHANGED <<hungUp, host, game>>

HangUp ==
  /\ ~hungUp
  /\ hungUp' = TRUE
  /\ UNCHANGED <<chan, host, game, typed>>

-----------------------------------------------------------------------------
(* poll_events, once a frame until it reports Shutdown::Yes *)

PressPending ==
  /\ pending # NoButton
  /\ pending' = NoButton
  /\ pressed' = pressed \cup {pending}
  /\ state' = state \cup {pending}
  /\ presses' = Append(presses, pending)
  /\ UNCHANGED <<chan, hungUp, dead, game, typed>>

(* Definitions marked "Mutant" are variants a bug in the code would make:   *)
(* Spec does not use them, each of them breaks a property of the run.      *)
(* TakeHead by itself, without the guard of TakeKey, is one of them.       *)

(* release_keys: a Release for every pressed button.                       *)
Released == state \ pressed

TakeHead ==
  /\ chan # <<>>
  /\ chan' = Tail(chan)
  /\ LET b == ButtonOf[Head(chan)] IN
     \/ b = NoButton /\ UNCHANGED <<pressed, pending, state, presses>>
     \/ /\ b \in pressed
        /\ pending' = b
        /\ pressed' = {} /\ state' = Released
        /\ UNCHANGED presses
     \/ /\ b # NoButton /\ b \notin pressed
        /\ pressed' = {b}
        /\ state' = Released \cup {b}
        /\ presses' = Append(presses, b)
        /\ UNCHANGED pending
  /\ UNCHANGED <<hungUp, dead, game, typed>>

(* The channel is read only when no press is pending.                      *)
TakeKey == pending = NoButton /\ TakeHead

(* Mutant: the end of the channel is taken for an empty channel.            *)
DisconnectIgnored ==
  /\ pending = NoButton /\ chan = <<>> /\ hungUp
  /\ UNCHANGED vars

Disconnected ==
  /\ pending = NoButton /\ chan = <<>> /\ hungUp
  /\ dead' = TRUE
  /\ UNCHANGED <<chan, hungUp, pressed, pending, state, presses, game, typed>>

PollEvents == ~dead /\ (PressPending \/ TakeKey \/ Disconnected)

-----------------------------------------------------------------------------
(* The game, at any moment between or during the frames *)

Strobe ==
  /\ ~dead
  /\ out' = [i \in 1..Len(ButtonOrder) |-> ButtonOrder[i] \in state]
  /\ latched' = state
  /\ bits' = <<>>
  /\ UNCHANGED <<chan, hungUp, host, typed>>

(* Mutant: a read looks at the buttons as they are now.                    *)
ReadUnlatched ==
  /\ ~dead
  /\ Len(bits) < Len(ButtonOrder)
  /\ bits' = Append(bits, ButtonOrder[Len(bits) + 1] \in state)
  /\ UNCHANGED <<chan, hungUp, host, out, latched, typed>>

Read ==
  /\ ~dead
  /\ Len(bits) < Len(ButtonOrder)
  /\ bits' = Append(bits, Head(out))
  /\ out' = Append(Tail(out), FALSE)
  /\ UNCHANGED <<chan, hungUp, host, latched, typed>>

-----------------------------------------------------------------------------
Next ==
  \/ \E key \in Keys : Send(key)
  \/ HangUp
  \/ PollEvents
  \/ Strobe \/ Read

Spec == Init /\ [][Next]_vars

(* The emulation thread goes on until Shutdown::Yes.  It is taken here that *)
(* render returns: what a write that blocks does is in CloudInstance.      *)
LiveSpec == Spec /\ WF_vars(PollEvents)

-----------------------------------------------------------------------------
(* Properties *)

(* The variables hold values of the code's types.                          *)
TypeOK ==
  /\ chan \in Seq(Keys)
  /\ hungUp \in BOOLEAN /\ dead \in BOOLEAN
  /\ pressed \subseteq Buttons
  /\ pending \in Buttons \cup {NoButton}
  /\ state \subseteq Buttons /\ latched \subseteq Buttons
  /\ out \in Seq(BOOLEAN) /\ bits \in Seq(BOOLEAN)
  /\ typed \in Seq(Buttons \cup {NoButton})
  /\ presses \in Seq(Buttons)

(* The game never sees a button the host has forgotten, nor two at once;   *)
(* while a button waits to be pressed again nothing is down.               *)
JoypadMirrorsHost ==
  /\ state = pressed
  /\ \A b, c \in pressed : b = c
  /\ pending # NoButton => pressed = {}

(* Every key taken from the channel becomes one press, in the order typed; *)
(* a key that comes while a press is pending does not displace it.         *)
Taken  == Len(typed) - Len(chan)
Real(n) == {j \in 1..n : typed[j] # NoButton}
Played == IF pending = NoButton THEN presses ELSE Append(presses, pending)

KeysPlayedInOrder ==
  /\ Len(Played) = Cardinality(Real(Taken))
  /\ \A i \in Real(Taken) : Played[Cardinality(Real(i))] = typed[i]

(* Each press is a rising edge: a key typed twice in a row is seen by the  *)
(* game as two presses, with a frame of release between them.              *)
PressIsEdge ==
  [][presses' # presses => presses'[Len(presses')] \notin state]_vars

(* The bits the game reads are those of the last strobe, whatever the host *)
(* does to the joypad between two reads.                                   *)
ReadsAreLatched ==
  \A i \in 1..Len(bits) : bits[i] = (ButtonOrder[i] \in latched)

(* When the player hangs up the emulation ends, after it has played every  *)
(* key that was sent.                                                      *)
HangUpEnds == hungUp ~> dead /\ chan = <<>> /\ pending = NoButton
=============================================================================
