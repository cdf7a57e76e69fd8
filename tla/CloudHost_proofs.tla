-------------------------- MODULE CloudHost_proofs --------------------------
(***************************************************************************)
(* The keys of the cloud host and the joypad, for any keyboard, any set of *)
(* buttons and any number of keys typed.                                   *)
(***************************************************************************)
EXTENDS CloudHost, SequenceTheorems, FiniteSetTheorems, TLAPS

(* The host's list and the joypad agree, and both name at most one button. *)
HostInv ==
  /\ chan \in Seq(Keys)
  /\ pressed \subseteq Buttons
  /\ pending \in Buttons \cup {NoButton}
  /\ presses \in Seq(Buttons)
  /\ JoypadMirrorsHost

LEMMA HostInit == Init => HostInv
BY DEF Init, HostInv, JoypadMirrorsHost

(* The pending button is pressed alone: what was pressed is released when  *)
(* it became pending.                                                      *)
LEMMA PressPendingKeeps == HostInv /\ PressPending => HostInv'
BY DEF HostInv, JoypadMirrorsHost, PressPending

(* A key releases what is pressed and is pressed itself, or waits.         *)
LEMMA TakeKeyKeeps == HostInv /\ TakeKey => HostInv'
<1> SUFFICES ASSUME HostInv, TakeKey PROVE HostInv'
  OBVIOUS
<1> DEFINE b == ButtonOf[Head(chan)]
<1>1. /\ pending = NoButton /\ chan # <<>>
      /\ chan' = Tail(chan)
  BY DEF TakeKey, TakeHead
<1>2. Head(chan) \in Keys /\ chan' \in Seq(Keys)
  BY <1>1 DEF HostInv
<1>3. b \in Buttons \cup {NoButton}
  BY <1>2, ButtonsAssumption
<1>4. Released = {}
  BY DEF HostInv, JoypadMirrorsHost, Released
<1>5. CASE b = NoButton /\ UNCHANGED <<pressed, pending, state, presses>>
  BY <1>2, <1>5 DEF HostInv, JoypadMirrorsHost
<1>6. CASE /\ b \in pressed
           /\ pending' = b
           /\ pressed' = {} /\ state' = Released
           /\ UNCHANGED presses
  BY <1>2, <1>3, <1>4, <1>6 DEF HostInv, JoypadMirrorsHost
<1>7. CASE /\ b # NoButton /\ b \notin pressed
           /\ pressed' = {b}
           /\ state' = Released \cup {b}
           /\ presses' = Append(presses, b)
           /\ UNCHANGED pending
  <2>1. b \in Buttons
    BY <1>3, <1>7
  <2>2. presses' \in Seq(Buttons)
    BY <2>1, <1>7 DEF HostInv
  <2>3. QED
    BY <1>1, <1>2, <1>4, <1>7, <2>1, <2>2 DEF HostInv, JoypadMirrorsHost
<1>8. QED
  BY <1>5, <1>6, <1>7 DEF TakeKey, TakeHead

LEMMA HostStep == HostInv /\ [Next]_vars => HostInv'
<1> SUFFICES ASSUME HostInv, [Next]_vars PROVE HostInv'
  OBVIOUS
<1>1. ASSUME NEW key \in Keys, Send(key) PROVE HostInv'
  BY <1>1 DEF Send, host, HostInv, JoypadMirrorsHost
<1>2. CASE HangUp
  BY <1>2 DEF HangUp, host, HostInv, JoypadMirrorsHost
<1>3. CASE PollEvents
  BY <1>3, PressPendingKeeps, TakeKeyKeeps
     DEF PollEvents, Disconnected, HostInv, JoypadMirrorsHost
<1>4. CASE Strobe \/ Read
  BY <1>4 DEF Strobe, Read, host, HostInv, JoypadMirrorsHost
<1>5. CASE UNCHANGED vars
  BY <1>5 DEF vars, host, HostInv, JoypadMirrorsHost
<1>6. QED
  BY <1>1, <1>2, <1>3, <1>4, <1>5 DEF Next

LEMMA HostInvariant == Spec => []HostInv
<1>1. QED
  BY HostInit, HostStep, PTL DEF Spec

(* Whatever is typed, and however frames and the game's reads fall: the    *)
(* joypad holds the host's button, one at most, and none while a press     *)
(* waits for the next frame.                                               *)
THEOREM JoypadMirrors == Spec => []JoypadMirrorsHost
<1>1. HostInv => JoypadMirrorsHost
  BY DEF HostInv
<1>2. QED
  BY <1>1, HostInvariant, PTL

(* Every press is of a button that was up: the game can tell two presses   *)
(* of one key from one long one.                                           *)
THEOREM PressesAreEdges == Spec => PressIsEdge
<1> DEFINE Edge == presses' # presses => presses'[Len(presses')] \notin state
<1>1. HostInv /\ [Next]_vars => [Edge]_vars
  <2> SUFFICES ASSUME HostInv, Next, presses' # presses PROVE Edge
    OBVIOUS
  <2>1. PressPending \/ TakeKey
    BY DEF Next, Send, HangUp, PollEvents, Disconnected, Strobe, Read, host
  <2>2. PICK b : presses' = Append(presses, b) /\ b \notin state
    <3>1. CASE PressPending
      BY <3>1 DEF PressPending, HostInv, JoypadMirrorsHost
    <3>2. CASE TakeKey
      BY <3>2 DEF TakeKey, TakeHead, HostInv, JoypadMirrorsHost
    <3>3. QED
      BY <2>1, <3>1, <3>2
  <2>3. presses'[Len(presses')] = b
    BY <2>2 DEF HostInv
  <2>4. QED
    BY <2>2, <2>3
<1>2. QED
  BY <1>1, HostInvariant, PTL DEF Spec, PressIsEdge

-----------------------------------------------------------------------------
(* The shift register of the joypad: of the bits that were latched, those  *)
(* still to be read are at its head, in their order.                       *)
ShiftInv ==
  /\ out \in Seq(BOOLEAN) /\ Len(out) = Len(ButtonOrder)
  /\ bits \in Seq(BOOLEAN) /\ Len(bits) <= Len(ButtonOrder)
  /\ \A i \in 1..(Len(ButtonOrder) - Len(bits)) :
       out[i] = (ButtonOrder[Len(bits) + i] \in latched)
  /\ ReadsAreLatched

LEMMA ShiftInit == Init => ShiftInv
<1> SUFFICES ASSUME Init PROVE ShiftInv
  OBVIOUS
<1>1. Len(ButtonOrder) \in Nat
  BY ButtonsAssumption
<1>2. out = [i \in 1..Len(ButtonOrder) |-> FALSE] /\ latched = {} /\ bits = <<>>
  BY DEF Init
<1>3. out \in Seq(BOOLEAN) /\ Len(out) = Len(ButtonOrder)
  BY <1>1, <1>2
<1>4. \A i \in 1..(Len(ButtonOrder) - Len(bits)) :
        out[i] = (ButtonOrder[Len(bits) + i] \in latched)
  <2>1. Len(bits) = 0
    BY <1>2
  <2>2. \A i \in 1..Len(ButtonOrder) : out[i] = FALSE
    BY <1>2, Zenon
  <2>3. \A x : (x \in latched) = FALSE
    BY <1>2
  <2>4. 1..(Len(ButtonOrder) - Len(bits)) = 1..Len(ButtonOrder)
    BY <1>1, <2>1
  <2>5. QED
    BY <2>2, <2>3, <2>4, Zenon
<1>5. bits \in Seq(BOOLEAN) /\ Len(bits) <= Len(ButtonOrder) /\ ReadsAreLatched
  BY <1>1, <1>2 DEF ReadsAreLatched
<1>6. QED
  BY <1>3, <1>4, <1>5 DEF ShiftInv

(* A strobe loads the register with the buttons that are down.             *)
LEMMA StrobeLoads == ShiftInv /\ Strobe => ShiftInv'
BY ButtonsAssumption DEF Strobe, ShiftInv, ReadsAreLatched

(* A read moves the head of the register to the bits that were read.       *)
LEMMA ReadShifts == ShiftInv /\ Read => ShiftInv'
<1> SUFFICES ASSUME ShiftInv, Read PROVE ShiftInv'
  OBVIOUS
<1> DEFINE n == Len(ButtonOrder)
           k == Len(bits)
<1>1. /\ n \in Nat /\ k \in Nat /\ k < n
      /\ out \in Seq(BOOLEAN) /\ Len(out) = n
      /\ bits \in Seq(BOOLEAN)
  BY ButtonsAssumption DEF Read, ShiftInv
<1>2. Head(out) = out[1] /\ Head(out) \in BOOLEAN
  BY <1>1
<1>3. out[1] = (ButtonOrder[k + 1] \in latched)
  BY <1>1 DEF ShiftInv
<1>4. bits' \in Seq(BOOLEAN) /\ Len(bits') = k + 1
  BY <1>1, <1>2 DEF Read
<1>5. out' \in Seq(BOOLEAN) /\ Len(out') = n
  BY <1>1 DEF Read
<1>6. \A i \in 1..(n - Len(bits')) : out'[i] = out[i + 1]
  <2>1. Tail(out) \in Seq(BOOLEAN) /\ Len(Tail(out)) = n - 1
    BY <1>1
  <2>2. \A i \in 1..(n - 1) : Tail(out)[i] = out[i + 1]
    BY <1>1
  <2>3. \A i \in 1..(n - 1) : Append(Tail(out), FALSE)[i] = Tail(out)[i]
    <3>1. \A e \in BOOLEAN : \A i \in 1..(n - 1) :
            Append(Tail(out), e)[i] = Tail(out)[i]
      BY <2>1, AppendProperties
    <3>2. QED
      BY <3>1, Zenon
  <2>4. 1..(n - Len(bits')) \subseteq 1..(n - 1)
    BY <1>1, <1>4
  <2>5. QED
    BY <2>2, <2>3, <2>4 DEF Read
<1>7. \A i \in 1..(n - Len(bits')) :
        out'[i] = (ButtonOrder[Len(bits') + i] \in latched')
  <2>1. latched' = latched
    BY DEF Read
  <2> SUFFICES ASSUME NEW i \in 1..(n - Len(bits'))
               PROVE  out[i + 1] = (ButtonOrder[k + 1 + i] \in latched)
    BY <1>4, <1>6, <2>1
  <2>2. i + 1 \in 1..(n - k) /\ k + (i + 1) = k + 1 + i
    BY <1>1, <1>4
  <2>3. QED
    BY <2>2, <1>1 DEF ShiftInv
<1>8. ReadsAreLatched'
  <2>1. latched' = latched
    BY DEF Read
  <2> SUFFICES ASSUME NEW i \in 1..Len(bits')
               PROVE  bits'[i] = (ButtonOrder[i] \in latched)
    BY <2>1 DEF ReadsAreLatched
  <2>2. CASE i = k + 1
    <3>1. bits'[i] = Head(out)
      BY <2>2, <1>1, <1>2 DEF Read
    <3>2. QED
      BY <2>2, <3>1, <1>2, <1>3
  <2>3. CASE i # k + 1
    <3>1. i \in 1..k /\ bits'[i] = bits[i]
      BY <2>3, <1>1, <1>2, <1>4 DEF Read
    <3>2. QED
      BY <3>1 DEF ShiftInv, ReadsAreLatched
  <2>4. QED
    BY <2>2, <2>3
<1>9. QED
  BY <1>1, <1>4, <1>5, <1>7, <1>8 DEF ShiftInv

LEMMA ShiftStep == ShiftInv /\ [Next]_vars => ShiftInv'
<1>1. (\E key \in Keys : Send(key)) \/ HangUp \/ PollEvents \/ UNCHANGED vars
        => UNCHANGED game
  BY DEF Send, HangUp, PollEvents, PressPending, TakeKey, TakeHead, Disconnected,
         vars
<1>2. ShiftInv /\ UNCHANGED game => ShiftInv'
  BY DEF game, ShiftInv, ReadsAreLatched
<1>3. QED
  BY <1>1, <1>2, StrobeLoads, ReadShifts DEF Next

(* Whatever the host does to the joypad between two reads, and however     *)
(* often the game strobes: the bits it reads are those of its last strobe. *)
THEOREM ReadsAreOfTheStrobe == Spec => []ReadsAreLatched
<1>1. ShiftInv => ReadsAreLatched
  BY DEF ShiftInv
<1>2. QED
  BY <1>1, ShiftInit, ShiftStep, PTL DEF Spec

-----------------------------------------------------------------------------
(* Each key that was taken is among the presses, at the place its rank     *)
(* among the keys that stand for a button gives it; the rest of what was   *)
(* typed is in the channel.                                                *)
OrderInv ==
  /\ HostInv
  /\ typed \in Seq(Buttons \cup {NoButton})
  /\ Len(chan) <= Len(typed)
  /\ \A i \in 1..Len(chan) : typed[Taken + i] = ButtonOf[chan[i]]
  /\ KeysPlayedInOrder

LEMMA RealIsFinite ==
  ASSUME NEW n \in Nat
  PROVE  IsFiniteSet(Real(n)) /\ Cardinality(Real(n)) \in Nat
<1>1. IsFiniteSet(1..n)
  BY FS_Interval
<1>2. IsFiniteSet(Real(n))
  BY <1>1, FS_Subset DEF Real
<1>3. QED
  BY <1>2, FS_CardinalityType

LEMMA OrderInit == Init => OrderInv
<1> SUFFICES ASSUME Init PROVE OrderInv
  OBVIOUS
<1>1. Taken = 0 /\ Played = <<>>
  BY DEF Init, Taken, Played
<1>2. Real(0) = {}
  BY DEF Real
<1>3. KeysPlayedInOrder
  BY <1>1, <1>2, FS_EmptySet DEF KeysPlayedInOrder
<1>4. QED
  BY <1>3, HostInit DEF Init, OrderInv

(* Nothing of what KeysPlayedInOrder speaks of depends on later keys.      *)
LEMMA OrderKept ==
  ASSUME OrderInv, HostInv',
         chan' \in Seq(Keys), typed' \in Seq(Buttons \cup {NoButton}),
         Len(chan') <= Len(typed'),
         \A i \in 1..Len(chan') : typed'[Taken' + i] = ButtonOf[chan'[i]],
         Taken' = Taken, Played' = Played,
         \A j \in 1..Taken : typed'[j] = typed[j]
  PROVE  OrderInv'
<1>1. Taken \in Nat
  BY DEF OrderInv, HostInv, Taken
<1>2. ASSUME NEW n \in 0..Taken PROVE Real(n)' = Real(n)
  <2>1. \A j \in 1..n : typed'[j] = typed[j]
    BY <1>1, <1>2
  <2>2. QED
    BY <2>1 DEF Real
<1>3. Real(Taken)' = Real(Taken)
  BY <1>1, <1>2
<1>4. ASSUME NEW i \in Real(Taken)
      PROVE  Played'[Cardinality(Real(i)')] = typed'[i]
  <2>1. i \in 1..Taken
    BY DEF Real
  <2>2. Real(i)' = Real(i) /\ typed'[i] = typed[i]
    BY <1>1, <1>2, <2>1
  <2>3. QED
    BY <2>2 DEF OrderInv, KeysPlayedInOrder
<1>5. KeysPlayedInOrder'
  BY <1>3, <1>4 DEF OrderInv, KeysPlayedInOrder
<1>6. QED
  BY <1>5 DEF OrderInv

LEMMA SendKeepsOrder ==
  ASSUME OrderInv, NEW key \in Keys, Send(key)
  PROVE  OrderInv'
<1>1. chan \in Seq(Keys) /\ typed \in Seq(Buttons \cup {NoButton})
  BY DEF OrderInv, HostInv
<1>2. chan' = Append(chan, key) /\ typed' = Append(typed, ButtonOf[key])
  BY DEF Send
<1>3. ButtonOf[key] \in Buttons \cup {NoButton}
  BY ButtonsAssumption
<1>4. /\ chan' \in Seq(Keys) /\ Len(chan') = Len(chan) + 1
      /\ typed' \in Seq(Buttons \cup {NoButton}) /\ Len(typed') = Len(typed) + 1
  BY <1>1, <1>2, <1>3
<1>5. Taken' = Taken
  BY <1>1, <1>4 DEF Taken
<1>6. Taken \in Nat /\ Len(typed) \in Nat /\ Len(chan) \in Nat
      /\ Len(typed) = Taken + Len(chan)
  BY <1>1 DEF OrderInv, Taken
<1>7. \A j \in 1..Len(typed) : typed'[j] = typed[j]
  BY <1>1, <1>2, <1>3
<1>8. ASSUME NEW i \in 1..Len(chan')
      PROVE  typed'[Taken' + i] = ButtonOf[chan'[i]]
  <2>1. CASE i = Len(chan) + 1
    <3>1. chan'[i] = key
      BY <2>1, <1>1, <1>2
    <3>2. Taken' + i = Len(typed) + 1
      BY <2>1, <1>5, <1>6
    <3>3. typed'[Len(typed) + 1] = ButtonOf[key]
      BY <1>1, <1>2, <1>3
    <3>4. QED
      BY <3>1, <3>2, <3>3
  <2>2. CASE i # Len(chan) + 1
    <3>1. i \in 1..Len(chan)
      BY <2>2, <1>4, <1>6
    <3>2. chan'[i] = chan[i]
      BY <3>1, <1>1, <1>2
    <3>3. Taken + i \in 1..Len(typed)
      BY <3>1, <1>6
    <3>4. QED
      BY <3>1, <3>2, <3>3, <1>5, <1>7 DEF OrderInv
  <2>3. QED
    BY <2>1, <2>2
<1>9. Played' = Played
  BY DEF Send, host, Played
<1>10. HostInv'
  BY HostStep DEF OrderInv, Next
<1>11. \A j \in 1..Taken : typed'[j] = typed[j]
  BY <1>6, <1>7
<1>12. Len(chan') <= Len(typed')
  BY <1>4, <1>6
<1>13. QED
  BY <1>4, <1>5, <1>8, <1>9, <1>10, <1>11, <1>12, OrderKept

(* The key at the head of the channel is the next of those typed.          *)
LEMMA HeadIsNextTyped ==
  ASSUME OrderInv, chan # <<>>, chan' = Tail(chan), UNCHANGED typed
  PROVE  /\ Taken \in Nat /\ Taken' = Taken + 1
         /\ typed[Taken + 1] = ButtonOf[Head(chan)]
         /\ typed' \in Seq(Buttons \cup {NoButton})
         /\ Len(chan') <= Len(typed')
         /\ \A i \in 1..Len(chan') : typed'[Taken' + i] = ButtonOf[chan'[i]]
<1>1. /\ chan \in Seq(Keys) /\ typed \in Seq(Buttons \cup {NoButton})
      /\ Len(chan) <= Len(typed)
  BY DEF OrderInv, HostInv
<1>2. Len(chan) \in Nat \ {0} /\ Len(typed) \in Nat
      /\ Len(chan') = Len(chan) - 1
  BY <1>1
<1>3. Taken \in Nat /\ Taken' = Taken + 1
  BY <1>1, <1>2 DEF Taken
<1>4. \A i \in 1..Len(chan) : typed[Taken + i] = ButtonOf[chan[i]]
  BY DEF OrderInv
<1>5. typed[Taken + 1] = ButtonOf[Head(chan)]
  BY <1>1, <1>2, <1>4
<1>6. ASSUME NEW i \in 1..Len(chan')
      PROVE  typed'[Taken' + i] = ButtonOf[chan'[i]]
  <2>1. i + 1 \in 1..Len(chan) /\ Taken' + i = Taken + (i + 1)
    BY <1>2, <1>3
  <2>2. chan'[i] = chan[i + 1]
    BY <1>1, <1>2
  <2>3. QED
    BY <1>4, <2>1, <2>2
<1>7. QED
  BY <1>1, <1>2, <1>3, <1>5, <1>6

LEMMA RealNext ==
  ASSUME NEW n \in Nat
  PROVE  Real(n + 1) = IF typed[n + 1] = NoButton THEN Real(n)
                                                 ELSE Real(n) \cup {n + 1}
<1>1. 1..(n + 1) = (1..n) \cup {n + 1}
  OBVIOUS
<1>2. QED
  BY <1>1 DEF Real

LEMMA TakeKeyKeepsOrder == OrderInv /\ TakeKey => OrderInv'
<1> SUFFICES ASSUME OrderInv, TakeKey PROVE OrderInv'
  OBVIOUS
<1> DEFINE b == ButtonOf[Head(chan)]
<1>1. /\ pending = NoButton /\ chan # <<>>
      /\ chan' = Tail(chan) /\ UNCHANGED typed
  BY DEF TakeKey, TakeHead
<1>2. /\ Taken \in Nat /\ Taken' = Taken + 1
      /\ typed[Taken + 1] = b
      /\ typed' \in Seq(Buttons \cup {NoButton})
      /\ Len(chan') <= Len(typed')
      /\ \A i \in 1..Len(chan') : typed'[Taken' + i] = ButtonOf[chan'[i]]
  BY <1>1, HeadIsNextTyped
<1>3. HostInv /\ HostInv'
  BY TakeKeyKeeps DEF OrderInv
<1>4. \A n : Real(n)' = Real(n)
  BY <1>1 DEF Real
<1>5. Played = presses /\ presses \in Seq(Buttons)
  BY <1>1, <1>3 DEF Played, HostInv
<1>6. /\ Len(Played) = Cardinality(Real(Taken))
      /\ \A i \in Real(Taken) : Played[Cardinality(Real(i))] = typed[i]
  BY DEF OrderInv, KeysPlayedInOrder
<1>7. CASE b = NoButton
  <2>1. Real(Taken + 1) = Real(Taken)
    BY <1>2, <1>7, RealNext
  <2>2. Played' = Played
    BY <1>3, <1>7 DEF TakeKey, TakeHead, Played, HostInv, JoypadMirrorsHost
  <2>3. QED
    BY <1>1, <1>2, <1>3, <1>4, <1>6, <2>1, <2>2 DEF OrderInv, KeysPlayedInOrder
<1>8. CASE b # NoButton
  <2>1. Real(Taken + 1) = Real(Taken) \cup {Taken + 1}
    BY <1>2, <1>8, RealNext
  <2>2. Taken + 1 \notin Real(Taken)
    BY <1>2 DEF Real
  <2>3. Cardinality(Real(Taken + 1)) = Cardinality(Real(Taken)) + 1
    BY <1>2, <2>1, <2>2, RealIsFinite, FS_AddElement
  <2>4. Played' = Append(Played, b) /\ b \in Buttons
    <3>1. Head(chan) \in Keys
      BY <1>1, <1>3 DEF HostInv
    <3>2. b \in Buttons
      BY <1>8, <3>1, ButtonsAssumption
    <3>3. QED
      BY <1>1, <1>5, <1>8, <3>2 DEF TakeKey, TakeHead, Played
  <2>5. /\ Len(Played') = Len(Played) + 1
        /\ Played'[Len(Played) + 1] = b
        /\ \A k \in 1..Len(Played) : Played'[k] = Played[k]
    BY <1>5, <2>4
  <2>6. ASSUME NEW i \in Real(Taken)
        PROVE  Cardinality(Real(i)) \in 1..Len(Played)
    <3>1. i \in 1..Taken /\ Real(i) \subseteq Real(Taken) /\ i \in Real(i)
      BY <1>2 DEF Real
    <3>2. IsFiniteSet(Real(Taken)) /\ IsFiniteSet(Real(i))
          /\ Cardinality(Real(i)) \in Nat
      BY <1>2, <3>1, RealIsFinite
    <3>3. Cardinality(Real(i)) <= Cardinality(Real(Taken))
      BY <3>1, <3>2, FS_Subset
    <3>4. Cardinality(Real(i)) # 0
      BY <3>1, <3>2, FS_EmptySet
    <3>5. QED
      BY <1>2, <1>6, <3>2, <3>3, <3>4, RealIsFinite
  <2>7. ASSUME NEW i \in Real(Taken + 1)
        PROVE  Played'[Cardinality(Real(i))] = typed[i]
    <3>1. CASE i = Taken + 1
      BY <3>1, <1>2, <1>6, <2>3, <2>5
    <3>2. CASE i # Taken + 1
      BY <3>2, <1>6, <2>1, <2>5, <2>6
    <3>3. QED
      BY <3>1, <3>2
  <2>8. KeysPlayedInOrder'
    BY <1>1, <1>2, <1>4, <1>6, <2>3, <2>5, <2>7 DEF KeysPlayedInOrder
  <2>9. QED
    BY <1>2, <1>3, <2>8 DEF OrderInv
<1>9. QED
  BY <1>7, <1>8

LEMMA OrderStep == OrderInv /\ [Next]_vars => OrderInv'
<1> SUFFICES ASSUME OrderInv, [Next]_vars PROVE OrderInv'
  OBVIOUS
<1>1. HostInv'
  BY HostStep DEF OrderInv
<1>2. ASSUME UNCHANGED <<chan, typed>>, Played' = Played PROVE OrderInv'
  BY <1>1, <1>2 DEF OrderInv, KeysPlayedInOrder, Taken, Real
<1>3. CASE PressPending
  <2>1. Played' = Played
    BY <1>3 DEF PressPending, Played
  <2>2. QED
    BY <1>2, <1>3, <2>1 DEF PressPending
<1>4. CASE HangUp \/ Disconnected \/ Strobe \/ Read \/ UNCHANGED vars
  BY <1>2, <1>4 DEF HangUp, Disconnected, Strobe, Read, vars, host, Played
<1>5. QED
  BY <1>3, <1>4, SendKeepsOrder, TakeKeyKeepsOrder DEF Next, PollEvents

(* Whatever is typed, and however the frames fall: what the game has been  *)
(* shown is what was typed, in its order, without a key lost or repeated.  *)
THEOREM KeysArePlayedInOrder == Spec => []KeysPlayedInOrder
<1>1. OrderInv => KeysPlayedInOrder
  BY DEF OrderInv
<1>2. QED
  BY <1>1, OrderInit, OrderStep, PTL DEF Spec
=============================================================================
