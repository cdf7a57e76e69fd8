------------------------------ MODULE PpuScroll ------------------------------
(***************************************************************************)
(* The PPU's address and scroll registers as nes/src/ppu/ppu.rs keeps      *)
(* them: two words, v and t, whose bits are set through masks by the game  *)
(* ($2000, $2002, $2005, $2006, $2007) and by rendering.  v and t have 16  *)
(* bits; where an addition wraps v around, a debug build panics and ends.  *)
(*                                                                         *)
(* Rendering and the game interleave freely here; PpuTiming has the order  *)
(* of the steps of a line.                                                 *)
(***************************************************************************)
EXTENDS Words

CONSTANTS ControlValues, \* bytes written to $2000
          MaskValues,    \* what $2001 makes of rendering_enabled
          ScrollValues,  \* bytes written to $2005
          AddrValues,    \* bytes written to $2006
          MaxWalk        \* bound: steps of v between two loads from t

VARIABLES v, t,     \* v, t: u16
          fineX,    \* fine_x
          wLatch,   \* w_latch: the next write is a first one
          addrInc,  \* vram_addr_inc
          rendering, \* rendering_enabled
          walk      \* steps of v since it was loaded, for MaxWalk

vars == <<v, t, fineX, wLatch, addrInc, rendering, walk>>

Init ==
  /\ v = 0 /\ t = 0 /\ fineX = 0 /\ wLatch = TRUE
  /\ addrInc = 0 /\ rendering = FALSE
  /\ walk = 0

-----------------------------------------------------------------------------
(* Definitions marked "Mutant" are variants a bug in the code would make:   *)
(* Spec does not use them, each of them breaks a property of the runs.     *)

(* The game *)

Ctrl2000(val) ==
  /\ t' = Or(And(t, \hf3ff), And(val, 3) * 1024)
  /\ addrInc' = IF And(val, 4) = 4 THEN 32 ELSE 1
  /\ UNCHANGED <<v, fineX, wLatch, rendering, walk>>

Mask2001(enabled) ==
  /\ rendering' = enabled
  /\ UNCHANGED <<v, t, fineX, wLatch, addrInc, walk>>

Status2002 ==
  /\ wLatch' = TRUE
  /\ UNCHANGED <<v, t, fineX, addrInc, rendering, walk>>

Scroll2005(val) ==
  /\ wLatch' = ~wLatch
  /\ \/ /\ wLatch
        /\ t' = Or(And(t, \hffe0), val \div 8)
        /\ fineX' = And(val, 7)
     \/ /\ ~wLatch
        /\ t' = Or(Or(And(t, \hc1f), And(val, 7) * 4096), (val \div 8) * 32)
        /\ UNCHANGED fineX
  /\ UNCHANGED <<v, addrInc, rendering, walk>>

Addr2006(val) ==
  /\ wLatch' = ~wLatch
  /\ \/ /\ wLatch
        /\ t' = Or(And(t, \hff), And(val, \h3f) * 256)
        /\ UNCHANGED <<v, walk>>
     \/ /\ ~wLatch
        /\ t' = Or(And(t, \hff00), val)
        /\ v' = t' /\ walk' = 0
  /\ UNCHANGED <<fineX, addrInc, rendering>>

(* A read or a write of $2007, after the access: inc_v().                  *)
Data2007 ==
  /\ walk < MaxWalk
  /\ v' = (v + addrInc) % 65536
  /\ walk' = walk + 1
  /\ UNCHANGED <<t, fineX, wLatch, addrInc, rendering>>

-----------------------------------------------------------------------------
(* Rendering *)

(* Mutant: row 31, below the nametable, leads to the next nametable.       *)
NextLineFromEveryRow(word) ==
  LET y == And(word, \h3e0) \div 32
      top == And(word, \h8fff)
      flipped == IF y \in {29, 31} THEN Xor(top, \h800) ELSE top
  IN  IF And(word, \h7000) # \h7000 THEN word + \h1000
      ELSE Or(And(flipped, \hfc1f), (IF y \in {29, 31} THEN 0 ELSE y + 1) * 32)

(* inc_y() on the word in v.                                               *)
NextLine(word) ==
  LET y == And(word, \h3e0) \div 32
      top == And(word, \h8fff)
      flipped == IF y = 29 THEN Xor(top, \h800) ELSE top
  IN  IF And(word, \h7000) # \h7000 THEN word + \h1000
      ELSE Or(And(flipped, \hfc1f), (IF y \in {29, 31} THEN 0 ELSE y + 1) * 32)

IncY ==
  /\ rendering /\ walk < MaxWalk
  /\ v' = NextLine(v)
  /\ walk' = walk + 1
  /\ UNCHANGED <<t, fineX, wLatch, addrInc, rendering>>

CopyHorizontalFromTToV ==
  /\ rendering
  /\ v' = Or(And(v, \h7be0), And(t, \h41f))
  /\ UNCHANGED <<t, fineX, wLatch, addrInc, rendering, walk>>

CopyVerticalFromTToV ==
  /\ rendering
  /\ v' = Or(And(v, \h41f), And(t, \h7be0))
  /\ walk' = 0
  /\ UNCHANGED <<t, fineX, wLatch, addrInc, rendering>>

-----------------------------------------------------------------------------
Next ==
  \/ \E val \in ControlValues : Ctrl2000(val)
  \/ \E enabled \in MaskValues : Mask2001(enabled)
  \/ Status2002
  \/ \E val \in ScrollValues : Scroll2005(val)
  \/ \E val \in AddrValues : Addr2006(val)
  \/ Data2007
  \/ IncY \/ CopyHorizontalFromTToV \/ CopyVerticalFromTToV

Spec == Init /\ [][Next]_vars

-----------------------------------------------------------------------------
(* Properties *)

(* v fits in a u16, t never reaches the bit above its fields.              *)
TypeOK ==
  /\ v \in 0 .. (2^16 - 1) /\ t \in 0 .. (2^15 - 1)
  /\ fineX \in 0..7 /\ wLatch \in BOOLEAN
  /\ addrInc \in {0, 1, 32} /\ rendering \in BOOLEAN
  /\ walk \in 0..MaxWalk

FieldsOf(word) ==
  [coarseX   |-> word % 32,
   coarseY   |-> (word \div 32) % 32,
   nametable |-> (word \div 1024) % 4,
   fineY     |-> (word \div 4096) % 8]

Screen == INSTANCE ScrollFields WITH
  cur <- FieldsOf(v), tmp <- FieldsOf(t), firstHalf <- wLatch, step <- addrInc,
  Bytes <- ScrollValues \union AddrValues

(* The masks and shifts of ppu.rs move exactly the fields that the game    *)
(* and rendering are meant to move, in every order of half-written pairs,  *)
(* even when v has run over its fields.                                    *)
WordsHoldFields == Screen!Spec
=============================================================================
