--------------------------------- MODULE Ppu ---------------------------------
(***************************************************************************)
(* The three sides of the PPU in one specification: its clock and events   *)
(* (PpuTiming), the address and scroll registers (PpuScroll), the sprites  *)
(* of a frame (Sprites).  Each has its own variables and is watched on its *)
(* own, with the others at rest: what one needs of another, rendering on   *)
(* or off and the masks, may change there at any step anyway.              *)
(***************************************************************************)
EXTENDS PpuTiming, Sequences

CONSTANTS
  ControlValues, MaskValues, ScrollValues, AddrValues, MaxWalk, \* PpuScroll
  ScreenLines, Width, SpriteWidth, Height, PerLine, Left, \* Sprites
  Oams, Backgrounds, Masks

ASSUME ScrollAssumption ==
  /\ ControlValues \subseteq 0..255 /\ ScrollValues \subseteq 0..255
  /\ AddrValues \subseteq 0..255 /\ MaskValues \subseteq BOOLEAN
  /\ MaxWalk \in Nat

ASSUME SpritesAssumption ==
  /\ {ScreenLines, Width, PerLine} \subseteq Nat \ {0}
  /\ {SpriteWidth, Height, Left} \subseteq Nat
  /\ \A o \in Oams :
       o # <<>> /\ o \in Seq([x : Nat, y : Nat, opaque : SUBSET (0 .. SpriteWidth - 1)])
  /\ Oams # {} /\ Masks # {}
  /\ Masks \subseteq [{"background", "backgroundLeft", "sprites", "spritesLeft"} -> BOOLEAN]

VARIABLES
  side, \* the side that is watched
  v, t, fineX, wLatch, addrInc, scrolling, walk, \* those of PpuScroll
  oam, background, mask, line, dot, sprites, hit, overflow, carried, steady

Scroll == INSTANCE PpuScroll WITH rendering <- scrolling
Picture == INSTANCE Sprites WITH Lines <- ScreenLines

scrollVars == <<v, t, fineX, wLatch, addrInc, scrolling, walk>>
spriteVars ==
  <<oam, background, mask, line, dot, sprites, hit, overflow, carried, steady>>
ppuVars == <<vars, scrollVars, spriteVars, side>>

PowerOn ==
  /\ side \in {"timing", "scroll", "sprites"}
  /\ Init /\ Scroll!Init
  /\ Picture!SpritesInit
  /\ side # "sprites" => /\ oam = CHOOSE o \in Oams : TRUE
                         /\ background = {}
                         /\ mask = CHOOSE bits \in Masks : TRUE

Work ==
  /\ UNCHANGED side
  /\ \/ side = "timing" /\ Next /\ UNCHANGED <<scrollVars, spriteVars>>
     \/ side = "scroll" /\ Scroll!Next /\ UNCHANGED <<vars, spriteVars>>
     \/ side = "sprites" /\ Picture!SpritesNext /\ UNCHANGED <<vars, scrollVars>>

PpuSpec == PowerOn /\ [][Work]_ppuVars

-----------------------------------------------------------------------------
(* Properties: those of the three sides *)

(* The variables of all sides hold values of the code's types.             *)
PpuTypeOK == TypeOK /\ Scroll!TypeOK /\ Picture!SpritesTypeOK

(* The words v and t hold the fields that the game and rendering mean.     *)
WordsHoldFields == Scroll!WordsHoldFields

(* A frame in which nothing changes ends with the sprite 0 hit flag up if  *)
(* and only if the leading sprite of a line met the background there.      *)
SpriteZeroHits == Picture!SpriteZeroHitIsExact

(* In such a frame the overflow flag says which lines have too many.       *)
OverflowIsExact == Picture!OverflowIsExact
=============================================================================
