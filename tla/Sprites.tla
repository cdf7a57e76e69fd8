------------------------------- MODULE Sprites --------------------------------
(***************************************************************************)
(* Sprites while a frame is drawn (nes/src/ppu/ppu.rs): at the end of each *)
(* line the PPU picks the sprites of the next, dot by dot it compares them *)
(* with the background, and the two flags that a game polls come out of    *)
(* that.  The game may change the sprites and the masks between any two    *)
(* dots.  What a tile looks like is abstracted to the columns in which it  *)
(* is opaque, the background to the dots in which it is.                   *)
(***************************************************************************)
EXTENDS PpuFetch, Sequences, FiniteSetsExt

CONSTANTS
  Width, \* dots of a line: 256
  Lines, \* visible lines: 240
  SpriteWidth, \* 8
  Height, \* 8 or 16
  PerLine, \* sprites on a line: 8
  Left, \* dots at the left that can be masked: 8
  Oams, \* the sprites a game shows, as sequences of [y, x, opaque]
  Backgrounds, \* opaque dots of the background, sets of <<x, y>>
  Masks \* records of the four bits of $2001

VARIABLES
  oam, \* oam: [u8; 256]
  background, \* what the background tiles show
  mask, \* show_background and the other three
  line, dot, \* where the beam is
  sprites, \* sprites: Vec<Sprite>, the sprites of the line
  hit, overflow, \* sprite_0_hit, sprite_overflow
  carried, \* history: the list that the frame before left, while steady
  steady \* history: nothing was changed since the frame began

spriteVars ==
  <<oam, background, mask, line, dot, sprites, hit, overflow, carried, steady>>

(* Definitions marked "Mutant" are variants a bug in the code would make:   *)
(* Spec does not use them, each of them breaks a property of the runs.     *)

SpritesInit ==
  /\ oam \in Oams /\ background \in Backgrounds /\ mask \in Masks
  /\ line = 0 /\ dot = 0
  /\ sprites = <<>>
  /\ hit = FALSE /\ overflow = FALSE
  /\ carried = <<>> /\ steady = TRUE

-----------------------------------------------------------------------------
(* One dot of Ppu::tick *)

Shown(bit, leftBit, x) == mask[bit] /\ (mask[leftBit] \/ x >= Left)

(* The background pixel is drawn: it is opaque and not masked.             *)
BackgroundDrawn(x) ==
  Shown("background", "backgroundLeft", x) /\ <<x, line>> \in background

(* Mutant: the end of a sprite at the right edge wraps around.             *)
OpaqueAtWrapping(sprite, x) ==
  /\ x >= sprite.x /\ x < (sprite.x + SpriteWidth) % Width
  /\ x - sprite.x \in sprite.opaque

(* saturating_add keeps the end of a sprite on the line.                   *)
OpaqueAt(sprite, x) ==
  /\ x >= sprite.x /\ x < Min({sprite.x + SpriteWidth, Width - 1})
  /\ x - sprite.x \in sprite.opaque

HitDisabled(x) ==
  \/ x = Width - 1
  \/ x < Left /\ ~(mask.spritesLeft /\ mask.backgroundLeft)

render_sprite_pixel(x) ==
  hit' = \/ hit
         \/ /\ Shown("sprites", "spritesLeft", x)
            /\ \E i \in DOMAIN sprites : sprites[i].zero /\ OpaqueAt(sprites[i], x)
            /\ BackgroundDrawn(x)
            /\ ~HitDisabled(x)

(* Mutant: the line is full whatever the next sprite is.                   *)
PickOfFullLine(so, sprite) ==
  IF so.full THEN so
  ELSE IF Len(so.sprites) >= PerLine THEN [so EXCEPT !.full = TRUE]
  ELSE IF ~Covers(sprite.y, line + 1, Height, Lines) THEN so
  ELSE [so EXCEPT !.sprites = Append(@,
          [x |-> sprite.x, opaque |-> sprite.opaque, zero |-> so.sprites = <<>>])]

(* One pass of the loop over OAM: a ninth sprite ends it.                  *)
Pick(so, sprite) ==
  IF so.full \/ ~Covers(sprite.y, line + 1, Height, Lines) THEN so
  ELSE IF Len(so.sprites) >= PerLine THEN [so EXCEPT !.full = TRUE]
  ELSE [so EXCEPT !.sprites = Append(@,
          [x |-> sprite.x, opaque |-> sprite.opaque, zero |-> so.sprites = <<>>])]

(* What is picked of the first n sprites.                                  *)
picked[n \in 0 .. Len(oam)] ==
  IF n = 0 THEN [sprites |-> <<>>, full |-> FALSE] ELSE Pick(picked[n - 1], oam[n])

load_sprites_for_next_scanline ==
  /\ sprites' = picked[Len(oam)].sprites
  /\ overflow' = (overflow \/ picked[Len(oam)].full)

Pixel ==
  /\ line < Lines /\ dot < Width
  /\ render_sprite_pixel(dot)
  /\ dot' = dot + 1
  /\ UNCHANGED <<oam, background, mask, line, sprites, overflow, carried, steady>>

(* Dot 320 of a visible line, whether rendering is on or not.              *)
EndOfLine ==
  /\ line < Lines /\ dot = Width
  /\ load_sprites_for_next_scanline
  /\ line' = line + 1 /\ dot' = 0
  /\ UNCHANGED <<oam, background, mask, hit, carried, steady>>

(* Dot 1 of the pre-render line: the flags start over, the sprites that    *)
(* were picked for the line below the last stay for the first one.         *)
PreRenderLine ==
  /\ line = Lines
  /\ hit' = FALSE /\ overflow' = FALSE
  /\ line' = 0
  /\ carried' = sprites /\ steady' = TRUE
  /\ UNCHANGED <<oam, background, mask, dot, sprites>>

-----------------------------------------------------------------------------
(* The game *)

(* A write to $2001, a transfer or a write to $2004.                       *)
WriteMask ==
  /\ mask' \in Masks
  /\ carried' = <<>> /\ steady' = FALSE
  /\ UNCHANGED <<oam, background, line, dot, sprites, hit, overflow>>

cpu_oam_dma ==
  /\ oam' \in Oams
  /\ carried' = <<>> /\ steady' = FALSE
  /\ UNCHANGED <<background, mask, line, dot, sprites, hit, overflow>>

OamData2004(i, y) ==
  /\ oam' = [oam EXCEPT ![i].y = y]
  /\ carried' = <<>> /\ steady' = FALSE
  /\ UNCHANGED <<background, mask, line, dot, sprites, hit, overflow>>

SpritesNext ==
  \/ Pixel \/ EndOfLine \/ PreRenderLine
  \/ WriteMask \/ cpu_oam_dma
  \/ \E i \in DOMAIN oam : OamData2004(i, 0)

SpritesSpec == SpritesInit /\ [][SpritesNext]_spriteVars

-----------------------------------------------------------------------------
(* Properties *)

SpritesTypeOK ==
  /\ line \in 0 .. Lines /\ dot \in 0 .. Width
  /\ Len(sprites) <= PerLine
  /\ hit \in BOOLEAN /\ overflow \in BOOLEAN /\ steady \in BOOLEAN

SpritesOn(y) == {i \in DOMAIN oam : Covers(oam[i].y, y, Height, Lines)}

(* The sprite whose hit is reported on a line: the first that covers it,   *)
(* which the code takes for sprite 0 even if sprite 0 is elsewhere.  The   *)
(* first line has no list of its own: there it is the first of the list    *)
(* that the frame before made for the line below the screen.               *)
HitsOn(y) ==
  IF y = 0 THEN {carried[i] : i \in DOMAIN carried \cap {1}}
  ELSE {oam[i] : i \in {j \in SpritesOn(y) : \A k \in SpritesOn(y) : j <= k}}

(* That sprite and the background are both opaque at x on line y, and no   *)
(* mask hides either.  The dot before the last is the last that counts.    *)
Meets(x, y) ==
  /\ \E sprite \in HitsOn(y) : x - sprite.x \in sprite.opaque
  /\ <<x, y>> \in background
  /\ mask.background /\ mask.sprites
  /\ (mask.backgroundLeft /\ mask.spritesLeft) \/ x >= Left
  /\ x < Width - 1

(* A game that splits the screen waits for the sprite 0 hit.  At the end   *)
(* of a frame during which it changed nothing, the flag is up if and only  *)
(* if the leading sprite of some line met an opaque background there:      *)
(* no other sprite of the line raises it or keeps it down, nor does one    *)
(* that is cut at an edge, and what raised it in the frame before is gone. *)
SpriteZeroHitIsExact ==
  (line = Lines /\ steady)
    => (hit <=> \E y \in 0 .. Lines - 1, x \in 0 .. Width - 1 : Meets(x, y))

(* The overflow flag says that one line has more sprites than fit, the one *)
(* below the screen included: neither a hidden sprite nor the order of the *)
(* sprites sets it or keeps it from being set.                             *)
OverflowIsExact ==
  (line = Lines /\ steady)
    => (overflow <=> \E y \in 1 .. Lines : Cardinality(SpritesOn(y)) > PerLine)
=============================================================================
