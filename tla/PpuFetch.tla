------------------------------- MODULE PpuFetch -------------------------------
(***************************************************************************)
(* Where the PPU reads what it draws (nes/src/ppu/ppu.rs): the nametable   *)
(* entry, the attribute and the pattern rows of a background pixel, the    *)
(* pattern rows of a sprite's line.  Arithmetic of u8 and u16 values; no   *)
(* step may leave its type, since a debug build panics there and a release *)
(* build reads elsewhere.                                                  *)
(***************************************************************************)
EXTENDS Integers

Bytes == 0 .. 255
FineScrolls == 0 .. 7
ScreenRows == 0 .. 239
TableBytes == 0 .. 8191

-----------------------------------------------------------------------------
(* The background: render_background_pixel with v, fine_x and the pixel x. *)

ScrollX(v, fineX) == ((v % 32) * 8) + fineX
ScrollY(v) == (((v \div 32) % 32) * 8) + (v \div 4096)

VirtualX(v, fineX, x) ==
  LET right == x + ScrollX(v, fineX)
  IN IF right >= 256 THEN right - 256 ELSE right

VirtualY(v) == IF ScrollY(v) >= 240 THEN ScrollY(v) - 240 ELSE ScrollY(v)

(* Leaving a nametable at the right flips the lower bit of its number,     *)
(* leaving it at the bottom the upper one.                                 *)
VirtualNametable(v, fineX, x) ==
  LET lower == (v \div 1024) % 2
      upper == (v \div 2048) % 2
      right == IF x + ScrollX(v, fineX) >= 256 THEN 1 - lower ELSE lower
      below == IF ScrollY(v) >= 240 THEN 1 - upper ELSE upper
  IN right + (2 * below)

VerticalTile(v) == VirtualY(v) \div 8
HorizontalTile(v, fineX, x) == VirtualX(v, fineX, x) \div 8

NametableOffset(v, fineX, x) ==
  (VerticalTile(v) * 32) + HorizontalTile(v, fineX, x)

AttributeOffset(v, fineX, x) ==
  960 + ((VerticalTile(v) \div 4) * 8) + (HorizontalTile(v, fineX, x) \div 4)

(* The first of the two pattern bytes of a tile's row; the other is 8 on.  *)
BackgroundRow(table, entry, v) == table + (entry * 16) + (VirtualY(v) % 8)

-----------------------------------------------------------------------------
(* Sprites: load_sprites_for_next_scanline.                                *)

Heights == {8, 16}

(* A sprite begins on the line below its y; one that would begin below the *)
(* last line but one is hidden.                                            *)
Covers(y, line, height, lines) ==
  /\ y <= lines - 2
  /\ line >= y + 1 /\ line < y + 1 + height

(* The top bit of the attributes turns the sprite upside down.              *)
TileRow(y, line, height, attr) ==
  IF attr >= 128 THEN height - 1 - (line - (y + 1)) ELSE line - (y + 1)

(* The first of the two pattern bytes.  A large sprite's table is the      *)
(* lowest bit of its number, and its lower half is a tile further on.      *)
SpriteRow(height, table8, number, row) ==
  IF height = 16
  THEN (4096 * (number % 2)) + ((number \div 2) * 32) + row
       + (IF row > 7 THEN 8 ELSE 0)
  ELSE table8 + (number * 16) + row

-----------------------------------------------------------------------------
(* Properties *)

BackgroundInBounds(v, fineX, x) ==
  /\ VirtualX(v, fineX, x) \in Bytes /\ VirtualY(v) \in ScreenRows
  /\ VirtualNametable(v, fineX, x) \in 0 .. 3
  /\ NametableOffset(v, fineX, x) \in 0 .. 959
  /\ AttributeOffset(v, fineX, x) \in 960 .. 1023
  /\ \A table \in {0, 4096}, entry \in Bytes :
       BackgroundRow(table, entry, v) + 8 \in TableBytes

SpriteInBounds(y, line, height, attr, table8, number) ==
  Covers(y, line, height, 240) =>
    /\ y + 1 + height \in Bytes
    /\ TileRow(y, line, height, attr) \in 0 .. height - 1
    /\ SpriteRow(height, table8, number, TileRow(y, line, height, attr)) + 8
         \in TableBytes
=============================================================================
