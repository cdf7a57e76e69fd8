---------------------------- MODULE ScrollFields ----------------------------
(***************************************************************************)
(* What a game sees of the PPU's scroll registers: an address made of      *)
(* fields, a second one that is assembled by writes in two halves, and the *)
(* steps that rendering takes through the first.  PpuScroll, which works   *)
(* on the bits of two words as ppu.rs does, implements it.                 *)
(***************************************************************************)
EXTENDS Naturals

CONSTANT Bytes \* what a game writes

Fields == [coarseX : 0..31, coarseY : 0..31, nametable : 0..3, fineY : 0..7]

VARIABLES cur,       \* where the PPU reads (v)
          tmp,       \* what the game assembles (t)
          fineX,     \* pixel within the tile (fine_x)
          firstHalf, \* which half the next write is (w_latch)
          step       \* what an access to the data adds (vram_addr_inc)

vars == <<cur, tmp, fineX, firstHalf, step>>

Origin == [coarseX |-> 0, coarseY |-> 0, nametable |-> 0, fineY |-> 0]

Init ==
  /\ cur = Origin /\ tmp = Origin
  /\ fineX = 0 /\ firstHalf = TRUE
  /\ step = 0

-----------------------------------------------------------------------------
(* Fields in the order of an address: x, y, nametable and fine y.          *)
Address(f) ==
  f.coarseX + 32 * f.coarseY + 1024 * f.nametable + 4096 * f.fineY

At(address) ==
  [coarseX   |-> address % 32,
   coarseY   |-> (address \div 32) % 32,
   nametable |-> (address \div 1024) % 4,
   fineY     |-> (address \div 4096) % 8]

-----------------------------------------------------------------------------
(* The game *)

Control(nametable, inc) ==
  /\ tmp' = [tmp EXCEPT !.nametable = nametable]
  /\ step' = inc
  /\ UNCHANGED <<cur, fineX, firstHalf>>

ScrollX(val) ==
  /\ firstHalf /\ firstHalf' = FALSE
  /\ tmp' = [tmp EXCEPT !.coarseX = val \div 8]
  /\ fineX' = val % 8
  /\ UNCHANGED <<cur, step>>

ScrollY(val) ==
  /\ ~firstHalf /\ firstHalf' = TRUE
  /\ tmp' = [tmp EXCEPT !.coarseY = val \div 8, !.fineY = val % 8]
  /\ UNCHANGED <<cur, fineX, step>>

(* Six bits of the address; what they leave out of fine y is cleared.      *)
AddressHigh(val) ==
  /\ firstHalf /\ firstHalf' = FALSE
  /\ tmp' = At(256 * (val % 64) + (Address(tmp) % 256))
  /\ UNCHANGED <<cur, fineX, step>>

AddressLow(val) ==
  /\ ~firstHalf /\ firstHalf' = TRUE
  /\ tmp' = At(256 * (Address(tmp) \div 256) + val)
  /\ cur' = tmp'
  /\ UNCHANGED <<fineX, step>>

Access ==
  /\ cur' = At(Address(cur) + step)
  /\ UNCHANGED <<tmp, fineX, firstHalf, step>>

Status ==
  /\ firstHalf' = TRUE
  /\ UNCHANGED <<cur, tmp, fineX, step>>

-----------------------------------------------------------------------------
(* Rendering *)

OtherVertical(nametable) == (nametable + 2) % 4

(* One line down: a nametable has 30 rows of tiles, and only row 29 leads  *)
(* to the nametable below.                                                 *)
Down ==
  /\ cur' =
       CASE cur.fineY < 7 -> [cur EXCEPT !.fineY = @ + 1]
         [] cur.fineY = 7 /\ cur.coarseY = 29 ->
              [cur EXCEPT !.fineY = 0, !.coarseY = 0,
                          !.nametable = OtherVertical(@)]
         [] OTHER -> [cur EXCEPT !.fineY = 0, !.coarseY = (@ + 1) % 32]
  /\ UNCHANGED <<tmp, fineX, firstHalf, step>>

(* The horizontal half of a nametable's number is its lower bit.           *)
CopyHorizontal ==
  /\ cur' = [cur EXCEPT !.coarseX = tmp.coarseX,
                        !.nametable = 2 * (@ \div 2) + (tmp.nametable % 2)]
  /\ UNCHANGED <<tmp, fineX, firstHalf, step>>

CopyVertical ==
  /\ cur' = [cur EXCEPT !.coarseY = tmp.coarseY, !.fineY = tmp.fineY,
                        !.nametable = 2 * (tmp.nametable \div 2) + (@ % 2)]
  /\ UNCHANGED <<tmp, fineX, firstHalf, step>>

-----------------------------------------------------------------------------
Next ==
  \/ \E nametable \in 0..3, inc \in {1, 32} : Control(nametable, inc)
  \/ \E val \in Bytes :
       ScrollX(val) \/ ScrollY(val) \/ AddressHigh(val) \/ AddressLow(val)
  \/ Access \/ Status
  \/ Down \/ CopyHorizontal \/ CopyVertical

Spec == Init /\ [][Next]_vars
=============================================================================
