-------------------------------- MODULE MCPpu --------------------------------
(* Ppu for TLC: a screen of 5 dots and 4 lines, 3 sprites of 2 by 2 dots.   *)
EXTENDS Ppu

Sprite(x, y, opaque) == [x |-> x, y |-> y, opaque |-> opaque]

MCOams == {<<Sprite(a, b, {0, 1}), Sprite(1, c, {1}), Sprite(2, 1, {0})>> :
             a \in {0, 3}, b \in {0, 2, 3}, c \in {0, 1}}
MCBackgrounds == {{}, {<<0, 1>>, <<3, 1>>, <<3, 2>>}, {<<x, y>> : x \in 0 .. 4, y \in {0, 2}}}
All == [background |-> TRUE, backgroundLeft |-> TRUE,
        sprites |-> TRUE, spritesLeft |-> TRUE]
MCMasks == {All, [All EXCEPT !.backgroundLeft = FALSE],
            [All EXCEPT !.sprites = FALSE]}
=============================================================================
