------------------------------ MODULE MCMappers ------------------------------
(* Games for TLC: per kind of cartridge the accesses that matter to it.     *)
EXTENDS Mappers

HeaderSize == 16
KB8 == 8192
KB16 == 16384

File(mapper, prg, chr, mirror) ==
  [length |-> HeaderSize + (prg * KB16) + (chr * KB8), magic |-> TRUE,
   prgBlocks |-> prg, chrBlocks |-> chr,
   flags6 |-> ((mapper % 16) * 16) + mirror, flags7 |-> (mapper \div 16) * 16]
Program(cartridge, reads, writes) ==
  [file |-> cartridge, reads |-> reads, writes |-> writes]
Nametables(fst, snd) == {<<\h2006, fst>>, <<\h2006, snd>>, <<\h2007, 1>>}

MCGames ==
  {Program(File(0, 1, 1, 0), {\h2007, \h2002, \hc000}, 
        Nametables(\h20, \h24) \union {<<\h3fc0, 4>>}),
   Program(File(0, 2, 0, 1), {\h2007, \h3002, \hffff},
        Nametables(\h3f, \h10) \union {<<\h2000, 0>>}),
   Program(File(0, 2, 1, 1), {\h0, \h1000, \h8000},
        {<<\h800, 1>>, <<0, 2>>, <<\h2003, 255>>, <<\h2004, 7>>, <<\h4014, \h18>>,
         <<\h4014, \h20>>, <<\h4014, \h40>>, <<\h8000, 3>>}),
   Program(File(2, 2, 0, 0), {\hbfff, \h6000, \h2007},
        {<<\h8000, 1>>, <<\h8000, 2>>, <<\h2007, 5>>, <<\h2006, \h20>>, <<\h2006, 0>>}),
   Program(File(2, 2, 1, 1), {\hc000}, {<<\h2007, 5>>}),
   Program(File(3, 2, 2, 0), {\h2007, \h6000, \h8000}, 
        {<<\hc000, 5>>, <<\hc000, 6>>, <<\h2000, 0>>, <<\h2007, 1>>, <<\h4014, \h40>>}),
   Program(File(3, 1, 1, 1), {\hc000, \hbfff}, {<<\h6000, 1>>}),
   Program(File(0, 3, 1, 1), {}, {}), Program(File(66, 1, 1, 0), {}, {}),
   Program([File(0, 1, 1, 0) EXCEPT !.length = @ - 1], {\h2007}, {}),
   Program([File(0, 1, 1, 0) EXCEPT !.flags6 = 4], {}, {})}
MCPpuAddresses == {\h2020, \h2024, \h2420, \h2824, \h3f10, \h3f00, \h3f20, \h1010, \h3420}
=============================================================================
