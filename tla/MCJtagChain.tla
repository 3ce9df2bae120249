---------------------------- MODULE MCJtagChain ----------------------------
(***************************************************************************)
(* An instance of JtagChain: chains of two chips, words of three bits, a   *)
(* wire that takes four bits in a call.                                    *)
(***************************************************************************)
EXTENDS JtagChain

Core == [cap |-> <<1, 0>>, id |-> <<1, 0, 0>>]
Pad  == [cap |-> <<1, 0, 1>>, id |-> <<>>]
Wide == [cap |-> <<1, 0, 1, 0>>, id |-> <<>>]

\* A chain that begins with the identified chip, and one that ends with it and whose
\* captures can be divided in two ways.
MCChains == {<<Core, Pad>>, <<Wide, Core>>}

MCScanData == {<<1, 0>>}

SpecOf(chip) == [ir |-> Len(chip.cap), id |-> chip.id]

\* A layout that fits the first chain, one with a chip less, one that Connect refuses
\* for its division of the first chain, and one that it accepts for the second
\* although the chips divide it elsewhere.
MCLayouts ==
  {<<SpecOf(Core), SpecOf(Pad)>>,
   <<SpecOf(Core)>>,
   <<[ir |-> 3, id |-> Core.id], [ir |-> 2, id |-> <<>>]>>,
   <<[ir |-> 2, id |-> <<>>], [ir |-> 4, id |-> Core.id]>>}

=============================================================================
