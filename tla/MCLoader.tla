------------------------------- MODULE MCLoader -------------------------------
(* A small instance of Loader for TLC: the game, a resident plugin, and two *)
(* builds of the development plugin of different size.                      *)
EXTENDS Loader

CONSTANTS game, res, dev1, dev2   \* images

Fn(first, last) == [first |-> first, last |-> last]
Codes ==
  (game :> [text |-> 2, functions |-> {Fn(0, 1)}, markers |-> {}])
  @@ (res :> [text |-> 4, functions |-> {Fn(0, 1), Fn(2, 3)}, markers |-> {0, 2}])
  @@ (dev1 :> [text |-> 2, functions |-> {Fn(0, 1)}, markers |-> {0}])
  @@ (dev2 :> [text |-> 5, functions |-> {Fn(0, 2), Fn(3, 4)}, markers |-> {3}])
Homes == (game :> 0) @@ (res :> 1)

F(i, c) == [image |-> i, cell |-> c, catches |-> FALSE]
Bottom  == [image |-> game, cell |-> 1, catches |-> TRUE]
StackSet ==
  {<<F(game, 0), F(res, 2), Bottom>>,                \* through a resident plugin
   <<F(dev1, 0), F(res, 0), Bottom>>,                \* through a development plugin
   <<F(dev2, 3), Bottom>>,
   <<F(dev2, 1), Bottom>>,                           \* no marker in the function
   <<F(res, 3), Bottom>>,                            \* no marker after it in the plugin
   <<F(game, 0), Bottom>>}                           \* no plugin
=============================================================================
