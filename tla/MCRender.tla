------------------------------ MODULE MCRender ------------------------------
(* Tiles of 2 by 2 pixels on a screen of 4 by 2, three sprites of which two *)
(* fit on a line.                                                           *)
EXTENDS Render

Tile(a, b, c, d) ==
  [p \in Numbers \X Numbers |->
    CASE p = <<0, 0>> -> a [] p = <<1, 0>> -> b [] p = <<0, 1>> -> c [] OTHER -> d]

MCTileData == [t \in 0 .. 2 |->
  CASE t = 0 -> Tile(1, 0, 2, 3) [] t = 1 -> Tile(0, 3, 1, 2) [] OTHER -> Tile(2, 0, 0, 1)]

MCTileMaps == [m \in BOOLEAN |->
  [c \in (0 .. 2) \X (0 .. 2) |-> (c[1] + c[2] + (IF m THEN 1 ELSE 0)) % 2]]

Sprite(y, x, tile, behind, flips, palette) ==
  [y |-> y, x |-> x, tile_id |-> tile, behind |-> behind,
   flip_y |-> flips, flip_x |-> flips, palette |-> palette]

(* Positions are those of OAM: line 0 is 4 and column 0 is 2. *)
A == Sprite(3, 3, 0, FALSE, FALSE, "obp0")
B == Sprite(4, 2, 1, TRUE, TRUE, "obp1")
C == Sprite(4, 3, 1, FALSE, TRUE, "obp1")
D == Sprite(5, 5, 0, FALSE, FALSE, "obp0")
Side == Sprite(4, 0, 0, FALSE, FALSE, "obp1")
Tall == Sprite(2, 4, 1, TRUE, TRUE, "obp0")

MCTables == {<<A, B, C>>, <<Side, Tall, B>>, <<D, C, A>>}

Control(bg, window, sprites_on, tall, other, x, wx) ==
  [bg |-> bg, window |-> window, sprites |-> sprites_on, tall |-> tall,
   addr_mode |-> ~other, bg_map |-> other, win_map |-> ~other,
   scx |-> x, scy |-> x, wx |-> wx, wy |-> x]

MCControls ==
  {Control(TRUE, FALSE, TRUE, FALSE, FALSE, 0, 0),
   Control(FALSE, FALSE, TRUE, TRUE, FALSE, 0, 0),
   Control(TRUE, TRUE, TRUE, TRUE, TRUE, 1, 3),
   Control(FALSE, TRUE, TRUE, FALSE, TRUE, 0, 0)}
=============================================================================
