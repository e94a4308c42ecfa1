------------------------------- MODULE Render -------------------------------
(***************************************************************************)
(* lib/ppu.cpp: what the PPU puts on the screen.  get_sprites picks the    *)
(* sprites of a line when its mode 2 begins, and render_scanline draws the *)
(* line when mode 3 begins.  The registers and OAM belong to the program,  *)
(* which may write them at any moment: before the scan, between the scan   *)
(* and the drawing of the line, or after it.                               *)
(*                                                                         *)
(* Module Ppu says when the two functions run; here the dots are left out, *)
(* and the modes are 2 until the line is drawn and 0 afterwards.  A pixel  *)
(* is the palette register it was looked up in and its colour number, of   *)
(* which palette_lookup makes a shade.  Video memory holds one picture.    *)
(***************************************************************************)
EXTENDS Integers, FiniteSets, SequencesExt

CONSTANTS
  Width,        \* 160 pixels
  Lines,        \* 144
  TileSize,     \* 8 pixels by 8
  MapSize,      \* 32 tiles by 32
  Tiles,        \* 256 tile numbers
  Slots,        \* 40 sprites in OAM
  SpriteLimit,  \* 10 sprites on a line
  TileData,     \* the colour number of each pixel of each tile
  TileMaps,     \* the tile numbers of the two tile maps
  Tables,       \* the contents the program gives OAM
  Controls,     \* the values it gives LCDC and the registers of position
  MaxWrites     \* the bound on its writes in a frame

Columns == 0 .. Width - 1
Numbers == 0 .. TileSize - 1

ASSUME SizeAssumption ==
  /\ Width \in Nat \ {0}
  /\ Lines \in Nat \ {0, 1}
  /\ TileSize \in Nat \ {0}
  /\ MapSize \in Nat \ {0}
  /\ Slots \in Nat \ {0}
  /\ SpriteLimit \in Nat \ {0}
  /\ MaxWrites \in Nat
  /\ Tiles \in Nat \ {0} /\ Tiles % 2 = 0
  /\ Lines <= MapSize * TileSize
  /\ Width + TileSize <= MapSize * TileSize
ASSUME PictureAssumption ==
  /\ TileData \in [0 .. Tiles + (Tiles \div 2) - 1 -> [Numbers \X Numbers -> 0 .. 3]]
  /\ TileMaps \in [BOOLEAN -> [(0 .. MapSize - 1) \X (0 .. MapSize - 1) -> 0 .. Tiles - 1]]

(* The bits of LCDC, SCX, SCY, WX and WY; an entry of OAM. *)
Registers ==
  [bg : BOOLEAN, window : BOOLEAN, sprites : BOOLEAN, tall : BOOLEAN,
   addr_mode : BOOLEAN, bg_map : BOOLEAN, win_map : BOOLEAN,
   scx : Nat, scy : Nat, wx : Nat, wy : Nat]
Entries ==
  [y : Nat, x : Nat, tile_id : 0 .. Tiles - 1, behind : BOOLEAN,
   flip_y : BOOLEAN, flip_x : BOOLEAN, palette : {"obp0", "obp1"}]

ASSUME InputAssumption ==
  /\ Tables \subseteq [1 .. Slots -> Entries]
  /\ Controls \subseteq Registers

VARIABLES
  io,           \* LCDC, SCX, SCY, WX and WY
  oam,          \* the sprites in OAM, from 1
  ly,
  mode,         \* 2 until the line is drawn, then 0
  sprites,      \* sprites[0 .. found - 1], as a sequence
  window_line,
  screen

(* History: the writes of this frame; the sprites and the background bit    *)
(* each line of the screen was last drawn with, and the rows of tiles that  *)
(* were fetched for its sprites.                                            *)
VARIABLES writes, rendered

video == <<ly, mode, sprites, window_line, screen, rendered>>
vars  == <<io, oam, video, writes>>

White == <<"bgp", 0>>

(* ppu_init; io_init puts LCDC at 0x91, and OAM is zero. *)
Init ==
  /\ io = [bg |-> TRUE, window |-> FALSE, sprites |-> FALSE, tall |-> FALSE,
           addr_mode |-> TRUE, bg_map |-> FALSE, win_map |-> FALSE,
           scx |-> 0, scy |-> 0, wx |-> 0, wy |-> 0]
  /\ oam = [i \in 1 .. Slots |->
             [y |-> 0, x |-> 0, tile_id |-> 0, behind |-> FALSE,
              flip_y |-> FALSE, flip_x |-> FALSE, palette |-> "obp0"]]
  /\ ly = 0
  /\ mode = 2
  /\ sprites = <<>>
  /\ window_line = 0
  /\ screen = [n \in 0 .. Lines - 1 |-> [i \in Columns |-> White]]
  /\ writes = 0
  /\ rendered = [n \in 0 .. Lines - 1 |-> [bg |-> TRUE, sprites |-> <<>>, rows |-> {}]]
-----------------------------------------------------------------------------
(* The scan of OAM.                                                         *)

sprite_height == IF io.tall THEN 2 * TileSize ELSE TileSize

(* The Sprite of slot i.  OAM holds positions from one tile left of and two *)
(* tiles above the screen.  slot is kept for the properties.                *)
SpriteOf(i) ==
  LET e == oam[i] IN
  [y |-> e.y - 2 * TileSize, x |-> e.x - TileSize, tile_id |-> e.tile_id,
   behind |-> e.behind, flip_y |-> e.flip_y, flip_x |-> e.flip_x,
   palette |-> e.palette, slot |-> i]

(* Mutant: the scan takes every sprite for a short one. *)
OnLineShort(s, n) == s.y <= n /\ n < s.y + TileSize

OnLine(s, n) == s.y <= n /\ n < s.y + sprite_height

(* std::stable_sort by x *)
Rank(s, i) ==
  Cardinality({j \in DOMAIN s : s[j].x < s[i].x \/ (s[j].x = s[i].x /\ j <= i)})

(* Mutant: of two sprites at the same x the later one comes first. *)
unstable_sort(s) ==
  [n \in DOMAIN s |->
    s[CHOOSE i \in DOMAIN s :
        n = Cardinality({j \in DOMAIN s : s[j].x < s[i].x \/ (s[j].x = s[i].x /\ j >= i)})]]

stable_sort(s) ==
  [n \in DOMAIN s |-> s[CHOOSE i \in DOMAIN s : Rank(s, i) = n]]

(* sprites[0 .. found - 1] after the slots 1 to k: the scan goes on until   *)
(* SpriteLimit are found.                                                   *)
Scan(n) ==
  LET found[k \in 0 .. Slots] ==
        IF k = 0 THEN <<>>
        ELSE LET before == found[k - 1] IN
             IF Len(before) < SpriteLimit /\ OnLine(SpriteOf(k), n)
             THEN Append(before, SpriteOf(k)) ELSE before
  IN  found

get_sprites(n) == stable_sort(Scan(n)[Slots])
-----------------------------------------------------------------------------
(* The background and the window.                                           *)

(* The tile data starts at 0x8000, or at 0x9000 with a signed tile number. *)
TileFor(id) == IF io.addr_mode \/ id >= Tiles \div 2 THEN id ELSE Tiles + id

(* The colour number of the pixel x, y of a tile map *)
ColorIn(map, x, y) ==
  TileData[TileFor(TileMaps[map][<<x \div TileSize, y \div TileSize>>])]
          [<<x % TileSize, y % TileSize>>]

Around == MapSize * TileSize

Background(i) == ColorIn(io.bg_map, (io.scx + i) % Around, (io.scy + ly) % Around)

wx_start == io.wx - (TileSize - 1)
WindowHere(i) == io.window /\ ly >= io.wy /\ i >= wx_start
Window(i) == ColorIn(io.win_map, i - wx_start, window_line)

window_visible == \E i \in Columns : WindowHere(i)

(* bg_scanline, 0 where neither of them was drawn *)
bg_scanline ==
  [i \in Columns |-> IF WindowHere(i) THEN Window(i)
                     ELSE IF io.bg THEN Background(i) ELSE 0]

(* Mutant: colour 0 of the background is transparent. *)
BackdropTransparent ==
  [i \in Columns |-> IF (io.bg \/ WindowHere(i)) /\ bg_scanline[i] # 0
                     THEN <<"bgp", bg_scanline[i]>> ELSE screen[ly][i]]

(* The line before the sprites.  Without background and window its pixels   *)
(* stay as they were.                                                       *)
Backdrop ==
  [i \in Columns |-> IF io.bg \/ WindowHere(i) THEN <<"bgp", bg_scanline[i]>>
                     ELSE screen[ly][i]]
-----------------------------------------------------------------------------
(* The sprites.                                                             *)

RowOf(s) == IF s.flip_y THEN sprite_height - 1 - (ly - s.y) ELSE ly - s.y

(* LCDC may have changed since the scan: the row may lie outside. *)
RowFits(s) == RowOf(s) >= 0 /\ RowOf(s) < sprite_height

(* A tall sprite takes an even tile and the next one. *)
TileUnder(s) ==
  IF io.tall THEN s.tile_id - (s.tile_id % 2) + (IF RowOf(s) < TileSize THEN 0 ELSE 1)
  ELSE s.tile_id
RowInTile(s) ==
  IF io.tall /\ RowOf(s) >= TileSize THEN RowOf(s) - TileSize ELSE RowOf(s)

ColorOf(s, j) ==
  TileData[TileUnder(s)][<<IF s.flip_x THEN TileSize - 1 - j ELSE j, RowInTile(s)>>]

(* The row that a sprite is drawn from: whose it is, its tile and its place *)
(* in the tile.                                                             *)
Fetched(s) == [slot |-> s.slot, row |-> <<TileUnder(s), RowInTile(s)>>]
FetchedRows ==
  IF io.sprites THEN {Fetched(s) : s \in {t \in Range(sprites) : RowFits(t)}} ELSE {}

(* One sprite drawn over the line. *)
draw(s, line) ==
  IF ~RowFits(s) THEN line
  ELSE [i \in Columns |->
         LET j == i - s.x IN
         IF /\ j \in Numbers
            /\ ColorOf(s, j) # 0
            /\ ~(s.behind /\ bg_scanline[i] # 0)
         THEN <<s.palette, ColorOf(s, j)>>
         ELSE line[i]]

(* Mutant: the last sprite is drawn last. *)
Scanline_forwards ==
  IF io.sprites THEN FoldLeft(LAMBDA line, s : draw(s, line), Backdrop, sprites)
  ELSE Backdrop

(* The line with the last k sprites drawn, each over the one after it.      *)
Layers ==
  LET layer[k \in 0 .. Len(sprites)] ==
        IF k = 0 THEN Backdrop ELSE draw(sprites[Len(sprites) + 1 - k], layer[k - 1])
  IN  layer

Scanline == IF io.sprites THEN Layers[Len(sprites)] ELSE Backdrop
-----------------------------------------------------------------------------
(* The steps.                                                               *)

render_scanline ==
  /\ mode = 2
  /\ mode' = 0
  /\ screen' = [screen EXCEPT ![ly] = Scanline]
  /\ window_line' = IF window_visible THEN window_line + 1 ELSE window_line
  /\ rendered' = [rendered EXCEPT ![ly] =
                   [bg |-> io.bg, sprites |-> IF io.sprites THEN sprites ELSE <<>>,
                    rows |-> FetchedRows]]
  /\ UNCHANGED <<io, oam, ly, sprites, writes>>

NextLine ==
  /\ mode = 0
  /\ ly + 1 < Lines
  /\ ly' = ly + 1
  /\ mode' = 2
  /\ sprites' = get_sprites(ly + 1)
  /\ UNCHANGED <<io, oam, window_line, screen, rendered, writes>>

(* Mutant: the new frame begins with the sprites of the last line. *)
NextFrameWithoutScan ==
  /\ mode = 0
  /\ ly + 1 = Lines
  /\ ly' = 0
  /\ mode' = 2
  /\ window_line' = 0
  /\ writes' = 0
  /\ UNCHANGED <<io, oam, sprites, screen, rendered>>

(* After the lines of VBlank, none of which is drawn. *)
NextFrame ==
  /\ mode = 0
  /\ ly + 1 = Lines
  /\ ly' = 0
  /\ mode' = 2
  /\ sprites' = get_sprites(0)
  /\ window_line' = 0
  /\ writes' = 0
  /\ UNCHANGED <<io, oam, screen, rendered>>

(* The program switches the LCD off, in the middle of a line or after it,   *)
(* and on again: line 0 begins in mode 0 and is not drawn, and sprites is   *)
(* left as it was.                                                          *)
OffAndOn ==
  /\ writes < MaxWrites
  /\ writes' = writes + 1
  /\ ly' = 0
  /\ mode' = 0
  /\ window_line' = 0
  /\ UNCHANGED <<io, oam, sprites, screen, rendered>>

(* The program writes registers, or OAM, by itself or by the DMA. *)
WriteRegisters ==
  /\ writes < MaxWrites
  /\ writes' = writes + 1
  /\ io' \in Controls
  /\ UNCHANGED <<oam, video>>

WriteOam ==
  /\ writes < MaxWrites
  /\ writes' = writes + 1
  /\ oam' \in Tables
  /\ UNCHANGED <<io, video>>

Next ==
  \/ render_scanline
  \/ NextLine
  \/ NextFrame
  \/ OffAndOn
  \/ WriteRegisters
  \/ WriteOam

Spec == Init /\ [][Next]_vars
-----------------------------------------------------------------------------
(* The scan keeps the first SpriteLimit sprites of OAM that lie on the line *)
(* and no others, in the order of their priority: from left to right, and   *)
(* at the same x by their place in OAM.  A sprite off the side of the       *)
(* screen takes a place all the same.                                       *)
Before(i) ==
  {j \in 1 .. i - 1 : OnLine(SpriteOf(j), ly')}

FirstInOrder ==
  [][NextLine \/ NextFrame =>
      /\ {sprites'[n].slot : n \in DOMAIN sprites'} =
         {i \in 1 .. Slots : OnLine(SpriteOf(i), ly') /\ Cardinality(Before(i)) < SpriteLimit}
      /\ \A m, n \in DOMAIN sprites' : m < n =>
           \/ sprites'[m].x < sprites'[n].x
           \/ sprites'[m].x = sprites'[n].x /\ sprites'[m].slot < sprites'[n].slot]_vars

(* The picture of a sprite, from top to bottom: the rows of its tile, for a *)
(* tall one those of an even tile and the tile after it, upside down as a   *)
(* whole when it is flipped.                                                *)
TileRows(tile) == [r \in 1 .. TileSize |-> <<tile, r - 1>>]
Stack(s) ==
  LET even == 2 * (s.tile_id \div 2) IN
  IF io.tall THEN TileRows(even) \o TileRows(even + 1) ELSE TileRows(s.tile_id)
PictureRows(s) == IF s.flip_y THEN Reverse(Stack(s)) ELSE Stack(s)

(* Line n crosses the picture, and this is the row it crosses. *)
Crosses(s, n) == n - s.y + 1 \in DOMAIN PictureRows(s)
PictureRow(s, n) == PictureRows(s)[n - s.y + 1]

(* In a frame in which nothing was written, every sprite of OAM is drawn    *)
(* with all the rows of its picture that lie on the screen, each on its     *)
(* line, and a line shows nothing else.  Only sprites that come after       *)
(* SpriteLimit others on a line miss a row.  It takes the scan of each      *)
(* line, its drawing and the start of the frame to agree on LY, on the      *)
(* height and on the flip.                                                  *)
HasPlace(i, n) ==
  /\ Crosses(SpriteOf(i), n)
  /\ Cardinality({j \in 1 .. i - 1 : Crosses(SpriteOf(j), n)}) < SpriteLimit
RowsOn(n) ==
  {[slot |-> i, row |-> PictureRow(SpriteOf(i), n)] : i \in {i \in 1 .. Slots : HasPlace(i, n)}}
DrawnLines == {n \in 0 .. Lines - 1 : n < ly \/ (n = ly /\ mode = 0)}

SpritesAreWhole ==
  writes = 0 /\ io.sprites => \A n \in DrawnLines : rendered[n].rows = RowsOn(n)

(* A pixel of a drawn line shows the first sprite of those that are opaque  *)
(* there and not hidden behind the background, though a sprite that is      *)
(* hidden comes before it; without any, the window where it shows, else the *)
(* background, and with the background off what the line showed before.     *)
(* What is opaque is told by the pictures that LCDC gives the sprites now,  *)
(* whatever height they had when they were found: a line that no longer     *)
(* crosses a picture shows nothing of it.                                   *)
PictureColor(s, i) ==
  LET row == PictureRow(s, ly)
      j   == i - s.x
  IN  TileData[row[1]][<<IF s.flip_x THEN TileSize - 1 - j ELSE j, row[2]>>]
Opaque(s, i) ==
  /\ Crosses(s, ly)
  /\ s.x <= i /\ i < s.x + TileSize
  /\ PictureColor(s, i) # 0
Hidden(s, i) ==
  /\ s.behind
  /\ \/ WindowHere(i) /\ Window(i) # 0
     \/ ~WindowHere(i) /\ io.bg /\ Background(i) # 0
Shown(i) == {n \in DOMAIN sprites : Opaque(sprites[n], i) /\ ~Hidden(sprites[n], i)}

FrontmostWins ==
  [][render_scanline =>
      \A i \in Columns :
        LET front == CHOOSE n \in Shown(i) : \A m \in Shown(i) : n <= m
        IN  screen'[ly][i] =
              IF io.sprites /\ Shown(i) # {}
              THEN <<sprites[front].palette, PictureColor(sprites[front], i)>>
              ELSE IF WindowHere(i) THEN <<"bgp", Window(i)>>
              ELSE IF io.bg THEN <<"bgp", Background(i)>>
              ELSE screen[ly][i]]_vars

(* A line is drawn with the sprites of a scan of that line: a sprite lies   *)
(* less than its full height above it.  The LCD may have been switched off  *)
(* and on since, in the middle of a line, with the sprites left as they     *)
(* were.                                                                    *)
SpritesOfTheLine ==
  mode = 2 => \A n \in DOMAIN sprites :
                sprites[n].y <= ly /\ ly < sprites[n].y + 2 * TileSize

(* A line that was drawn with the background on shows no sprite but those   *)
(* it was drawn with: what a line drawn without it keeps of earlier frames  *)
(* is gone with the first drawing of the background.                        *)
NothingLeftBehind ==
  \A n \in 0 .. Lines - 1 : rendered[n].bg =>
    \A i \in Columns : screen[n][i][1] # "bgp" =>
      \E k \in DOMAIN rendered[n].sprites :
        /\ rendered[n].sprites[k].palette = screen[n][i][1]
        /\ rendered[n].sprites[k].x <= i
        /\ i < rendered[n].sprites[k].x + TileSize
=============================================================================
