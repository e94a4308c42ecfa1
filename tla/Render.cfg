SPECIFICATION Spec
CONSTANTS
  Width = 4
  Lines = 2
  TileSize = 2
  MapSize = 3
  Tiles = 2
  Slots = 3
  SpriteLimit = 2
  MaxWrites = 2
  TileData <- MCTileData
  TileMaps <- MCTileMaps
  Tables <- MCTables
  Controls <- MCControls
INVARIANTS
  SpritesAreWhole
  SpritesOfTheLine
  NothingLeftBehind
PROPERTIES
  FirstInOrder
  FrontmostWins
