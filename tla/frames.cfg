SPECIFICATION FramesSpec
CONSTANTS
  Tiles = {t1, t2}
  Colours = {red, blue}
  NativeWidth = 2
  Clients = {mcp, cli}
  Asks <- MCAsks
  Sidecar = {cli}
  Handlers = {h1, h2}
  NoFrame = NoFrame
  NoHandler = NoHandler
  Empty = Empty
  Cut = Cut
  Attempts = 2
  MaxToken = 3
SYMMETRY Symmetry
VIEW ScaleHidden
INVARIANT FramesTypeOK
INVARIANT TokenNamesFrame
PROPERTY ShownIsCaptured
