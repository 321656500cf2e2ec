CONSTANTS
  FbytProgram = FbytProgram
  SystemProgram = SystemProgram
  TokenProgram = TokenProgram
  Token2022Program = Token2022Program
  JupiterProgram = JupiterProgram
  Default = Default
  boss = boss
  mm = mm
  ann = ann
  bot = bot
  usdc = usdc
  demo = demo
  wsol = wsol
  xstock = xstock
  f1 = f1
  f2 = f2
  Keys <- MCKeys
  UpgradeAuthority = boss
  Mints <- MCMints
  MintProgram <- MCMintProgram
  Feeds = {f1, f2}
  Clicks <- MCClicks
  WsolMint = wsol
  DemoOutMint = demo
  MaxVaults = 2
SPECIFICATION SceneSpec

PROPERTIES CatalogTradesAccepted
