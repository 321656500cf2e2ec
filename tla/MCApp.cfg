CONSTANTS
  FbytProgram = FbytProgram
  SystemProgram = SystemProgram
  TokenProgram = TokenProgram
  Token2022Program = Token2022Program
  JupiterProgram = JupiterProgram
  Default = Default
  boss = boss
  mm = mm
  ann = ann
  bot = bot
  usdc = usdc
  demo = demo
  wsol = wsol
  xstock = xstock
  f1 = f1
  f2 = f2
  Keys <- MCKeys
  UpgradeAuthority = boss
  Mints <- MCMints
  MintProgram <- MCMintProgram
  Feeds = {f1, f2}
  Clicks <- MCClicks
  WsolMint = wsol
  DemoOutMint = demo
  MaxVaults = 2
  Wallets = {w1, w2}
  UserRequests = {r1, r2}
  NoOne = NoOne
  MaxEarned = 150
  LaunchIds = {l1, l2}
  Voters = {w1, w2}
  VoteRequests = {q1, q2}
  NoVoter = NoVoter
  Nonces = {n1, n2}
  Verifications = {v1, v2}
  NonceTtl = 1
  MaxClock = 3
SPECIFICATION AppSpec
INVARIANTS
  ChainOK PortfolioExact ParsedBack
  PointsWereEarned PointsAddUp ReferralsAreRecorded
  VotesExact SpentNonceIsRefused
PROPERTIES AcceptedWhenReady SpoiltOnlyByItsOwn
CHECK_DEADLOCK FALSE
