------------------------------ MODULE Addresses ------------------------------
(***************************************************************************)
(* The addresses the client derives instead of storing: the program's own  *)
(* accounts from their seeds, token accounts from owner, token program and *)
(* mint, and price accounts from their feed.  The hash is taken as         *)
(* injective, so an address is the tuple of what goes into it, its first   *)
(* part the seed word that keeps the kinds apart.  Keys, mints and         *)
(* programs are addresses of their own.                                    *)
(***************************************************************************)
EXTENDS Naturals

CONSTANTS
  FbytProgram,       \* the fbyt_vault program
  SystemProgram,
  TokenProgram,      \* the classic token program
  Token2022Program,
  JupiterProgram

TokenPrograms == {TokenProgram, Token2022Program}

FindAdminPoolPda == <<"AdminPool">>
FindOraclePoolPda(adminPool, tokenMint) == <<"OraclePool", adminPool, tokenMint>>
FindMoneyManagerPoolPda(adminPool, moneyManager) ==
  <<"MoneyManagerPool", adminPool, moneyManager>>
FindAssetRegistryPda(vaultPool) == <<"AssetRegistry", vaultPool>>

\* Mutant: one position for all the vaults of a mint.
FindInvestorPoolPda_OfMint(investor, adminPool, vaultPool, tokenMint) ==
  <<"InvestorPool", investor, adminPool, tokenMint>>
FindInvestorPoolPda(investor, adminPool, vaultPool, tokenMint) ==
  <<"InvestorPool", investor, adminPool, vaultPool, tokenMint>>

\* The one address the generated client has no finder for: a vault counts in its index.
VaultPoolAddress(adminPool, moneyManager, index) ==
  <<"VaultPool", adminPool, moneyManager, index>>

FindAssociatedTokenPda(owner, tokenProgram, mint) ==
  <<"AssociatedToken", owner, tokenProgram, mint>>
CanonicalPriceAccount(feed) == <<"PriceUpdate", feed>>
ProgramDataAddress == <<"ProgramData", FbytProgram>>

\* lib/program.ts asks for the classic program's token account whatever the mint's own.
Ata(owner, mint) == FindAssociatedTokenPda(owner, TokenProgram, mint)

=============================================================================
