---------------------------- MODULE MCBlitzMine -----------------------------
(***************************************************************************)
(* Small instances of BlitzMine: what cannot be written in a .cfg.         *)
(***************************************************************************)
EXTENDS BlitzMine, TLC

CONSTANTS MinerFunds, CrankFunds   \* lamports each kind of wallet starts with

MCInitialWallet ==
  [w \in Wallets |-> IF w \in Miners THEN MinerFunds
                     ELSE IF w = Crank THEN CrankFunds ELSE 0]

\* the program treats authorities alike and squares alike
MCSymmetry == Permutations(Miners) \cup Permutations(Squares)
=============================================================================
