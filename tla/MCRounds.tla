------------------------------ MODULE MCRounds ------------------------------
(***************************************************************************)
(* A small instance of BlitzMine for its rounds, and beside it the         *)
(* arithmetic of a single round, in numbers a whole game cannot be played  *)
(* with: the pots of MCSettlement and the prizes of RoundResult.  One of   *)
(* the three takes all the steps of a behaviour, so each is explored as if *)
(* it were alone.                                                          *)
(***************************************************************************)
EXTENDS MCBlitzMine

VARIABLES
  part,                                   \* what runs: "game", "pot" or "prizes"
  stake, losing, jackpot, deployed, deployments

Pot == INSTANCE MCSettlement WITH
  ADMIN_FEE <- 100, MOTHERLODE_FEE <- 1000, DENOMINATOR_BPS <- 10000,
  Winners <- {1, 2, 3}, Stakes <- {1, 7, 99, 101, 150, 9999},
  MaxLosing <- 210, Jackpots <- {0, 10, 1001}

Prizes == INSTANCE RoundResult WITH
  ADMIN_FEE <- 100, MOTHERLODE_FEE <- 1000, DENOMINATOR_BPS <- 10000,
  Wallets <- {1, 2, 3}, Tiles <- {1, 2}, Winner <- 1, Amounts <- {7, 10, 101},
  MaxRows <- 4

ASSUME InstancesAssumption == Prizes!RoundResultAssumption

potVars == <<stake, losing, jackpot>>
prizeVars == <<deployed, deployments>>

\* a part that does not run
Off == 0

\* the game stays at its beginning while another part runs
MCInit ==
  /\ part \in {"game", "pot", "prizes"} /\ Init
  /\ IF part = "pot" THEN Pot!Init ELSE stake = Off /\ losing = Off /\ jackpot = Off
  /\ IF part = "prizes" THEN Prizes!Init ELSE deployed = Off /\ deployments = Off

MCNext ==
  \/ part = "game" /\ Next /\ UNCHANGED <<part, potVars, prizeVars>>
  \/ part = "pot" /\ Pot!Next /\ UNCHANGED <<part, vars, prizeVars>>
  \/ part = "prizes" /\ Prizes!Next /\ UNCHANGED <<part, vars, potVars>>

MCSpec == MCInit /\ [][MCNext]_<<part, vars, potVars, prizeVars>>
-----------------------------------------------------------------------------
(* The money of a round is cut up rightly, whatever was staked: the four       *)
(* parts of a pot add up to it (calculate_settlement), what the winners get    *)
(* fits what the round holds for them and leaves each at most the fee behind   *)
(* (calculate_rewards), and the prizes the page shows add up to the pool, are  *)
(* what the program pays to a lamport, and never show who staked more with     *)
(* less (allocateProportional, buildRoundResultFromSnapshot).                  *)
SharesAreRight ==
  /\ part = "pot" => /\ Pot!ConservesEveryLamport
                     /\ Pot!SharesFitThePot
                     /\ Pot!WinnerPaysAtMostTheFee
  /\ part = "prizes" => /\ Prizes!PrizesAddUp
                        /\ Prizes!WithinALamport
                        /\ Prizes!MoreForMore
=============================================================================
