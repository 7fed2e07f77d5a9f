------------------------------ MODULE MCVoting ------------------------------
(* Nine heights.  Windows of features end at 2, 4 and 8, terms of the reward *)
(* begin at 3, 6 and 9: the terms are rolled back inside the windows.        *)
EXTENDS Voting, TLC
MCRewardVotes == {-1, 0, 9}
MCRewardVote == {} :> -1 @@ {1} :> 0 @@ {2} :> 9 @@ {1, 2} :> 9
=============================================================================
