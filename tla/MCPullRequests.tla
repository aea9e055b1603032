---------------------------- MODULE MCPullRequests ----------------------------
(* PullRequests on a few specs.                                            *)
EXTENDS PullRequests, TLC

CONSTANTS SpecOne, SpecTwo

TwoSpecBranches == <<SpecOne, SpecTwo>>
TwoAndOne == <<2, 1>>
TwoAndTwo == <<2, 2>>
SameParts == Permutations(Parts)
=============================================================================
