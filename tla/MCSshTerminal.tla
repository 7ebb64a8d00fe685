--------------------------- MODULE MCSshTerminal ---------------------------
(* Small instances of SshTerminal.                                         *)
EXTENDS SshTerminal, TLC

CONSTANTS t1, r1, r2

(* A profile without a username whose password is typed, and one that      *)
(* connects without a prompt.                                              *)
PromptedProfile == [username |-> FALSE, secret |-> "prompt"]
SavedProfile    == [username |-> TRUE, secret |-> "saved"]

MCTwoProfiles == {PromptedProfile, SavedProfile}
MCPrompted    == {PromptedProfile}

MCOneTab   == {t1}
MCTwoRuns  == {r1, r2}
MCNoWidths == {}
MCWidths   == {1}

RunSymmetry == Permutations(Runs)

=============================================================================
