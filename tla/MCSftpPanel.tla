----------------------------- MODULE MCSftpPanel -----------------------------
(***************************************************************************)
(* SftpPanel with two links, two directories and two names.                *)
(***************************************************************************)
EXTENDS SftpPanel, TLC

CONSTANTS l1, l2
MCLinks   == {l1, l2}
MCDirs    == {"/", "/d"}
MCNames   == {"a", "b", "c"}
MCTyped   == {"a", "b"}
MCBatches == {<<"a", "b">>}
MCSlots   == {1, 2}
=============================================================================
