-------------------------- MODULE MCTransferEngine --------------------------
(* Small instances of TransferEngine.                                      *)
EXTENDS TransferEngine, TLC

CONSTANTS t1, t2, b1, x1, x2, x3

MCTwo == {t1, t2}
MCBatches   == {b1}
MCTargets   == {x1, x2, x3}
MCOldFiles  == {x2}

J(op, proto, target, batch, after) ==
  [op |-> op, proto |-> proto, overwrite |-> FALSE,
   target |-> target, batch |-> batch, after |-> after]

Alone(op, proto, target) == J(op, proto, target, NoBatch, NoTransfer)

(* Two downloads of a batch, one over SFTP and one over FTP.               *)
BatchPlan ==
  (t1 :> J("download", "sftp", x1, b1, NoTransfer)) @@
  (t2 :> J("download", "ftp", x3, b1, t1))

(* Two FTP uploads on their own, with and without a local file.            *)
FtpPlan ==
  (t1 :> Alone("bytes", "ftp", x1)) @@ (t2 :> Alone("upload", "ftp", x3))

(* A download to a file that was there before, and a folder that FTP       *)
(* refuses.                                                                *)
ExistingPlan ==
  (t1 :> Alone("download", "sftp", x2)) @@ (t2 :> Alone("download", "none", x2))

(* A drag, and a folder that FTP refuses to upload.                        *)
DragPlan ==
  (t1 :> [Alone("drag", "sftp", x2) EXCEPT !.overwrite = TRUE]) @@
  (t2 :> Alone("upload", "none", x1))

(* Two uploads over SFTP to one name.                                      *)
SharedPlan ==
  (t1 :> Alone("upload", "sftp", x1)) @@ (t2 :> Alone("upload", "sftp", x1))

MCPlans == {BatchPlan, FtpPlan, ExistingPlan, DragPlan, SharedPlan}

=============================================================================
