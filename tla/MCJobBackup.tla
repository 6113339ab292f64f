------------------------------ MODULE MCJobBackup ------------------------------
(* Instances of JobBackup for TLC.  Jobs share no key, no copy and no worker, so
   that one job shows every order of its backups. *)
EXTENDS JobBackup

CONSTANT a
===============================================================================
