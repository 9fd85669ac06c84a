----------------------------- MODULE MCTransact -----------------------------
(* Small instances of Transact for TLC.                                    *)
EXTENDS Transact
=============================================================================
