----------------------------- MODULE MCTransfer -----------------------------
(* Small instances of Transfer for TLC.                                    *)
EXTENDS Transfer, TLC

CONSTANTS i1, i2

Pictures == {i1, i2}
OnePicture == {i1}
=============================================================================
