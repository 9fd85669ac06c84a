----------------------------- MODULE MCPrograms -----------------------------
(* Small instances of Programs for TLC.                                    *)
EXTENDS Programs

\* The client that shows properties, the client that takes pictures, and a
\* Python program's calls.  "props" and "battery" read a list as "poll" does.
MCScripts == { <<"devinfo", "poll">>, <<"take">>, <<"start", "stop">>,
               <<"objinfo", "setparams">> }
=============================================================================
