----------------------------- MODULE MCUserSpace -----------------------------
(***************************************************************************)
(* Instances of UserSpace for TLC.                                         *)
(***************************************************************************)
EXTENDS UserSpace

CONSTANTS m1, m2, host, port, path

MCClientList == <<m1, m2>>

\* a line with all of them, one with an argument again, one with none
MCText == <<{host, port, path}, {host}, {}, {path}>>
=============================================================================
