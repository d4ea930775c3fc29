------------------------------ MODULE UserSpace ------------------------------
(***************************************************************************)
(* One user of the server: his account (Accounts) and, in his directory,   *)
(* the compose file of a project (ComposeFile).  The file browser works on *)
(* the server, which is the first of the machines.                         *)
(***************************************************************************)
EXTENDS Accounts, ComposeFile

vars == <<avars, fvars>>

Init == AccountsInit /\ FileInit

Idle == doing = "idle" /\ at = "idle"
HasDirectory == ClientList[1] \in directory

\* the directory goes with the files in it
Removed == HasDirectory /\ ClientList[1] \notin directory'

account_request ==
    /\ AccountBegins \/ (AccountStep /\ ~Removed)
    /\ UNCHANGED fvars
directory_removed == AccountStep /\ Removed /\ erase
file_request == FileStep /\ UNCHANGED avars
file_begins == Idle /\ HasDirectory /\ FileBegins /\ UNCHANGED avars

\* one process, with all that it does
crash == (AccountKilled /\ UNCHANGED fvars) \/ (killed /\ UNCHANGED avars)

Next ==
    \/ at = "idle" /\ account_request
    \/ at = "idle" /\ directory_removed
    \/ doing = "idle" /\ file_request
    \/ file_begins
    \/ crash

Spec == Init /\ [][Next]_vars

(***************************************************************************)
(* Properties                                                              *)
(***************************************************************************)
\* Every variable has its type, and there are files only in a directory.
TypeOK ==
    /\ FileTypeOK
    /\ volumes \subseteq Machines /\ directory \subseteq Machines
    /\ network \in BOOLEAN /\ account \in BOOLEAN /\ clean \in BOOLEAN
    /\ torn \in BOOLEAN
    /\ database \in {"absent", "bare", "usable"}
    /\ left \in Seq(Machines)
    /\ there # {} => HasDirectory
=============================================================================
