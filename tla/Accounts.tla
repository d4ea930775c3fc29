------------------------------ MODULE Accounts -------------------------------
(***************************************************************************)
(* create_user and delete_user of app_info.py: what a user has on the      *)
(* machines (a volume container on each, a network, a directory), made and *)
(* removed over ssh with no look at how it went, and in the database (a    *)
(* database with his tables, an account).  One request at a time; any      *)
(* command may fail and the server may be killed.                          *)
(***************************************************************************)
EXTENDS Integers, Sequences, SequencesExt

CONSTANTS
    ClientList,  \* the machines
    Mounted,     \* whether they share the users' directories (MooseFS)
    Failing      \* of "ssh" and "mysql", what may fail

ASSUME ClientListAssumption ==
    ClientList \in Seq(ToSet(ClientList)) /\ Len(ClientList) > 0

Machines == ToSet(ClientList)
Sees(machine) == IF Mounted THEN Machines ELSE {machine}

VARIABLES
    volumes,     \* machines with the user's volume container
    network,     \* whether the network is there
    directory,   \* machines on which the directory is seen
    database,    \* "absent", "bare" (without its tables) or "usable"
    account,     \* whether the database server knows the user
    doing,       \* the step of the request that is served
    left,        \* machines it has still to go to
    clean,       \* no command of it has failed so far
    answer,      \* what the last request answered
    torn         \* history: a request ended half-way through the database

avars == <<volumes, network, directory, database, account, doing, left, clean, answer, torn>>

NoAnswer == [to |-> "none", ok |-> FALSE, clean |-> FALSE]
AccountsInit ==
    /\ volumes = {} /\ network = FALSE /\ directory = {}
    /\ database = "absent" /\ account = FALSE
    /\ doing = "idle" /\ left = <<>> /\ clean = TRUE /\ answer = NoAnswer
    /\ torn = FALSE

(***************************************************************************)
(* Steps                                                                   *)
(***************************************************************************)
\* an ssh command: it does what it does or fails, and the request goes on
Ssh(does, nothing) ==
    \/ does /\ UNCHANGED clean
    \/ "ssh" \in Failing /\ nothing /\ clean' = FALSE

GoesTo(step) == doing' = step /\ UNCHANGED answer
Answers(to, ok) ==
    /\ doing' = "idle"
    /\ answer' = [to |-> to, ok |-> ok, clean |-> clean]
    /\ UNCHANGED <<left, clean>>

\* a statement: an error of the server ends the request
Sql(from, to, does, nothing) ==
    /\ doing = from
    /\ \/ does
       \/ "mysql" \in Failing /\ nothing /\ Answers(to, FALSE)

\* the step at each machine in turn
Machine == Head(left)
ForEachMachine(step, next, does, nothing) ==
    /\ doing = step
    /\ Ssh(does, nothing)
    /\ left' = Tail(left)
    /\ GoesTo(IF Len(left) = 1 THEN next ELSE step)

(***************************************************************************)
(* create_user                                                             *)
(***************************************************************************)
create_user ==
    /\ doing = "idle"
    /\ doing' = "run_volume" /\ left' = ClientList /\ clean' = TRUE /\ answer' = NoAnswer
    /\ UNCHANGED <<volumes, network, directory, database, account>>

\* docker run: a container of that name is left alone; otherwise Docker makes
\* the directory if need be
run_volume ==
    /\ ForEachMachine("run_volume", "network_create",
          /\ volumes' = volumes \cup {Machine}
          /\ directory' = directory \cup (IF Machine \in volumes THEN {} ELSE Sees(Machine)),
          UNCHANGED <<volumes, directory>>)
    /\ UNCHANGED <<network, database, account>>

network_create ==
    /\ doing = "network_create"
    /\ Ssh(network' = TRUE, UNCHANGED network)
    /\ GoesTo("mkdir")
    /\ UNCHANGED <<volumes, directory, database, account, left>>

mkdir ==
    /\ doing = "mkdir"
    /\ Ssh(directory' = directory \cup Sees(ClientList[1]), UNCHANGED directory)
    /\ GoesTo("create_database")
    /\ UNCHANGED <<volumes, network, database, account, left>>

\* database_exist, and create database
create_database ==
    /\ Sql("create_database", "create",
           IF database # "absent" THEN Answers("create", FALSE) /\ UNCHANGED database
           ELSE database' = "bare" /\ GoesTo("create_account") /\ UNCHANGED <<left, clean>>,
           UNCHANGED database)
    /\ UNCHANGED <<volumes, network, directory, account>>

\* create user and grant
create_account ==
    /\ Sql("create_account", "create",
           account' = TRUE /\ GoesTo("create_tables") /\ UNCHANGED <<left, clean>>,
           UNCHANGED account)
    /\ UNCHANGED <<volumes, network, directory, database>>

\* Mutant: an error of the tables goes unseen.
create_tables_mutant ==
    /\ doing = "create_tables" /\ Answers("create", TRUE)
    /\ \/ database' = "usable"
       \/ "mysql" \in Failing /\ UNCHANGED database
    /\ UNCHANGED <<volumes, network, directory, account>>

create_tables ==
    /\ Sql("create_tables", "create",
           database' = "usable" /\ Answers("create", TRUE),
           UNCHANGED database)
    /\ UNCHANGED <<volumes, network, directory, account>>

(***************************************************************************)
(* delete_user                                                             *)
(***************************************************************************)
delete_user ==
    /\ doing = "idle"
    /\ doing' = "drop_user" /\ clean' = TRUE /\ answer' = NoAnswer
    /\ UNCHANGED <<volumes, network, directory, database, account, left>>

\* a user there is not is an OperationalError
drop_user ==
    /\ Sql("drop_user", "delete",
           IF ~account THEN Answers("delete", FALSE) /\ UNCHANGED account
           ELSE account' = FALSE /\ GoesTo("drop_database") /\ UNCHANGED <<left, clean>>,
           UNCHANGED account)
    /\ UNCHANGED <<volumes, network, directory, database>>

drop_database ==
    /\ Sql("drop_database", "delete",
           database' = "absent" /\ left' = ClientList /\ GoesTo("rm_volume") /\ UNCHANGED clean,
           UNCHANGED database)
    /\ UNCHANGED <<volumes, network, directory, account>>

rm_volume ==
    /\ ForEachMachine("rm_volume", "rm_directory",
          volumes' = volumes \ {Machine}, UNCHANGED volumes)
    /\ UNCHANGED <<network, directory, database, account>>

\* on the machine the loop ended with
rm_directory ==
    /\ doing = "rm_directory"
    /\ Ssh(directory' = directory \ Sees(Last(ClientList)), UNCHANGED directory)
    /\ GoesTo("network_rm")
    /\ UNCHANGED <<volumes, network, database, account, left>>

network_rm ==
    /\ doing = "network_rm"
    /\ \/ network' = FALSE /\ Answers("delete", TRUE)
       \/ /\ "ssh" \in Failing /\ UNCHANGED network
          /\ doing' = "idle" /\ answer' = [to |-> "delete", ok |-> TRUE, clean |-> FALSE]
          /\ UNCHANGED <<left, clean>>
    /\ UNCHANGED <<volumes, directory, database, account>>

server_killed ==
    /\ doing # "idle"
    /\ doing' = "idle" /\ left' = <<>> /\ clean' = TRUE
    /\ UNCHANGED <<volumes, network, directory, database, account, answer>>

\* History, which no step reads: an error or a kill between the first and the
\* last of the statements that make the user, or drop him, tears him, until his
\* database is dropped.
HalfWay == {"create_account", "create_tables", "drop_database"}
Tears ==
    torn' = (/\ database' # "absent"
             /\ torn \/ (doing \in HalfWay /\ doing' = "idle" /\ ~answer'.ok))

AccountStep ==
    /\ \/ run_volume \/ network_create \/ mkdir
       \/ create_database \/ create_account \/ create_tables
       \/ drop_user \/ drop_database \/ rm_volume \/ rm_directory \/ network_rm
    /\ Tears
AccountKilled == server_killed /\ Tears
AccountBegins == (create_user \/ delete_user) /\ UNCHANGED torn

(***************************************************************************)
(* Properties                                                              *)
(***************************************************************************)
\* A user whom the database server does not know, or without his tables
HalfMade == database = "bare" \/ (database # "absent" /\ ~account)

\* Through every failure, kill and retry of create_user and delete_user:
\*  - the database server knows a user only with a database, and nothing of a
\*    user goes away before his database has;
\*  - outside the statements that make or drop him a user has tables and account
\*    or no database, unless a request was torn there (an error or a kill, after
\*    which create_user takes him for a user);
\*  - when create_user answers that it made the user, his account and tables are
\*    there; and if none of its commands failed, whether it made the user or
\*    found him, so are his volume containers, network and directory;
\*  - when delete_user answers and no command failed, nothing of him is left,
\*    but the directory where the machines do not share it.
AccountsWhole ==
    /\ account => database # "absent"
    /\ doing \in {"rm_volume", "rm_directory", "network_rm"} =>
          database = "absent" /\ ~account
    /\ HalfMade /\ ~torn => doing \in HalfWay
    /\ doing = "idle" /\ answer.to = "create" =>
          /\ answer.ok => database = "usable" /\ account
          /\ answer.clean /\ database # "absent" =>
                /\ volumes = Machines /\ network
                /\ ClientList[1] \in directory /\ (Mounted => directory = Machines)
    /\ doing = "idle" /\ answer.to = "delete" /\ answer.clean /\ answer.ok =>
          /\ volumes = {} /\ ~network /\ database = "absent" /\ ~account
          /\ Last(ClientList) \notin directory /\ (Mounted => directory = {})
=============================================================================
