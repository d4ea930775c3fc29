----------------------------- MODULE ComposeFile -----------------------------
(***************************************************************************)
(* How project_create.py rewrites the docker-compose.yml of a project: by  *)
(* way of tmp.yml, once for a creation (get_argv) and once for each        *)
(* argument the user fills in (replace_argv).  The server may be killed at *)
(* any moment; one request is served at a time.                            *)
(*                                                                         *)
(* Of a line only its place and the placeholders left in it are kept.      *)
(***************************************************************************)
EXTENDS Integers, Sequences

CONSTANTS
    Keys,    \* the arguments, written ##key##
    Path,    \* the placeholder %%PATH%%
    Text     \* the file that is uploaded: the placeholders of each line

ASSUME TextAssumption == Path \notin Keys /\ Text \in Seq(SUBSET (Keys \cup {Path}))

VARIABLES
    there,     \* which of the two files there are
    compose,   \* the lines of docker-compose.yml, if it is there
    tmp,       \* those of tmp.yml
    told,      \* the arguments the user was last asked for
    op,        \* the request that is served
    at,        \* the step it is at
    argv,      \* the arguments found (get_argv) or given (replace_argv)
    given,     \* those of them still to be filled in
    key        \* the one replace_string fills in

fvars == <<there, compose, tmp, told, op, at, argv, given, key>>

Line == [line : 1 .. Len(Text), left : SUBSET (Keys \cup {Path})]
Uploaded == [i \in 1 .. Len(Text) |-> [line |-> i, left |-> Text[i]]]

FileInit ==
    /\ there = {} /\ compose = <<>> /\ tmp = <<>> /\ told = {}
    /\ op = "none" /\ at = "idle" /\ argv = {} /\ given = {} /\ key = {}

\* the request is over, answered or not
Ends == op' = "none" /\ at' = "idle" /\ argv' = {} /\ given' = {} /\ key' = {}
Goes(step) == at' = step /\ UNCHANGED <<op, argv>>

\* the user puts the file there (the file browser)
upload ==
    /\ at = "idle"
    /\ there' = there \cup {"compose"} /\ compose' = Uploaded /\ told' = {}
    /\ UNCHANGED <<tmp, op, at, argv, given, key>>

\* Mutant: tmp.yml stays behind.
erase_mutant ==
    /\ at = "idle"
    /\ there' = there \ {"compose"} /\ compose' = <<>> /\ told' = {}
    /\ UNCHANGED <<tmp, op, at, argv, given, key>>

\* the user's directory is removed
erase ==
    /\ at = "idle"
    /\ there' = {} /\ compose' = <<>> /\ tmp' = <<>> /\ told' = {}
    /\ UNCHANGED <<op, at, argv, given, key>>

begin_create ==
    /\ at = "idle"
    /\ op' = "create" /\ at' = "open"
    /\ UNCHANGED <<there, compose, tmp, told, argv, given, key>>

begin_replace ==
    /\ at = "idle"
    /\ \E arguments \in SUBSET Keys \ {{}} : argv' = arguments /\ given' = arguments
    /\ op' = "replace" /\ at' = "next"
    /\ UNCHANGED <<there, compose, tmp, told, key>>

\* the loop of replace_argv
next_argument ==
    /\ at = "next"
    /\ IF given = {} THEN Goes("up") /\ UNCHANGED <<given, key>>
       ELSE /\ \E k \in given : key' = {k} /\ given' = given \ {k}
            /\ Goes("open")
    /\ UNCHANGED <<there, compose, tmp, told>>

\* Mutant: tmp.yml is opened first.
open_files_mutant ==
    /\ at = "open"
    /\ there' = there \cup {"tmp"} /\ tmp' = <<>>
    /\ IF "compose" \notin there THEN Ends
       ELSE Goes("copy") /\ UNCHANGED <<given, key>>
    /\ UNCHANGED <<compose, told>>

\* without a docker-compose.yml the request ends in an IOError
open_files ==
    /\ at = "open"
    /\ IF "compose" \notin there THEN Ends /\ UNCHANGED <<there, tmp>>
       ELSE /\ there' = there \cup {"tmp"} /\ tmp' = <<>>
            /\ Goes("copy") /\ UNCHANGED <<given, key>>
    /\ UNCHANGED <<compose, told>>

\* Mutant: a line with an argument is not looked at for the path.
Rewritten_mutant(line) ==
    [line EXCEPT !.left = IF op = "replace" THEN line.left \ key
                          ELSE IF line.left \cap Keys # {} THEN line.left
                          ELSE line.left \ {Path}]

Rewritten(line) ==
    [line EXCEPT !.left = line.left \ (IF op = "replace" THEN key ELSE {Path})]

copy_line ==
    /\ at = "copy" /\ Len(tmp) < Len(compose)
    /\ LET line == compose[Len(tmp) + 1] IN
       /\ tmp' = Append(tmp, Rewritten(line))
       /\ argv' = IF op = "create" THEN argv \cup (line.left \cap Keys) ELSE argv
    /\ UNCHANGED <<there, compose, told, op, at, given, key>>

remove_original ==
    /\ at = "copy" /\ Len(tmp) = Len(compose)
    /\ there' = there \ {"compose"} /\ compose' = <<>>
    /\ Goes("rename")
    /\ UNCHANGED <<tmp, told, given, key>>

\* and the user is asked for the arguments that were found
rename_temp ==
    /\ at = "rename"
    /\ there' = {"compose"} /\ compose' = tmp /\ tmp' = <<>>
    /\ IF op = "create" /\ argv # {} THEN told' = argv /\ Ends
       ELSE /\ Goes(IF op = "create" THEN "up" ELSE "next")
            /\ UNCHANGED <<told, given, key>>

\* create_project_exceptions
up ==
    /\ at = "up"
    /\ Ends
    /\ UNCHANGED <<there, compose, tmp, told>>

\* nothing of the request is kept but the files
killed ==
    /\ at # "idle"
    /\ Ends
    /\ UNCHANGED <<there, compose, tmp, told>>

FileStep == next_argument \/ open_files \/ copy_line \/ remove_original \/ rename_temp \/ up
FileBegins == upload \/ begin_create \/ begin_replace

FileNext == FileBegins \/ FileStep \/ killed \/ erase
FileSpec == FileInit /\ [][FileNext]_fvars

(***************************************************************************)
(* Properties                                                              *)
(***************************************************************************)
\* a file that holds every line of the text, in its place, with no other
\* placeholders
Whole(file) ==
    /\ Len(file) = Len(Text)
    /\ \A i \in 1 .. Len(Text) : file[i].line = i /\ file[i].left \subseteq Text[i]

FileTypeOK ==
    /\ there \subseteq {"compose", "tmp"}
    /\ compose \in Seq(Line) /\ tmp \in Seq(Line)
    /\ told \subseteq Keys /\ argv \subseteq Keys /\ given \subseteq argv /\ key \subseteq Keys
    /\ op \in {"none", "create", "replace"}
    /\ at \in {"idle", "next", "open", "copy", "rename", "up"}

\* Wherever the server is killed the text is not lost: docker-compose.yml is
\* whole whenever it is there; the server removes it only when tmp.yml is; and
\* while it is away no later request touches tmp.yml.
TextKept ==
    [][/\ "compose" \in there' => Whole(compose')
       /\ "compose" \in there \ there' => there' = {} \/ Whole(tmp')
       /\ there = {"tmp"} =>
             there' = {} \/ "compose" \in there' \/ (there' = there /\ tmp' = tmp)]_fvars

\* Containers are never started from a file with a placeholder that was to be
\* filled in: none at all when none was found, no argument that was given, and
\* none at all when all that was asked for was given.
FilledIn ==
    at = "up" =>
        LET Left == UNION {compose[i].left : i \in 1 .. Len(compose)} IN
        /\ op = "create" => Left = {}
        /\ op = "replace" => Left \cap argv = {} /\ (told # {} /\ told \subseteq argv => Left = {})
=============================================================================
