--------------------------- MODULE UserSpaceProofs ---------------------------
(***************************************************************************)
(* ComposeFile keeps the text of a compose file and starts nothing that is *)
(* not filled in, for every text, every set of arguments and wherever the  *)
(* server is killed; the account of a user holds what it promises          *)
(* (AccountsWhole), for any number of machines, shared directories or not, *)
(* and wherever commands fail and the server is killed; and UserSpace      *)
(* implements ComposeFile, so that what is proved of a project's files     *)
(* holds with the account's requests around them.                          *)
(***************************************************************************)
EXTENDS UserSpace, TLAPS

(***************************************************************************)
(* The files of a project                                                  *)
(*                                                                         *)
(* Two facts carry the proof: what is in tmp.yml is always a beginning of  *)
(* the text, the whole of it once docker-compose.yml is gone (FilesOK);    *)
(* and the placeholders of every line are bounded by what was found, asked *)
(* for and already given (Bounded).                                        *)
(***************************************************************************)
\* the lines of a file are the first of the text
Begins(file) ==
    /\ Len(file) <= Len(Text)
    /\ \A i \in 1 .. Len(file) : file[i].line = i /\ file[i].left \subseteq Text[i]

\* every placeholder left in the file is one of S
LeftIn(file, S) == \A i \in 1 .. Len(file) : file[i].left \subseteq S
\* none of S is left
FreeOf(file, S) == \A i \in 1 .. Len(file) : file[i].left \cap S = {}

FilesOK ==
    /\ "compose" \in there => Whole(compose)
    /\ "compose" \notin there => compose = <<>>
    /\ Begins(tmp)
    /\ there = {"tmp"} => Len(tmp) = Len(Text)
    /\ at = "copy" => there = {"compose", "tmp"}
    /\ at = "rename" => there = {"tmp"}

HandlerOK ==
    /\ at = "idle" <=> op = "none"
    /\ at = "next" => op = "replace"
    /\ op # "replace" => given = {} /\ key = {}

Writing == at \in {"copy", "rename"}
\* the arguments replace_argv has still to fill in the file it reads
StillToCome == IF at \in {"open", "copy", "rename"} THEN given \cup key ELSE given

Bounded ==
    /\ told # {} => LeftIn(compose, told)
    /\ op = "create" /\ Writing => LeftIn(tmp, argv)
    /\ op = "create" /\ at = "up" => LeftIn(compose, {})
    /\ op = "replace" => FreeOf(compose, argv \ StillToCome)
    /\ op = "replace" /\ Writing =>
          FreeOf(tmp, argv \ given) /\ (told # {} => LeftIn(tmp, told))
    /\ op = "replace" /\ at = "up" => given = {}

FileInv == FileTypeOK /\ FilesOK /\ HandlerOK /\ Bounded

LEMMA InitFileInv == FileInit => FileInv
BY DEF FileInit, FileInv, FileTypeOK, FilesOK, HandlerOK, Bounded, Begins, Whole,
       LeftIn, FreeOf, Writing, StillToCome

\* Rewriting a line keeps it a line in its place and takes placeholders away.
LEMMA RewrittenLine ==
    ASSUME NEW line \in Line
    PROVE  /\ Rewritten(line) \in Line
           /\ Rewritten(line).line = line.line
           /\ Rewritten(line).left
                 = line.left \ (IF op = "replace" THEN key ELSE {Path})
BY DEF Rewritten, Line

LEMMA AppendLine ==
    ASSUME NEW file \in Seq(Line), NEW line \in Line
    PROVE  /\ Append(file, line) \in Seq(Line)
           /\ Len(Append(file, line)) = Len(file) + 1
           /\ \A i \in 1 .. Len(file) : Append(file, line)[i] = file[i]
           /\ Append(file, line)[Len(file) + 1] = line
OBVIOUS

LEMMA UploadedIsWhole == Uploaded \in Seq(Line) /\ Whole(Uploaded)
<1>1. Text \in Seq(SUBSET (Keys \cup {Path}))
  BY TextAssumption
<1>2. \A i \in 1 .. Len(Text) : Text[i] \in SUBSET (Keys \cup {Path})
  BY <1>1
<1>3. Len(Text) \in Nat
  BY <1>1
<1>4. Uploaded \in [1 .. Len(Text) -> Line]
  BY <1>2 DEF Uploaded, Line
<1>5. Uploaded \in Seq(Line) /\ Len(Uploaded) = Len(Text)
  BY <1>3, <1>4
<1> QED BY <1>3, <1>5 DEF Whole, Uploaded

\* One line is copied: the only step that writes.
LEMMA CopyKeepsInv == FileInv /\ copy_line => FileInv'
<1> SUFFICES ASSUME FileInv, copy_line PROVE FileInv'
  OBVIOUS
<1> DEFINE line == compose[Len(tmp) + 1]
           new == Rewritten(line)
<1>1. /\ tmp \in Seq(Line) /\ compose \in Seq(Line)
      /\ at = "copy" /\ there = {"compose", "tmp"}
      /\ Whole(compose) /\ Begins(tmp)
  BY DEF FileInv, FileTypeOK, FilesOK, copy_line
<1>2. Len(tmp) \in Nat /\ Len(compose) \in Nat /\ Len(tmp) < Len(compose)
      /\ Len(compose) = Len(Text)
  BY <1>1 DEF copy_line, Whole
<1>3. line \in Line /\ line.line = Len(tmp) + 1 /\ line.left \subseteq Text[Len(tmp) + 1]
  BY <1>1, <1>2 DEF Whole
<1>4. /\ new \in Line /\ new.line = Len(tmp) + 1
      /\ new.left = line.left \ (IF op = "replace" THEN key ELSE {Path})
  BY <1>3, RewrittenLine
<1>5. tmp' = Append(tmp, new)
  BY DEF copy_line
<1>6. /\ tmp' \in Seq(Line) /\ Len(tmp') = Len(tmp) + 1
      /\ \A i \in 1 .. Len(tmp) : tmp'[i] = tmp[i]
      /\ tmp'[Len(tmp) + 1] = new
  BY <1>1, <1>4, <1>5, AppendLine
<1>7. argv' = IF op = "create" THEN argv \cup (line.left \cap Keys) ELSE argv
  BY DEF copy_line
<1> UNCHANGED <<there, compose, told, op, at, given, key>>
  BY DEF copy_line
<1> HIDE DEF line, new
<1>8. line.left \subseteq Keys \cup {Path}
  BY <1>3 DEF Line
<1>9. FileTypeOK'
  <2>1. argv' \subseteq Keys /\ given' \subseteq argv'
    BY <1>7 DEF FileInv, FileTypeOK
  <2> QED BY <2>1, <1>6 DEF FileInv, FileTypeOK
<1>10. FilesOK'
  <2>1. Begins(tmp)'
    BY <1>1, <1>2, <1>3, <1>4, <1>6 DEF Begins
  <2>2. Whole(compose)'
    BY <1>1 DEF Whole
  <2>3. there' = {"compose", "tmp"} /\ at' = "copy"
    BY <1>1
  <2> QED BY <2>1, <2>2, <2>3 DEF FilesOK
<1>11. HandlerOK'
  BY DEF FileInv, HandlerOK
<1>12. Bounded'
  <2>1. ASSUME op = "create" PROVE LeftIn(tmp', argv')
    <3>1. LeftIn(tmp, argv)
      BY <2>1, <1>1 DEF FileInv, Bounded, Writing
    <3>2. new.left \subseteq argv'
      BY <2>1, <1>4, <1>7, <1>8
    <3> QED BY <3>1, <3>2, <1>2, <1>6, <1>7 DEF LeftIn
  <2>2. ASSUME op = "replace" PROVE FreeOf(tmp', argv \ given)
    <3>1. FreeOf(tmp, argv \ given) /\ FreeOf(compose, argv \ (given \cup key))
      BY <2>2, <1>1 DEF FileInv, Bounded, Writing, StillToCome
    <3>2. line.left \cap (argv \ (given \cup key)) = {}
      BY <3>1, <1>2 DEF FreeOf, line
    <3>3. new.left \cap (argv \ given) = {}
      BY <2>2, <3>2, <1>4
    <3> QED BY <3>1, <3>3, <1>2, <1>6 DEF FreeOf
  <2>3. ASSUME op = "replace", told # {} PROVE LeftIn(tmp', told)
    <3>1. LeftIn(tmp, told) /\ LeftIn(compose, told)
      BY <2>3, <1>1 DEF FileInv, Bounded, Writing
    <3>2. new.left \subseteq told
      BY <3>1, <1>2, <1>4 DEF LeftIn, line
    <3> QED BY <3>1, <3>2, <1>2, <1>6 DEF LeftIn
  <2>4. (told # {} => LeftIn(compose, told))
        /\ (op = "replace" => FreeOf(compose, argv \ StillToCome))
    BY DEF FileInv, Bounded
  <2>5. op = "replace" => argv' = argv
    BY <1>7
  <2>6. at = "copy"
    BY <1>1
  <2> QED BY <2>1, <2>2, <2>3, <2>4, <2>5, <2>6
          DEF Bounded, LeftIn, FreeOf, Writing, StillToCome
<1> QED BY <1>9, <1>10, <1>11, <1>12 DEF FileInv

\* tmp.yml takes the place of docker-compose.yml.
LEMMA RenameKeepsInv == FileInv /\ rename_temp => FileInv'
<1> SUFFICES ASSUME FileInv, rename_temp PROVE FileInv'
  OBVIOUS
<1>1. /\ at = "rename" /\ there = {"tmp"}
      /\ Begins(tmp) /\ Len(tmp) = Len(Text) /\ tmp \in Seq(Line)
  BY DEF rename_temp, FileInv, FilesOK, FileTypeOK
<1>2. there' = {"compose"} /\ compose' = tmp /\ tmp' = <<>>
  BY DEF rename_temp
<1>3. Whole(tmp)
  BY <1>1 DEF Whole, Begins
<1>4. op \in {"create", "replace"}
  BY <1>1 DEF FileInv, HandlerOK, FileTypeOK
<1>5. FileTypeOK' /\ HandlerOK'
  <2>1. compose' \in Seq(Line) /\ tmp' \in Seq(Line) /\ there' \subseteq {"compose", "tmp"}
    BY <1>1, <1>2
  <2> QED BY <2>1, <1>4 DEF rename_temp, Ends, Goes, FileInv, FileTypeOK, HandlerOK
<1>6. FilesOK'
  <2>1. Whole(compose)'
    BY <1>2, <1>3 DEF Whole
  <2>2. Begins(tmp)'
    <3>1. Len(Text) \in Nat
      BY TextAssumption
    <3> QED BY <1>2, <3>1 DEF Begins
  <2>3. at' \notin {"copy", "rename"}
    BY DEF rename_temp, Ends, Goes
  <2> QED BY <2>1, <2>2, <2>3, <1>2 DEF FilesOK
<1>7. Bounded'
  <2>1. CASE op = "create" /\ argv # {}
    BY <2>1, <1>1, <1>2 DEF rename_temp, Ends, FileInv, Bounded, Writing, LeftIn
  <2>2. CASE op = "create" /\ argv = {}
    <3>1. LeftIn(tmp, {})
      BY <2>2, <1>1 DEF FileInv, Bounded, Writing
    <3>2. at' = "up" /\ op' = "create"
      BY <2>2 DEF rename_temp, Goes
    <3> QED BY <3>1, <3>2, <1>2 DEF Bounded, Writing, LeftIn
  <2>3. CASE op = "replace"
    <3>1. FreeOf(tmp, argv \ given) /\ (told # {} => LeftIn(tmp, told))
      BY <2>3, <1>1 DEF FileInv, Bounded, Writing
    <3>2. /\ at' = "next" /\ op' = "replace"
          /\ argv' = argv /\ given' = given /\ told' = told
      BY <2>3 DEF rename_temp, Goes
    <3> QED BY <3>1, <3>2, <1>2 DEF Bounded, Writing, StillToCome, LeftIn, FreeOf
  <2> QED BY <2>1, <2>2, <2>3, <1>4
<1> QED BY <1>5, <1>6, <1>7 DEF FileInv

\* tmp.yml is opened for writing, if there is a docker-compose.yml to copy.
LEMMA OpenKeepsInv == FileInv /\ open_files => FileInv'
<1> SUFFICES ASSUME FileInv, open_files PROVE FileInv'
  OBVIOUS
<1>1. at = "open" /\ compose' = compose /\ told' = told
  BY DEF open_files
<1>2. CASE "compose" \notin there
  <2>1. there' = there /\ tmp' = tmp
    BY <1>2 DEF open_files
  <2>2. op' = "none" /\ at' = "idle" /\ argv' = {} /\ given' = {} /\ key' = {}
    BY <1>2 DEF open_files, Ends
  <2>3. FileTypeOK' /\ HandlerOK'
    BY <1>1, <2>1, <2>2 DEF FileInv, FileTypeOK, HandlerOK
  <2>4. FilesOK'
    BY <1>1, <2>1, <2>2 DEF FileInv, FilesOK, Whole, Begins
  <2>5. Bounded'
    BY <1>1, <2>1, <2>2 DEF FileInv, Bounded, Writing, LeftIn
  <2> QED BY <2>3, <2>4, <2>5 DEF FileInv
<1>3. CASE "compose" \in there
  <2>1. there' = there \cup {"tmp"} /\ tmp' = <<>>
    BY <1>3 DEF open_files
  <2>2. at' = "copy" /\ op' = op /\ argv' = argv /\ given' = given /\ key' = key
    BY <1>3 DEF open_files, Goes
  <2>3. Whole(compose)
    BY <1>3 DEF FileInv, FilesOK
  <2>4. FileTypeOK' /\ HandlerOK'
    BY <1>1, <2>1, <2>2 DEF FileInv, FileTypeOK, HandlerOK
  <2>5. FilesOK'
    <3>1. Whole(compose)'
      BY <1>1, <2>3 DEF Whole
    <3>2. Begins(tmp)'
      <4>1. Len(Text) \in Nat
        BY TextAssumption
      <4> QED BY <2>1, <4>1 DEF Begins
    <3>3. there' = {"compose", "tmp"}
      BY <1>3, <2>1 DEF FileInv, FileTypeOK
    <3> QED BY <3>1, <3>2, <3>3, <2>2 DEF FilesOK
  <2>6. Bounded'
    BY <1>1, <2>1, <2>2 DEF FileInv, Bounded, Writing, LeftIn, FreeOf, StillToCome
  <2> QED BY <2>4, <2>5, <2>6 DEF FileInv
<1> QED BY <1>2, <1>3

LEMMA NextKeepsInv == FileInv /\ [FileNext]_fvars => FileInv'
<1> SUFFICES ASSUME FileInv, [FileNext]_fvars PROVE FileInv'
  OBVIOUS
<1> USE DEF FileInv
<1>1. CASE upload
  <2>1. compose' \in Seq(Line) /\ Whole(compose')
    BY <1>1, UploadedIsWhole DEF upload
  <2>2. FileTypeOK'
    BY <1>1, <2>1 DEF upload, FileTypeOK
  <2>3. FilesOK'
    <3>1. Whole(compose)'
      BY <2>1 DEF Whole
    <3>2. Begins(tmp)' /\ "compose" \in there'
      BY <1>1 DEF upload, FilesOK, Begins
    <3> QED BY <1>1, <3>1, <3>2 DEF upload, FilesOK
  <2>4. HandlerOK'
    BY <1>1 DEF upload, HandlerOK
  <2>5. Bounded'
    BY <1>1 DEF upload, Bounded, HandlerOK, Writing
  <2> QED BY <2>2, <2>3, <2>4, <2>5
<1>2. CASE erase
  <2>1. Len(Text) \in Nat
    BY TextAssumption
  <2> QED BY <1>2, <2>1 DEF erase, FileTypeOK, FilesOK, HandlerOK, Bounded, Begins,
                            LeftIn, FreeOf, Writing, StillToCome
<1>3. CASE begin_create
  BY <1>3 DEF begin_create, FileTypeOK, FilesOK, HandlerOK, Bounded, Begins, Whole,
              LeftIn, FreeOf, Writing, StillToCome
<1>4. CASE begin_replace
  BY <1>4 DEF begin_replace, FileTypeOK, FilesOK, HandlerOK, Bounded, Begins, Whole,
              LeftIn, FreeOf, Writing, StillToCome
<1>5. CASE next_argument
  BY <1>5 DEF next_argument, Goes, FileTypeOK, FilesOK, HandlerOK, Bounded, Begins, Whole,
              LeftIn, FreeOf, Writing, StillToCome
<1>6. CASE open_files
  BY <1>6, OpenKeepsInv
<1>7. CASE copy_line
  BY <1>7, CopyKeepsInv
<1>8. CASE remove_original
  <2>1. /\ there' = {"tmp"} /\ compose' = <<>> /\ Len(tmp) = Len(Text)
    BY <1>8 DEF remove_original, FilesOK, Whole
  <2> QED BY <1>8, <2>1 DEF remove_original, Goes, FileTypeOK, FilesOK, HandlerOK, Bounded,
                            Begins, Whole, LeftIn, FreeOf, Writing, StillToCome
<1>9. CASE rename_temp
  BY <1>9, RenameKeepsInv
<1>10. CASE up \/ killed
  BY <1>10 DEF up, killed, Ends, FileTypeOK, FilesOK, HandlerOK, Bounded, Begins, Whole,
               LeftIn, FreeOf, Writing, StillToCome
<1>11. CASE UNCHANGED fvars
  BY <1>11 DEF fvars, FileTypeOK, FilesOK, HandlerOK, Bounded, Begins, Whole,
               LeftIn, FreeOf, Writing, StillToCome
<1> QED BY <1>1, <1>2, <1>3, <1>4, <1>5, <1>6, <1>7, <1>8, <1>9, <1>10, <1>11
        DEF FileNext, FileBegins, FileStep

LEMMA FileInvHolds == FileSpec => []FileInv
<1>1. FileInit => FileInv
  BY InitFileInv
<1>2. FileInv /\ [FileNext]_fvars => FileInv'
  BY NextKeepsInv
<1> QED BY <1>1, <1>2, PTL DEF FileSpec

\* The two files, the placeholders and the locals of the request always have
\* their types, for every text (get_argv, replace_argv, replace_string).
THEOREM FilesTyped == FileSpec => []FileTypeOK
<1>1. FileInv => FileTypeOK
  BY DEF FileInv
<1> QED BY <1>1, FileInvHolds, PTL

\* get_argv and replace_string never lose the text, wherever the server is
\* killed.
THEOREM TextIsKept == FileSpec => TextKept
<1> DEFINE Keeps ==
        /\ "compose" \in there' => Whole(compose')
        /\ "compose" \in there \ there' => there' = {} \/ Whole(tmp')
        /\ there = {"tmp"} =>
              there' = {} \/ "compose" \in there' \/ (there' = there /\ tmp' = tmp)
<1>1. FileInv /\ FileInv' /\ [FileNext]_fvars => [Keeps]_fvars
  <2> SUFFICES ASSUME FileInv, FileInv', FileNext PROVE Keeps
    OBVIOUS
  <2>1. "compose" \in there' => Whole(compose')
    BY DEF FileInv, FilesOK, Whole
  <2>2. "compose" \in there \ there' => there' = {} \/ Whole(tmp')
    <3> SUFFICES ASSUME "compose" \in there, "compose" \notin there', there' # {}
                 PROVE  Whole(tmp')
      OBVIOUS
    <3>1. there' = {"tmp"}
      BY DEF FileInv, FileTypeOK
    <3> QED BY <3>1 DEF FileInv, FilesOK, Begins, Whole
  <2>3. there = {"tmp"} =>
           there' = {} \/ "compose" \in there' \/ (there' = there /\ tmp' = tmp)
    BY DEF FileInv, FilesOK, FileNext, FileBegins, FileStep, upload, erase, begin_create,
           begin_replace, next_argument, open_files, copy_line, remove_original,
           rename_temp, up, killed
  <2> QED BY <2>1, <2>2, <2>3
<1>2. FileInv /\ [FileNext]_fvars => FileInv'
  BY NextKeepsInv
<1>3. FileSpec => [][Keeps]_fvars
  BY <1>1, <1>2, FileInvHolds, PTL DEF FileSpec
<1> QED BY <1>3 DEF TextKept

\* create_project_exceptions never starts containers from a file with a
\* placeholder that was to be filled in, whatever arguments are given in
\* whatever order and however requests end.
THEOREM NothingLeftToFill == FileSpec => []FilledIn
<1>1. FileInv => FilledIn
  <2> SUFFICES ASSUME FileInv, at = "up" PROVE
        LET Left == UNION {compose[i].left : i \in 1 .. Len(compose)} IN
        /\ op = "create" => Left = {}
        /\ op = "replace" =>
              Left \cap argv = {} /\ (told # {} /\ told \subseteq argv => Left = {})
    BY DEF FilledIn
  <2>1. CASE op = "create"
    BY <2>1 DEF FileInv, Bounded, LeftIn
  <2>2. CASE op = "replace"
    <3>1. FreeOf(compose, argv)
      BY <2>2 DEF FileInv, Bounded, StillToCome, FreeOf
    <3>2. told # {} => LeftIn(compose, told)
      BY DEF FileInv, Bounded
    <3> QED BY <2>2, <3>1, <3>2 DEF LeftIn, FreeOf
  <2> QED BY <2>1, <2>2
<1> QED BY <1>1, FileInvHolds, PTL

(***************************************************************************)
(* The account of the user                                                 *)
(*                                                                         *)
(* The inductive invariant, AccountInv, says how far each request has come *)
(* when no command of it has failed: Creating and Deleting have a line for *)
(* each step, of what the steps before it have made or removed.  The loops *)
(* over the machines keep what is done and what is left together: a        *)
(* machine has its volume container, or it is left.                        *)
(***************************************************************************)
\* the machines the loop has still to go to
Left == ToSet(left)

\* what create_user has made when it is at a step and no command of it failed
Creating ==
    /\ doing = "run_volume" =>
          left # <<>> /\ (clean => Machines \subseteq volumes \cup Left)
    /\ doing \in {"network_create", "mkdir", "create_database", "create_account",
                  "create_tables"} /\ clean => volumes = Machines
    /\ doing \in {"mkdir", "create_database", "create_account", "create_tables"}
          /\ clean => network
    /\ doing \in {"create_database", "create_account", "create_tables"} /\ clean =>
          ClientList[1] \in directory /\ (Mounted => directory = Machines)
    /\ doing = "create_account" => database = "bare"
    /\ doing = "create_tables" => database = "bare" /\ account

\* and what delete_user has removed
Deleting ==
    /\ doing = "drop_database" => ~account
    /\ doing = "rm_volume" => left # <<>> /\ (clean => volumes \subseteq Left)
    /\ doing \in {"rm_directory", "network_rm"} /\ clean => volumes = {}
    /\ doing = "network_rm" /\ clean =>
          Last(ClientList) \notin directory /\ (Mounted => directory = {})

Flags ==
    /\ network \in BOOLEAN /\ account \in BOOLEAN
    /\ clean \in BOOLEAN /\ torn \in BOOLEAN
Answer == [to : {"none", "create", "delete"}, ok : BOOLEAN, clean : BOOLEAN]
AccountTypes ==
    /\ volumes \subseteq Machines /\ directory \subseteq Machines
    /\ Flags
    /\ database \in {"absent", "bare", "usable"}
    /\ left \in Seq(Machines)
    /\ answer \in Answer

\* no request is answered before it is over
Unanswered == doing # "idle" => answer = NoAnswer

\* the part of AccountsWhole that looks back
TornIs == HalfMade /\ ~torn => doing \in HalfWay

AccountInv == AccountTypes /\ Unanswered /\ Creating /\ Deleting /\ AccountsWhole

\* upload needs a directory, and the files go with it
FilesInDirectory == there # {} => HasDirectory

UserInv == FileInv /\ AccountInv /\ FilesInDirectory

LEMMA MachinesAre ==
    /\ ClientList \in Seq(Machines) /\ Len(ClientList) \in Nat /\ Len(ClientList) > 0
    /\ ClientList # <<>>
    /\ ClientList[1] \in Machines /\ Last(ClientList) \in Machines
<1>1. ClientList \in Seq(Machines) /\ Len(ClientList) > 0
  BY ClientListAssumption DEF Machines
<1>2. ClientList # <<>>
  BY <1>1
<1> QED BY <1>1, <1>2 DEF Last

\* The first of a sequence and the others.
LEMMA HeadAndTail ==
    ASSUME NEW S, NEW s \in Seq(S), s # <<>>
    PROVE  /\ Head(s) \in S
           /\ Tail(s) \in Seq(S)
           /\ ToSet(s) = {Head(s)} \cup ToSet(Tail(s))
           /\ Len(s) = 1 => Tail(s) = <<>> /\ ToSet(Tail(s)) = {}
           /\ Len(s) # 1 => Tail(s) # <<>>
<1>1. /\ Len(s) \in Nat /\ Len(s) > 0 /\ DOMAIN s = 1 .. Len(s)
      /\ DOMAIN Tail(s) = 1 .. Len(s) - 1
      /\ \A i \in 1 .. Len(s) - 1 : Tail(s)[i] = s[i + 1]
      /\ Tail(s) \in Seq(S) /\ Len(Tail(s)) = Len(s) - 1
  OBVIOUS
<1>2. Head(s) = s[1] /\ 1 \in 1 .. Len(s) /\ Head(s) \in S
  BY <1>1
<1>3. ToSet(s) = {Head(s)} \cup ToSet(Tail(s))
  <2>1. \A x \in ToSet(s) : x \in {Head(s)} \cup ToSet(Tail(s))
    <3> SUFFICES ASSUME NEW i \in 1 .. Len(s), i # 1
                 PROVE  s[i] \in ToSet(Tail(s))
      BY <1>1, <1>2 DEF ToSet
    <3>1. i - 1 \in 1 .. Len(s) - 1 /\ i = (i - 1) + 1
      BY <1>1
    <3>2. PICK j \in 1 .. Len(s) - 1 : i = j + 1
      BY <3>1
    <3>3. j \in DOMAIN Tail(s) /\ Tail(s)[j] = s[i]
      BY <1>1, <3>2
    <3> QED BY <3>3 DEF ToSet
  <2>2. Head(s) \in ToSet(s)
    BY <1>1, <1>2 DEF ToSet
  <2>3. \A x \in ToSet(Tail(s)) : x \in ToSet(s)
    <3> SUFFICES ASSUME NEW i \in 1 .. Len(s) - 1 PROVE Tail(s)[i] \in ToSet(s)
      BY <1>1 DEF ToSet
    <3>1. i + 1 \in DOMAIN s
      BY <1>1
    <3> QED BY <1>1, <3>1 DEF ToSet
  <2> QED BY <2>1, <2>2, <2>3
<1>4. Len(s) = 1 => Tail(s) = <<>> /\ ToSet(Tail(s)) = {}
  BY <1>1 DEF ToSet
<1>5. Len(s) # 1 => Tail(s) # <<>>
  <2> SUFFICES ASSUME Tail(s) = <<>> PROVE Len(s) = 1
    OBVIOUS
  <2>1. Len(<<>>) = 0
    OBVIOUS
  <2> QED BY <1>1, <2>1
<1> QED BY <1>1, <1>2, <1>3, <1>4, <1>5

\* What is left of the machines after the first of them.
LEMMA NextMachine ==
    ASSUME left \in Seq(Machines), left # <<>>
    PROVE  /\ Machine \in Machines
           /\ Tail(left) \in Seq(Machines)
           /\ Left = {Machine} \cup ToSet(Tail(left))
           /\ Len(left) = 1 => Tail(left) = <<>> /\ ToSet(Tail(left)) = {}
           /\ Len(left) # 1 => Tail(left) # <<>>
BY HeadAndTail DEF Machine, Left

\* At first there is nothing.
LEMMA InitAccountInv == AccountsInit => AccountInv
<1> SUFFICES ASSUME AccountsInit PROVE AccountInv
  OBVIOUS
<1>1. Flags
  BY DEF AccountsInit, Flags
<1>2. AccountTypes
  BY <1>1 DEF AccountsInit, AccountTypes, Answer, NoAnswer
<1> QED BY <1>2 DEF AccountsInit, AccountInv, Unanswered, Creating, Deleting,
                    AccountsWhole, HalfMade, NoAnswer

\* A request starts with every machine left and nothing failed.
LEMMA BeginsKeepsInv == ASSUME AccountInv, AccountBegins PROVE AccountInv'
<1>0. UNCHANGED torn
  BY DEF AccountBegins
<1>1. CASE create_user
  <2>1. left' \in Seq(Machines) /\ left' # <<>> /\ Machines \subseteq Left'
    BY <1>1, MachinesAre DEF create_user, Left, Machines
  <2>2. Flags' /\ answer' \in Answer
    BY <1>0, <1>1 DEF create_user, AccountInv, AccountTypes, Flags, Answer, NoAnswer
  <2>3. TornIs'
    BY <1>0, <1>1 DEF create_user, AccountInv, AccountsWhole, TornIs, HalfWay, HalfMade
  <2> QED BY <1>1, <2>1, <2>2, <2>3 DEF create_user, AccountInv, AccountTypes, Unanswered,
             Creating, Deleting, AccountsWhole, TornIs, NoAnswer
<1>2. CASE delete_user
  <2>1. Flags' /\ answer' \in Answer
    BY <1>0, <1>2 DEF delete_user, AccountInv, AccountTypes, Flags, Answer, NoAnswer
  <2>2. TornIs'
    BY <1>0, <1>2 DEF delete_user, AccountInv, AccountsWhole, TornIs, HalfWay, HalfMade
  <2> QED BY <1>2, <2>1, <2>2 DEF delete_user, AccountInv, AccountTypes, Unanswered, Creating,
              Deleting, AccountsWhole, TornIs, NoAnswer
<1> QED BY <1>1, <1>2 DEF AccountBegins

\* What Tears remembers is a flag.
LEMMA TornIsFlag == Tears => torn' \in BOOLEAN
BY DEF Tears

\* The loops: one machine less is left, unless the command failed.
LEMMA RunVolumeKeepsInv == ASSUME AccountInv, run_volume, Tears PROVE AccountInv'
<1>1. /\ doing = "run_volume" /\ left # <<>> /\ left \in Seq(Machines)
      /\ left' = Tail(left) /\ answer' = answer /\ UNCHANGED <<network, database, account>>
      /\ doing' = IF Len(left) = 1 THEN "network_create" ELSE "run_volume"
  BY DEF run_volume, ForEachMachine, GoesTo, AccountInv, Creating, AccountTypes
<1>2. \/ /\ volumes' = volumes \cup {Machine} /\ clean' = clean
         /\ directory' = directory \cup (IF Machine \in volumes THEN {} ELSE Sees(Machine))
      \/ UNCHANGED <<volumes, directory>> /\ clean' = FALSE
  BY DEF run_volume, ForEachMachine, Ssh
<1>3. /\ Machine \in Machines /\ Tail(left) \in Seq(Machines)
      /\ Left = {Machine} \cup Left'
      /\ Len(left) = 1 => Left' = {}
      /\ Len(left) # 1 => left' # <<>>
  BY <1>1, NextMachine DEF Left
<1>4. AccountTypes'
  <2>1. Flags
    BY DEF AccountInv, AccountTypes
  <2>2. Flags'
    BY <2>1, <1>1, <1>2, TornIsFlag, Zenon DEF Flags
  <2> QED BY <2>2, <1>1, <1>2, <1>3 DEF AccountInv, AccountTypes, Sees
<1>5. clean' => Machines \subseteq volumes' \cup Left'
  BY <1>1, <1>2, <1>3 DEF AccountInv, Creating
<1>6. Creating'
  BY <1>1, <1>3, <1>4, <1>5 DEF AccountTypes, Creating
<1>7. TornIs'
  BY <1>1 DEF AccountInv, AccountsWhole, TornIs, Tears, HalfWay, HalfMade
<1> QED BY <1>1, <1>4, <1>6, <1>7 DEF AccountInv, Unanswered, Deleting, AccountsWhole, TornIs

LEMMA RmVolumeKeepsInv == ASSUME AccountInv, rm_volume, Tears PROVE AccountInv'
<1>1. /\ doing = "rm_volume" /\ left # <<>> /\ left \in Seq(Machines)
      /\ left' = Tail(left) /\ answer' = answer
      /\ UNCHANGED <<network, directory, database, account>>
      /\ doing' = IF Len(left) = 1 THEN "rm_directory" ELSE "rm_volume"
  BY DEF rm_volume, ForEachMachine, GoesTo, AccountInv, Deleting, AccountTypes
<1>2. \/ volumes' = volumes \ {Machine} /\ clean' = clean
      \/ volumes' = volumes /\ clean' = FALSE
  BY DEF rm_volume, ForEachMachine, Ssh
<1>3. /\ Machine \in Machines /\ Tail(left) \in Seq(Machines)
      /\ Left = {Machine} \cup Left'
      /\ Len(left) = 1 => Left' = {}
      /\ Len(left) # 1 => left' # <<>>
  BY <1>1, NextMachine DEF Left
<1>4. AccountTypes'
  <2>1. Flags
    BY DEF AccountInv, AccountTypes
  <2>2. Flags'
    BY <2>1, <1>1, <1>2, TornIsFlag, Zenon DEF Flags
  <2> QED BY <2>2, <1>1, <1>2, <1>3 DEF AccountInv, AccountTypes
<1>5. clean' => volumes' \subseteq Left'
  BY <1>1, <1>2, <1>3 DEF AccountInv, Deleting
<1>6. Deleting'
  BY <1>1, <1>3, <1>5 DEF Deleting
<1>7. TornIs'
  BY <1>1 DEF AccountInv, AccountsWhole, TornIs, Tears, HalfWay, HalfMade
<1> QED BY <1>1, <1>4, <1>6, <1>7 DEF AccountInv, Unanswered, Creating, AccountsWhole, TornIs

\* An answer is one.
LEMMA AnswersIs ==
    ASSUME NEW to \in {"create", "delete"}, NEW ok \in BOOLEAN, NEW c \in BOOLEAN
    PROVE  [to |-> to, ok |-> ok, clean |-> c] \in Answer
BY DEF Answer

\* The other steps, each of one command.
LEMMA StepKeepsInv ==
    ASSUME AccountInv, Tears,
           \/ network_create \/ mkdir \/ create_database \/ create_account \/ create_tables
           \/ drop_user \/ drop_database \/ rm_directory \/ network_rm
    PROVE  AccountInv'
<1> USE DEF AccountInv, AccountTypes, Unanswered, Creating, Deleting, AccountsWhole,
            GoesTo, Answers, Sql, Ssh, NoAnswer
<1>0. \A S : Mounted => Sees(S) = Machines
  BY DEF Sees
<1>s. Last(ClientList) \in Sees(Last(ClientList))
  BY MachinesAre DEF Sees
<1>t. torn' \in BOOLEAN
  BY TornIsFlag
<1>1. CASE network_create
  <2>1. AccountTypes'
    <3>1. Flags'
      BY <1>t, <1>1, Zenon DEF network_create, Flags
    <3>2. answer' \in Answer
      BY <1>1, AnswersIs DEF network_create, Flags
    <3> QED BY <1>1, <3>1, <3>2 DEF network_create
  <2>2. Unanswered'
    BY <1>1 DEF network_create
  <2>3. Creating'
    BY <1>1 DEF network_create
  <2>4. Deleting'
    BY <1>1 DEF network_create
  <2>5. TornIs'
    BY <1>1 DEF network_create, TornIs, Tears, HalfWay, HalfMade
  <2>6. AccountsWhole'
    BY <1>1, <2>5 DEF network_create, TornIs
  <2> QED BY <2>1, <2>2, <2>3, <2>4, <2>6
<1>2. CASE mkdir
  <2>0. /\ directory' \subseteq Machines
        /\ Mounted => directory' = Machines \/ clean' = FALSE
        /\ ClientList[1] \in directory' \/ clean' = FALSE
    BY <1>0, <1>2, MachinesAre DEF mkdir, Sees
  <2>1. AccountTypes'
    <3>1. Flags'
      BY <1>t, <2>0, <1>2, Zenon DEF mkdir, Flags
    <3>2. answer' \in Answer
      BY <1>2, AnswersIs DEF mkdir, Flags
    <3> QED BY <2>0, <1>2, <3>1, <3>2 DEF mkdir
  <2>2. Unanswered'
    BY <2>0, <1>2 DEF mkdir
  <2>3. Creating'
    BY <2>0, <1>2 DEF mkdir
  <2>4. Deleting'
    BY <2>0, <1>2 DEF mkdir
  <2>5. TornIs'
    BY <2>0, <1>2 DEF mkdir, TornIs, Tears, HalfWay, HalfMade
  <2>6. AccountsWhole'
    BY <2>0, <1>2, <2>5 DEF mkdir, TornIs
  <2> QED BY <2>1, <2>2, <2>3, <2>4, <2>6
<1>3. CASE create_database
  <2>1. AccountTypes'
    <3>1. Flags'
      BY <1>t, <1>3, Zenon DEF create_database, Flags
    <3>2. answer' \in Answer
      BY <1>3, AnswersIs DEF create_database, Flags
    <3> QED BY <1>3, <3>1, <3>2 DEF create_database
  <2>2. Unanswered'
    BY <1>3 DEF create_database
  <2>3. Creating'
    BY <1>3 DEF create_database
  <2>4. Deleting'
    BY <1>3 DEF create_database
  <2>5. TornIs'
    BY <1>3 DEF create_database, TornIs, Tears, HalfWay, HalfMade
  <2>6. AccountsWhole'
    BY <1>3, <2>5 DEF create_database, TornIs
  <2> QED BY <2>1, <2>2, <2>3, <2>4, <2>6
<1>4. CASE create_account
  <2>1. AccountTypes'
    <3>1. Flags'
      BY <1>t, <1>4, Zenon DEF create_account, Flags
    <3>2. answer' \in Answer
      BY <1>4, AnswersIs DEF create_account, Flags
    <3> QED BY <1>4, <3>1, <3>2 DEF create_account
  <2>2. Unanswered'
    BY <1>4 DEF create_account
  <2>3. Creating'
    BY <1>4 DEF create_account
  <2>4. Deleting'
    BY <1>4 DEF create_account
  <2>5. TornIs'
    BY <1>4 DEF create_account, TornIs, Tears, HalfWay, HalfMade
  <2>6. AccountsWhole'
    BY <1>4, <2>5 DEF create_account, TornIs
  <2> QED BY <2>1, <2>2, <2>3, <2>4, <2>6
<1>5. CASE create_tables
  <2>1. AccountTypes'
    <3>1. Flags'
      BY <1>t, <1>5, Zenon DEF create_tables, Flags
    <3>2. answer' \in Answer
      BY <1>5, AnswersIs DEF create_tables, Flags
    <3> QED BY <1>5, <3>1, <3>2 DEF create_tables
  <2>2. Unanswered'
    BY <1>5 DEF create_tables
  <2>3. Creating'
    BY <1>5 DEF create_tables
  <2>4. Deleting'
    BY <1>5 DEF create_tables
  <2>5. TornIs'
    BY <1>5 DEF create_tables, TornIs, Tears, HalfWay, HalfMade
  <2>6. AccountsWhole'
    BY <1>5, <2>5 DEF create_tables, TornIs
  <2> QED BY <2>1, <2>2, <2>3, <2>4, <2>6
<1>6. CASE drop_user
  <2>1. AccountTypes'
    <3>1. Flags'
      BY <1>t, <1>6, Zenon DEF drop_user, Flags
    <3>2. answer' \in Answer
      BY <1>6, AnswersIs DEF drop_user, Flags
    <3> QED BY <1>6, <3>1, <3>2 DEF drop_user
  <2>2. Unanswered'
    BY <1>6 DEF drop_user
  <2>3. Creating'
    BY <1>6 DEF drop_user
  <2>4. Deleting'
    BY <1>6 DEF drop_user
  <2>5. TornIs'
    BY <1>6 DEF drop_user, TornIs, Tears, HalfWay, HalfMade
  <2>6. AccountsWhole'
    BY <1>6, <2>5 DEF drop_user, TornIs
  <2> QED BY <2>1, <2>2, <2>3, <2>4, <2>6
<1>7. CASE drop_database
  <2>0. database' = "absent" /\ left' = ClientList /\ doing' = "rm_volume" =>
           left' \in Seq(Machines) /\ left' # <<>> /\ Left' = Machines
    BY MachinesAre DEF Left, Machines
  <2>1. AccountTypes'
    <3>1. Flags'
      BY <1>t, <2>0, <1>7, Zenon DEF drop_database, Flags
    <3>2. answer' \in Answer
      BY <1>7, AnswersIs DEF drop_database, Flags
    <3> QED BY <2>0, <1>7, <3>1, <3>2 DEF drop_database
  <2>2. Unanswered'
    BY <2>0, <1>7 DEF drop_database
  <2>3. Creating'
    BY <2>0, <1>7 DEF drop_database
  <2>4. Deleting'
    BY <2>0, <1>7 DEF drop_database
  <2>5. TornIs'
    BY <2>0, <1>7 DEF drop_database, TornIs, Tears, HalfWay, HalfMade
  <2>6. AccountsWhole'
    BY <2>0, <1>7, <2>5 DEF drop_database, TornIs
  <2> QED BY <2>1, <2>2, <2>3, <2>4, <2>6
<1>8. CASE rm_directory
  <2>1. AccountTypes'
    <3>1. Flags'
      BY <1>t, <1>0, <1>8, Zenon DEF rm_directory, Flags
    <3>2. answer' \in Answer
      BY <1>8, AnswersIs DEF rm_directory, Flags
    <3> QED BY <1>0, <1>8, <3>1, <3>2 DEF rm_directory
  <2>2. Unanswered'
    BY <1>0, <1>8 DEF rm_directory
  <2>3. Creating'
    BY <1>0, <1>8 DEF rm_directory
  <2>4. Deleting'
    BY <1>0, <1>s, <1>8 DEF rm_directory
  <2>5. TornIs'
    BY <1>0, <1>8 DEF rm_directory, TornIs, Tears, HalfWay, HalfMade
  <2>6. AccountsWhole'
    BY <1>0, <1>8, <2>5 DEF rm_directory, TornIs
  <2> QED BY <2>1, <2>2, <2>3, <2>4, <2>6
<1>9. CASE network_rm
  <2>1. AccountTypes'
    <3>1. Flags'
      BY <1>t, <1>9, Zenon DEF network_rm, Flags
    <3>2. answer' \in Answer
      BY <1>9, AnswersIs DEF network_rm, Flags
    <3> QED BY <1>9, <3>1, <3>2 DEF network_rm
  <2>2. Unanswered'
    BY <1>9 DEF network_rm
  <2>3. Creating'
    BY <1>9 DEF network_rm
  <2>4. Deleting'
    BY <1>9 DEF network_rm
  <2>5. TornIs'
    BY <1>9 DEF network_rm, TornIs, Tears, HalfWay, HalfMade
  <2>6. AccountsWhole'
    BY <1>9, <2>5 DEF network_rm, TornIs
  <2> QED BY <2>1, <2>2, <2>3, <2>4, <2>6
<1> QED BY <1>1, <1>2, <1>3, <1>4, <1>5, <1>6, <1>7, <1>8, <1>9

LEMMA AccountStepKeepsInv == ASSUME AccountInv, AccountStep PROVE AccountInv'
BY RunVolumeKeepsInv, RmVolumeKeepsInv, StepKeepsInv DEF AccountStep

LEMMA KilledKeepsInv == ASSUME AccountInv, AccountKilled PROVE AccountInv'
<1> USE DEF AccountKilled, server_killed
<1>1. Flags'
  BY TornIsFlag, Zenon DEF AccountInv, AccountTypes, Flags
<1>2. AccountTypes'
  BY <1>1 DEF AccountInv, AccountTypes
<1>3. TornIs'
  BY DEF AccountInv, AccountsWhole, Unanswered, NoAnswer, TornIs, Tears, HalfWay,
         HalfMade
<1> QED BY <1>2, <1>3 DEF AccountInv, AccountTypes, Unanswered, NoAnswer, Creating,
                          Deleting, AccountsWhole, TornIs

LEMMA AccountUnchanged == ASSUME AccountInv, UNCHANGED avars PROVE AccountInv'
<1>1. AccountTypes'
  BY DEF avars, AccountInv, AccountTypes, Flags
<1> QED BY <1>1 DEF avars, AccountInv, AccountTypes, Unanswered, Creating, Deleting,
                    AccountsWhole, HalfMade, Left

(***************************************************************************)
(* Account and files                                                       *)
(***************************************************************************)
\* What a request on the account does to the files is what the file browser
\* could have done.
LEMMA FilesStep == [Next]_vars => [FileNext]_fvars
BY DEF Next, vars, fvars, account_request, directory_removed, file_request, file_begins,
       crash, FileNext

LEMMA AccountKeepsInv == AccountInv /\ [Next]_vars => AccountInv'
<1> SUFFICES ASSUME AccountInv, [Next]_vars PROVE AccountInv'
  OBVIOUS
<1>1. AccountBegins \/ AccountStep \/ AccountKilled \/ UNCHANGED avars
  BY DEF Next, vars, avars, account_request, directory_removed, file_request, file_begins, crash
<1> QED BY <1>1, BeginsKeepsInv, AccountStepKeepsInv, KilledKeepsInv, AccountUnchanged

\* Only rm_directory takes a directory away, and the files with it; only upload
\* brings a first file, and it needs the directory.
LEMMA DirectoryKeepsFiles ==
    ASSUME FileInv, FilesInDirectory, [Next]_vars PROVE FilesInDirectory'
<1>1. CASE UNCHANGED vars
  BY <1>1 DEF vars, avars, fvars, FilesInDirectory, HasDirectory
<1>2. CASE directory_removed
  BY <1>2 DEF directory_removed, erase, FilesInDirectory
<1>3. CASE account_request
  <2>1. UNCHANGED there
    BY <1>3 DEF account_request, fvars
  <2>2. HasDirectory => HasDirectory'
    BY <1>3 DEF account_request, Removed, HasDirectory, AccountBegins, create_user, delete_user
  <2> QED BY <2>1, <2>2 DEF FilesInDirectory
<1>4. CASE file_request
  <2>1. UNCHANGED directory
    BY <1>4 DEF file_request, avars
  <2>2. there' # {} => there # {}
    BY <1>4 DEF file_request, FileStep, next_argument, open_files, copy_line, remove_original,
                rename_temp, up, FileInv, FilesOK
  <2> QED BY <2>1, <2>2 DEF FilesInDirectory, HasDirectory
<1>5. CASE file_begins
  BY <1>5 DEF file_begins, avars, FilesInDirectory, HasDirectory
<1>6. CASE crash
  BY <1>6 DEF crash, AccountKilled, server_killed, killed, avars, fvars, FilesInDirectory, HasDirectory
<1> QED BY <1>1, <1>2, <1>3, <1>4, <1>5, <1>6 DEF Next

LEMMA UserInvHolds == Spec => []UserInv
<1>1. Init => UserInv
  BY InitFileInv, InitAccountInv DEF Init, UserInv, FilesInDirectory, FileInit
<1>2. UserInv /\ [Next]_vars => UserInv'
  BY FilesStep, NextKeepsInv, AccountKeepsInv, DirectoryKeepsFiles DEF UserInv
<1> QED BY <1>1, <1>2, PTL DEF Spec

\* The account, the directory and the files in it always have their types, and
\* there are files only in a directory (create_user, delete_user, file browser).
THEOREM UserTypeCorrect == Spec => []TypeOK
<1>1. UserInv => TypeOK
  BY DEF UserInv, FileInv, AccountInv, AccountTypes, Flags, FilesInDirectory, TypeOK
<1> QED BY <1>1, UserInvHolds, PTL

\* The database server knows a user only with a database, which goes first; what
\* create_user and delete_user answer when no command failed is true, for any
\* number of machines and whatever earlier requests left behind.
THEOREM AccountsAreWhole == Spec => []AccountsWhole
<1>1. UserInv => AccountsWhole
  BY DEF UserInv, AccountInv
<1> QED BY <1>1, UserInvHolds, PTL

\* To the files of a project, a user whose account comes and goes is nothing new:
\* UserSpace implements ComposeFile, and with it its theorems.
THEOREM ImplementsFiles == Spec => FileSpec
<1>1. Init => FileInit
  BY DEF Init
<1> QED BY <1>1, FilesStep, PTL DEF Spec, FileSpec

\* The text of a compose file is never lost, with the account's requests too.
COROLLARY UserTextIsKept == Spec => TextKept
BY ImplementsFiles, TextIsKept

\* Nor are containers started from a file with something left to fill in.
COROLLARY UserNothingLeftToFill == Spec => []FilledIn
BY ImplementsFiles, NothingLeftToFill
=============================================================================
