---------------------------- MODULE Dependencies ----------------------------
(***************************************************************************)
(* sort_service_dicts and the loop of nap_from_dicts over what it returns: *)
(* the services of the loaded file in the order in which they are made.    *)
(*                                                                         *)
(* visit is recursive; the calls that wait for one another are the stack,  *)
(* each with the dependents it has not yet visited.  load returns the      *)
(* services in the order of a dictionary, which is any.                    *)
(***************************************************************************)
EXTENDS Loader, SequencesExt

VARIABLES
    unmarked,   \* as in the code
    visiting,   \* the calls of visit that wait, outermost first
    sorted,     \* sorted_services
    made        \* the services nap_from_dicts has made, in order

dvars == <<unmarked, visiting, sorted, made>>

\* the services that n must find up: links, volumes_from and net
Requires(n) == loaded[n].requires \cup (loaded[n].net \cap Names)

get_service_dependents(n) == {s \in DOMAIN loaded : n \in Requires(s)}

Marked == {visiting[i].name : i \in DOMAIN visiting}  \* temporary_marked

begin_sort ==
    /\ stage = "sort"
    /\ stage' = "sorting"
    /\ unmarked' = DOMAIN loaded
    /\ UNCHANGED <<visiting, sorted, made>>

Call(n) == [name |-> n, dependents |-> get_service_dependents(n)]

\* Mutant: goes round until there is one that no other waits for.
visit_last_mutant ==
    /\ stage = "sorting" /\ visiting = <<>>
    /\ IF unmarked = {} THEN stage' = "making" /\ UNCHANGED visiting
       ELSE /\ \E n \in unmarked :
                 /\ get_service_dependents(n) \cap unmarked = {}
                 /\ visiting' = <<Call(n)>>
            /\ UNCHANGED stage
    /\ UNCHANGED <<unmarked, sorted, made>>

visit_last ==
    /\ stage = "sorting" /\ visiting = <<>>
    /\ \/ unmarked = {} /\ stage' = "making" /\ UNCHANGED visiting
       \/ \E n \in unmarked : visiting' = <<Call(n)>> /\ UNCHANGED stage
    /\ UNCHANGED <<unmarked, sorted, made>>

visit_dependent ==
    /\ stage = "sorting" /\ visiting # <<>>
    /\ \E m \in Last(visiting).dependents :
          IF m \in Marked THEN stage' = "dependency_error" /\ UNCHANGED visiting
          ELSE LET rest == [visiting EXCEPT ![Len(visiting)].dependents = @ \ {m}]
               IN /\ visiting' = IF m \in unmarked THEN Append(rest, Call(m)) ELSE rest
                  /\ UNCHANGED stage
    /\ UNCHANGED <<unmarked, sorted, made>>

\* Mutant: put at the end.
visited_mutant ==
    LET top == Last(visiting) IN
    /\ stage = "sorting" /\ visiting # <<>>
    /\ top.dependents = {}
    /\ visiting' = Front(visiting)
    /\ unmarked' = unmarked \ {top.name}
    /\ sorted' = Append(sorted, top.name)
    /\ UNCHANGED <<stage, made>>

\* Mutant: it stays unmarked.
visited_again ==
    LET top == Last(visiting) IN
    /\ stage = "sorting" /\ visiting # <<>>
    /\ top.dependents = {}
    /\ visiting' = Front(visiting)
    /\ sorted' = <<top.name>> \o sorted
    /\ UNCHANGED <<stage, unmarked, made>>

visited ==
    LET top == Last(visiting) IN
    /\ stage = "sorting" /\ visiting # <<>>
    /\ top.dependents = {}
    /\ visiting' = Front(visiting)
    /\ unmarked' = unmarked \ {top.name}
    /\ sorted' = <<top.name>> \o sorted
    /\ UNCHANGED <<stage, made>>

\* one turn of the loop of nap_from_dicts: Service(net=net, **service_dict) is
\* a TypeError if the dictionary has a net of its own, whatever the mode
make_service ==
    /\ stage = "making"
    /\ IF Len(made) = Len(sorted) THEN stage' = "done" /\ UNCHANGED made
       ELSE LET n == sorted[Len(made) + 1] IN
            IF loaded[n].net # {} THEN stage' = "crashed" /\ UNCHANGED made
            ELSE made' = Append(made, n) /\ UNCHANGED stage
    /\ UNCHANGED <<unmarked, visiting, sorted>>

Sort ==
    /\ begin_sort \/ visit_last \/ visit_dependent \/ visited \/ make_service
    /\ UNCHANGED <<conf, unloaded, calls, dict, loaded>>
=============================================================================
