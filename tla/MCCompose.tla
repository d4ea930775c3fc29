----------------------------- MODULE MCCompose ------------------------------
(***************************************************************************)
(* Instances of Compose for TLC: the compose files it is asked about.      *)
(***************************************************************************)
EXTENDS Compose, TLC

CONSTANTS main, over, other, a, b, c

Says(extends, requires, net, keys) ==
    [written |-> TRUE, extends |-> extends, requires |-> requires, net |-> net,
     image |-> "image" \in keys, build |-> "build" \in keys,
     dockerfile |-> "dockerfile" \in keys, environment |-> "environment" \in keys,
     env_file |-> "env_file" \in keys, volumes |-> "volumes" \in keys,
     ports |-> "ports" \in keys]

Bodies ==
    {{"image", "volumes", "environment"}, {"build", "dockerfile", "ports"},
     {"env_file", "volumes", "ports"}}
Targets == {None} \cup {main, other} \X {a, b}

\* every way in which services of two files extend each other
Extending ==
    {(<<main, a>> :> Says(ea, {}, {}, {"volumes", "ports"}))
     @@ (<<main, b>> :> Says(eb, {}, {}, {"image", "volumes"}))
     @@ (<<other, a>> :> Says(oa, {}, {}, {"env_file", "ports"}))
     @@ (<<other, b>> :> Says(ob, r, {}, {"build", "volumes"})) :
        ea \in Targets, oa \in Targets, ob \in Targets,
        eb \in {None, <<main, a>>, <<other, c>>}, r \in {{}, {a}}}

\* what services that extend each other, and an override file, may say
Merging ==
    {(<<main, a>> :> Says(ea, {}, {}, ka))
     @@ (<<other, a>> :> Says(<<other, b>>, {}, {}, koa))
     @@ (<<other, b>> :> Says(None, {}, net, kob))
     @@ extra :
        ea \in {<<other, a>>, <<other, b>>, <<over, a>>}, ka \in Bodies, koa \in Bodies,
        kob \in Bodies, net \in {{}, {b}, {OtherMode}},
        extra \in {<<>>} \cup {<<over, a>> :> Says(None, {b}, {}, k) : k \in Bodies}
                         \cup {<<over, a>> :> Says(<<other, b>>, {}, {}, {"ports"})}}

\* three services that require each other in every possible way, one of them
\* with a net
Requiring ==
    {[n \in {main} \X {a, b, c} |->
        Says(None, r[n[2]], IF n[2] = a THEN net ELSE {}, {"image"})] :
     r \in [{a, b, c} -> SUBSET {a, b, c}], net \in {{}, {b}, {c}, {OtherMode}}}

\* a service that only the override file has, and what extends it
Overriding ==
    {(<<main, a>> :> Says(ea, {}, {}, {"image", "ports"}))
     @@ (<<main, b>> :> Nothing)
     @@ (<<over, b>> :> Says(eb, {}, {}, kb))
     @@ (<<other, b>> :> Says(None, {}, {}, {"image", "volumes", "ports"})) :
        ea \in {None, <<main, b>>, <<over, b>>}, kb \in Bodies \cup {{"ports"}},
        eb \in {None, <<main, a>>, <<main, b>>, <<over, b>>, <<other, b>>}}

Single == {<<main, a>> :> Says(None, {}, {}, {"image"} \cup k) : k \in {{}, {"volumes"}}}

MCConfigurations == Extending \cup Merging \cup Overriding \cup Requiring \cup Single
=============================================================================
