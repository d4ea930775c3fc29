---------------------------- MODULE MCDeployment ----------------------------
(***************************************************************************)
(* Instances of Deployment for TLC.                                        *)
(***************************************************************************)
EXTENDS DeploymentLifecycle, TLC

CONSTANTS r1, r2, r3, shop, blog, web, db

MCProjects == {shop, blog}
MCServices == {web, db}

\* two services in one project, a compose file without services in the other
MCServicesOf == (shop :> <<db, web>>) @@ (blog :> <<>>)
MCOneService == (shop :> <<web>>) @@ (blog :> <<web>>)

\* user-project-service without a dash in the parts: no two are the same
MCFullName == [ps \in MCProjects \X MCServices |-> ps]
MCNames == MCProjects \X MCServices

\* project shop with service db-web and project blog, named shop-db, with
\* service web: one and the same container name
MCDashServicesOf == (shop :> <<db>>) @@ (blog :> <<web>>)
MCDashFullName == [ps \in MCProjects \X MCServices |-> <<shop, db>>]

MCTwo == ({"filebrowser", "file", "destroy"} \X {shop}) \cup
         ({"url", "destroy"} \X {blog})
MCShop == (Operations \X {shop}) \cup {<<"filebrowser", blog>>}
MCUpload == {"filebrowser"} \X MCProjects
MCUrl == {"url", "destroy"} \X {shop}

MCSymmetry == Permutations(Requests)
=============================================================================
