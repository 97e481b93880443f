-------------------------- MODULE MCMountIsolation --------------------------
(***************************************************************************)
(* Requests of up to three bindings over a small root view.  The mount     *)
(* points contain each other, share a parent, lie directly under the root  *)
(* or in /dev; the host paths contain each other or the root view.         *)
(***************************************************************************)
EXTENDS MountIsolation

MCNames == {"r", "h1", "h2", "h3", "s", "dev", "w", "v", "in", "x", "y", "z", "n", "new",
            "null"}

MCRootPaths == {<<"r">>, <<>>}

MCHostInode == [p \in {<<"h1">>, <<"h2">>, <<"h3">>, <<"h1", "s">>,
                       <<"r", "s">>} |->
                  CASE p = <<"h1">>      -> 11
                    [] p = <<"h2">>      -> 12
                    [] p = <<"h3">>      -> 13
                    [] p = <<"h1", "s">> -> 14
                    [] p = <<"r", "s">>  -> 3]

\* A root view with a destination, a nested one, an input parent and /dev; one
\* whose input parent is not empty; one without /dev.
Numbered(S) == [p \in S |->
                  CASE p = <<>>         -> 1
                    [] p = <<"dev">>    -> 2
                    [] p = <<"s">>      -> 3
                    [] p = <<"w">>      -> 4
                    [] p = <<"w", "v">> -> 5
                    [] p = <<"in">>     -> 6
                    [] OTHER            -> 7]
Base == {<<>>, <<"s">>, <<"w">>, <<"w", "v">>, <<"in">>}
MCTrees == {Numbered(Base \cup {Dev}),
            Numbered(Base \cup {Dev, <<"in", "x">>}),
            Numbered(Base)}

Points == {<<>>, <<"w">>, <<"w", "v">>, <<"in">>, <<"in", "x">>, <<"in", "y">>,
           <<"in", "new">>, <<"in", "new", "z">>, <<"x">>, <<"dev", "n">>}
Kinds == {<<"build_input_tree", "read_only">>, <<"build_workspace", "writable">>,
          <<"source_tree", "writable">>}

Bind(kind, point, h) == [role |-> kind[1], access |-> kind[2], at |-> point,
                         host |-> h]

Pairs ==
    LET B == {Bind(k, p, h) : k \in Kinds, p \in Points,
                              h \in {<<"h1">>, <<"h1", "s">>, <<"r", "s">>}}
    IN {<<>>} \cup {<<b>> : b \in B} \cup
       {<<a, b>> : a \in B,
                   b \in {Bind(k, p, <<"h2">>) :
                            k \in Kinds \ {<<"source_tree", "writable">>},
                            p \in Points}} \cup
       {<<a, b>> : a \in {Bind(<<"build_workspace", "writable">>, <<"w">>,
                               <<"h1", "s">>)}, b \in B}

Triples ==
    LET B(h) == {Bind(k, p, h) :
                   k \in Kinds \ {<<"source_tree", "writable">>},
                   p \in Points \ {<<>>, <<"x">>, <<"dev", "n">>, <<"in">>,
                                 <<"in", "new", "z">>}}
    IN {<<a, b, c>> : a \in B(<<"h1">>), b \in B(<<"h2">>), c \in B(<<"h3">>)}

MCRequests == Pairs \cup Triples

AllMountFaults == {"admission", "mount_namespace", "private_propagation",
                   "scratch_mount", "root_tree", "device_filesystem",
                   "input_namespace", "resource_tree", "root_entry"}
=============================================================================
