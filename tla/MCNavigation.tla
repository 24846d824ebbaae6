--------------------------- MODULE MCNavigation ---------------------------
EXTENDS Navigation

Object(kind, n, name) == [kind |-> kind, ns |-> n, name |-> <<name>>]

\* Two pods in one namespace and one in another: pages of lists of one and of all.
MCObjects ==
  << Object("pods", <<"a">>, "p1"), Object("pods", <<"a">>, "p2"), Object("pods", <<"b">>, "p3"),
     Object("deployments", <<"a">>, "d"), Object("replicasets", <<"b">>, "r"),
     Object("services", <<"b">>, "s"), Object("secrets", <<"a">>, "x"), Object("nodes", NoName, "n"),
     Object("namespaces", NoName, "a"), Object("persistentvolumeclaims", <<"a">>, "c"),
     Object("persistentvolumes", NoName, "v") >>

Plainly == [containers |-> {}, node |-> {}, cordoned |-> FALSE]

\* A pod not yet scheduled and one of two containers; a node either way.
MCShapes ==
  [k \in DOMAIN Aliases |->
     CASE k = "pods" -> {[Plainly EXCEPT !.containers = {"c1"}],
                         [Plainly EXCEPT !.containers = {"c1", "c2"}, !.node = {<<"n">>}]}
       [] k = "nodes" -> {Plainly, [Plainly EXCEPT !.cordoned = TRUE]}
       [] OTHER -> {Plainly}]

MCNamespaces == << <<"a">>, <<"b">> >>

\* The second as the AWS tool names them.
MCContexts == {<<"dev">>, <<"arn", "aws", "eks", "dev">>}
=============================================================================
