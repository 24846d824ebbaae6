--------------------------- MODULE MCClusterClient ---------------------------
(* Two good contexts and a broken one, an ordinary and an impersonated user.  *)
(* Operations: a drain or scale and its re-read, and an exec.                 *)
EXTENDS ClusterClient

MCOperations == {<<"clientset", "clientset", Resolve, "dynamicClient">>,
                 <<"clientset", "restConfig">>}
=============================================================================
