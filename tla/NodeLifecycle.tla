--------------------------- MODULE NodeLifecycle ---------------------------
(***************************************************************************)
(* What enrollment promises the administrator, without requests, tables or *)
(* statements: every node has a phase, a home cluster and at most one key, *)
(* and each operation on it happens at once.                               *)
(***************************************************************************)
CONSTANTS Nodes, Clusters, Keys, None

VARIABLES phase, home, key, spent

nodeVars == <<phase, home, key, spent>>

Init ==
    /\ phase = [n \in Nodes |-> ""]
    /\ home = [n \in Nodes |-> None]
    /\ key = [n \in Nodes |-> None]
    /\ spent = {}

\* The administrator assigns a node, or orders a reinstall where it is.
Approve(n) ==
    \E c \in Clusters, k \in Keys \ spent :
        /\ phase' = [phase EXCEPT ![n] = "approved"]
        /\ home' = [home EXCEPT ![n] = c]
        /\ key' = [key EXCEPT ![n] = k]
        /\ spent' = spent \cup {k}

\* An approved node redeems its key; it may fetch its config again with it.
Begin(n) ==
    /\ phase[n] = "approved"
    /\ key[n] # None
    /\ phase' = [phase EXCEPT ![n] = "installing"]
    /\ UNCHANGED <<home, key, spent>>

\* An installing node boots again: it is installed, and its key is void.
Complete(n) ==
    /\ phase[n] = "installing"
    /\ phase' = [phase EXCEPT ![n] = "installed"]
    /\ key' = [key EXCEPT ![n] = None]
    /\ UNCHANGED <<home, spent>>

\* The administrator declares a node installed, whatever its phase.
Declare(n) ==
    /\ phase' = [phase EXCEPT ![n] = "installed"]
    /\ key' = [key EXCEPT ![n] = None]
    /\ UNCHANGED <<home, spent>>

\* Nodes leave: one that is released or deleted, or all nodes of a cluster.
Release(S) ==
    /\ phase' = [n \in Nodes |-> IF n \in S THEN "" ELSE phase[n]]
    /\ home' = [n \in Nodes |-> IF n \in S THEN None ELSE home[n]]
    /\ key' = [n \in Nodes |-> IF n \in S THEN None ELSE key[n]]
    /\ UNCHANGED spent

Next ==
    \/ \E n \in Nodes : \/ Approve(n)
                        \/ Begin(n)
                        \/ Complete(n)
                        \/ Declare(n)
                        \/ Release({n})
    \/ \E c \in Clusters : Release({n \in Nodes : home[n] = c})

Spec == Init /\ [][Next]_nodeVars
=============================================================================
