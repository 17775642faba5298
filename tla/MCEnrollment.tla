---------------------------- MODULE MCEnrollment ----------------------------
(* Instances of Enrollment for TLC.                                        *)
EXTENDS Enrollment, TLC

AllOps == {"CreateClient", "DeleteClient", "SetNextBootImage", "AssignNode",
           "ReinstallNode", "UnassignNode", "MarkNodeInstalled",
           "CreateCluster", "UpdateCluster", "ClusterConfig", "DeleteCluster",
           "CreateNodeImage", "DownloadNodeImage", "DeleteNodeImage",
           "InventoryReport", "IPXEMenu", "MachineConfig"}

NodeOps == {"CreateClient", "DeleteClient", "AssignNode", "ReinstallNode",
            "UnassignNode", "MarkNodeInstalled", "DeleteCluster", "IPXEMenu",
            "MachineConfig"}

RaceOps == NodeOps \ {"DeleteClient"}

BlankForms == {BlankForm}

\* Bodies that preset nothing, or a state, a cluster and a role (the token is never
\* read from a body).
AnyForms == {BlankForm} \cup [state: {"approved"}, cluster: ClusterIds,
                              role: {"worker"}, next: {None}]

\* A deployment that is already set up: every node image is downloaded and
\* every cluster uses one of them and has the join configs of all roles, or none
\* for control planes.
ReadyInit ==
    /\ client = [m \in Clients |-> NoClient]
    /\ nodeImage = [i \in NodeImageIds |-> [row |-> "live", downloaded |-> TRUE]]
    /\ \E i \in NodeImageIds :
          cluster \in [ClusterIds -> [row: {"live"}, image: {i},
                                      configs: {Roles, Roles \ {"controlplane"}}]]
    /\ inventory = [m \in Clients |-> None]
    /\ rowIds = {}
    /\ issued = [t \in Tokens |-> NoIssue]
    /\ now = 1
    /\ req = [r \in Requests |-> Idle]

ReadySpec == ReadyInit /\ [][Next]_vars

Symmetry == Permutations(Clients) \cup Permutations(Tokens) \cup Permutations(RowIds)
            \cup Permutations(Requests) \cup Permutations(ClusterIds)
=============================================================================
