---------------------------- MODULE MCBootMenu ------------------------------
(* A small network: two images, one machine, one client group and three    *)
(* image groups.                                                           *)
EXTENDS BootMenu, TLC

Row(e, s, S, g, f) == [enabled |-> e, showPublic |-> s, static |-> FALSE,
                       allowed |-> S, group |-> g, next |-> f]

Group1 == CHOOSE g \in ClientGroups : TRUE

MCClients == [Macs -> {Row(TRUE, TRUE, {}, None, None), Row(TRUE, FALSE, {1}, Group1, 2),
                       Row(TRUE, FALSE, {1}, Group1, None)}]

MCClientGroups == [ClientGroups -> {[enabled |-> TRUE, allowed |-> S, deleted |-> FALSE] :
                                        S \in {{}, {2}}}]

MCImages == {[f \in Images |-> [enabled |-> TRUE, public |-> f = 1, group |-> g[f]]] :
                g \in {<<0, 3>>, <<1, 3>>}}

\* A chain, a group with two subgroups, and three groups side by side.
MCImageGroups == {[g \in GroupIds |-> [parent |-> p[g], enabled |-> TRUE]] :
                    p \in {<<0, 1, 2>>, <<0, 1, 1>>, <<0, 0, 0>>}}

\* A file names a machine with everything on, and one with everything off that
\* is to boot the second image next.
MCImportRows == {Row(TRUE, TRUE, {2}, None, None),
                 [Row(FALSE, FALSE, {1}, Group1, 2) EXCEPT !.static = TRUE]}

\* Two operations on one set of tables, one operation on all the others.
Chain == igroup[3].parent = 2

Focus == /\ tools = (theme.default = "first") /\ theme.timed
         /\ \/ /\ ops = MaxOps - 1
               /\ Chain \/ image[1].group = 1
               /\ \A m \in Macs : client[m].group = None \/ client[m].next # None
               /\ \A g \in ClientGroups : cgroup[g].allowed # {}
            \/ /\ ops = MaxOps - 2 /\ Chain /\ image[1].group = 0 /\ tools
               /\ \A m \in Macs : client[m].group # None /\ client[m].next = None
               /\ \A g \in ClientGroups : cgroup[g].allowed = {}

\* The requests are alike.
Symmetry == Permutations(Requests)

MCInit == Init /\ Focus

MCSpec == MCInit /\ [][Next]_vars
=============================================================================
