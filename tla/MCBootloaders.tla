---------------------------- MODULE MCBootloaders ----------------------------
\* One custom set whose manifest names a loader of its own, two admin
\* requests or commands at a time.
EXTENDS Bootloaders, TLC

MCBootfiles == [m \in Manifests |->
                  [bios |-> "", uefi |-> "custom.efi", arm64 |-> ""]]
MCConfigured == DefaultBootfile
MCSymmetry == Permutations(Worker)

\* At first the custom set is not there, or complete, or it has the manifest and
\* not what that names; the operations make the others.
Prepared == {NoDir} \cup {d \in [FileName -> {"none", "whole"} \cup Manifests] :
               /\ d["manifest.json"] \in Manifests
               /\ d["custom.efi"] = d["bootimus.efi"]}
MCInit == Init /\ \A c \in Custom : disk[c] \in Prepared
MCSpec == MCInit /\ [][Next]_vars
==============================================================================
