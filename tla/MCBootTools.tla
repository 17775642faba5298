---------------------------- MODULE MCBootTools -----------------------------
(* Instances of BootTools for TLC.                                         *)
EXTENDS BootTools, TLC

CONSTANTS u1, u2, k1, k2, k3

\* Two releases of a tool: an archive with kernel and initrd, and a binary
\* with a kernel of its own for BIOS machines.
MCHolds == u1 :> {k1, k2} @@ u2 :> {k2}

MCDefs == {[url |-> u1, kernel |-> k1, initrd |-> k2, bios |-> None, bin |-> FALSE],
           [url |-> u2, kernel |-> k2, initrd |-> None, bios |-> k3, bin |-> TRUE]}
=============================================================================
