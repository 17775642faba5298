---------------------------- MODULE ClientAccess ----------------------------
(***************************************************************************)
(* Which images a machine may boot: the clients table, the client groups,  *)
(* the handlers that change them, and GetImagesForClient, which the boot   *)
(* menu asks.  This module has no Next of its own: BootMenu composes its   *)
(* actions with the menu that is built from the answer.                    *)
(*                                                                         *)
(* The unit of atomicity is the SQL statement: a request reads a client,   *)
(* changes its copy and saves it in a later step, and GetImagesForClient   *)
(* reads the client, its group and the images one after the other.  Every  *)
(* statement of a menu request may fail; the code goes on with less, or,   *)
(* in two places, with more than the machine was granted.                  *)
(***************************************************************************)
EXTENDS Naturals, FiniteSets

CONSTANTS
    Images,         \* image filenames, numbered in the order of their names
    Macs,           \* MAC addresses of machines that boot
    ClientGroups,   \* names of client groups; a name keeps its row's id
    Requests,       \* request goroutines that can be in flight together
    None,           \* no row
    GroupIds,       \* primary keys of image groups, in menu order
    MaxOps,         \* bound on administrative operations and failing statements
    ImportRows,     \* the rows of client files that are imported
    InitClients,    \* the clients tables the server may start from
    InitClientGroups, InitImages    \* and the other two tables

ASSUME AccessAssumption ==
    /\ MaxOps \in Nat
    /\ None \notin Macs /\ None \notin ClientGroups /\ None \notin Images

VARIABLES
    client,     \* the clients table
    cgroup,     \* the client_groups table; soft-deleted rows stay in it
    image,      \* the images table: what the menu needs of it
    req,        \* what each request does next
    ops,        \* operations that were begun and statements that failed
    past        \* history: what was true at some moment of a menu request

access == <<client, cgroup, image, req, ops, past>>

ClientRow == [enabled: BOOLEAN, showPublic: BOOLEAN, static: BOOLEAN,
              allowed: SUBSET Images, group: ClientGroups \cup {None},
              next: Images \cup {None}]

ClientGroupRow == [enabled: BOOLEAN, allowed: SUBSET Images, deleted: BOOLEAN]

\* 0 is "no group": group_id is NULL.
ImageRow == [enabled: BOOLEAN, public: BOOLEAN, group: GroupIds \cup {0}]

ASSUME NoneIsNoRow ==
    None \notin ClientRow /\ None \notin ClientGroupRow /\ None \notin ImageRow

ASSUME ImportAssumption == ImportRows \subseteq ClientRow

ASSUME InitAssumption ==
    /\ InitClients \subseteq [Macs -> ClientRow \cup {None}]
    /\ InitClientGroups \subseteq [ClientGroups -> ClientGroupRow \cup {None}]
    /\ InitImages \subseteq [Images -> ImageRow \cup {None}]

\* The images a menu request has collected, with their groups.
Shown == UNION {[S -> GroupIds \cup {0}] : S \in SUBSET Images}

Request ==
    [pc: {"idle", "save", "import", "create", "revive", "insert", "clear", "delete",
          "next", "boot", "forget", "client", "group", "assigned", "public", "all",
          "groups", "parents"},
     m: Macs \cup {None}, g: ClientGroups \cup {None},
     row: ClientRow \cup {None}, grow: ClientGroupRow \cup {None},
     allowed: SUBSET Images, members: SUBSET Macs,
     next: Images \cup {None}, imgs: Shown, lost: BOOLEAN]

NoImages == [f \in {} |-> 0]

Idle == [pc |-> "idle", m |-> None, g |-> None, row |-> None, grow |-> None,
         allowed |-> {}, members |-> {}, next |-> None, imgs |-> NoImages,
         lost |-> FALSE]

\* members: groups the client was in, named: granted by name, open: entitled
\* to the public images, enabled and public: images that were.
Past == [members: SUBSET ClientGroups, named: SUBSET Images, open: BOOLEAN,
         enabled: SUBSET Images, public: SUBSET Images]

Nothing == [members |-> {}, named |-> {}, open |-> FALSE, enabled |-> {},
            public |-> {}]

AccessTypeOK ==
    /\ client \in [Macs -> ClientRow \cup {None}]
    /\ cgroup \in [ClientGroups -> ClientGroupRow \cup {None}]
    /\ image \in [Images -> ImageRow \cup {None}]
    /\ req \in [Requests -> Request]
    /\ ops \in 0..MaxOps
    /\ past \in [Requests -> Past]

AccessInit ==
    /\ client \in InitClients
    /\ cgroup \in InitClientGroups
    /\ image \in InitImages
    /\ req = [r \in Requests |-> Idle]
    /\ ops \in 0..MaxOps
    /\ past = [r \in Requests |-> Nothing]

Live(g) == cgroup[g] # None /\ ~cgroup[g].deleted
Listed == {g \in ClientGroups : Live(g)}
Enabled(f) == image[f] # None /\ image[f].enabled
Public == {f \in Images : Enabled(f) /\ image[f].public}

\* Groups a request may name: the ones the interface has ever listed.
Nameable == {g \in ClientGroups : cgroup[g] # None} \cup {None}

Begin(r) == req[r].pc = "idle" /\ ops < MaxOps /\ ops' = ops + 1
At(r, pc) == req[r].pc = pc /\ UNCHANGED ops
Fails(r, pc) == req[r].pc = pc /\ ops < MaxOps /\ ops' = ops + 1
Becomes(r, q) == req' = [req EXCEPT ![r] = q]
Done(r) == Becomes(r, Idle)
Next1(r, pc) == Becomes(r, [req[r] EXCEPT !.pc = pc])

-----------------------------------------------------------------------------
(* Clients. *)

\* Storage.UpdateClient writes the selected columns only: not the assigned
\* images and not the next boot image.
SelectedColumns(old, new) ==
    [old EXCEPT !.enabled = new.enabled, !.showPublic = new.showPublic,
                !.static = new.static, !.group = new.group]

UpdateClientRow(m, new) ==
    client' = IF client[m] = None THEN client
              ELSE [client EXCEPT ![m] = SelectedColumns(client[m], new)]

\* Variant: the row is inserted without its flags.
CreateBareRow(m, new) ==
    client' = [client EXCEPT ![m] = [allowed |-> new.allowed, group |-> new.group]]

\* Columns declared default:true are true in a new row whatever was given.
CreateClientRow(m, new) ==
    client' = [client EXCEPT ![m] = [new EXCEPT !.enabled = TRUE, !.showPublic = TRUE]]

\* GetClient, and the changes applied to the copy.
UpdateClient(r) ==
    /\ Begin(r)
    /\ \E m \in Macs, e, s \in BOOLEAN, g \in Nameable :
        /\ client[m] # None
        /\ Becomes(r, [Idle EXCEPT !.pc = "save", !.m = m,
                !.row = [client[m] EXCEPT !.enabled = e, !.showPublic = s, !.group = g]])
    /\ UNCHANGED <<client, cgroup, image>>

PromoteClient(r) ==
    /\ Begin(r)
    /\ \E m \in Macs :
        /\ client[m] # None
        /\ Becomes(r, [Idle EXCEPT !.pc = "save", !.m = m,
                                   !.row = [client[m] EXCEPT !.static = TRUE]])
    /\ UNCHANGED <<client, cgroup, image>>

SaveClient(r) ==
    /\ At(r, "save")
    /\ UpdateClientRow(req[r].m, req[r].row)
    /\ Done(r)
    /\ UNCHANGED <<cgroup, image>>

DeleteClient(r) ==
    /\ Begin(r)
    /\ \E m \in Macs : client' = [client EXCEPT ![m] = None]
    /\ UNCHANGED <<cgroup, image, req>>

\* AssignImagesToClient updates one column of the row it has found.
AssignImages(r) ==
    /\ Begin(r)
    /\ \E m \in Macs, S \in SUBSET Images :
        /\ client[m] # None
        /\ client' = [client EXCEPT ![m].allowed = S]
    /\ UNCHANGED <<cgroup, image, req>>

WriteNext(m, f) ==
    client' = IF client[m] = None THEN client ELSE [client EXCEPT ![m].next = f]

SetNextBootImage(r) ==
    /\ Begin(r)
    /\ \E m \in Macs, f \in Images \cup {None} : WriteNext(m, f)
    /\ UNCHANGED <<cgroup, image, req>>

\* One row of an import: the group is looked up in the list taken before the
\* first row was read.
ImportClientsCSV(r) ==
    /\ Begin(r)
    /\ \E m \in Macs, row \in ImportRows :
        /\ row.group \in Listed \cup {None}
        /\ Becomes(r, [Idle EXCEPT !.pc = "import", !.m = m, !.row = row])
    /\ UNCHANGED <<client, cgroup, image>>

\* GetClient decides between an update and an insertion.
ImportLookup(r) ==
    /\ At(r, "import")
    /\ Next1(r, IF client[req[r].m] = None THEN "create" ELSE "save")
    /\ UNCHANGED <<client, cgroup, image>>

\* The MAC address is unique: the insertion fails if a row has appeared.
ImportCreate(r) ==
    /\ At(r, "create")
    /\ IF client[req[r].m] = None THEN CreateClientRow(req[r].m, req[r].row)
       ELSE UNCHANGED client
    /\ Done(r)
    /\ UNCHANGED <<cgroup, image>>

-----------------------------------------------------------------------------
(* Client groups. *)

\* A soft-deleted row of the name is revived with the request's columns,
\* otherwise a row is inserted, unless the name is taken.
CreateClientGroup(r) ==
    /\ Begin(r)
    /\ \E g \in ClientGroups, e \in BOOLEAN, S \in SUBSET Images :
        Becomes(r, [Idle EXCEPT !.g = g,
            !.pc = IF cgroup[g] # None /\ cgroup[g].deleted THEN "revive" ELSE "insert",
            !.grow = [enabled |-> e, allowed |-> S, deleted |-> FALSE]])
    /\ UNCHANGED <<client, cgroup, image>>

ReviveClientGroup(r) ==
    /\ At(r, "revive")
    /\ cgroup' = [cgroup EXCEPT ![req[r].g] = req[r].grow]
    /\ Done(r)
    /\ UNCHANGED <<client, image>>

InsertClientGroup(r) ==
    /\ At(r, "insert")
    /\ cgroup' = IF cgroup[req[r].g] # None THEN cgroup
                 ELSE [cgroup EXCEPT ![req[r].g] = [req[r].grow EXCEPT !.enabled = TRUE]]
    /\ Done(r)
    /\ UNCHANGED <<client, image>>

UpdateClientGroup(r) ==
    /\ Begin(r)
    /\ \E g \in Listed, e \in BOOLEAN, S \in SUBSET Images :
        cgroup' = [cgroup EXCEPT ![g].enabled = e, ![g].allowed = S]
    /\ UNCHANGED <<client, image, req>>

\* GetClientGroup, the members are cleared, then the row is soft-deleted.
DeleteClientGroup(r) ==
    /\ Begin(r)
    /\ \E g \in Listed : Becomes(r, [Idle EXCEPT !.pc = "clear", !.g = g])
    /\ UNCHANGED <<client, cgroup, image>>

ClearMembers(r) ==
    /\ At(r, "clear")
    /\ client' = [m \in Macs |->
            IF client[m] # None /\ client[m].group = req[r].g
            THEN [client[m] EXCEPT !.group = None] ELSE client[m]]
    /\ Next1(r, "delete")
    /\ UNCHANGED <<cgroup, image>>

SoftDeleteGroup(r) ==
    /\ At(r, "delete")
    /\ cgroup' = [cgroup EXCEPT ![req[r].g].deleted = TRUE]
    /\ Done(r)
    /\ UNCHANGED <<client, image>>

\* The group is not looked up.
SetClientGroupMembership(r) ==
    /\ Begin(r)
    /\ \E m \in Macs, g \in Nameable :
        /\ client[m] # None
        /\ client' = [client EXCEPT ![m].group = g]
    /\ UNCHANGED <<cgroup, image, req>>

\* The group and its enabled members are read, then written one by one.
SetNextBootForClientGroup(r) ==
    /\ Begin(r)
    /\ \E g \in Listed, f \in Images \cup {None} :
        Becomes(r, [Idle EXCEPT !.pc = "next", !.next = f,
            !.members = {m \in Macs : client[m] # None /\ client[m].group = g
                                      /\ client[m].enabled}])
    /\ UNCHANGED <<client, cgroup, image>>

SetNextBootOfMember(r) ==
    /\ At(r, "next")
    /\ IF req[r].members = {} THEN Done(r) /\ UNCHANGED client
       ELSE \E m \in req[r].members :
            /\ WriteNext(m, req[r].next)
            /\ Becomes(r, [req[r] EXCEPT !.members = @ \ {m}])
    /\ UNCHANGED <<cgroup, image>>

-----------------------------------------------------------------------------
(* GetImagesForClient, one step per query. *)

ActiveRow(row) == row # None /\ row.enabled

\* A list that is complete; what was read to make it is forgotten.
Collected(q, imgs) ==
    [q EXCEPT !.pc = "groups", !.row = None, !.g = None, !.allowed = {}, !.imgs = imgs]

\* The query for the machine's own images is made if some are named, the one
\* for public images if the client is to see them.
AskImages(q) ==
    IF q.allowed # {} THEN [q EXCEPT !.pc = "assigned"]
    ELSE IF q.row.showPublic THEN [q EXCEPT !.pc = "public"] ELSE Collected(q, NoImages)

\* The client's row.  A failure is taken for a machine that is not registered.
ImagesOfClient(r) ==
    /\ \/ /\ At(r, "client")
          /\ LET row == client[req[r].m] IN
             IF ~ActiveRow(row) THEN Next1(r, "all")
             ELSE LET q == [req[r] EXCEPT !.row = row, !.g = row.group, !.allowed = row.allowed]
                  IN Becomes(r, IF row.group = None THEN AskImages(q)
                                ELSE [q EXCEPT !.pc = "group"])
       \/ /\ Fails(r, "client")
          /\ Becomes(r, [req[r] EXCEPT !.pc = "all", !.lost = TRUE])
    /\ UNCHANGED <<client, cgroup, image>>

\* Variant: a disabled or deleted group still grants.
ImagesOfAnyGroup(r) ==
    /\ At(r, "group")
    /\ Becomes(r, AskImages([req[r] EXCEPT
            !.allowed = @ \cup (IF cgroup[req[r].g] # None THEN cgroup[req[r].g].allowed ELSE {})]))
    /\ UNCHANGED <<client, cgroup, image>>

\* The row of its group, if it is enabled.
GroupImages(g) == IF Live(g) /\ cgroup[g].enabled THEN cgroup[g].allowed ELSE {}

ImagesOfGroup(r) ==
    /\ \/ /\ At(r, "group")
          /\ Becomes(r, AskImages([req[r] EXCEPT !.allowed = @ \cup GroupImages(req[r].g)]))
       \/ Fails(r, "group") /\ Becomes(r, AskImages(req[r]))
    /\ UNCHANGED <<client, cgroup, image>>

\* What a query for images returns, and the list so far with it.
Rows(S) == [f \in S |-> image[f].group]
With(imgs, more) ==
    [f \in DOMAIN imgs \cup DOMAIN more |-> IF f \in DOMAIN imgs THEN imgs[f] ELSE more[f]]

\* The images named for the machine.  A failure finds none.
AssignedFound(q, found) ==
    IF q.row.showPublic THEN [q EXCEPT !.pc = "public", !.imgs = found] ELSE Collected(q, found)

ImagesAssigned(r) ==
    /\ \/ /\ At(r, "assigned")
          /\ Becomes(r, AssignedFound(req[r], Rows({f \in req[r].allowed : Enabled(f)})))
       \/ Fails(r, "assigned") /\ Becomes(r, AssignedFound(req[r], NoImages))
    /\ UNCHANGED <<client, cgroup, image>>

\* The public images are added; a list that is still empty is asked for again.
PublicFound(q, imgs) ==
    IF imgs = NoImages THEN [q EXCEPT !.pc = "all"] ELSE Collected(q, imgs)

ImagesPublic(r) ==
    /\ \/ At(r, "public") /\ Becomes(r, PublicFound(req[r], With(req[r].imgs, Rows(Public))))
       \/ Fails(r, "public") /\ Becomes(r, PublicFound(req[r], req[r].imgs))
    /\ UNCHANGED <<client, cgroup, image>>

\* The public images, for a machine that is not registered or has none of its
\* own.  Only this failure is reported, and the menu then lists every file on
\* disk, without a group and numbered anew: the id of the next boot image is
\* that of another file, or of none.
ImagesForAnyone(r) ==
    /\ \/ /\ At(r, "all")
          /\ Becomes(r, Collected(req[r], Rows(Public)))
       \/ /\ Fails(r, "all")
          /\ \E files \in SUBSET Images,
                f \in IF req[r].next = None THEN {None} ELSE Images :
                Becomes(r, [Collected(req[r], [i \in files |-> 0])
                                EXCEPT !.next = f, !.lost = TRUE])
    /\ UNCHANGED <<client, cgroup, image>>

AccessNext(r) ==
    \/ UpdateClient(r) \/ PromoteClient(r) \/ SaveClient(r) \/ DeleteClient(r)
    \/ AssignImages(r) \/ SetNextBootImage(r)
    \/ ImportClientsCSV(r) \/ ImportLookup(r) \/ ImportCreate(r)
    \/ CreateClientGroup(r) \/ ReviveClientGroup(r) \/ InsertClientGroup(r)
    \/ UpdateClientGroup(r) \/ DeleteClientGroup(r) \/ ClearMembers(r) \/ SoftDeleteGroup(r)
    \/ SetClientGroupMembership(r) \/ SetNextBootForClientGroup(r) \/ SetNextBootOfMember(r)
    \/ ImagesOfClient(r) \/ ImagesOfGroup(r)
    \/ ImagesAssigned(r) \/ ImagesPublic(r) \/ ImagesForAnyone(r)

-----------------------------------------------------------------------------
(* History of a menu request: every state between its start and its end    *)
(* is recorded.                                                            *)

\* What is true of the machine at this moment.
Moment(m) ==
    LET row == client[m] IN
    [members |-> IF ActiveRow(row) /\ row.group # None THEN {row.group} ELSE {},
     own |-> IF ActiveRow(row) THEN row.allowed ELSE {},
     lists |-> [g \in ClientGroups |-> GroupImages(g)],
     open |-> ~ActiveRow(row) \/ row.showPublic,
     enabled |-> {f \in Images : Enabled(f)},
     public |-> Public]

\* A group grants what it lists while the client is in it, or afterwards: the
\* request may have read the client before it left.
Joined(p, now) ==
    LET members == p.members \cup now.members IN
    [members |-> members,
     named |-> p.named \cup now.own \cup UNION {now.lists[g] : g \in members},
     open |-> p.open \/ now.open,
     enabled |-> p.enabled \cup now.enabled, public |-> p.public \cup now.public]

InMenuRequest(q) ==
    q.pc \in {"boot", "forget", "client", "group", "assigned", "public", "all",
              "groups", "parents"}

\* The images of its menu are known.
HasImages(q) == q.pc \in {"groups", "parents"}

Remember ==
    past' = [r \in Requests |->
        IF InMenuRequest(req'[r]) THEN Joined(past[r], Moment(req[r].m)') ELSE Nothing]

\* The images collected for a menu were granted: each was enabled while the
\* request ran, and at a moment of the request it was on the enabled client's
\* own list, or on that of a live, enabled group the client was in at that
\* moment or before it, or the client was entitled to public images and it was
\* one.  A disabled client is entitled to those, as an unknown machine is, which
\* docs/en/clients.md denies in its list of settings ("cannot boot") and states in
\* its table of what clients see.  GetImagesForClient reads in several statements; a grant withdrawn
\* before the request began, and a group left before it, give nothing.  A
\* failing statement only takes images away, but for the two that mark the
\* request as lost: the first, for the client, and the last, whose failure
\* makes handleIPXEMenu list the files on disk, private ones too.
ServedWasGranted ==
    \A r \in Requests : HasImages(req[r]) /\ ~req[r].lost =>
        \A f \in DOMAIN req[r].imgs :
            /\ f \in past[r].enabled
            /\ \/ f \in past[r].named
               \/ past[r].open /\ f \in past[r].public
=============================================================================
