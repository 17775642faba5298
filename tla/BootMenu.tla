------------------------------ MODULE BootMenu ------------------------------
(***************************************************************************)
(* The iPXE script of a machine: image groups, the menu theme, and the     *)
(* MenuBuilder that turns them and the machine's images into a script.     *)
(*                                                                         *)
(* A script is a graph: its labels, the items of each menu and the gotos   *)
(* between them.  Building one can fail: a group whose parent is missing   *)
(* is a nil dereference, which ends the request, and a cycle of groups an  *)
(* endless recursion, which ends the server.                               *)
(*                                                                         *)
(* ListImageGroups is two statements, the groups and then their parents,   *)
(* so that a group can be listed and its parent be gone.                   *)
(***************************************************************************)
EXTENDS ClientAccess, FiniteSetsExt

CONSTANT
    InitImageGroups \* the image group tables the server may start from

ASSUME MenuAssumption ==
    /\ Images \subseteq Nat /\ GroupIds \subseteq Nat \ {0}
    /\ IsFiniteSet(GroupIds)

VARIABLES
    igroup,     \* the image_groups table
    theme,      \* the theme: its default item, and whether menus time out
    tools,      \* some boot tool is enabled and downloaded
    listed,     \* the groups each menu request has listed
    answer      \* the answer to a menu request, for one state

vars == <<access, igroup, theme, tools, listed, answer>>

ImageGroupRow == [parent: GroupIds \cup {0}, enabled: BOOLEAN]

Tables == [GroupIds -> ImageGroupRow \cup {None}]

ASSUME GroupTablesAssumption == InitImageGroups \subseteq Tables /\ None \notin ImageGroupRow

NoGroups == [g \in GroupIds |-> None]

\* timed: MenuTimeout is not 0, which would be to wait for ever.
Themes == [default: {"local", "shell", "reboot", "first"}, timed: BOOLEAN]

\* What the builder assumes when it gets no theme.
NoTheme == [default |-> "first", timed |-> TRUE]

\* parents: the groups whose rows were found when the parents were asked for.
MenuBuilder == [imgs: Shown, groups: Tables, parents: SUBSET GroupIds,
                next: Images \cup {None}, local: BOOLEAN, theme: Themes, tools: BOOLEAN]

TypeOK ==
    /\ AccessTypeOK
    /\ igroup \in Tables
    /\ theme \in Themes
    /\ tools \in BOOLEAN
    /\ listed \in [Requests -> Tables]
    /\ answer \in [outcome: {"served", "panic", "overflow"}, mb: MenuBuilder] \cup {None}

Init ==
    /\ AccessInit
    /\ igroup \in InitImageGroups
    /\ theme \in {t \in Themes : t.default \in {"local", "first"}}
    /\ tools \in BOOLEAN
    /\ listed = [r \in Requests |-> NoGroups]
    /\ answer = None

-----------------------------------------------------------------------------
(* The MenuBuilder, mb. *)

GroupEnabled(mb, g) == mb.groups[g] # None /\ mb.groups[g].enabled
getRootGroups(mb) == {g \in GroupIds : GroupEnabled(mb, g) /\ mb.groups[g].parent = 0}
getChildGroups(mb, p) == {g \in GroupIds : GroupEnabled(mb, g) /\ mb.groups[g].parent = p}
getUngroupedImages(mb) == {f \in DOMAIN mb.imgs : mb.imgs[f] = 0}
getGroupImages(mb, g) == {f \in DOMAIN mb.imgs : mb.imgs[f] = g}

Depth == Cardinality(GroupIds)

\* Variant: only the images of the group itself are looked at.
groupHasOwnImages(mb, g) == IF getGroupImages(mb, g) # {} THEN "yes" ELSE "no"

\* The children are tried in menu order; the first that has images ends it.
FirstFound(found, children) ==
    LET hits == {c \in children : found[c] # "no"} IN
    IF hits = {} THEN "no" ELSE found[Min(hits)]

\* What the recursion finds n calls deep; at the end of its depth nothing.
FoundBelow(mb) ==
    LET has[n \in Nat] ==
            IF n = 0
            THEN [h \in GroupIds |-> IF getGroupImages(mb, h) # {} THEN "yes" ELSE "loop"]
            ELSE LET below == has[n - 1] IN
                 [h \in GroupIds |-> IF getGroupImages(mb, h) # {} THEN "yes"
                                     ELSE FirstFound(below, getChildGroups(mb, h))]
    IN has

\* "loop": the recursion has entered a group twice and never returns.
groupHasImages(mb, g) == FoundBelow(mb)[Depth][g]

Visible(mb, g) == GroupEnabled(mb, g) /\ groupHasImages(mb, g) = "yes"

Iso(f) == <<"iso", f>>
Group(g) == <<"group", g>>
Start == <<"start", 0>>
Word(w) == <<w, 0>>
Options == {Word("local"), Word("shell"), Word("reboot")}

hasEnabledImage(mb) == mb.next # None /\ mb.next \in DOMAIN mb.imgs

\* Variant: empty root groups are listed too.
buildFullMenu(mb) ==
    (IF mb.tools THEN {Word("tools")} ELSE {})
    \cup {Group(g) : g \in getRootGroups(mb)}
    \cup {Iso(f) : f \in getUngroupedImages(mb)} \cup Options

\* Items of the main menu and of a group's menu.
buildMainMenu(mb) ==
    (IF mb.tools THEN {Word("tools")} ELSE {})
    \cup {Group(g) : g \in {h \in getRootGroups(mb) : Visible(mb, h)}}
    \cup {Iso(f) : f \in getUngroupedImages(mb)} \cup Options

Back(mb, g) == IF mb.groups[g].parent = 0 THEN Start ELSE Group(mb.groups[g].parent)

GroupMenu(mb, g) ==
    {Group(c) : c \in {h \in getChildGroups(mb, g) : Visible(mb, h)}}
    \cup {Iso(f) : f \in getGroupImages(mb, g)} \cup {Back(mb, g)} \cup Options

\* A section that boots returns to the menu of its image; a failure goes to
\* "failed", which goes to the main menu.
buildImageBootSections(mb, f) ==
    {Word("failed"), IF mb.imgs[f] = 0 THEN Start ELSE Group(mb.imgs[f])}

buildFooter(mb, w) ==
    CASE w = "tools" -> {Word("tool"), Word("back")}
      [] w = "tool" -> {Word("failed")}
      [] w \in {"back", "failed"} -> {Start}
      [] OTHER -> {}

\* Build leaves the main menu out of a script that starts with the next boot
\* image.
Labels(mb) ==
    (IF hasEnabledImage(mb) THEN {} ELSE {Start})
    \cup {Group(g) : g \in {h \in GroupIds : Visible(mb, h)}}
    \cup {Iso(f) : f \in DOMAIN mb.imgs}
    \cup (IF mb.tools THEN {Word("tools"), Word("tool"), Word("back")} ELSE {})
    \cup Options \cup {Word("failed")}

Targets(mb, l) ==
    CASE l[1] = "start" -> buildMainMenu(mb)
      [] l[1] = "group" -> GroupMenu(mb, l[2])
      [] l[1] = "iso" -> buildImageBootSections(mb, l[2])
      [] OTHER -> buildFooter(mb, l[1])

\* The first of the items below the tools.
FirstToBoot(mb) ==
    LET groups == {g \in getRootGroups(mb) : Visible(mb, g)}
        images == getUngroupedImages(mb)
    IN IF groups # {} THEN Group(Min(groups))
       ELSE IF images # {} THEN Iso(Min(images)) ELSE Word("local")

FirstItem(mb) == IF mb.tools THEN Word("tools") ELSE FirstToBoot(mb)

\* Variant: the first item that is listed.
resolveFirstItem(mb) == IF mb.next # None THEN Iso(mb.next) ELSE FirstItem(mb)

\* A next boot image is the default whether or not it is an item of the menu.
resolveDefaultItem(mb) ==
    CASE mb.next # None -> Iso(mb.next)
      [] mb.next = None /\ mb.local -> Word("local")
      [] mb.next = None /\ ~mb.local /\ mb.theme.default # "first" -> Word(mb.theme.default)
      [] OTHER -> FirstToBoot(mb)

\* The first item of a group's menu.
FirstInGroup(mb, g) ==
    LET groups == {c \in getChildGroups(mb, g) : Visible(mb, c)}
        images == getGroupImages(mb, g)
    IN IF groups # {} THEN Group(Min(groups))
       ELSE IF images # {} THEN Iso(Min(images)) ELSE Back(mb, g)

\* A main menu with a next boot image times out whatever the theme says.
TimesOut(mb, l) ==
    CASE l = Start -> mb.theme.timed \/ mb.next # None
      [] l[1] = "group" -> mb.theme.timed
      [] OTHER -> FALSE

\* What "choose" selects when its timeout ends: the default if it is an item,
\* otherwise the first.  Without a timeout the menu stays; the tools menu
\* never has one.
Unattended(mb, l) ==
    IF ~TimesOut(mb, l) THEN l
    ELSE IF l # Start THEN FirstInGroup(mb, l[2])
    ELSE IF resolveDefaultItem(mb) \in buildMainMenu(mb) THEN resolveDefaultItem(mb)
    ELSE FirstItem(mb)

\* Variant: the name of the parent is asked of root groups too.
TroubleAtRoots(mb, g) ==
    IF GroupEnabled(mb, g) /\ groupHasImages(mb, g) = "yes" /\ mb.groups[g].parent = 0
    THEN "panic" ELSE "none"

\* What the loop of buildGroupMenus does to a group it comes to.
Trouble(mb, g) ==
    LET row == mb.groups[g] IN
    CASE ~GroupEnabled(mb, g) -> "none"
      [] groupHasImages(mb, g) = "loop" -> "overflow"
      [] groupHasImages(mb, g) = "no" -> "none"
      [] OTHER -> IF \E c \in getChildGroups(mb, g) : groupHasImages(mb, c) = "loop"
                  THEN "overflow"
                  ELSE IF row.parent # 0 /\ row.parent \notin mb.parents
                  THEN "panic" ELSE "none"

\* The first group in trouble decides.  A cycle is never below a root group,
\* so the main menu cannot loop.
buildGroupMenus(mb) ==
    LET bad == {g \in GroupIds : Trouble(mb, g) # "none"} IN
    IF bad = {} THEN "served" ELSE Trouble(mb, Min(bad))

-----------------------------------------------------------------------------
(* Image groups, images, the theme. *)

\* A new row is enabled whatever was given; image groups are deleted for
\* good, so there is never a deleted row to revive.
CreateImageGroup(r) ==
    /\ Begin(r)
    /\ \E g \in GroupIds, p \in GroupIds \cup {0} :
        /\ igroup[g] = None
        /\ igroup' = [igroup EXCEPT ![g] = [parent |-> p, enabled |-> TRUE]]
    /\ UNCHANGED <<client, cgroup, image, req, theme, tools>>

\* Save writes every column, and inserts the row if there is none: neither
\* the group nor its new parent is looked up.
UpdateImageGroup(r) ==
    /\ Begin(r)
    /\ \E g \in GroupIds, p \in GroupIds \cup {0}, e \in BOOLEAN :
        igroup' = [igroup EXCEPT ![g] = [parent |-> p, enabled |-> e]]
    /\ UNCHANGED <<client, cgroup, image, req, theme, tools>>

\* Subgroups and images keep referring to the id.
DeleteImageGroup(r) ==
    /\ Begin(r)
    /\ \E g \in GroupIds :
        /\ igroup[g] # None
        /\ igroup' = [igroup EXCEPT ![g] = None]
    /\ UNCHANGED <<client, cgroup, image, req, theme, tools>>

\* The flags and the group of an image, as its handlers change them.
UpdateImage(r) ==
    /\ Begin(r)
    /\ \E f \in Images, flag \in BOOLEAN, g \in GroupIds \cup {0} :
        /\ image[f] # None
        /\ \/ image' = [image EXCEPT ![f].enabled = flag]
           \/ image' = [image EXCEPT ![f].public = flag]
           \/ image' = [image EXCEPT ![f].group = g]
    /\ UNCHANGED <<client, cgroup, req, igroup, theme, tools>>

DeleteImage(r) ==
    /\ Begin(r)
    /\ \E f \in Images : image' = [image EXCEPT ![f] = None]
    /\ UNCHANGED <<client, cgroup, req, igroup, theme, tools>>

\* The folder of a scanned image names a group, created if it is new; an
\* image at the top level keeps the group it has.
resolveGroupPath(g, p) ==
    igroup' = IF igroup[g] # None THEN igroup
              ELSE [igroup EXCEPT ![g] = [parent |-> p, enabled |-> TRUE]]

SyncImages(r) ==
    /\ Begin(r)
    /\ \E f \in Images, g \in GroupIds \cup {0},
          p \in {q \in GroupIds : igroup[q] # None} \cup {0} :
        /\ p # g
        /\ IF g = 0 THEN UNCHANGED igroup ELSE resolveGroupPath(g, p)
        /\ image' = [image EXCEPT ![f] =
                IF @ = None THEN [enabled |-> TRUE, public |-> TRUE, group |-> g]
                ELSE IF g = 0 THEN @ ELSE [@ EXCEPT !.group = g]]
    /\ UNCHANGED <<client, cgroup, req, theme, tools>>

UpdateMenuTheme(r) ==
    /\ Begin(r)
    /\ \E t \in Themes : theme' = t
    /\ UNCHANGED <<client, cgroup, image, req, igroup, tools>>

\* The set of tools offered changes (see BootTools).
ToolsChange(r) ==
    /\ Begin(r)
    /\ tools' = ~tools
    /\ UNCHANGED <<client, cgroup, image, req, igroup, theme>>

-----------------------------------------------------------------------------
(* A machine asks for its menu. *)

\* GetClient: the next boot image is noted.  A failure is a machine nobody
\* knows.
handleIPXEMenu(r) ==
    /\ \E m \in Macs :
        \/ /\ At(r, "idle")
           /\ LET f == IF client[m] = None THEN None ELSE client[m].next IN
              Becomes(r, [Idle EXCEPT !.m = m, !.next = f,
                                      !.pc = IF f = None THEN "client" ELSE "boot"])
        \/ Fails(r, "idle") /\ Becomes(r, [Idle EXCEPT !.m = m, !.pc = "client"])
    /\ UNCHANGED <<client, cgroup, image, igroup, theme, tools>>

\* GetImage: it is dropped if it is not found or not enabled.
GetNextBootImage(r) ==
    /\ \/ At(r, "boot") /\ Next1(r, "forget") /\ Enabled(req[r].next)
       \/ /\ At(r, "boot")
          /\ ~Enabled(req[r].next)
          /\ Becomes(r, [req[r] EXCEPT !.pc = "forget", !.next = None])
       \/ /\ Fails(r, "boot")
          /\ Becomes(r, [req[r] EXCEPT !.pc = "forget", !.next = None])
    /\ UNCHANGED <<client, cgroup, image, igroup, theme, tools>>

\* The client's column is cleared in any case; a failure is not noticed.
ClearNextBootImage(r) ==
    /\ \/ At(r, "forget") /\ WriteNext(req[r].m, None)
       \/ Fails(r, "forget") /\ UNCHANGED client
    /\ Next1(r, "client")
    /\ UNCHANGED <<cgroup, image, igroup, theme, tools>>

\* The groups.
ListImageGroups(r) ==
    /\ \/ At(r, "groups") /\ listed' = [listed EXCEPT ![r] = igroup]
       \/ Fails(r, "groups") /\ UNCHANGED listed
    /\ Next1(r, "parents")
    /\ UNCHANGED <<client, cgroup, image, igroup, theme, tools>>

\* Their parents (Preload), then GetMenuTheme, GetClient, GetEnabledTools and
\* Build.  The last three read tables that have nothing to do with each other;
\* down is the one of these statements that fails.  Whether the machine is an
\* installed cluster node is left open (see Enrollment).  An overflow ends the
\* process and every request in it; the tables are as they were when it is back.
generateIPXEMenuWithGroups(r) ==
    /\ \E installed \in BOOLEAN, down \in {"none", "groups", "theme", "tools"} :
        /\ IF down = "none" THEN At(r, "parents") ELSE Fails(r, "parents")
        /\ installed => client[req[r].m] # None
        /\ LET mb == [imgs |-> req[r].imgs,
                      groups |-> IF down = "groups" THEN NoGroups ELSE listed[r],
                      parents |-> {g \in GroupIds : igroup[g] # None},
                      next |-> req[r].next, local |-> installed,
                      theme |-> IF down = "theme" THEN NoTheme ELSE theme,
                      tools |-> tools /\ down # "tools"]
               out == buildGroupMenus(mb)
               over == IF out = "overflow" THEN Requests ELSE {r}
           IN /\ answer' = [outcome |-> out, mb |-> mb]
              /\ req' = [q \in Requests |-> IF q \in over THEN Idle ELSE req[q]]
              /\ listed' = [q \in Requests |-> IF q \in over THEN NoGroups ELSE listed[q]]
    /\ UNCHANGED <<client, cgroup, image, igroup, theme, tools>>

Change(r) ==
    \/ AccessNext(r) /\ UNCHANGED <<igroup, theme, tools>>
    \/ CreateImageGroup(r) \/ UpdateImageGroup(r) \/ DeleteImageGroup(r)
    \/ UpdateImage(r) \/ DeleteImage(r) \/ SyncImages(r)
    \/ UpdateMenuTheme(r) \/ ToolsChange(r)
    \/ handleIPXEMenu(r) \/ GetNextBootImage(r) \/ ClearNextBootImage(r)

\* The answer was looked at.
Answered == answer # None /\ answer' = None /\ UNCHANGED <<access, igroup, theme, tools, listed>>

Next ==
    \/ /\ answer = None
       /\ \E r \in Requests : \/ Change(r) /\ UNCHANGED <<listed, answer>>
                              \/ ListImageGroups(r) /\ UNCHANGED answer
                              \/ generateIPXEMenuWithGroups(r)
       /\ Remember
    \/ Answered

Spec == Init /\ [][Next]_vars

-----------------------------------------------------------------------------
(* Properties of the scripts that were served. *)

Served == IF answer # None /\ answer.outcome = "served" THEN {answer.mb} ELSE {}

\* Scripts that open the main menu.
MainMenus == {mb \in Served : ~hasEnabledImage(mb)}

Above(groups, g) == IF g = 0 \/ groups[g] = None THEN 0 ELSE groups[g].parent

\* The n-th ancestor of a group, 0 above a root, and the groups on the way.
Ancestor(groups, g) ==
    LET up[n \in Nat] == IF n = 0 THEN g ELSE Above(groups, up[n - 1]) IN up

Line(groups, g) == {Ancestor(groups, g)[n] : n \in 0..Depth} \ {0}

Acyclic(groups) == \A g \in GroupIds : Ancestor(groups, g)[Depth] = 0

\* The groups above an image are all there, enabled, and end at the top.
Rooted(mb, f) ==
    \/ mb.imgs[f] = 0
    \/ /\ Ancestor(mb.groups, mb.imgs[f])[Depth] = 0
       /\ \A g \in Line(mb.groups, mb.imgs[f]) : GroupEnabled(mb, g)

Onward(mb, near) == near \cup (Labels(mb) \cap UNION {Targets(mb, l) : l \in near})

\* The labels n items or gotos away from the main menu.
Within(mb) ==
    LET to[n \in Nat] == IF n = 0 THEN {Start} ELSE Onward(mb, to[n - 1]) IN to

Reach(mb) == Within(mb)[Depth + 3]

\* Where n timeouts have led to.
Waited(mb) ==
    LET at[n \in Nat] == IF n = 0 THEN Start ELSE Unattended(mb, at[n - 1]) IN at

\* A machine can get to exactly the images it was given that have no group
\* or only enabled groups above them, by the items and gotos of its script:
\* none is hidden behind an empty subgroup, none is offered past a disabled
\* group.
ReachExact ==
    \A mb \in MainMenus :
        {f \in DOMAIN mb.imgs : Iso(f) \in Reach(mb)} = {f \in DOMAIN mb.imgs : Rooted(mb, f)}

\* Every item and every goto of a main menu script leads to a label of the
\* script, unless it leads to a group that is disabled or gone.
TargetsResolve ==
    \A mb \in MainMenus : \A l \in Labels(mb) : \A t \in Targets(mb, l) :
        t \in Labels(mb) \/ (t[1] = "group" /\ ~GroupEnabled(mb, t[2]))

\* A machine nobody sits at gets past menus that time out: the choices made
\* by the timeouts lead from the main menu to something that boots, and never
\* through "Back" or into the tools menu, which waits for ever.  One exception:
\* a next boot image the machine was not given is no item of the menu, and the
\* first item, which "choose" then takes, is the tools menu if there are tools.
UnattendedBoots ==
    \A mb \in MainMenus : mb.theme.timed /\ (mb.next # None => ~mb.tools) =>
        /\ Waited(mb)[Depth + 1] \in Options \cup {Iso(f) : f \in DOMAIN mb.imgs}
        /\ \A n \in 0..Depth : Waited(mb)[n + 1] # Start

\* Only a broken tree of groups keeps a machine from its menu.  Build recurses
\* without end only if the listed groups form a cycle, and panics only at a
\* group above an image of the machine, whose parent was gone when the parents
\* were read: a group without the machine's images harms nobody, however
\* broken.
FailsOnlyOnBrokenGroups ==
    answer # None =>
        LET mb == answer.mb IN
        /\ answer.outcome = "overflow" => ~Acyclic(mb.groups)
        /\ answer.outcome = "panic" =>
              \E f \in DOMAIN mb.imgs : \E g \in Line(mb.groups, mb.imgs[f]) :
                  /\ mb.groups[g] # None /\ mb.groups[g].parent # 0
                  /\ mb.groups[g].parent \notin mb.parents
=============================================================================
