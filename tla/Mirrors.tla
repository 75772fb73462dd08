------------------------------- MODULE Mirrors -------------------------------
(***************************************************************************)
(* prepareMirrors (mirrors.ts): it copies a reference project twice, for   *)
(* a baseline and a candidate, while somebody may still edit the project.  *)
(* It walks through the project five times: for the inventory, the check   *)
(* of the links, two copies, and the comparison at the end.                *)
(*                                                                         *)
(* A tree is a function from paths to entries; a path that is absent has   *)
(* none.  Directories, modes and more than one project are left out.       *)
(***************************************************************************)
EXTENDS Naturals, Sequences, FiniteSets

CONSTANTS
    MirrorPaths,        \* every path, in the order of a walk
    ExcludedPaths,      \* the ones below .git and node_modules
    ReferenceTrees,     \* what the project may look like
    EditedEntries,      \* what an edit may leave at a path
    MaxEdits            \* bounds the edits

Paths == {MirrorPaths[i] : i \in DOMAIN MirrorPaths}
TreeEntry(e) == [kind |-> e.kind, value |-> e.value]

ASSUME PathsAssumption == MirrorPaths \in Seq(Paths) \ {<<>>}
ASSUME TreesAssumption ==
    /\ \A t \in ReferenceTrees : DOMAIN t \subseteq Paths /\ t = [p \in DOMAIN t |-> TreeEntry(t[p])]
    /\ \A e \in EditedEntries : e = TreeEntry(e)

VARIABLES
    tree,           \* the project
    edits,          \* how often it was edited
    walk,           \* what the preparation does
    cursor,         \* the next path of its walk
    side,           \* the copy that it makes
    inventory,      \* the manifest
    copies          \* the copies; gone when the directory was removed

mirrorVars == <<tree, edits, walk, cursor, side, inventory, copies>>

Outside == "outside"
Sides == {"baseline", "candidate"}
NoTree == [p \in {} |-> Outside]
With(t, path, entry) ==
    [p \in DOMAIN t \cup {path} |-> IF p = path THEN entry ELSE t[p]]

MirrorInit ==
    /\ tree \in ReferenceTrees
    /\ edits = 0 /\ walk = "inventory" /\ cursor = 1 /\ side = "baseline"
    /\ inventory = NoTree /\ copies = [s \in Sides |-> NoTree]

\* Where the links from a path lead: to a path, out of the project, or nowhere.
RealPath(t, path) ==
    LET f[n \in Nat] ==
            IF n = 0 THEN path
            ELSE IF f[n - 1] \in DOMAIN t /\ t[f[n - 1]].kind = "link" THEN t[f[n - 1]].value
            ELSE f[n - 1]
        end == f[Len(MirrorPaths)]
    IN  IF end = Outside \/ (end \in DOMAIN t /\ t[end].kind # "link") THEN end ELSE "nowhere"

Here == MirrorPaths[cursor]
copied(path) == path \notin ExcludedPaths
contains(path) == path \in Paths /\ copied(path)
CopiedInventory == {p \in DOMAIN inventory : copied(p)}

\* Go on to the next path, or at the last one to the next walk.
Advance(next) ==
    IF cursor < Len(MirrorPaths) THEN cursor' = cursor + 1 /\ UNCHANGED walk
    ELSE cursor' = 1 /\ walk' = next

\* The directory is removed before the error is passed on.
Abandon == walk' = "failed" /\ copies' = <<>> /\ UNCHANGED <<tree, edits, cursor, side, inventory>>

EditSource ==
    /\ walk \notin {"ready", "failed"} /\ edits < MaxEdits
    /\ edits' = edits + 1
    /\ \E p \in Paths :
        \/ /\ p \in DOMAIN tree
           /\ tree' = [q \in DOMAIN tree \ {p} |-> tree[q]]
        \/ \E e \in EditedEntries : tree' = With(tree, p, e)
    /\ tree' # tree
    /\ UNCHANGED <<walk, cursor, side, inventory, copies>>

\* Only files, directories and links can be mirrored.
Special(t, p) == p \in DOMAIN t /\ t[p].kind = "special"

TakeInventory ==
    /\ walk = "inventory"
    /\ IF Special(tree, Here) THEN Abandon
       ELSE /\ inventory' = IF Here \in DOMAIN tree THEN With(inventory, Here, tree[Here]) ELSE inventory
            /\ Advance("links")
            /\ UNCHANGED <<tree, edits, side, copies>>

\* A link of the inventory leads to something that is copied.
CheckLink ==
    /\ walk = "links"
    /\ IF /\ Here \in CopiedInventory /\ inventory[Here].kind = "link"
          /\ Here \notin DOMAIN tree \/ ~contains(RealPath(tree, Here))
       THEN Abandon
       ELSE Advance("copy") /\ UNCHANGED <<tree, edits, side, inventory, copies>>

\* rsync copies a link as it is.
CopyEntry ==
    /\ walk = "copy"
    /\ copies' = IF copied(Here) /\ Here \in DOMAIN tree
                 THEN [copies EXCEPT ![side] = With(@, Here, tree[Here])] ELSE copies
    /\ Advance("relink")
    /\ UNCHANGED <<tree, edits, side, inventory>>

\* A link of the inventory is made anew, to the copy of what it leads to by now.
Relink ==
    /\ walk = "relink"
    /\ LET end == RealPath(tree, Here)
           due == Here \in CopiedInventory /\ inventory[Here].kind = "link"
       IN  IF due /\ (Here \notin DOMAIN tree \/ end = "nowhere" \/ Here \notin DOMAIN copies[side])
           THEN Abandon
           ELSE /\ copies' = IF due THEN [copies EXCEPT ![side][Here] = [kind |-> "link", value |-> end]]
                             ELSE copies
                /\ Advance("compare")
                /\ UNCHANGED <<tree, edits, side, inventory>>

\* The copy has the paths of the inventory, of the same kinds, and its files.
CompareCopy ==
    /\ walk = "compare"
    /\ LET copy == copies[side]
           same == /\ DOMAIN copy = CopiedInventory
                   /\ \A p \in DOMAIN copy :
                        /\ copy[p].kind = inventory[p].kind
                        /\ copy[p].kind = "file" => copy[p].value = inventory[p].value
       IN  IF ~same THEN Abandon
           ELSE /\ side' = "candidate"
                /\ walk' = IF side = "baseline" THEN "copy" ELSE "verify"
                /\ UNCHANGED <<tree, edits, cursor, inventory, copies>>

\* Faulty variant: the contents of files are compared and the targets of links are not.
SameContent(e, f) == e.kind = f.kind /\ (e.kind = "file" => e.value = f.value)

SameEntry(e, f) == e = f

\* verifyMirrors: the project still is what the inventory says.
VerifySource ==
    /\ walk = "verify"
    /\ LET same == Here \in DOMAIN tree /\ Here \in DOMAIN inventory => SameEntry(tree[Here], inventory[Here])
       IN  IF (Here \in DOMAIN tree) # (Here \in DOMAIN inventory) \/ ~same \/ Special(tree, Here)
           THEN Abandon
           ELSE Advance("ready") /\ UNCHANGED <<tree, edits, side, inventory, copies>>

MirrorNext ==
    EditSource \/ TakeInventory \/ CheckLink \/ CopyEntry \/ Relink \/ CompareCopy \/ VerifySource

-----------------------------------------------------------------------------

\* The two copies that an experiment gets have exactly the files of the inventory, and no edit of
\* the project while it was copied makes a link of theirs lead elsewhere than the inventory's does,
\* or out of the copy; only a second edit that undoes the first can.  Of a preparation that
\* failed nothing is left (prepareMirrors).
MirrorsAgree ==
    /\ walk = "failed" => copies = <<>>
    /\ walk = "ready" =>
        \A s \in Sides :
            /\ DOMAIN copies[s] = CopiedInventory
            /\ \A p \in CopiedInventory :
                /\ copies[s][p].kind = inventory[p].kind
                /\ inventory[p].kind = "file" => copies[s][p] = inventory[p]
                /\ inventory[p].kind = "link" /\ edits <= 1 =>
                    copies[s][p].value = RealPath(inventory, p) /\ contains(copies[s][p].value)
=============================================================================
