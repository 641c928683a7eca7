---------------------------- MODULE BinderPaths -----------------------------
(***************************************************************************)
(* Paths below a project's root, and trees of entries that live at them:   *)
(* functions from the paths in use to entries.                             *)
(***************************************************************************)
EXTENDS Naturals, SequencesExt

CONSTANTS
    Names,       \* names of files and folders
    Folders,     \* entries that are folders
    Documents,   \* entries that are not
    MaxDepth     \* bound: names in a path

Entries == Folders \cup Documents
Root == <<>>
Nothing == <<>>      \* the tree without an entry

Paths == UNION {[1 .. n -> Names] : n \in 1 .. MaxDepth}

(* _creative_path_is_inside: the path itself, or anything below it.         *)
Inside(path, container) == IsPrefix(container, path)

Below(path, container) == SubSeq(path, Len(container) + 1, Len(path))

(* _remap_creative_path_reference.                                          *)
Reference(path, old, new) ==
    IF Inside(path, old) THEN new \o Below(path, old) ELSE path

(* What a rename of a path takes along, as a tree of its own.               *)
Subtree(t, path) ==
    [s \in {Below(q, path) : q \in {q \in DOMAIN t : Inside(q, path)}} |->
        t[path \o s]]

Cut(t, path) == RestrictDomain(t, LAMBDA q : ~Inside(q, path))

Grafted(t, path, item) ==
    [q \in DOMAIN t \cup {path \o s : s \in DOMAIN item} |->
        IF q \in DOMAIN t THEN t[q] ELSE item[Below(q, path)]]

With(t, path, e) ==
    [q \in DOMAIN t \cup {path} |-> IF q = path THEN e ELSE t[q]]

(* A folder can be, or is made to be, at the path.                          *)
HoldsFolder(t, path) == path = Root \/ (path \in DOMAIN t /\ t[path] \in Folders)
MayHoldFolder(t, path) == path \in DOMAIN t => t[path] \in Folders

(* mkdir(parents=True) of a path's parent.  (With two names in a path no     *)
(* other folder above it can be missing.)                                   *)
WithParent(t, path, fresh) ==
    IF HoldsFolder(t, Front(path)) THEN {t}
    ELSE {With(t, Front(path), f) : f \in Folders \cap fresh}

(* A new entry at a path, and the folder for it if there is none.           *)
WithEntry(t, path, fresh) ==
    UNION {{With(u, path, e) : e \in fresh \ Range(u)} :
               u \in WithParent(t, path, fresh)}

(* What is left of a tree of files whose removal stopped halfway.           *)
Remainders(item) ==
    {Restrict(item, kept) : kept \in {k \in SUBSET DOMAIN item :
        \A p \in k, q \in DOMAIN item : Inside(p, q) => q \in k}}
=============================================================================
