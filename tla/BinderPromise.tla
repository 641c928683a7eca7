---------------------------- MODULE BinderPromise ---------------------------
(***************************************************************************)
(* What the operator of a binder relies on between two of his requests,    *)
(* whatever failed or was interrupted meanwhile.  Entries are created,     *)
(* renamed, moved, discarded and restored as a whole or not at all, none   *)
(* disappears unless its permanent deletion was asked for, and a note      *)
(* stays with its entry wherever that goes, the trash included.  Only      *)
(* notes may be lost, and only once something has loosened them: the file  *)
(* they are kept in was cut short, a request was interrupted or could not  *)
(* be undone, or an entry with a note changed its folder.                  *)
(***************************************************************************)
EXTENDS BinderPaths

CONSTANT Notes

VARIABLES
    tree,      \* the entries of the project, by path
    trash,     \* the discarded items: [path, item]
    notes,     \* the pairs of an entry, live or discarded, and its note
    made,      \* the entries ever created
    asked,     \* the entries whose permanent deletion was asked for
    loose      \* have the notes been loosened?

promiseVars == <<tree, trash, notes, made, asked, loose>>

Kept == Range(tree) \cup UNION {Range(c.item) : c \in trash}

Init ==
    /\ tree = Nothing
    /\ trash = {}
    /\ notes = {}
    /\ made = {}
    /\ asked = {}
    /\ loose = FALSE

(* Notes follow their entries, unless they are loose.                       *)
NotesFollow ==
    /\ loose => loose'
    /\ loose' \/ notes' = {n \in notes : n[1] \in Kept'}

Create(p) ==
    /\ p \notin DOMAIN tree
    /\ MayHoldFolder(tree, Front(p))
    /\ tree' \in WithEntry(tree, p, Entries \ made)
    /\ made' = made \cup Range(tree')
    /\ NotesFollow
    /\ UNCHANGED <<trash, asked>>

Relocate(p, q) ==
    /\ p \in DOMAIN tree
    /\ q \notin DOMAIN tree
    /\ HoldsFolder(tree, Front(q))
    /\ ~Inside(q, p)
    /\ tree' = Grafted(Cut(tree, p), q, Subtree(tree, p))
    /\ NotesFollow
    /\ UNCHANGED <<trash, made, asked>>

Discard(p) ==
    /\ p \in DOMAIN tree
    /\ tree' = Cut(tree, p)
    /\ trash' = trash \cup {[path |-> p, item |-> Subtree(tree, p)]}
    /\ NotesFollow
    /\ UNCHANGED <<made, asked>>

(* An item returns to where it was, and its folder is made again.           *)
Restore(c) ==
    /\ c \in trash
    /\ c.path \notin DOMAIN tree
    /\ MayHoldFolder(tree, Front(c.path))
    /\ \E opened \in WithParent(tree, c.path, Entries \ made) :
        tree' = Grafted(opened, c.path, c.item)
    /\ trash' = trash \ {c}
    /\ made' = made \cup Range(tree')
    /\ NotesFollow
    /\ UNCHANGED asked

(* Items are deleted for good; one may be left over in part.                *)
Purge(chosen) ==
    /\ chosen \subseteq trash
    /\ asked' = asked \cup UNION {Range(c.item) : c \in chosen}
    /\ \E gone \in SUBSET chosen :
        \/ trash' = trash \ gone
        \/ \E c \in gone : \E rest \in Remainders(c.item) :
              trash' = (trash \ gone) \cup {[c EXCEPT !.item = rest]}
    /\ NotesFollow
    /\ UNCHANGED <<tree, made>>

(* A note is written on the card of an entry.                               *)
Annotate(e, n) ==
    /\ e \in Range(tree)
    /\ notes' = {m \in notes : m[1] # e} \cup {<<e, n>>}
    /\ UNCHANGED <<tree, trash, made, asked, loose>>

(* Notes are loosened, or change once they are loose.                       *)
Loosen ==
    /\ loose'
    /\ UNCHANGED <<tree, trash, made, asked>>

Next ==
    \/ \E p \in Paths : Create(p) \/ Discard(p)
    \/ \E p, q \in Paths : Relocate(p, q)
    \/ \E c \in trash : Restore(c)
    \/ \E chosen \in SUBSET trash : Purge(chosen)
    \/ \E e \in Entries, n \in Notes : Annotate(e, n)
    \/ Loosen

Spec == Init /\ [][Next]_promiseVars
=============================================================================
