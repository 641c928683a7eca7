------------------------------- MODULE Binder -------------------------------
(***************************************************************************)
(* The binder of a writing project (src/electroboy/modules/                *)
(* creative_workspace.py and binder.py): its files and folders, the notes  *)
(* on their cards, which one file keeps by path                            *)
(* (corkboards.json), and the trash.                                       *)
(*                                                                         *)
(* A request is several file operations, each of them a step that may fail *)
(* or be the last before the service is killed, and handlers that undo the *)
(* earlier ones, whose operations may fail as well.  A file that is being  *)
(* written when that happens may be left cut short, and one that cannot be *)
(* parsed is read as if it were empty.                                     *)
(*                                                                         *)
(* One request is in progress at a time, as when one operator works in the *)
(* one page that has the lease of the workspace.  The service itself does  *)
(* not order the requests of a binder.                                     *)
(***************************************************************************)
EXTENDS BinderPaths

CONSTANTS
    Notes,        \* texts of a card
    MaxFaults,    \* bound: failing file operations and kills
    None          \* no path, no container

ASSUME DepthAssumption == MaxDepth = 2
ASSUME FaultAssumption == MaxFaults \in Nat

VARIABLES
    tree,         \* files and folders of the project
    trash,        \* containers: directories with a manifest and an item
    cards,        \* corkboards.json: notes by folder and path of the card
    req,          \* the request in progress
    made,         \* the entries ever created
    asked,        \* the entries whose permanent deletion was asked for
    faults,       \* faults so far
    loose,        \* something has happened that may cost notes
    seen          \* what the operator sees: the state between two requests

vars == <<tree, trash, cards, req, made, asked, faults, loose, seen>>

-----------------------------------------------------------------------------
(* The notes. *)

SameKey(c, d) == c.board = d.board /\ c.card = d.card

(* _remap_creative_corkboard_paths.  Of two folders whose keys become the   *)
(* same the last one is kept, and so is the last of two cards.              *)
Remaps(old, new) ==
    LET to(p) == Reference(p, old, new)
        clash(c, d) == /\ c # d
                       /\ to(c.board) = to(d.board)
                       /\ c.board = d.board => to(c.card) = to(d.card)
        outcomes == {k \in SUBSET cards :
            /\ \A c, d \in k : ~clash(c, d)
            /\ \A c \in cards \ k : \E d \in k : clash(c, d)}
    IN  {{[c EXCEPT !.board = to(@), !.card = to(@)] : c \in k} : k \in outcomes}

(* _remove_creative_corkboard_paths.                                        *)
Removed(path) == {c \in cards : ~Inside(c.board, path) /\ ~Inside(c.card, path)}

(* Mutant: only the boards of the folders that go are remembered. *)
SnapshotOfFolders(path) == {c \in cards : Inside(c.board, path)}

(* _creative_corkboard_metadata_snapshot: the boards of the folders that    *)
(* go, and the cards of the entries that go on the boards of others.        *)
Snapshot(path) == {c \in cards : Inside(c.board, path) \/ Inside(c.card, path)}

(* _restore_creative_corkboard_metadata: boards replace those there are,    *)
(* cards of other boards are put among theirs.                              *)
Recalled(box) ==
    {c \in cards : \A m \in box.meta :
        /\ ~SameKey(c, m)
        /\ ~(Inside(m.board, box.path) /\ m.board = c.board)} \cup box.meta

(* _save_creative_folder_corkboard_card.                                    *)
Noted(path, n) ==
    LET card == [board |-> Front(path), card |-> path, note |-> n]
    IN  {c \in cards : ~SameKey(c, card)} \cup {card}

-----------------------------------------------------------------------------
(* Requests. *)

Container(path, meta) ==
    [path |-> path, meta |-> meta, item |-> Nothing, manifest |-> TRUE]

Filled(box, item) == [box EXCEPT !.item = item]

(* _creative_trash_entries: containers the trash shows.                     *)
Listed(c) == c.manifest /\ c.item # Nothing

(* What the trash shows of containers.                                      *)
Shown(boxes) == {[path |-> c.path, item |-> c.item] : c \in {c \in boxes : Listed(c)}}

(* The notes on the cards of entries, and those that an item in the trash   *)
(* comes back with: pairs of an entry and its note.                         *)
CardNotes(t, some) == {<<t[c.card], c.note>> : c \in {c \in some : c.card \in DOMAIN t}}

BoxNotes(c) ==
    {<<c.item[Below(m.card, c.path)], m.note>> :
        m \in {m \in c.meta : /\ Inside(m.card, c.path)
                             /\ Below(m.card, c.path) \in DOMAIN c.item}}

TrashNotes(boxes) == UNION {BoxNotes(c) : c \in {c \in boxes : Listed(c)}}

View ==
    [tree  |-> tree,
     trash |-> Shown(trash),
     notes |-> CardNotes(tree, cards) \cup TrashNotes(trash),
     made  |-> made,
     asked |-> asked,
     loose |-> loose]

(* No request is in progress.                                               *)
Idle == [at |-> "idle"]

Init ==
    /\ tree = Nothing
    /\ trash = {}
    /\ cards = {}
    /\ req = Idle
    /\ made = {}
    /\ asked = {}
    /\ faults = 0
    /\ loose = FALSE
    /\ seen = View

At(place) == req.at = place

Begins(place, path, dest, box) ==
    /\ req = Idle
    /\ req' = [at |-> place, path |-> path, dest |-> dest, box |-> box]
    /\ UNCHANGED seen

Goes(place) == req' = [req EXCEPT !.at = place] /\ UNCHANGED seen

(* The next step, with the container of the request as it is now.           *)
GoesWith(place, box) ==
    /\ req' = [req EXCEPT !.at = place, !.box = box]
    /\ trash' = (trash \ {req.box}) \cup {box}
    /\ UNCHANGED seen

Ends == req' = Idle /\ seen' = View'

(* A file operation fails.                                                  *)
Fault == faults < MaxFaults /\ faults' = faults + 1

(* Writing corkboards.json failed: it is as it was, or cut short.           *)
SaveFails == /\ Fault
             /\ cards' \in {cards, {}}
             /\ loose' = (loose \/ cards' # cards)

(* An operation stops halfway and nothing undoes it.                        *)
NotUndone == loose' = TRUE /\ Ends

(* The next operation of the request writes corkboards.json.                *)
Saving == req.at \in {"remap", "remap back", "forget", "recall cards", "put back",
                      "forget again"}

-----------------------------------------------------------------------------
(* Creating entries and writing on cards. *)

(* _create_creative_folder and _create_creative_document.                   *)
Create(p) ==
    /\ req = Idle
    /\ p \notin DOMAIN tree
    /\ MayHoldFolder(tree, Front(p))
    /\ tree' \in WithEntry(tree, p, Entries \ made)
    /\ made' = made \cup Range(tree')
    /\ UNCHANGED <<trash, cards, asked, faults, loose>>
    /\ Ends

(* The folder above was made, and the entry was not.                        *)
CreateFails(p) ==
    /\ req = Idle
    /\ p \notin DOMAIN tree
    /\ MayHoldFolder(tree, Front(p))
    /\ ~HoldsFolder(tree, Front(p))
    /\ Fault
    /\ tree' \in WithParent(tree, p, Entries \ made)
    /\ made' = made \cup Range(tree')
    /\ UNCHANGED <<trash, cards, asked, loose>>
    /\ Ends

(* _save_creative_folder_corkboard_card, of a card on its folder's board.   *)
SaveCard(p, n) ==
    /\ req = Idle
    /\ p \in DOMAIN tree
    /\ cards' = Noted(p, n)
    /\ UNCHANGED <<tree, trash, made, asked, faults, loose>>
    /\ Ends

SaveCardFails ==
    /\ req = Idle
    /\ SaveFails
    /\ UNCHANGED <<tree, trash, made, asked>>
    /\ Ends

-----------------------------------------------------------------------------
(* _relocate_creative_entry: the entry is renamed on disk, then the notes   *)
(* are remapped; if that fails, both are turned back.                       *)

Relocate(p, q) ==
    /\ p \in DOMAIN tree
    /\ q \notin DOMAIN tree
    /\ ~Inside(q, p)
    /\ \A s \in DOMAIN Subtree(tree, p) : q \o s \in Paths
    /\ tree' = Grafted(Cut(tree, p), q, Subtree(tree, p))
    /\ Begins("remap", p, q, None)
    /\ UNCHANGED <<trash, cards, made, asked, faults, loose>>

(* _rename_creative_entry.                                                  *)
Rename(p, name) == Relocate(p, Append(Front(p), name))

(* _move_creative_entry.                                                    *)
Move(p, folder) == /\ HoldsFolder(tree, folder)
                   /\ Relocate(p, Append(folder, Last(p)))

(* A card that goes to another folder stays on the board of the old one.    *)
Strands == /\ Front(req.path) # Front(req.dest)
           /\ \E c \in cards : c.card = req.path

Remap ==
    /\ At("remap")
    /\ cards' \in Remaps(req.path, req.dest)
    /\ loose' = (loose \/ Strands)
    /\ UNCHANGED <<tree, trash, made, asked, faults>>
    /\ Ends

RemapFails ==
    /\ At("remap")
    /\ SaveFails
    /\ Goes("rename back")
    /\ UNCHANGED <<tree, trash, made, asked>>

RenameBack ==
    /\ At("rename back")
    /\ tree' = Grafted(Cut(tree, req.dest), req.path, Subtree(tree, req.dest))
    /\ Goes("remap back")
    /\ UNCHANGED <<trash, cards, made, asked, faults, loose>>

RenameBackFails ==
    /\ At("rename back")
    /\ Fault
    /\ UNCHANGED <<tree, trash, cards, made, asked>>
    /\ NotUndone

RemapBack ==
    /\ At("remap back")
    /\ cards' \in Remaps(req.dest, req.path)
    /\ UNCHANGED <<tree, trash, made, asked, faults, loose>>
    /\ Ends

RemapBackFails ==
    /\ At("remap back")
    /\ SaveFails
    /\ UNCHANGED <<tree, trash, made, asked>>
    /\ Ends

-----------------------------------------------------------------------------
(* _trash_creative_entry: a container with a manifest that holds the notes, *)
(* the entry moved into it, the notes removed; and the way back.            *)

Discard(p) ==
    /\ p \in DOMAIN tree
    /\ LET box == Container(p, Snapshot(p))
       IN  /\ Begins("take", p, None, box)
           /\ trash' = trash \cup {box}
    /\ UNCHANGED <<tree, cards, made, asked, faults, loose>>

(* The manifest could not be written, or the entry not be moved.            *)
DiscardFails ==
    /\ At("take")
    /\ Fault
    /\ \E manifest \in BOOLEAN :
          GoesWith("recall cards", [req.box EXCEPT !.manifest = manifest])
    /\ UNCHANGED <<tree, cards, made, asked, loose>>

Take ==
    /\ At("take")
    /\ tree' = Cut(tree, req.path)
    /\ GoesWith("forget", Filled(req.box, Subtree(tree, req.path)))
    /\ UNCHANGED <<cards, made, asked, faults, loose>>

Forget ==
    /\ At("forget")
    /\ cards' = Removed(req.path)
    /\ UNCHANGED <<tree, trash, made, asked, faults, loose>>
    /\ Ends

(* Mutant: the handler forgets to move the entry back. *)
ForgetFailsLeavesItem ==
    /\ At("forget")
    /\ SaveFails
    /\ Goes("recall cards")
    /\ UNCHANGED <<tree, trash, made, asked>>

ForgetFails ==
    /\ At("forget")
    /\ SaveFails
    /\ Goes("take back")
    /\ UNCHANGED <<tree, trash, made, asked>>

TakeBack ==
    /\ At("take back")
    /\ tree' = Grafted(tree, req.path, req.box.item)
    /\ GoesWith("recall cards", Filled(req.box, Nothing))
    /\ UNCHANGED <<cards, made, asked, faults, loose>>

TakeBackFails ==
    /\ At("take back")
    /\ Fault
    /\ UNCHANGED <<tree, trash, cards, made, asked>>
    /\ NotUndone

RecallCards ==
    /\ At("recall cards")
    /\ cards' = Recalled(req.box)
    /\ trash' = trash \ {req.box}
    /\ UNCHANGED <<tree, made, asked, faults, loose>>
    /\ Ends

(* The notes could not be saved, or the container not be removed.  (Notes   *)
(* are saved even if there are none, when a board without cards is there.)  *)
RecallCardsFails ==
    /\ At("recall cards")
    /\ \/ SaveFails
       \/ (Fault /\ cards' = Recalled(req.box) /\ UNCHANGED loose)
    /\ UNCHANGED <<tree, trash, made, asked>>
    /\ Ends

-----------------------------------------------------------------------------
(* _restore_creative_trash_entry: the entry is moved back, its notes are    *)
(* put back, the container is removed; and the way back.                    *)

Restore(c) ==
    /\ c \in trash
    /\ Listed(c)
    /\ c.path \notin DOMAIN tree
    /\ MayHoldFolder(tree, Front(c.path))
    /\ tree' \in WithParent(tree, c.path, Entries \ made)
    /\ made' = made \cup Range(tree')
    /\ Begins("return", c.path, None, c)
    /\ UNCHANGED <<trash, cards, asked, faults, loose>>

Return ==
    /\ At("return")
    /\ tree' = Grafted(tree, req.path, req.box.item)
    /\ GoesWith("put back", Filled(req.box, Nothing))
    /\ UNCHANGED <<cards, made, asked, faults, loose>>

ReturnFails ==
    /\ At("return")
    /\ Fault
    /\ UNCHANGED <<tree, trash, cards, made, asked, loose>>
    /\ Ends

PutBack ==
    /\ At("put back")
    /\ cards' = Recalled(req.box)
    /\ Goes("drop")
    /\ UNCHANGED <<tree, trash, made, asked, faults, loose>>

PutBackFails ==
    /\ At("put back")
    /\ SaveFails
    /\ Goes("return again")
    /\ UNCHANGED <<tree, trash, made, asked>>

ReturnAgain ==
    /\ At("return again")
    /\ tree' = Cut(tree, req.path)
    /\ GoesWith("forget again", Filled(req.box, Subtree(tree, req.path)))
    /\ UNCHANGED <<cards, made, asked, faults, loose>>

ReturnAgainFails ==
    /\ At("return again")
    /\ Fault
    /\ UNCHANGED <<tree, trash, cards, made, asked>>
    /\ NotUndone

ForgetAgain ==
    /\ At("forget again")
    /\ cards' = Removed(req.path)
    /\ UNCHANGED <<tree, trash, made, asked, faults, loose>>
    /\ Ends

(* Nothing undoes this.                                                     *)
ForgetAgainFails ==
    /\ At("forget again")
    /\ SaveFails
    /\ UNCHANGED <<tree, trash, made, asked>>
    /\ Ends

Drop ==
    /\ At("drop")
    /\ trash' = trash \ {req.box}
    /\ UNCHANGED <<tree, cards, made, asked, faults, loose>>
    /\ Ends

DropFails ==
    /\ At("drop")
    /\ Fault
    /\ \E manifest \in BOOLEAN :
          trash' = (trash \ {req.box}) \cup {[req.box EXCEPT !.manifest = manifest]}
    /\ UNCHANGED <<tree, cards, made, asked, loose>>
    /\ Ends

-----------------------------------------------------------------------------
(* Permanent deletion, and the service being killed. *)

Asks(chosen) ==
    /\ req = Idle
    /\ asked' = asked \cup UNION {Range(c.item) : c \in chosen}

Purge(chosen) ==
    /\ Asks(chosen)
    /\ trash' = trash \ chosen
    /\ UNCHANGED <<tree, cards, made, faults, loose>>
    /\ Ends

(* The removal stops: after some containers, and within one.                *)
PurgeFails(chosen) ==
    /\ Asks(chosen)
    /\ Fault
    /\ \E gone \in SUBSET chosen : \E c \in chosen \ gone :
          \E rest \in Remainders(c.item), manifest \in BOOLEAN :
            trash' = (trash \ (gone \cup {c}))
                     \cup {[c EXCEPT !.item = rest, !.manifest = @ /\ manifest]}
    /\ UNCHANGED <<tree, cards, made>>
    /\ NotUndone

(* _permanently_delete_creative_trash_entry and _empty_creative_trash.      *)
Delete(c) == c \in trash /\ Listed(c) /\ (Purge({c}) \/ PurgeFails({c}))
Empty == trash # {} /\ (Purge(trash) \/ PurgeFails(trash))

(* The service is killed between two operations, or in the middle of one.   *)
Kill ==
    /\ req # Idle
    /\ Fault
    /\ \/ UNCHANGED cards
       \/ Saving /\ cards' = {}
    /\ loose' = TRUE
    /\ UNCHANGED <<tree, trash, made, asked>>
    /\ Ends

Next ==
    \/ \E p \in Paths : Create(p) \/ CreateFails(p) \/ Discard(p)
    \/ \E p \in Paths, n \in Notes : SaveCard(p, n)
    \/ \E p \in Paths, name \in Names : Rename(p, name)
    \/ \E p \in Paths, folder \in Paths \cup {Root} : Move(p, folder)
    \/ \E c \in trash : Restore(c) \/ Delete(c)
    \/ SaveCardFails \/ Empty \/ Kill
    \/ Remap \/ RemapFails \/ RenameBack \/ RenameBackFails
    \/ RemapBack \/ RemapBackFails
    \/ Take \/ DiscardFails \/ Forget \/ ForgetFails
    \/ TakeBack \/ TakeBackFails \/ RecallCards \/ RecallCardsFails
    \/ Return \/ ReturnFails \/ PutBack \/ PutBackFails
    \/ ReturnAgain \/ ReturnAgainFails \/ ForgetAgain \/ ForgetAgainFails \/ Drop \/ DropFails

Spec == Init /\ [][Next]_vars

-----------------------------------------------------------------------------
(* What the code keeps. *)

(* At every step of every request, whatever failed and wherever the service *)
(* was killed, an entry that was ever created is in the project or in an    *)
(* item the trash lists, in one of the two and at one place, unless its     *)
(* permanent deletion was asked for (the order of the manifest, the moves   *)
(* and the removals, and the handlers that undo them).                      *)
NothingLost ==
    LET places(e) == {p \in DOMAIN tree : tree[p] = e}
                     \cup {c \in trash : Listed(c) /\ e \in Range(c.item)}
    IN  \A e \in made \ asked : Cardinality(places(e)) = 1

(* From one request to the next the operator finds what BinderPromise says: *)
(* a request did all or nothing of what it was for, and notes follow their  *)
(* entries until something has loosened them.                               *)
Promise == INSTANCE BinderPromise WITH
    tree <- seen.tree, trash <- seen.trash, notes <- seen.notes,
    made <- seen.made, asked <- seen.asked, loose <- seen.loose

KeepsPromise == Promise!Spec

-----------------------------------------------------------------------------
(* What a test expects and the code does not keep. *)

(* Without any fault, moving an entry to another folder does not cost its   *)
(* note ("Preserve this card note.", tests/test_service.py).                *)
Careful == INSTANCE BinderPromise WITH
    tree <- seen.tree, trash <- seen.trash, notes <- seen.notes,
    made <- seen.made, asked <- seen.asked,
    loose <- seen.loose /\ faults > 0

MovedNotesStay == Careful!Spec
=============================================================================
