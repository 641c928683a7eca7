------------------------------ MODULE MCBinder ------------------------------
(* The binder on a small instance; names and entries are model values,      *)
(* interchangeable within their kind.  Once the notes are loose nothing is  *)
(* said of them and nothing else depends on them: states that differ in     *)
(* their notes only are then the same.                                      *)
EXTENDS Binder, TLC

Symmetry == Permutations(Names) \cup Permutations(Folders)
                \cup Permutations(Documents)

WithoutMeta(c) == <<c.path, c.item, c.manifest>>

Followed ==
    IF ~loose THEN vars
    ELSE <<tree, {WithoutMeta(c) : c \in trash}, made, asked, faults,
           seen.tree, seen.trash, seen.made, seen.asked,
           IF req = Idle THEN Idle
           ELSE <<req.at, req.path, req.dest,
                  IF req.box = None THEN None ELSE WithoutMeta(req.box)>>>>
=============================================================================
