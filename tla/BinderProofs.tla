---------------------------- MODULE BinderProofs -----------------------------
(***************************************************************************)
(* What is proved of Binder for every set of names, folders and documents  *)
(* and every number of faults: no entry is lost, and what the operator     *)
(* finds between two requests keeps BinderPromise.                         *)
(***************************************************************************)
EXTENDS Binder, FiniteSetTheorems, SequenceTheorems, TLAPS

(* Paths and what follows a path in another: sequences of names.            *)
Trails == Seq(Names)

LEMMA PathTrails ==
    /\ Paths \subseteq Trails
    /\ Root \in Trails /\ Root \notin Paths
    /\ \A p \in Trails : p \in Paths <=> Len(p) = 1 \/ Len(p) = 2
  <1>1. \A p \in Trails : p \in Paths <=> Len(p) = 1 \/ Len(p) = 2
    BY DepthAssumption, LenProperties DEF Paths, Trails
  <1>2. Paths \subseteq Trails
    <2>1. \A n \in 1 .. MaxDepth : [1 .. n -> Names] \subseteq Seq(Names)
      BY DepthAssumption
    <2> QED BY <2>1 DEF Paths, Trails
  <1>3. Root \in Trails /\ Len(Root) = 0
    BY EmptySeq DEF Trails, Root
  <1> QED BY <1>1, <1>2, <1>3

(* A path and a trail under it.                                             *)
LEMMA Joined ==
    ASSUME NEW p \in Trails, NEW s \in Trails
    PROVE  /\ p \o s \in Trails
           /\ Len(p \o s) = Len(p) + Len(s)
           /\ Inside(p \o s, p)
           /\ Below(p \o s, p) = s
  <1>1. p \o s \in Trails /\ Len(p \o s) = Len(p) + Len(s)
    BY ConcatProperties DEF Trails
  <1>2. SubSeq(p \o s, 1, Len(p)) = SubSeq(p, 1, Len(p))
    BY DEF Trails
  <1>3. SubSeq(p \o s, Len(p) + 1, Len(p \o s)) = s
    BY DEF Trails
  <1> QED BY <1>1, <1>2, <1>3 DEF Inside, IsPrefix, Below, Trails

LEMMA Split ==
    ASSUME NEW p \in Trails, NEW q \in Trails, Inside(q, p)
    PROVE  /\ Below(q, p) \in Trails
           /\ q = p \o Below(q, p)
  <1>1. Len(p) <= Len(q) /\ \A i \in 1 .. Len(p) : q[i] = p[i]
    BY DEF Inside, IsPrefix, Trails
  <1>2. Below(q, p) \in Trails
    BY <1>1 DEF Below, Trails
  <1>3. Len(p \o Below(q, p)) = Len(q)
    BY <1>1 DEF Below, Trails
  <1>4. \A i \in 1 .. Len(q) : (p \o Below(q, p))[i] = q[i]
    BY <1>1 DEF Below, Trails
  <1> QED BY <1>2, <1>3, <1>4, Joined, SeqEqual DEF Trails

(* What is above an entry.                                                  *)
LEMMA Fronts ==
    ASSUME NEW p \in Trails
    PROVE  /\ p # Root => /\ Front(p) \in Trails
                          /\ Len(Front(p)) = Len(p) - 1
                          /\ Inside(p, Front(p))
           /\ \A x \in Names : Append(p, x) \in Trails /\ Front(Append(p, x)) = p
  <1>1. ASSUME NEW t \in Trails, NEW x \in Names
        PROVE  /\ Append(t, x) \in Trails /\ Front(Append(t, x)) = t
               /\ Len(Append(t, x)) = Len(t) + 1 /\ Len(t) \in Nat
    <2>1. /\ Append(t, x) \in Seq(Names)
          /\ Len(Append(t, x)) = Len(t) + 1
          /\ \A i \in 1 .. Len(t) : Append(t, x)[i] = t[i]
      BY AppendProperties DEF Trails
    <2>2. /\ Front(Append(t, x)) \in Seq(Names)
          /\ Len(Front(Append(t, x))) = Len(t)
          /\ \A i \in 1 .. Len(t) : Front(Append(t, x))[i] = t[i]
      BY <2>1 DEF Front, Trails
    <2> QED BY <2>1, <2>2, SeqEqual, LenProperties DEF Trails
  <1>2. ASSUME p # Root
        PROVE  /\ Front(p) \in Trails
               /\ Len(Front(p)) = Len(p) - 1
               /\ Inside(p, Front(p))
    <2>1. PICK s \in Trails, x \in Names : p = Append(s, x)
      BY <1>2, SequenceEmptyOrAppend DEF Trails, Root
    <2>2. Front(p) = s /\ Len(p) = Len(s) + 1 /\ Len(s) \in Nat
      BY <1>1, <2>1
    <2>3. p = s \o <<x>> /\ <<x>> \in Trails
      BY <2>1, AppendIsConcat DEF Trails
    <2>4. Inside(p, s)
      BY <2>3, Joined
    <2> QED BY <2>2, <2>4
  <1> QED BY <1>1, <1>2

LEMMA Inserted ==
    ASSUME NEW p \in Trails, NEW q \in Trails
    PROVE  /\ Inside(q, p) <=> \E s \in Trails : q = p \o s
           /\ Inside(p, p) /\ p \o Root = p /\ Root \o p = p
           /\ \A s, u \in Trails : p \o s = p \o u => s = u
           /\ Inside(q, p) /\ Inside(p, q) => p = q
           /\ \A r \in Trails : Inside(r, q) /\ Inside(q, p) => Inside(r, p)
  <1>1. Inside(q, p) <=> \E s \in Trails : q = p \o s
    <2>1. ASSUME NEW s \in Trails, q = p \o s
          PROVE  Inside(q, p)
      BY <2>1, Joined
    <2>2. Inside(q, p) => \E s \in Trails : q = p \o s
      BY Split
    <2> QED BY <2>1, <2>2
  <1>2. p \o Root = p /\ Root \o p = p
    BY ConcatEmptySeq DEF Trails, Root
  <1>3. Inside(p, p)
    BY <1>2, Joined, PathTrails
  <1>4. \A s, u \in Trails : p \o s = p \o u => s = u
    BY Joined
  <1>5. ASSUME Inside(q, p), Inside(p, q)
        PROVE  p = q
    BY <1>5, LenProperties, SubSeqFull DEF Inside, IsPrefix, Trails
  <1>6. ASSUME NEW r \in Trails, Inside(r, q), Inside(q, p)
        PROVE  Inside(r, p)
    <2>1. PICK s \in Trails : r = q \o s
      BY <1>6, Split
    <2>5. PICK u \in Trails : q = p \o u
      BY <1>6, Split
    <2>2. r = p \o (u \o s)
      <3>1. (p \o u) \o s = p \o (u \o s)
        <4> p \in Seq(Names) /\ u \in Seq(Names) /\ s \in Seq(Names)
          BY DEF Trails
        <4> QED BY ConcatAssociative
      <3> QED BY <2>1, <2>5, <3>1
    <2>3. u \o s \in Trails
      BY Joined
    <2> QED BY <2>2, <2>3, Joined
  <1> QED BY <1>1, <1>2, <1>3, <1>4, <1>5, <1>6

LEMMA Cancels ==
    ASSUME NEW p \in Trails, NEW s \in Trails, NEW u \in Trails, p \o s = p \o u
    PROVE  s = u
  <1>1. Below(p \o s, p) = s
    BY Joined
  <1>2. Below(p \o u, p) = u
    BY Joined
  <1> QED BY <1>1, <1>2

(* The folder above a path in a folder is in the folder as well.            *)
LEMMA FrontInside ==
    ASSUME NEW p \in Trails, NEW s \in Trails, s # Root
    PROVE  /\ p \o s # Root
           /\ Front(p \o s) = p \o Front(s)
  <1>1. PICK u \in Trails, x \in Names : s = Append(u, x)
    BY SequenceEmptyOrAppend DEF Trails, Root
  <1>2. p \o s = Append(p \o u, x)
    <2>1. s = u \o <<x>> /\ p \o u \in Seq(Names) /\ <<x>> \in Seq(Names)
      BY <1>1, AppendIsConcat, Joined DEF Trails
    <2>2. p \o s = (p \o u) \o <<x>>
      BY <2>1, ConcatAssociative DEF Trails
    <2> QED BY <2>1, <2>2, AppendIsConcat
  <1>3. Front(p \o s) = p \o u /\ Front(s) = u
    BY <1>1, <1>2, Joined, Fronts
  <1>4. p \o s # Root
    BY <1>1, <1>2, Joined, AppendProperties DEF Trails, Root
  <1> QED BY <1>3, <1>4

LEMMA FrontOf ==
    ASSUME NEW p \in Trails, NEW q \in Trails, Inside(q, p), q # p
    PROVE  q # Root /\ Inside(Front(q), p)
  <1>1. PICK s \in Trails : q = p \o s
    BY Split
  <1>2. s # Root
    BY <1>1, Inserted
  <1>3. q # Root /\ Front(q) = p \o Front(s)
    BY <1>1, <1>2, FrontInside
  <1>4. Front(s) \in Trails
    BY <1>2, Fronts
  <1>5. Inside(p \o Front(s), p)
    BY <1>4, Joined
  <1> QED BY <1>3, <1>5

(* The paths above a path are in one another.                               *)
LEMMA Above ==
    ASSUME NEW p \in Trails, NEW q \in Trails, NEW r \in Trails,
           Inside(r, p), Inside(r, q)
    PROVE  Inside(p, q) \/ Inside(q, p)
  <1>1. /\ Len(p) \in Nat /\ Len(q) \in Nat /\ Len(r) \in Nat
        /\ Len(p) <= Len(r) /\ \A i \in 1 .. Len(p) : p[i] = r[i]
        /\ Len(q) <= Len(r) /\ \A i \in 1 .. Len(q) : q[i] = r[i]
    BY DEF Inside, IsPrefix, Trails
  <1>2. ASSUME NEW u \in Trails, NEW v \in Trails, Len(u) <= Len(v),
               \A i \in 1 .. Len(u) : u[i] = v[i]
        PROVE  Inside(v, u)
    <2>1. /\ SubSeq(u, 1, Len(u)) \in Seq(Names)
          /\ SubSeq(v, 1, Len(u)) \in Seq(Names)
          /\ Len(SubSeq(u, 1, Len(u))) = Len(u)
          /\ Len(SubSeq(v, 1, Len(u))) = Len(u)
          /\ \A i \in 1 .. Len(u) : SubSeq(u, 1, Len(u))[i] = SubSeq(v, 1, Len(u))[i]
      BY <1>2 DEF Trails
    <2> QED BY <1>2, <2>1, SeqEqual DEF Inside, IsPrefix, Trails
  <1> QED BY <1>1, <1>2

(* With two names in a path, what is in a folder is right below it.         *)
LEMMA PathFronts ==
    ASSUME NEW p \in Paths
    PROVE  /\ p \in Trails /\ p # Root
           /\ Front(p) \in Trails /\ Inside(p, Front(p))
           /\ Front(p) # Root => Front(p) \in Paths /\ Front(Front(p)) = Root
           /\ Front(p) # p
           /\ \A q \in Paths : Inside(q, p) /\ q # p => Front(q) = p
  <1>1. p \in Trails /\ p # Root /\ (Len(p) = 1 \/ Len(p) = 2)
    BY PathTrails
  <1>2. Front(p) \in Trails /\ Len(Front(p)) = Len(p) - 1 /\ Inside(p, Front(p))
    BY <1>1, Fronts
  <1>3. ASSUME NEW t \in Trails, Len(t) = 0
        PROVE  t = Root
    <2>1. t \in Seq(Names) /\ (t # << >> => Len(t) \in Nat \ {0})
      BY EmptySeq DEF Trails
    <2> QED BY <1>3, <2>1 DEF Root
  <1>4. ASSUME Front(p) # Root
        PROVE  Front(p) \in Paths /\ Front(Front(p)) = Root
    <2>1. Len(Front(p)) = 1
      BY <1>1, <1>2, <1>3, <1>4
    <2>2. Front(p) \in Paths
      BY <1>2, <2>1, PathTrails
    <2>3. Front(Front(p)) \in Trails /\ Len(Front(Front(p))) = 0
      <3>1. Len(Front(Front(p))) = Len(Front(p)) - 1
        BY <1>2, <1>4, Fronts
      <3>2. Front(Front(p)) \in Trails
        BY <1>2, <1>4, Fronts
      <3> QED BY <2>1, <3>1, <3>2
    <2>4. Front(Front(p)) = Root
      BY <1>3, <2>3
    <2> QED BY <2>2, <2>4
  <1>5. Front(p) # p
    BY <1>1, <1>2
  <1>6. ASSUME NEW q \in Paths, Inside(q, p), q # p
        PROVE  Front(q) = p
    <2>1. q \in Trails /\ (Len(q) = 1 \/ Len(q) = 2) /\ q # Root
      BY PathTrails
    <2>2. Inside(Front(q), p) /\ Front(q) \in Trails /\ Len(Front(q)) = Len(q) - 1
      BY <1>1, <1>6, <2>1, FrontOf, Fronts
    <2>3. PICK s \in Trails : Front(q) = p \o s
      BY <1>1, <2>2, Split
    <2>4. Len(Front(q)) = Len(p) + Len(s) /\ Len(s) \in Nat
      BY <1>1, <2>3, Joined, LenProperties DEF Trails
    <2>5. Len(s) = 0
      <3>1. \A k \in Nat : \A m, n \in {1, 2} : n - 1 = m + k => k = 0
        OBVIOUS
      <3>2. Len(q) \in {1, 2} /\ Len(p) \in {1, 2}
        BY <1>1, <2>1
      <3>3. Len(q) - 1 = Len(p) + Len(s)
        BY <2>2, <2>4
      <3> QED BY <2>4, <3>1, <3>2, <3>3
    <2> QED BY <1>1, <1>3, <2>3, <2>5, Inserted
  <1> QED BY <1>1, <1>2, <1>4, <1>5, <1>6

-----------------------------------------------------------------------------
(* Trees. *)

(* An entry is at one place only.                                           *)
OnePlace(f) == \A x, y \in DOMAIN f : f[x] = f[y] => x = y

(* A tree of the project: an entry is in a folder, or right in the project. *)
IsTree(t) ==
    /\ t \in [DOMAIN t -> Entries]
    /\ DOMAIN t \subseteq Paths
    /\ OnePlace(t)
    /\ \A q \in DOMAIN t : HoldsFolder(t, Front(q))

(* What was, or can be, at a path: an entry and what is in it.              *)
IsItem(item, path) ==
    /\ item \in [DOMAIN item -> Entries]
    /\ DOMAIN item \subseteq Trails
    /\ OnePlace(item)
    /\ \A s \in DOMAIN item :
          /\ path \o s \in Paths
          /\ Root \in DOMAIN item
          /\ s # Root => Front(s) \in DOMAIN item /\ item[Front(s)] \in Folders

LEMMA CutIs ==
    ASSUME NEW t, NEW p
    PROVE  /\ DOMAIN Cut(t, p) = {q \in DOMAIN t : ~Inside(q, p)}
           /\ \A q \in DOMAIN Cut(t, p) : Cut(t, p)[q] = t[q]
           /\ t \in [DOMAIN t -> Entries] =>
                 Cut(t, p) \in [DOMAIN Cut(t, p) -> Entries]
  BY DEF Cut, RestrictDomain, Restrict

LEMMA SubtreeIs ==
    ASSUME NEW t, DOMAIN t \subseteq Trails, NEW p \in Trails
    PROVE  /\ DOMAIN Subtree(t, p) \subseteq Trails
           /\ \A s \in Trails : s \in DOMAIN Subtree(t, p) <=> p \o s \in DOMAIN t
           /\ \A s \in DOMAIN Subtree(t, p) : Subtree(t, p)[s] = t[p \o s]
           /\ t \in [DOMAIN t -> Entries] =>
                 Subtree(t, p) \in [DOMAIN Subtree(t, p) -> Entries]
  <1> DEFINE D == {Below(q, p) : q \in {q \in DOMAIN t : Inside(q, p)}}
  <1>1. Subtree(t, p) = [s \in D |-> t[p \o s]]
    BY DEF Subtree
  <1>2. ASSUME NEW s \in D
        PROVE  s \in Trails /\ p \o s \in DOMAIN t
    BY Split
  <1>3. ASSUME NEW s \in Trails, p \o s \in DOMAIN t
        PROVE  s \in D
    BY <1>3, Joined
  <1> HIDE DEF D
  <1> QED BY <1>1, <1>2, <1>3

(* g is t with an item at a path, wherever t has nothing itself.            *)
Grafts(g, t, p, item) ==
    /\ DOMAIN t \subseteq DOMAIN g
    /\ \A s \in DOMAIN item : p \o s \in DOMAIN g
    /\ \A q \in DOMAIN g : q \in DOMAIN t \/ \E s \in DOMAIN item : q = p \o s
    /\ \A q \in DOMAIN t : g[q] = t[q]
    /\ \A s \in DOMAIN item : p \o s \notin DOMAIN t => g[p \o s] = item[s]
    /\ t \in [DOMAIN t -> Entries] /\ item \in [DOMAIN item -> Entries]
         => g \in [DOMAIN g -> Entries]

LEMMA GraftedIs ==
    ASSUME NEW t, NEW item, DOMAIN item \subseteq Trails, NEW p \in Trails
    PROVE  Grafts(Grafted(t, p, item), t, p, item)
  <1> DEFINE D == {p \o s : s \in DOMAIN item}
  <1>1. Grafted(t, p, item)
          = [q \in DOMAIN t \cup D |-> IF q \in DOMAIN t THEN t[q] ELSE item[Below(q, p)]]
    BY DEF Grafted
  <1>2. ASSUME NEW s \in DOMAIN item
        PROVE  p \o s \in D /\ Below(p \o s, p) = s
    BY Joined
  <1>3. DOMAIN Grafted(t, p, item) = DOMAIN t \cup D
    BY <1>1
  <1>4. \A q \in DOMAIN t : Grafted(t, p, item)[q] = t[q]
    BY <1>1
  <1>5. ASSUME NEW s \in DOMAIN item, p \o s \notin DOMAIN t
        PROVE  Grafted(t, p, item)[p \o s] = item[s]
    BY <1>1, <1>2, <1>5
  <1>6. ASSUME t \in [DOMAIN t -> Entries], item \in [DOMAIN item -> Entries]
        PROVE  Grafted(t, p, item) \in [DOMAIN Grafted(t, p, item) -> Entries]
    <2>1. ASSUME NEW q \in DOMAIN t \cup D
          PROVE  (IF q \in DOMAIN t THEN t[q] ELSE item[Below(q, p)]) \in Entries
      <3>1. CASE q \in DOMAIN t
        BY <1>6, <3>1
      <3>2. CASE q \notin DOMAIN t
        <4>1. PICK s \in DOMAIN item : q = p \o s
          BY <2>1, <3>2
        <4> QED BY <1>2, <1>6, <3>2, <4>1
      <3> QED BY <3>1, <3>2
    <2> HIDE DEF D
    <2> QED BY <1>1, <2>1
  <1>7. \A q \in D : \E s \in DOMAIN item : q = p \o s
    OBVIOUS
  <1> HIDE DEF D
  <1> QED BY <1>2, <1>3, <1>4, <1>5, <1>6, <1>7 DEF Grafts

(* Nothing is inside a path at which there is nothing.                      *)
LEMMA FreePath ==
    ASSUME NEW t, IsTree(t), NEW p \in Paths, p \notin DOMAIN t
    PROVE  \A q \in DOMAIN t : ~Inside(q, p)
  <1> SUFFICES ASSUME NEW q \in DOMAIN t, Inside(q, p)
               PROVE  FALSE
    OBVIOUS
  <1>1. q \in Paths /\ q # p /\ HoldsFolder(t, Front(q))
    BY DEF IsTree
  <1>2. Front(q) = p
    BY <1>1, PathFronts
  <1> QED BY <1>1, <1>2, PathTrails DEF HoldsFolder

LEMMA CutTree ==
    ASSUME NEW t, IsTree(t), NEW p \in Paths
    PROVE  /\ IsTree(Cut(t, p))
           /\ p \notin DOMAIN Cut(t, p)
           /\ \A q \in Trails : HoldsFolder(t, q) /\ ~Inside(q, p) => HoldsFolder(Cut(t, p), q)
           /\ \A q \in Trails : HoldsFolder(Cut(t, p), q) => HoldsFolder(t, q)
  <1> DEFINE c == Cut(t, p)
  <1>1. /\ DOMAIN c = {q \in DOMAIN t : ~Inside(q, p)}
        /\ \A q \in DOMAIN c : c[q] = t[q]
        /\ c \in [DOMAIN c -> Entries]
    BY CutIs DEF IsTree
  <1>2. p \in Trails /\ Inside(p, p) /\ DOMAIN t \subseteq Trails
    BY PathTrails, Inserted DEF IsTree
  <1> HIDE DEF c
  <1>3. \A q \in Trails : HoldsFolder(t, q) /\ ~Inside(q, p) => HoldsFolder(c, q)
    BY <1>1 DEF HoldsFolder
  <1>4. \A q \in Trails : HoldsFolder(c, q) => HoldsFolder(t, q)
    BY <1>1 DEF HoldsFolder
  <1>5. ASSUME NEW q \in DOMAIN c
        PROVE  HoldsFolder(c, Front(q))
    <2>1. q \in Paths /\ q \in Trails /\ ~Inside(q, p) /\ HoldsFolder(t, Front(q))
      BY <1>1, <1>2 DEF IsTree
    <2>2. Front(q) \in Trails /\ Inside(q, Front(q))
      BY <2>1, PathFronts
    <2>3. ~Inside(Front(q), p)
      BY <1>2, <2>1, <2>2, Inserted
    <2> QED BY <1>3, <2>1, <2>2, <2>3
  <1>6. DOMAIN c \subseteq Paths /\ OnePlace(c)
    BY <1>1 DEF IsTree, OnePlace
  <1>7. p \notin DOMAIN c
    BY <1>1, <1>2
  <1>8. IsTree(c)
    BY <1>1, <1>5, <1>6 DEF IsTree
  <1> QED BY <1>3, <1>4, <1>7, <1>8 DEF c

LEMMA SubtreeItem ==
    ASSUME NEW t, IsTree(t), NEW p \in DOMAIN t, NEW q,
           \A s \in DOMAIN Subtree(t, p) : q \o s \in Paths
    PROVE  /\ IsItem(Subtree(t, p), q)
           /\ Root \in DOMAIN Subtree(t, p)
  <1> DEFINE i == Subtree(t, p)
  <1>1. DOMAIN t \subseteq Trails /\ p \in Trails
    BY PathTrails DEF IsTree
  <1>2. /\ DOMAIN i \subseteq Trails
        /\ \A s \in Trails : s \in DOMAIN i <=> p \o s \in DOMAIN t
        /\ \A s \in DOMAIN i : i[s] = t[p \o s]
        /\ i \in [DOMAIN i -> Entries]
    BY <1>1, SubtreeIs DEF IsTree
  <1>3. \A s \in DOMAIN i : q \o s \in Paths
    OBVIOUS
  <1> HIDE DEF i
  <1>4. Root \in DOMAIN i
    <2>1. p \o Root = p
      BY <1>1, Inserted
    <2> QED BY <1>2, <2>1, PathTrails
  <1>5. OnePlace(i)
    <2> SUFFICES ASSUME NEW x \in DOMAIN i, NEW y \in DOMAIN i, i[x] = i[y]
                 PROVE  x = y
      BY DEF OnePlace
    <2>1. p \o x \in DOMAIN t /\ p \o y \in DOMAIN t /\ t[p \o x] = t[p \o y]
      BY <1>2
    <2>2. p \o x = p \o y
      BY <2>1 DEF IsTree, OnePlace
    <2>3. p \in Trails /\ x \in Trails /\ y \in Trails
      BY <1>1, <1>2
    <2> QED BY <2>2, <2>3, Cancels
  <1>6. ASSUME NEW s \in DOMAIN i, s # Root
        PROVE  Front(s) \in DOMAIN i /\ i[Front(s)] \in Folders
    <2>1. s \in Trails /\ p \o s \in DOMAIN t /\ HoldsFolder(t, Front(p \o s))
      BY <1>2 DEF IsTree
    <2>2. Front(p \o s) = p \o Front(s) /\ Front(s) \in Trails
      BY <1>1, <1>6, <2>1, FrontInside, Fronts
    <2>3. p \o Front(s) # Root
      <3>1. p # Root
        BY PathTrails DEF IsTree
      <3> QED BY <1>1, <2>2, <3>1, ConcatEqualIffEmpty DEF Trails, Root
    <2> QED BY <1>2, <2>1, <2>2, <2>3 DEF HoldsFolder
  <1>7. IsItem(i, q)
    BY <1>2, <1>3, <1>4, <1>5, <1>6 DEF IsItem
  <1> QED BY <1>4, <1>7 DEF i

(* A subtree as the item of where it was.                                   *)
LEMMA OwnItem ==
    ASSUME NEW t, IsTree(t), NEW p \in DOMAIN t
    PROVE  IsItem(Subtree(t, p), p) /\ Root \in DOMAIN Subtree(t, p)
  <1>1. DOMAIN t \subseteq Trails /\ p \in Trails
    BY PathTrails DEF IsTree
  <1>2. \A s \in DOMAIN Subtree(t, p) : p \o s \in DOMAIN t
    BY <1>1, SubtreeIs
  <1> QED BY <1>2, SubtreeItem DEF IsTree

(* A cut parts the entries in two.                                          *)
LEMMA Parts ==
    ASSUME NEW t, IsTree(t), NEW p \in Paths
    PROVE  /\ Range(t) = Range(Cut(t, p)) \cup Range(Subtree(t, p))
           /\ Range(Cut(t, p)) \cap Range(Subtree(t, p)) = {}
  <1>1. DOMAIN t \subseteq Trails /\ p \in Trails /\ OnePlace(t)
    BY PathTrails DEF IsTree
  <1>2. /\ DOMAIN Cut(t, p) = {q \in DOMAIN t : ~Inside(q, p)}
        /\ \A q \in DOMAIN Cut(t, p) : Cut(t, p)[q] = t[q]
    BY CutIs
  <1>3. /\ DOMAIN Subtree(t, p) \subseteq Trails
        /\ \A s \in Trails : s \in DOMAIN Subtree(t, p) <=> p \o s \in DOMAIN t
        /\ \A s \in DOMAIN Subtree(t, p) : Subtree(t, p)[s] = t[p \o s]
    BY <1>1, SubtreeIs
  <1>4. ASSUME NEW q \in DOMAIN t
        PROVE  t[q] \in Range(Cut(t, p)) \cup Range(Subtree(t, p))
    <2>1. CASE Inside(q, p)
      <3>1. PICK s \in Trails : q = p \o s
        BY <1>1, <2>1, Split
      <3> QED BY <1>3, <3>1 DEF Range
    <2>2. CASE ~Inside(q, p)
      BY <1>2, <2>2 DEF Range
    <2> QED BY <2>1, <2>2
  <1>5. ASSUME NEW s \in DOMAIN Subtree(t, p)
        PROVE  Subtree(t, p)[s] \in Range(t) \ Range(Cut(t, p))
    <2>1. s \in Trails /\ p \o s \in DOMAIN t /\ Inside(p \o s, p)
      BY <1>1, <1>3, Joined
    <2>2. ASSUME NEW q \in DOMAIN Cut(t, p), t[q] = t[p \o s]
          PROVE  FALSE
      BY <1>1, <1>2, <2>1, <2>2 DEF OnePlace
    <2> QED BY <1>2, <1>3, <2>1, <2>2 DEF Range
  <1> QED BY <1>2, <1>4, <1>5 DEF Range

(* g is t and, at a path where there was room for it, an item.              *)
Joins(g, t, p, item) ==
    /\ IsTree(g)
    /\ Range(g) = Range(t) \cup Range(item)
    /\ DOMAIN t \subseteq DOMAIN g
    /\ Root \in DOMAIN item => p \in DOMAIN g
    /\ \A q \in Trails : HoldsFolder(t, q) => HoldsFolder(g, q)
    /\ Cut(g, p) = t
    /\ Subtree(g, p) = item

LEMMA GraftedTree ==
    ASSUME NEW t, IsTree(t), NEW p \in Paths, p \notin DOMAIN t,
           HoldsFolder(t, Front(p)), NEW item, IsItem(item, p),
           Range(t) \cap Range(item) = {}
    PROVE  Joins(Grafted(t, p, item), t, p, item)
  <1> DEFINE g == Grafted(t, p, item)
  <1>1. /\ DOMAIN t \subseteq Paths /\ DOMAIN t \subseteq Trails /\ OnePlace(t)
        /\ p \in Trails /\ DOMAIN item \subseteq Trails /\ OnePlace(item)
        /\ t \in [DOMAIN t -> Entries] /\ item \in [DOMAIN item -> Entries]
    BY PathTrails DEF IsTree, IsItem
  <1>2. \A q \in DOMAIN t : ~Inside(q, p)
    BY FreePath
  <1>3. ASSUME NEW s \in DOMAIN item
        PROVE  /\ p \o s \in Paths /\ p \o s \in Trails
               /\ Inside(p \o s, p) /\ p \o s \notin DOMAIN t
    <2>1. p \o s \in Paths
      BY DEF IsItem
    <2>2. s \in Trails
      BY <1>1
    <2> QED BY <1>1, <1>2, <2>1, <2>2, Joined
  <1>4. /\ DOMAIN t \subseteq DOMAIN g
        /\ \A s \in DOMAIN item : p \o s \in DOMAIN g
        /\ \A q \in DOMAIN g : q \in DOMAIN t \/ \E s \in DOMAIN item : q = p \o s
        /\ \A q \in DOMAIN t : g[q] = t[q]
        /\ \A s \in DOMAIN item : g[p \o s] = item[s]
        /\ g \in [DOMAIN g -> Entries]
    <2>1. Grafts(g, t, p, item)
      BY <1>1, GraftedIs
    <2> HIDE DEF g
    <2> QED BY <1>1, <1>3, <2>1 DEF Grafts
  <1> HIDE DEF g
  <1>5. ASSUME NEW q \in DOMAIN g
        PROVE  q \in Paths /\ g[q] \in Entries /\ g[q] \in Range(t) \cup Range(item)
    <2>1. CASE q \in DOMAIN t
      BY <1>1, <1>4, <2>1 DEF Range
    <2>2. CASE \E s \in DOMAIN item : q = p \o s
      <3>1. PICK s \in DOMAIN item : q = p \o s
        BY <2>2
      <3>2. g[q] = item[s] /\ q \in Paths
        BY <1>3, <1>4, <3>1
      <3> QED BY <1>1, <3>2 DEF Range
    <2> QED BY <1>4, <2>1, <2>2
  <1>6. Range(g) = Range(t) \cup Range(item)
    <2>1. \A q \in DOMAIN t : q \in DOMAIN g /\ t[q] = g[q]
      BY <1>4
    <2>2. \A s \in DOMAIN item : \E q \in DOMAIN g : item[s] = g[q]
      BY <1>4
    <2>3. Range(t) \subseteq Range(g) /\ Range(item) \subseteq Range(g)
      BY <2>1, <2>2 DEF Range
    <2>4. Range(g) \subseteq Range(t) \cup Range(item)
      BY <1>5 DEF Range
    <2> QED BY <2>3, <2>4
  <1>7. OnePlace(g)
    <2> SUFFICES ASSUME NEW x \in DOMAIN g, NEW y \in DOMAIN g, g[x] = g[y]
                 PROVE  x = y
      BY DEF OnePlace
    <2>1. CASE x \in DOMAIN t /\ y \in DOMAIN t
      BY <1>1, <1>4, <2>1 DEF OnePlace
    <2>2. ASSUME NEW a \in DOMAIN t, NEW s \in DOMAIN item
          PROVE  g[a] # g[p \o s]
      <3>1. t[a] \in Range(t) /\ item[s] \in Range(item)
        BY DEF Range
      <3> QED BY <1>4, <3>1
    <2>3. CASE x \notin DOMAIN t /\ y \notin DOMAIN t
      <3>1. PICK s \in DOMAIN item : x = p \o s
        BY <1>4, <2>3
      <3>2. PICK u \in DOMAIN item : y = p \o u
        BY <1>4, <2>3
      <3>3. item[s] = item[u]
        BY <1>4, <3>1, <3>2
      <3> QED BY <1>1, <3>1, <3>2, <3>3 DEF OnePlace
    <2>4. ASSUME NEW a \in DOMAIN t, NEW b \in DOMAIN g, b \notin DOMAIN t
          PROVE  g[a] # g[b]
      <3>1. PICK s \in DOMAIN item : b = p \o s
        BY <1>4, <2>4
      <3> QED BY <2>2, <3>1
    <2> QED BY <2>1, <2>3, <2>4
  <1>8. \A q \in Trails : HoldsFolder(t, q) => HoldsFolder(g, q)
    BY <1>4 DEF HoldsFolder
  <1>9. ASSUME NEW q \in DOMAIN g
        PROVE  HoldsFolder(g, Front(q))
    <2>1. CASE q \in DOMAIN t
      <3>1. HoldsFolder(t, Front(q)) /\ Front(q) \in Trails
        BY <1>1, <2>1, PathFronts DEF IsTree
      <3> QED BY <1>8, <3>1
    <2>2. CASE q \notin DOMAIN t
      <3>1. PICK s \in DOMAIN item : q = p \o s
        BY <1>4, <2>2
      <3>2. CASE s = Root
        <4>1. q = p /\ Front(p) \in Trails
          BY <1>1, <3>1, <3>2, Inserted, PathFronts
        <4> QED BY <1>8, <4>1
      <3>3. CASE s # Root
        <4>1. s \in Trails /\ Front(q) = p \o Front(s)
          BY <1>1, <3>1, <3>3, FrontInside
        <4>2. Front(s) \in DOMAIN item /\ item[Front(s)] \in Folders
          BY <3>3 DEF IsItem
        <4> QED BY <1>4, <4>1, <4>2 DEF HoldsFolder
      <3> QED BY <3>2, <3>3
    <2> QED BY <2>1, <2>2
  <1>10. IsTree(g)
    <2>1. g \in [DOMAIN g -> Entries] /\ DOMAIN g \subseteq Paths
      BY <1>4, <1>5
    <2> QED BY <1>7, <1>9, <2>1 DEF IsTree
  <1>11. ASSUME Root \in DOMAIN item
         PROVE  p \in DOMAIN g
    <2>1. p \o Root = p
      BY <1>1, Inserted
    <2> QED BY <1>4, <1>11, <2>1
  <1>12. Cut(g, p) = t
    <2>1. \A q \in DOMAIN g : Inside(q, p) <=> q \notin DOMAIN t
      BY <1>2, <1>3, <1>4
    <2>2. /\ DOMAIN Cut(g, p) = {q \in DOMAIN g : ~Inside(q, p)}
          /\ \A q \in DOMAIN Cut(g, p) : Cut(g, p)[q] = g[q]
          /\ Cut(g, p) \in [DOMAIN Cut(g, p) -> Entries]
      BY <1>10, CutIs DEF IsTree
    <2>3. DOMAIN Cut(g, p) = DOMAIN t
      BY <1>4, <2>1, <2>2
    <2> QED BY <1>1, <1>4, <2>2, <2>3
  <1>13. Subtree(g, p) = item
    <2>1. DOMAIN g \subseteq Trails
      BY <1>5, PathTrails
    <2>2. /\ DOMAIN Subtree(g, p) \subseteq Trails
          /\ \A s \in Trails : s \in DOMAIN Subtree(g, p) <=> p \o s \in DOMAIN g
          /\ \A s \in DOMAIN Subtree(g, p) : Subtree(g, p)[s] = g[p \o s]
          /\ Subtree(g, p) \in [DOMAIN Subtree(g, p) -> Entries]
      BY <1>1, <1>10, <2>1, SubtreeIs DEF IsTree
    <2>3. ASSUME NEW s \in Trails, p \o s \in DOMAIN g
          PROVE  s \in DOMAIN item
      <3>1. Inside(p \o s, p)
        BY <1>1, Joined
      <3>2. PICK u \in DOMAIN item : p \o s = p \o u
        BY <1>2, <1>4, <2>3, <3>1
      <3>3. s = u
        <4> p \in Trails /\ u \in Trails
          BY <1>1
        <4> QED BY <3>2, Cancels
      <3> QED BY <3>3
    <2>4. DOMAIN Subtree(g, p) = DOMAIN item
      BY <1>1, <1>4, <2>2, <2>3
    <2>5. \A s \in DOMAIN item : Subtree(g, p)[s] = item[s]
      BY <1>4, <2>2, <2>4
    <2> HIDE DEF IsItem
    <2>6. Subtree(g, p) \in [DOMAIN item -> Entries]
      BY <2>2, <2>4
    <2> QED BY <1>1, <2>5, <2>6
  <1>14. Joins(g, t, p, item)
    BY <1>4, <1>6, <1>8, <1>10, <1>11, <1>12, <1>13 DEF Joins
  <1> QED BY <1>14 DEF g

(* An entry put where there is room for it.                                 *)
Enters(w, t, p, e) ==
    /\ IsTree(w)
    /\ Range(w) = Range(t) \cup {e}
    /\ DOMAIN w = DOMAIN t \cup {p}
    /\ \A q \in DOMAIN t : w[q] = t[q]
    /\ w[p] = e
    /\ \A q \in Trails : HoldsFolder(t, q) => HoldsFolder(w, q)

LEMMA WithTree ==
    ASSUME NEW t, IsTree(t), NEW p \in Paths, p \notin DOMAIN t,
           HoldsFolder(t, Front(p)), NEW e \in Entries, e \notin Range(t)
    PROVE  Enters(With(t, p, e), t, p, e)
  <1> DEFINE w == With(t, p, e)
  <1>1. /\ DOMAIN w = DOMAIN t \cup {p}
        /\ \A q \in DOMAIN t : w[q] = t[q]
        /\ w[p] = e
        /\ t \in [DOMAIN t -> Entries] => w \in [DOMAIN w -> Entries]
    BY DEF With
  <1> HIDE DEF w
  <1>2. Range(w) = Range(t) \cup {e}
    BY <1>1 DEF Range
  <1>3. \A q \in Trails : HoldsFolder(t, q) => HoldsFolder(w, q)
    BY <1>1 DEF HoldsFolder
  <1>4. \A q \in DOMAIN w : HoldsFolder(w, Front(q))
    BY <1>1, <1>3, PathFronts DEF IsTree
  <1>5. OnePlace(w)
    BY <1>1 DEF IsTree, OnePlace, Range
  <1>6. IsTree(w)
    BY <1>1, <1>4, <1>5 DEF IsTree
  <1>7. Enters(w, t, p, e)
    BY <1>1, <1>2, <1>3, <1>6 DEF Enters
  <1> QED BY <1>7 DEF w

(* The folder for a new entry is there or is made.                          *)
LEMMA Parented ==
    ASSUME NEW t, IsTree(t), NEW p \in Paths, p \notin DOMAIN t,
           MayHoldFolder(t, Front(p)), NEW fresh,
           fresh \subseteq Entries, fresh \cap Range(t) = {},
           NEW u \in WithParent(t, p, fresh)
    PROVE  /\ IsTree(u)
           /\ Range(t) \subseteq Range(u) /\ Range(u) \subseteq Range(t) \cup fresh
           /\ p \notin DOMAIN u
           /\ HoldsFolder(u, Front(p))
           /\ u = t \/ \E f \in fresh : /\ Front(p) \in Paths \ DOMAIN t
                                        /\ HoldsFolder(t, Front(Front(p)))
                                        /\ u = With(t, Front(p), f)
  <1>1. CASE HoldsFolder(t, Front(p))
    BY <1>1 DEF WithParent
  <1>2. CASE ~HoldsFolder(t, Front(p))
    <2>1. PICK f \in Folders \cap fresh : u = With(t, Front(p), f)
      BY <1>2 DEF WithParent
    <2>2. /\ Front(p) \in Paths /\ Front(p) \notin DOMAIN t /\ Front(p) # p
          /\ Front(Front(p)) = Root
      BY <1>2, PathFronts DEF HoldsFolder, MayHoldFolder
    <2>3. HoldsFolder(t, Front(Front(p)))
      BY <2>2 DEF HoldsFolder
    <2>4. f \in Entries /\ f \notin Range(t)
      OBVIOUS
    <2>5. /\ IsTree(u)
          /\ Range(u) = Range(t) \cup {f}
          /\ DOMAIN u = DOMAIN t \cup {Front(p)}
          /\ u[Front(p)] = f
      <3>1. Enters(u, t, Front(p), f)
        BY <2>1, <2>2, <2>3, <2>4, WithTree
      <3> QED BY <3>1 DEF Enters
    <2> QED BY <2>1, <2>2, <2>3, <2>5 DEF HoldsFolder
  <1> QED BY <1>1, <1>2

LEMMA Entered ==
    ASSUME NEW t, IsTree(t), NEW p \in Paths, p \notin DOMAIN t,
           MayHoldFolder(t, Front(p)), NEW fresh,
           fresh \subseteq Entries, fresh \cap Range(t) = {},
           NEW w \in WithEntry(t, p, fresh)
    PROVE  /\ IsTree(w)
           /\ Range(t) \subseteq Range(w) /\ Range(w) \subseteq Range(t) \cup fresh
  <1>1. PICK u \in WithParent(t, p, fresh) : \E e \in fresh \ Range(u) : w = With(u, p, e)
    BY DEF WithEntry
  <1>2. PICK e \in fresh \ Range(u) : w = With(u, p, e)
    BY <1>1
  <1>3. /\ IsTree(u) /\ p \notin DOMAIN u /\ HoldsFolder(u, Front(p))
        /\ Range(t) \subseteq Range(u) /\ Range(u) \subseteq Range(t) \cup fresh
    BY Parented
  <1>4. e \in Entries /\ e \notin Range(u)
    OBVIOUS
  <1>5. Enters(w, u, p, e)
    BY <1>2, <1>3, <1>4, WithTree
  <1> QED BY <1>3, <1>5 DEF Enters

(* What is left of an item has the folders that are left above it.          *)
LEMMA Remains ==
    ASSUME NEW p, NEW item, IsItem(item, p), NEW rest \in Remainders(item)
    PROVE  IsItem(rest, p) /\ Range(rest) \subseteq Range(item)
  <1>1. PICK kept \in SUBSET DOMAIN item :
          /\ \A x \in kept, y \in DOMAIN item : Inside(x, y) => y \in kept
          /\ rest = Restrict(item, kept)
    BY DEF Remainders
  <1>2. /\ DOMAIN rest = kept
        /\ \A s \in kept : rest[s] = item[s]
        /\ rest \in [kept -> Entries]
    BY <1>1 DEF Restrict, IsItem
  <1>3. ASSUME NEW s \in kept
        PROVE  /\ p \o s \in Paths /\ Root \in kept
               /\ s # Root => Front(s) \in kept /\ item[Front(s)] \in Folders
    <2>1. /\ s \in Trails /\ p \o s \in Paths /\ Root \in DOMAIN item
          /\ s # Root => Front(s) \in DOMAIN item /\ item[Front(s)] \in Folders
      BY DEF IsItem
    <2>2. Inside(s, Root)
      BY <2>1, PathTrails, Inserted
    <2>3. s # Root => Inside(s, Front(s))
      BY <2>1, Fronts
    <2> QED BY <1>1, <2>1, <2>2, <2>3
  <1>4. OnePlace(rest)
    BY <1>2 DEF IsItem, OnePlace
  <1>5. IsItem(rest, p)
    BY <1>2, <1>3, <1>4 DEF IsItem
  <1> QED BY <1>2, <1>5 DEF Range

LEMMA Nothings ==
    /\ DOMAIN Nothing = {} /\ Range(Nothing) = {}
    /\ IsTree(Nothing)
    /\ \A p : IsItem(Nothing, p)
    /\ \A item, p : IsItem(item, p) /\ item # Nothing => Root \in DOMAIN item
  <1>1. DOMAIN Nothing = {}
    BY DEF Nothing
  <1>2. Range(Nothing) = {}
    BY <1>1 DEF Range
  <1>3. Nothing \in [DOMAIN Nothing -> Entries]
    BY DEF Nothing
  <1>4. IsTree(Nothing)
    BY <1>1, <1>3 DEF IsTree, OnePlace
  <1>5. \A p : IsItem(Nothing, p)
    BY <1>1, <1>3 DEF IsItem, OnePlace
  <1>6. ASSUME NEW item, NEW p, IsItem(item, p), Root \notin DOMAIN item
        PROVE  item = Nothing
    <2>1. DOMAIN item = {} /\ item \in [DOMAIN item -> Entries]
      BY <1>6 DEF IsItem
    <2> QED BY <2>1 DEF Nothing
  <1> QED BY <1>1, <1>2, <1>4, <1>5, <1>6

-----------------------------------------------------------------------------
(* The project and the trash together. *)

IsBox(c) ==
    /\ c = [path |-> c.path, meta |-> c.meta, item |-> c.item, manifest |-> c.manifest]
    /\ c.path \in Paths
    /\ IsItem(c.item, c.path)

(* An entry that was made is at one place only, and unless its deletion was *)
(* asked for that is a place at which the operator finds it.                *)
Stored(t, boxes, m, a) ==
    /\ IsTree(t)
    /\ \A c \in boxes : IsBox(c) /\ Range(t) \cap Range(c.item) = {}
    /\ \A c, d \in boxes : c # d => Range(c.item) \cap Range(d.item) = {}
    /\ m \subseteq Entries
    /\ Range(t) \subseteq m
    /\ \A c \in boxes : Range(c.item) \subseteq m
    /\ \A e \in m \ a :
          e \in Range(t) \/ \E c \in boxes : c.manifest /\ e \in Range(c.item)

(* New entries are made.                                                    *)
LEMMA StoresNew ==
    ASSUME NEW t, NEW boxes, NEW m, NEW a, Stored(t, boxes, m, a), NEW w, IsTree(w),
           Range(t) \subseteq Range(w), Range(w) \subseteq Range(t) \cup (Entries \ m)
    PROVE  Stored(w, boxes, m \cup Range(w), a)
  <1>1. \A c \in boxes : IsBox(c) /\ Range(w) \cap Range(c.item) = {}
    BY DEF Stored
  <1>2. /\ m \cup Range(w) \subseteq Entries /\ Range(w) \subseteq m \cup Range(w)
        /\ \A c \in boxes : Range(c.item) \subseteq m \cup Range(w)
    BY DEF Stored
  <1>3. \A e \in (m \cup Range(w)) \ a :
          e \in Range(w) \/ \E c \in boxes : c.manifest /\ e \in Range(c.item)
    BY DEF Stored
  <1> QED BY <1>1, <1>2, <1>3 DEF Stored

(* Entries change their places in the project.                              *)
LEMMA StoresMoved ==
    ASSUME NEW t, NEW boxes, NEW m, NEW a, Stored(t, boxes, m, a), NEW w, IsTree(w),
           Range(w) = Range(t)
    PROVE  Stored(w, boxes, m, a)
  BY DEF Stored

(* There is one more container, and nothing in it.                          *)
LEMMA StoresBox ==
    ASSUME NEW t, NEW boxes, NEW m, NEW a, Stored(t, boxes, m, a), NEW x, IsBox(x),
           x.item = Nothing
    PROVE  Stored(t, boxes \cup {x}, m, a)
  <1>1. Range(x.item) = {}
    BY Nothings
  <1> QED BY <1>1 DEF Stored

(* There is one container less, and there was nothing in it.                *)
LEMMA StoresLess ==
    ASSUME NEW t, NEW boxes, NEW m, NEW a, Stored(t, boxes, m, a), NEW x,
           x.item = Nothing
    PROVE  Stored(t, boxes \ {x}, m, a)
  <1>1. Range(x.item) = {}
    BY Nothings
  <1>2. \A e \in m \ a :
          e \in Range(t) \/ \E c \in boxes \ {x} : c.manifest /\ e \in Range(c.item)
    BY <1>1 DEF Stored
  <1> QED BY <1>2 DEF Stored

(* The entries of the project and of one container are shared out anew.     *)
LEMMA StoresShared ==
    ASSUME NEW t, NEW boxes, NEW m, NEW a, Stored(t, boxes, m, a),
           NEW x \in boxes, NEW y, IsBox(y), y.manifest \/ y.item = Nothing,
           NEW w, IsTree(w),
           Range(w) \cup Range(y.item) = Range(t) \cup Range(x.item),
           Range(w) \cap Range(y.item) = {}
    PROVE  Stored(w, (boxes \ {x}) \cup {y}, m, a)
  <1> DEFINE B == (boxes \ {x}) \cup {y}
  <1>1. \A d \in boxes \ {x} : /\ IsBox(d)
                              /\ Range(w) \cap Range(d.item) = {}
                              /\ Range(y.item) \cap Range(d.item) = {}
                              /\ Range(d.item) \subseteq m
    BY DEF Stored
  <1>2. Range(w) \subseteq m /\ Range(y.item) \subseteq m /\ m \subseteq Entries
    BY DEF Stored
  <1>3. \A c, d \in B : c # d => Range(c.item) \cap Range(d.item) = {}
    BY <1>1 DEF Stored
  <1>4. ASSUME NEW e \in m \ a, e \notin Range(w)
        PROVE  \E c \in B : c.manifest /\ e \in Range(c.item)
    <2>1. CASE e \in Range(y.item)
      BY <2>1, Nothings
    <2>2. CASE e \notin Range(y.item)
      <3>1. e \notin Range(t) /\ e \notin Range(x.item)
        BY <1>4, <2>2
      <3> QED BY <3>1 DEF Stored
    <2> QED BY <2>1, <2>2
  <1> QED BY <1>1, <1>2, <1>3, <1>4 DEF Stored

(* What is deleted, all or in part, was to be deleted.                      *)
LEMMA StoresPurged ==
    ASSUME NEW t, NEW boxes, NEW m, NEW a, Stored(t, boxes, m, a),
           NEW chosen \in SUBSET boxes
    PROVE  Stored(t, boxes \ chosen, m, a \cup UNION {Range(c.item) : c \in chosen})
  <1> DEFINE U == UNION {Range(c.item) : c \in chosen}
  <1>1. \A c \in chosen : Range(c.item) \subseteq U
    OBVIOUS
  <1> HIDE DEF U
  <1>2. \A e \in m \ (a \cup U) :
          e \in Range(t) \/ \E c \in boxes \ chosen : c.manifest /\ e \in Range(c.item)
    BY <1>1 DEF Stored
  <1>3. Stored(t, boxes \ chosen, m, a \cup U)
    BY <1>2 DEF Stored
  <1> QED BY <1>3 DEF U

LEMMA StoresRest ==
    ASSUME NEW t, NEW boxes, NEW m, NEW a, Stored(t, boxes, m, a),
           NEW chosen \in SUBSET boxes, NEW gone \in SUBSET chosen,
           NEW x \in chosen, NEW y, IsBox(y), Range(y.item) \subseteq Range(x.item)
    PROVE  Stored(t, (boxes \ (gone \cup {x})) \cup {y}, m,
                  a \cup UNION {Range(c.item) : c \in chosen})
  <1> DEFINE U == UNION {Range(c.item) : c \in chosen}
             B == (boxes \ (gone \cup {x})) \cup {y}
  <1>1. \A c \in chosen : Range(c.item) \subseteq U
    OBVIOUS
  <1> HIDE DEF U
  <1>2. \A c \in B : IsBox(c) /\ Range(t) \cap Range(c.item) = {} /\ Range(c.item) \subseteq m
    BY DEF Stored
  <1>3. \A c, d \in B : c # d => Range(c.item) \cap Range(d.item) = {}
    BY DEF Stored
  <1>4. \A e \in m \ (a \cup U) :
          e \in Range(t) \/ \E c \in B : c.manifest /\ e \in Range(c.item)
    BY <1>1 DEF Stored
  <1>5. Stored(t, B, m, a \cup U)
    BY <1>2, <1>3, <1>4 DEF Stored
  <1> QED BY <1>5 DEF U

-----------------------------------------------------------------------------
(* The invariant. *)

(* There is room at a path.                                                 *)
Room(t, path) == path \notin DOMAIN t /\ HoldsFolder(t, Front(path))

Held(r, boxes) == r.box \in boxes /\ r.box.path = r.path

(* What the request in progress relies on at each of its places.            *)
InPlace(r, t, boxes) ==
    /\ r = [at |-> r.at, path |-> r.path, dest |-> r.dest, box |-> r.box]
    /\ r.path \in Paths
    /\ r.at \in {"remap", "rename back"} =>
          /\ r.dest \in DOMAIN t
          /\ Room(Cut(t, r.dest), r.path)
          /\ \A s \in DOMAIN Subtree(t, r.dest) : r.path \o s \in Paths
    /\ r.at = "take" =>
          /\ Held(r, boxes) /\ r.box.manifest /\ r.box.item = Nothing
          /\ r.path \in DOMAIN t
    /\ r.at \in {"forget", "take back", "return", "forget again"} =>
          /\ Held(r, boxes) /\ r.box.manifest /\ r.box.item # Nothing
          /\ Room(t, r.path)
    /\ r.at = "recall cards" => Held(r, boxes) /\ r.box.item = Nothing
    /\ r.at \in {"put back", "return again", "drop"} =>
          /\ Held(r, boxes) /\ r.box.manifest /\ r.box.item = Nothing
          /\ r.path \in DOMAIN t

StoredInv == Stored(tree, trash, made, asked)

PlaceInv == req # Idle => InPlace(req, tree, trash)

Inv == StoredInv /\ PlaceInv

LEMMA Placed ==
    ASSUME PlaceInv, NEW place, At(place), place # "idle"
    PROVE  /\ req # Idle /\ InPlace(req, tree, trash) /\ req.at = place
           /\ req.path \in Paths
           /\ req = [at |-> place, path |-> req.path, dest |-> req.dest, box |-> req.box]
  <1>1. req # Idle /\ req.at = place /\ InPlace(req, tree, trash)
    BY DEF At, PlaceInv, Idle
  <1> QED BY <1>1 DEF InPlace

(* The request goes on.                                                     *)
LEMMA GoesOn ==
    ASSUME NEW r, NEW at,
           r = [at |-> r.at, path |-> r.path, dest |-> r.dest, box |-> r.box]
    PROVE  /\ [r EXCEPT !.at = at]
                 = [at |-> at, path |-> r.path, dest |-> r.dest, box |-> r.box]
           /\ \A box : [r EXCEPT !.at = at, !.box = box]
                 = [at |-> at, path |-> r.path, dest |-> r.dest, box |-> box]
  <1>1. [r EXCEPT !.at = at]
          = [at |-> at, path |-> r.path, dest |-> r.dest, box |-> r.box]
    OBVIOUS
  <1>2. ASSUME NEW box
        PROVE  [r EXCEPT !.at = at, !.box = box]
                 = [at |-> at, path |-> r.path, dest |-> r.dest, box |-> box]
    <2> DEFINE r1 == [r EXCEPT !.at = at]
    <2>1. r1 = [at |-> at, path |-> r.path, dest |-> r.dest, box |-> r.box]
      BY <1>1
    <2>2. [r EXCEPT !.at = at, !.box = box] = [r1 EXCEPT !.box = box]
      OBVIOUS
    <2> HIDE DEF r1
    <2>3. [r1 EXCEPT !.box = box]
            = [at |-> at, path |-> r.path, dest |-> r.dest, box |-> box]
      BY <2>1
    <2> QED BY <2>2, <2>3
  <1> QED BY <1>1, <1>2

LEMMA Boxes ==
    ASSUME NEW box, IsBox(box)
    PROVE  /\ \A item : [box EXCEPT !.item = item]
                 = [path |-> box.path, meta |-> box.meta, item |-> item,
                    manifest |-> box.manifest]
           /\ \A manifest : [box EXCEPT !.manifest = manifest]
                 = [path |-> box.path, meta |-> box.meta, item |-> box.item,
                    manifest |-> manifest]
  <1>1. box = [path |-> box.path, meta |-> box.meta, item |-> box.item,
               manifest |-> box.manifest]
    BY DEF IsBox
  <1> QED BY <1>1

(* A request that ends relies on nothing.                                   *)
LEMMA EndsPlace == Ends => PlaceInv'
  BY DEF Ends, PlaceInv

(* The way back of a rename, from where the entry is now.                   *)
LEMMA WayBack ==
    ASSUME NEW t, IsTree(t), NEW p \in DOMAIN t, NEW q \in Paths,
           q \notin DOMAIN t, ~Inside(q, p), HoldsFolder(t, Front(q)),
           \A s \in DOMAIN Subtree(t, p) : q \o s \in Paths,
           NEW w, w = Grafted(Cut(t, p), q, Subtree(t, p))
    PROVE  /\ IsTree(w) /\ Range(w) = Range(t)
           /\ q \in DOMAIN w
           /\ Room(Cut(w, q), p)
           /\ \A s \in DOMAIN Subtree(w, q) : p \o s \in Paths
           /\ Cut(w, q) = Cut(t, p) /\ Subtree(w, q) = Subtree(t, p)
  <1>1. p \in Paths /\ p \in Trails /\ q \in Trails
    BY PathTrails DEF IsTree
  <1>2. Front(q) \in Trails /\ Inside(q, Front(q)) /\ q \in Trails
    BY PathFronts
  <1>3. ~Inside(Front(q), p)
    BY <1>1, <1>2, Inserted
  <1>4. /\ IsTree(Cut(t, p)) /\ p \notin DOMAIN Cut(t, p)
        /\ HoldsFolder(Cut(t, p), Front(q))
    BY <1>1, <1>2, <1>3, CutTree
  <1>5. q \notin DOMAIN Cut(t, p)
    BY CutIs
  <1>6. IsItem(Subtree(t, p), q) /\ Root \in DOMAIN Subtree(t, p)
    BY SubtreeItem
  <1>7. /\ Range(t) = Range(Cut(t, p)) \cup Range(Subtree(t, p))
        /\ Range(Cut(t, p)) \cap Range(Subtree(t, p)) = {}
    BY <1>1, Parts
  <1>8. Joins(w, Cut(t, p), q, Subtree(t, p))
    BY <1>4, <1>5, <1>6, <1>7, GraftedTree
  <1>9. /\ IsTree(w) /\ Range(w) = Range(t) /\ q \in DOMAIN w
        /\ Cut(w, q) = Cut(t, p) /\ Subtree(w, q) = Subtree(t, p)
    BY <1>6, <1>7, <1>8 DEF Joins
  <1>10. HoldsFolder(Cut(t, p), Front(p))
    <2>1. Front(p) \in Trails /\ Inside(p, Front(p)) /\ Front(p) # p
      BY <1>1, PathFronts
    <2>2. ~Inside(Front(p), p)
      BY <1>1, <2>1, Inserted
    <2>3. HoldsFolder(t, Front(p))
      BY DEF IsTree
    <2> QED BY <1>1, <2>1, <2>2, <2>3, CutTree
  <1>11. \A s \in DOMAIN Subtree(t, p) : p \o s \in Paths
    BY OwnItem DEF IsItem
  <1> QED BY <1>4, <1>9, <1>10, <1>11 DEF Room

-----------------------------------------------------------------------------
(* Each action keeps it. *)

LEMMA CreateStep ==
    ASSUME Inv, NEW p \in Paths, Create(p) \/ CreateFails(p)
    PROVE  Inv'
  <1> DEFINE fresh == Entries \ made
  <1>1. /\ IsTree(tree) /\ fresh \subseteq Entries /\ fresh \cap Range(tree) = {}
        /\ p \notin DOMAIN tree /\ MayHoldFolder(tree, Front(p))
    BY DEF Inv, StoredInv, Stored, Create, CreateFails
  <1>2. /\ made' = made \cup Range(tree') /\ UNCHANGED <<trash, asked>> /\ Ends
        /\ tree' \in WithEntry(tree, p, fresh) \/ tree' \in WithParent(tree, p, fresh)
    BY DEF Create, CreateFails
  <1> HIDE DEF fresh
  <1>3. /\ IsTree(tree') /\ Range(tree) \subseteq Range(tree')
        /\ Range(tree') \subseteq Range(tree) \cup fresh
    <2>1. CASE tree' \in WithEntry(tree, p, fresh)
      BY <1>1, <2>1, Entered
    <2>2. CASE tree' \in WithParent(tree, p, fresh)
      BY <1>1, <2>2, Parented
    <2> QED BY <1>2, <2>1, <2>2
  <1>4. Stored(tree', trash, made \cup Range(tree'), asked)
    BY <1>3, StoresNew DEF Inv, StoredInv, fresh
  <1>5. StoredInv'
    BY <1>2, <1>4 DEF StoredInv
  <1> QED BY <1>2, <1>5, EndsPlace DEF Inv

(* A step that ends the request, and at most writes notes.                  *)
LEMMA NotesStep ==
    ASSUME Inv, UNCHANGED <<tree, trash, made, asked>>, Ends
    PROVE  Inv'
  <1>1. StoredInv'
    BY DEF Inv, StoredInv
  <1> QED BY <1>1, EndsPlace DEF Inv

LEMMA RelocateStep ==
    ASSUME Inv, NEW p, NEW q \in Paths, HoldsFolder(tree, Front(q)), Relocate(p, q)
    PROVE  Inv'
  <1>1. /\ IsTree(tree) /\ p \in DOMAIN tree /\ q \notin DOMAIN tree /\ ~Inside(q, p)
        /\ \A s \in DOMAIN Subtree(tree, p) : q \o s \in Paths
        /\ tree' = Grafted(Cut(tree, p), q, Subtree(tree, p))
        /\ req' = [at |-> "remap", path |-> p, dest |-> q, box |-> None]
        /\ UNCHANGED <<trash, made, asked>>
    BY DEF Inv, StoredInv, Stored, Relocate, Begins
  <1>2. /\ IsTree(tree') /\ Range(tree') = Range(tree) /\ q \in DOMAIN tree'
        /\ Room(Cut(tree', q), p)
        /\ \A s \in DOMAIN Subtree(tree', q) : p \o s \in Paths
    BY <1>1, WayBack
  <1>3. StoredInv'
    BY <1>1, <1>2, StoresMoved DEF Inv, StoredInv
  <1>4. InPlace(req', tree', trash')
    <2>1. /\ req'.at = "remap" /\ req'.path = p /\ req'.dest = q /\ req'.box = None
      BY <1>1
    <2>2. p \in Paths
      BY <1>1 DEF IsTree
    <2> QED BY <1>1, <1>2, <2>1, <2>2 DEF InPlace
  <1> QED BY <1>3, <1>4 DEF Inv, PlaceInv

(* Where a rename takes an entry, and where a move does.                    *)
LEMMA RenameTo ==
    ASSUME Inv, NEW p \in Paths, NEW name \in Names, Rename(p, name)
    PROVE  LET q == Append(Front(p), name)
           IN  q \in Paths /\ HoldsFolder(tree, Front(q)) /\ Relocate(p, q)
  <1> DEFINE q == Append(Front(p), name)
  <1>1. IsTree(tree) /\ p \in DOMAIN tree
    BY DEF Inv, StoredInv, Stored, Rename, Relocate
  <1>2. Front(p) \in Trails /\ q \in Trails /\ Front(q) = Front(p)
    BY PathFronts, Fronts
  <1>3. HoldsFolder(tree, Front(q))
    BY <1>1, <1>2 DEF IsTree
  <1>4. q \in Paths
    <2>1. Root \in DOMAIN Subtree(tree, p) /\ q \o Root = q
      BY <1>1, <1>2, OwnItem, Inserted
    <2> QED BY <2>1 DEF Rename, Relocate
  <1>5. Relocate(p, q)
    BY DEF Rename
  <1> QED BY <1>3, <1>4, <1>5

LEMMA MoveTo ==
    ASSUME Inv, NEW p \in Paths, NEW folder \in Paths \cup {Root}, Move(p, folder)
    PROVE  LET q == Append(folder, Last(p))
           IN  q \in Paths /\ HoldsFolder(tree, Front(q)) /\ Relocate(p, q)
  <1> DEFINE q == Append(folder, Last(p))
  <1>1. IsTree(tree) /\ p \in DOMAIN tree /\ HoldsFolder(tree, folder)
    BY DEF Inv, StoredInv, Stored, Move, Relocate
  <1>2. folder \in Trails /\ Last(p) \in Names
    <2>1. p \in Seq(Names) /\ p # << >>
      BY PathTrails DEF Trails, Root
    <2>2. Len(p) \in 1 .. Len(p)
      BY <2>1, EmptySeq
    <2> QED BY <2>1, <2>2, ElementOfSeq, PathTrails DEF Last
  <1>3. q \in Trails /\ Front(q) = folder
    BY <1>2, Fronts
  <1>4. q \in Paths
    <2>1. Root \in DOMAIN Subtree(tree, p) /\ q \o Root = q
      BY <1>1, <1>3, OwnItem, Inserted
    <2> QED BY <2>1 DEF Move, Relocate
  <1>5. Relocate(p, q)
    BY DEF Move
  <1> QED BY <1>1, <1>3, <1>4, <1>5

LEMMA RenameStep ==
    ASSUME Inv, NEW p \in Paths, NEW name \in Names, Rename(p, name)
    PROVE  Inv'
  <1> DEFINE q == Append(Front(p), name)
  <1>1. q \in Paths /\ HoldsFolder(tree, Front(q)) /\ Relocate(p, q)
    BY RenameTo
  <1> HIDE DEF q
  <1> QED BY <1>1, RelocateStep

LEMMA MoveStep ==
    ASSUME Inv, NEW p \in Paths, NEW folder \in Paths \cup {Root}, Move(p, folder)
    PROVE  Inv'
  <1> DEFINE q == Append(folder, Last(p))
  <1>1. q \in Paths /\ HoldsFolder(tree, Front(q)) /\ Relocate(p, q)
    BY MoveTo
  <1> HIDE DEF q
  <1> QED BY <1>1, RelocateStep

(* A step to a place that relies on no more than the place before it.       *)
LEMMA GoesStep ==
    ASSUME Inv, NEW place, At(place), NEW next, Goes(next),
           \/ place = "remap" /\ next = "rename back"
           \/ place = "forget" /\ next = "take back"
           \/ place = "put back" /\ next \in {"drop", "return again"},
           UNCHANGED <<tree, trash, made, asked>>
    PROVE  Inv'
  <1>1. PlaceInv /\ req' = [req EXCEPT !.at = next]
    BY DEF Inv, Goes
  <1>2. /\ InPlace(req, tree, trash) /\ req.at = place
        /\ req = [at |-> place, path |-> req.path, dest |-> req.dest, box |-> req.box]
    BY <1>1, Placed
  <1>3. req' = [at |-> next, path |-> req.path, dest |-> req.dest, box |-> req.box]
    BY <1>1, <1>2, GoesOn
  <1>4. /\ req'.at = next /\ req'.path = req.path
        /\ req'.dest = req.dest /\ req'.box = req.box
    BY <1>3
  <1>5. InPlace(req', tree, trash)
    BY <1>2, <1>3, <1>4 DEF InPlace, Held
  <1>6. StoredInv' /\ PlaceInv'
    BY <1>5 DEF Inv, StoredInv, PlaceInv
  <1> QED BY <1>6 DEF Inv

LEMMA RenameBackStep ==
    ASSUME Inv, RenameBack
    PROVE  Inv'
  <1> DEFINE p == req.path
             q == req.dest
  <1>1. /\ PlaceInv /\ At("rename back") /\ IsTree(tree)
        /\ req' = [req EXCEPT !.at = "remap back"]
        /\ tree' = Grafted(Cut(tree, q), p, Subtree(tree, q))
        /\ UNCHANGED <<trash, made, asked>>
    BY DEF Inv, RenameBack, Goes, StoredInv, Stored
  <1>2. /\ InPlace(req, tree, trash) /\ req.at = "rename back" /\ p \in Paths
        /\ req = [at |-> "rename back", path |-> p, dest |-> q, box |-> req.box]
    BY <1>1, Placed
  <1>3. /\ q \in DOMAIN tree /\ Room(Cut(tree, q), p)
        /\ \A s \in DOMAIN Subtree(tree, q) : p \o s \in Paths
    BY <1>2 DEF InPlace
  <1>4. req' = [at |-> "remap back", path |-> p, dest |-> q, box |-> req.box]
    BY <1>1, <1>2, GoesOn
  <1>5. q \in Paths
    BY <1>1, <1>3 DEF IsTree
  <1> HIDE DEF p, q
  <1>6. IsItem(Subtree(tree, q), p)
    BY <1>1, <1>3, SubtreeItem
  <1>7. /\ Range(tree) = Range(Cut(tree, q)) \cup Range(Subtree(tree, q))
        /\ Range(Cut(tree, q)) \cap Range(Subtree(tree, q)) = {}
    BY <1>1, <1>5, Parts
  <1>8. IsTree(Cut(tree, q))
    BY <1>1, <1>5, CutTree
  <1>9. Joins(tree', Cut(tree, q), p, Subtree(tree, q))
    BY <1>1, <1>2, <1>3, <1>6, <1>7, <1>8, GraftedTree DEF Room
  <1>10. IsTree(tree') /\ Range(tree') = Range(tree)
    BY <1>7, <1>9 DEF Joins
  <1>11. StoredInv'
    BY <1>1, <1>10, StoresMoved DEF Inv, StoredInv
  <1>12. req'.at = "remap back" /\ req'.path = p /\ req'.dest = q /\ req'.box = req.box
    BY <1>4
  <1>13. InPlace(req', tree', trash')
    BY <1>2, <1>4, <1>12 DEF InPlace
  <1> QED BY <1>11, <1>13 DEF Inv, PlaceInv

LEMMA DiscardStep ==
    ASSUME Inv, NEW p \in Paths, Discard(p)
    PROVE  Inv'
  <1> DEFINE box == Container(p, Snapshot(p))
  <1>1. /\ p \in DOMAIN tree
        /\ req' = [at |-> "take", path |-> p, dest |-> None, box |-> box]
        /\ trash' = trash \cup {box}
        /\ UNCHANGED <<tree, made, asked>>
    BY DEF Discard, Begins
  <1>2. /\ box.path = p /\ box.item = Nothing /\ box.manifest = TRUE
        /\ box = [path |-> box.path, meta |-> box.meta, item |-> box.item,
                  manifest |-> box.manifest]
    BY DEF Container
  <1> HIDE DEF box
  <1>3. IsBox(box)
    BY <1>2, Nothings DEF IsBox
  <1>4. StoredInv'
    BY <1>1, <1>2, <1>3, StoresBox DEF Inv, StoredInv
  <1>5. req'.at = "take" /\ req'.path = p /\ req'.dest = None /\ req'.box = box
    BY <1>1
  <1>6. InPlace(req', tree', trash')
    BY <1>1, <1>2, <1>5 DEF InPlace, Held
  <1> QED BY <1>4, <1>6 DEF Inv, PlaceInv

(* The container of the request with something else in it.                  *)
LEMMA BoxOf ==
    ASSUME Inv, req.box \in trash
    PROVE  /\ IsBox(req.box)
           /\ Range(tree) \cap Range(req.box.item) = {}
           /\ \A item : /\ Filled(req.box, item).path = req.box.path
                        /\ Filled(req.box, item).meta = req.box.meta
                        /\ Filled(req.box, item).item = item
                        /\ Filled(req.box, item).manifest = req.box.manifest
                        /\ IsItem(item, req.box.path) => IsBox(Filled(req.box, item))
           /\ \A manifest :
                 LET box == [req.box EXCEPT !.manifest = manifest]
                 IN  /\ box.path = req.box.path /\ box.meta = req.box.meta
                     /\ box.item = req.box.item /\ box.manifest = manifest
                     /\ IsBox(box)
  <1>1. /\ IsBox(req.box) /\ Range(tree) \cap Range(req.box.item) = {}
    BY DEF Inv, StoredInv, Stored
  <1>2. req.box.path \in Paths /\ IsItem(req.box.item, req.box.path)
    BY <1>1 DEF IsBox
  <1>3. ASSUME NEW item
        PROVE  /\ Filled(req.box, item).path = req.box.path
               /\ Filled(req.box, item).meta = req.box.meta
               /\ Filled(req.box, item).item = item
               /\ Filled(req.box, item).manifest = req.box.manifest
               /\ IsItem(item, req.box.path) => IsBox(Filled(req.box, item))
    <2> DEFINE b == Filled(req.box, item)
    <2>1. b = [path |-> req.box.path, meta |-> req.box.meta, item |-> item,
               manifest |-> req.box.manifest]
      BY <1>1, Boxes DEF Filled
    <2> HIDE DEF b
    <2>2. /\ b.path = req.box.path /\ b.meta = req.box.meta
          /\ b.item = item /\ b.manifest = req.box.manifest
      BY <2>1
    <2>3. IsItem(item, req.box.path) => IsBox(b)
      BY <1>2, <2>1, <2>2 DEF IsBox
    <2> QED BY <2>2, <2>3 DEF b
  <1>4. ASSUME NEW manifest
        PROVE  LET box == [req.box EXCEPT !.manifest = manifest]
               IN  /\ box.path = req.box.path /\ box.meta = req.box.meta
                   /\ box.item = req.box.item /\ box.manifest = manifest
                   /\ IsBox(box)
    <2> DEFINE b == [req.box EXCEPT !.manifest = manifest]
    <2>1. b = [path |-> req.box.path, meta |-> req.box.meta, item |-> req.box.item,
               manifest |-> manifest]
      BY <1>1, Boxes
    <2> HIDE DEF b
    <2>2. /\ b.path = req.box.path /\ b.meta = req.box.meta
          /\ b.item = req.box.item /\ b.manifest = manifest
      BY <2>1
    <2>3. IsBox(b)
      BY <1>2, <2>1, <2>2 DEF IsBox
    <2> QED BY <2>2, <2>3 DEF b
  <1> QED BY <1>1, <1>3, <1>4

(* The entries at the path of the request go into its container.            *)
LEMMA TakesEntry ==
    ASSUME Inv, NEW place, At(place), place # "idle",
           Held(req, trash), req.box.manifest,
           req.box.item = Nothing, req.path \in DOMAIN tree,
           tree' = Cut(tree, req.path),
           NEW next \in {"forget", "forget again"},
           GoesWith(next, Filled(req.box, Subtree(tree, req.path))),
           UNCHANGED <<made, asked>>
    PROVE  Inv'
  <1> DEFINE p == req.path
             item == Subtree(tree, p)
             box == Filled(req.box, item)
  <1>1. /\ IsTree(tree) /\ p \in Paths /\ p \in DOMAIN tree
        /\ req = [at |-> place, path |-> p, dest |-> req.dest, box |-> req.box]
        /\ req.box \in trash /\ req.box.path = p
    BY Placed DEF Inv, StoredInv, Stored, Held
  <1>2. IsItem(item, p) /\ Root \in DOMAIN item
    BY <1>1, OwnItem
  <1>3. /\ box.path = p /\ box.item = item /\ box.manifest = req.box.manifest /\ IsBox(box)
    BY <1>1, <1>2, BoxOf
  <1>4. /\ Range(tree) = Range(Cut(tree, p)) \cup Range(item)
        /\ Range(Cut(tree, p)) \cap Range(item) = {}
    BY <1>1, Parts
  <1>5. /\ req' = [req EXCEPT !.at = next, !.box = box]
        /\ trash' = (trash \ {req.box}) \cup {box}
        /\ tree' = Cut(tree, p)
    BY DEF GoesWith
  <1>6. item # Nothing /\ Range(req.box.item) = {}
    BY <1>2, Nothings
  <1> HIDE DEF p, item, box
  <1>7. /\ IsTree(tree') /\ p \notin DOMAIN tree'
        /\ \A q \in Trails : HoldsFolder(tree, q) /\ ~Inside(q, p) => HoldsFolder(tree', q)
    BY <1>1, <1>5, CutTree
  <1>8. Room(tree', p)
    <2>1. Front(p) \in Trails /\ Inside(p, Front(p)) /\ Front(p) # p /\ p \in Trails
      BY <1>1, PathFronts
    <2>2. ~Inside(Front(p), p)
      BY <2>1, Inserted
    <2>3. HoldsFolder(tree, Front(p))
      BY <1>1 DEF IsTree
    <2> QED BY <1>7, <2>1, <2>2, <2>3 DEF Room
  <1>9. Stored(tree', trash', made, asked)
    <2>1. Range(tree') \cup Range(box.item) = Range(tree) \cup Range(req.box.item)
      BY <1>3, <1>4, <1>5, <1>6
    <2>2. Range(tree') \cap Range(box.item) = {} /\ box.manifest
      BY <1>3, <1>4, <1>5
    <2> QED BY <1>1, <1>3, <1>5, <1>7, <2>1, <2>2, StoresShared DEF Inv, StoredInv
  <1>10. req' = [at |-> next, path |-> p, dest |-> req.dest, box |-> box]
    BY <1>1, <1>5, GoesOn DEF p
  <1>11. req'.at = next /\ req'.path = p /\ req'.dest = req.dest /\ req'.box = box
    BY <1>10
  <1>12. InPlace(req', tree', trash')
    <2>1. next = "forget" \/ next = "forget again"
      OBVIOUS
    <2> QED BY <1>1, <1>3, <1>5, <1>6, <1>8, <1>10, <1>11, <2>1 DEF InPlace, Held
  <1> QED BY <1>9, <1>12 DEF Inv, StoredInv, PlaceInv

(* What is in the container of the request goes to its path.                *)
LEMMA GivesEntry ==
    ASSUME Inv, NEW place, At(place), place # "idle",
           Held(req, trash), req.box.manifest,
           req.box.item # Nothing, Room(tree, req.path),
           tree' = Grafted(tree, req.path, req.box.item),
           NEW next \in {"recall cards", "put back"},
           GoesWith(next, Filled(req.box, Nothing)),
           UNCHANGED <<made, asked>>
    PROVE  Inv'
  <1> DEFINE p == req.path
             item == req.box.item
             box == Filled(req.box, Nothing)
  <1>1. /\ IsTree(tree) /\ p \in Paths /\ Room(tree, p)
        /\ req = [at |-> place, path |-> p, dest |-> req.dest, box |-> req.box]
        /\ req.box \in trash /\ req.box.path = p
    BY Placed DEF Inv, StoredInv, Stored, Held
  <1>2. IsItem(item, p) /\ Root \in DOMAIN item /\ Range(tree) \cap Range(item) = {}
    BY <1>1, BoxOf, Nothings DEF IsBox
  <1>3. /\ box.path = p /\ box.item = Nothing /\ box.manifest = req.box.manifest /\ IsBox(box)
    BY <1>1, BoxOf, Nothings
  <1>4. /\ req' = [req EXCEPT !.at = next, !.box = box]
        /\ trash' = (trash \ {req.box}) \cup {box}
        /\ tree' = Grafted(tree, p, item)
    BY DEF GoesWith
  <1> HIDE DEF p, item, box
  <1>5. Joins(tree', tree, p, item)
    BY <1>1, <1>2, <1>4, GraftedTree DEF Room
  <1>6. IsTree(tree') /\ Range(tree') = Range(tree) \cup Range(item) /\ p \in DOMAIN tree'
    BY <1>2, <1>5 DEF Joins
  <1>7. Stored(tree', trash', made, asked)
    <2>1. Range(tree') \cup Range(box.item) = Range(tree) \cup Range(req.box.item)
      BY <1>3, <1>6, Nothings DEF item
    <2>2. Range(tree') \cap Range(box.item) = {}
      BY <1>3, Nothings
    <2> QED BY <1>1, <1>3, <1>4, <1>6, <2>1, <2>2, StoresShared DEF Inv, StoredInv
  <1>8. req' = [at |-> next, path |-> p, dest |-> req.dest, box |-> box]
    BY <1>1, <1>4, GoesOn DEF p
  <1>9. req'.at = next /\ req'.path = p /\ req'.dest = req.dest /\ req'.box = box
    BY <1>8
  <1>10. InPlace(req', tree', trash')
    <2>1. next = "recall cards" \/ next = "put back"
      OBVIOUS
    <2> QED BY <1>1, <1>3, <1>4, <1>6, <1>8, <1>9, <2>1 DEF InPlace, Held
  <1> QED BY <1>7, <1>10 DEF Inv, StoredInv, PlaceInv

LEMMA TakeStep ==
    ASSUME Inv, Take \/ ReturnAgain
    PROVE  Inv'
  <1>1. ASSUME NEW place \in {"take", "return again"}, At(place),
               tree' = Cut(tree, req.path),
               NEW next \in {"forget", "forget again"},
               GoesWith(next, Filled(req.box, Subtree(tree, req.path))),
               UNCHANGED <<made, asked>>
        PROVE  Inv'
    <2>1. InPlace(req, tree, trash) /\ req.at = place
      BY <1>1, Placed DEF Inv
    <2>2. /\ Held(req, trash) /\ req.box.manifest /\ req.box.item = Nothing
          /\ req.path \in DOMAIN tree
      BY <2>1 DEF InPlace
    <2> QED BY <1>1, <2>2, TakesEntry
  <1> QED BY <1>1 DEF Take, ReturnAgain

LEMMA GiveStep ==
    ASSUME Inv, TakeBack \/ Return
    PROVE  Inv'
  <1>1. ASSUME NEW place \in {"take back", "return"}, At(place),
               tree' = Grafted(tree, req.path, req.box.item),
               NEW next \in {"recall cards", "put back"},
               GoesWith(next, Filled(req.box, Nothing)),
               UNCHANGED <<made, asked>>
        PROVE  Inv'
    <2>1. InPlace(req, tree, trash) /\ req.at = place
      BY <1>1, Placed DEF Inv
    <2>2. /\ Held(req, trash) /\ req.box.manifest /\ req.box.item # Nothing
          /\ Room(tree, req.path)
      BY <2>1 DEF InPlace
    <2> QED BY <1>1, <2>2, GivesEntry
  <1> QED BY <1>1 DEF TakeBack, Return

LEMMA DiscardFailsStep ==
    ASSUME Inv, DiscardFails
    PROVE  Inv'
  <1>1. PICK manifest \in BOOLEAN :
          GoesWith("recall cards", [req.box EXCEPT !.manifest = manifest])
    BY DEF DiscardFails
  <1> DEFINE box == [req.box EXCEPT !.manifest = manifest]
  <1>2. /\ At("take") /\ UNCHANGED <<tree, made, asked>>
        /\ req' = [req EXCEPT !.at = "recall cards", !.box = box]
        /\ trash' = (trash \ {req.box}) \cup {box}
    BY <1>1 DEF DiscardFails, GoesWith
  <1>3. /\ InPlace(req, tree, trash) /\ req.at = "take" /\ req.path \in Paths
        /\ req = [at |-> "take", path |-> req.path, dest |-> req.dest, box |-> req.box]
    BY <1>2, Placed DEF Inv
  <1>4. req.box \in trash /\ req.box.path = req.path /\ req.box.item = Nothing
    BY <1>3 DEF InPlace, Held
  <1>5. box.path = req.path /\ box.item = Nothing /\ IsBox(box)
    BY <1>4, BoxOf
  <1> HIDE DEF box
  <1>6. Stored(tree, trash', made, asked)
    <2>1. IsTree(tree) /\ Range(tree) \cap Range(box.item) = {}
      BY <1>5, Nothings DEF Inv, StoredInv, Stored
    <2> QED BY <1>2, <1>4, <1>5, <2>1, StoresShared DEF Inv, StoredInv
  <1>7. req' = [at |-> "recall cards", path |-> req.path, dest |-> req.dest, box |-> box]
    BY <1>2, <1>3, GoesOn
  <1>8. /\ req'.at = "recall cards" /\ req'.path = req.path
        /\ req'.dest = req.dest /\ req'.box = box
    BY <1>7
  <1>9. InPlace(req', tree', trash')
    BY <1>2, <1>3, <1>5, <1>7, <1>8 DEF InPlace, Held
  <1>10. StoredInv'
    BY <1>2, <1>6 DEF StoredInv
  <1> QED BY <1>9, <1>10 DEF Inv, PlaceInv

(* The empty container of the request is removed.                           *)
LEMMA RemoveStep ==
    ASSUME Inv, RecallCards \/ Drop
    PROVE  Inv'
  <1>1. /\ At("recall cards") \/ At("drop")
        /\ trash' = trash \ {req.box} /\ UNCHANGED <<tree, made, asked>> /\ Ends
    BY DEF RecallCards, Drop
  <1>2. InPlace(req, tree, trash) /\ (req.at = "recall cards" \/ req.at = "drop")
    BY <1>1, Placed DEF Inv
  <1>3. req.box.item = Nothing
    BY <1>2 DEF InPlace
  <1>4. StoredInv'
    BY <1>1, <1>3, StoresLess DEF Inv, StoredInv
  <1> QED BY <1>1, <1>4, EndsPlace DEF Inv

LEMMA DropFailsStep ==
    ASSUME Inv, DropFails
    PROVE  Inv'
  <1>1. /\ At("drop") /\ UNCHANGED <<tree, made, asked>> /\ Ends
    BY DEF DropFails
  <1>2. PICK manifest \in BOOLEAN :
          trash' = (trash \ {req.box}) \cup {[req.box EXCEPT !.manifest = manifest]}
    BY DEF DropFails
  <1> DEFINE box == [req.box EXCEPT !.manifest = manifest]
  <1>3. InPlace(req, tree, trash) /\ req.at = "drop"
    BY <1>1, Placed DEF Inv
  <1>4. req.box \in trash /\ req.box.path = req.path /\ req.box.item = Nothing
    BY <1>3 DEF InPlace, Held
  <1>5. box.item = Nothing /\ IsBox(box)
    BY <1>4, BoxOf
  <1> HIDE DEF box
  <1>6. Stored(tree, trash', made, asked)
    <2>1. IsTree(tree) /\ Range(tree) \cap Range(box.item) = {}
      BY <1>5, Nothings DEF Inv, StoredInv, Stored
    <2>2. trash' = (trash \ {req.box}) \cup {box}
      BY <1>2 DEF box
    <2> QED BY <1>4, <1>5, <2>1, <2>2, StoresShared DEF Inv, StoredInv
  <1>7. StoredInv'
    BY <1>1, <1>6 DEF StoredInv
  <1> QED BY <1>1, <1>7, EndsPlace DEF Inv

LEMMA RestoreStep ==
    ASSUME Inv, NEW c \in trash, Restore(c)
    PROVE  Inv'
  <1> DEFINE fresh == Entries \ made
             p == c.path
  <1>1. /\ IsTree(tree) /\ fresh \subseteq Entries /\ fresh \cap Range(tree) = {}
        /\ p \notin DOMAIN tree /\ MayHoldFolder(tree, Front(p))
        /\ p \in Paths /\ c.manifest /\ c.item # Nothing
    BY DEF Inv, StoredInv, Stored, Restore, Listed, IsBox
  <1>2. /\ tree' \in WithParent(tree, p, fresh)
        /\ made' = made \cup Range(tree')
        /\ req' = [at |-> "return", path |-> p, dest |-> None, box |-> c]
        /\ UNCHANGED <<trash, asked>>
    BY DEF Restore, Begins
  <1> HIDE DEF fresh, p
  <1>3. /\ IsTree(tree') /\ Range(tree) \subseteq Range(tree')
        /\ Range(tree') \subseteq Range(tree) \cup fresh
        /\ p \notin DOMAIN tree' /\ HoldsFolder(tree', Front(p))
    BY <1>1, <1>2, Parented
  <1>4. Stored(tree', trash, made \cup Range(tree'), asked)
    BY <1>3, StoresNew DEF Inv, StoredInv, fresh
  <1>5. StoredInv'
    BY <1>2, <1>4 DEF StoredInv
  <1>6. req'.at = "return" /\ req'.path = p /\ req'.dest = None /\ req'.box = c
    BY <1>2
  <1>7. InPlace(req', tree', trash')
    BY <1>1, <1>2, <1>3, <1>6 DEF InPlace, Held, Room, p
  <1> QED BY <1>5, <1>7 DEF Inv, PlaceInv

(* A container of which the removal stopped halfway.                        *)
LEMMA RestOf ==
    ASSUME NEW c, IsBox(c), NEW rest \in Remainders(c.item), NEW kept,
           NEW box, box = [path |-> c.path, meta |-> c.meta, item |-> rest, manifest |-> kept]
    PROVE  /\ box.path = c.path /\ box.item = rest /\ box.manifest = kept /\ IsBox(box)
           /\ Range(rest) \subseteq Range(c.item)
  <1>1. c.path \in Paths /\ IsItem(c.item, c.path)
    BY DEF IsBox
  <1>2. box.path = c.path /\ box.item = rest /\ box.manifest = kept /\ box.meta = c.meta
    OBVIOUS
  <1>3. IsItem(rest, c.path) /\ Range(rest) \subseteq Range(c.item)
    BY <1>1, Remains
  <1>4. IsBox(box)
    BY <1>1, <1>2, <1>3 DEF IsBox
  <1> QED BY <1>2, <1>3, <1>4

LEMMA PurgeStep ==
    ASSUME Inv, NEW chosen \in SUBSET trash, Purge(chosen) \/ PurgeFails(chosen)
    PROVE  Inv'
  <1> DEFINE a == asked \cup UNION {Range(c.item) : c \in chosen}
  <1>1. asked' = a /\ UNCHANGED <<tree, made>> /\ Ends
    BY DEF Purge, PurgeFails, Asks, NotUndone
  <1>2. Stored(tree, trash', made, a)
    <2>1. CASE Purge(chosen)
      BY <2>1, StoresPurged DEF Purge, Inv, StoredInv
    <2>2. CASE PurgeFails(chosen)
      <3>1. PICK gone \in SUBSET chosen : \E c \in chosen \ gone :
              \E rest \in Remainders(c.item), manifest \in BOOLEAN :
                trash' = (trash \ (gone \cup {c}))
                         \cup {[c EXCEPT !.item = rest, !.manifest = @ /\ manifest]}
        BY <2>2 DEF PurgeFails
      <3>2. PICK c \in chosen \ gone :
              \E rest \in Remainders(c.item), manifest \in BOOLEAN :
                trash' = (trash \ (gone \cup {c}))
                         \cup {[c EXCEPT !.item = rest, !.manifest = @ /\ manifest]}
        BY <3>1
      <3>3. PICK rest \in Remainders(c.item), manifest \in BOOLEAN :
                trash' = (trash \ (gone \cup {c}))
                         \cup {[c EXCEPT !.item = rest, !.manifest = @ /\ manifest]}
        BY <3>2
      <3> DEFINE kept == c.manifest /\ manifest
                 first == [c EXCEPT !.item = rest]
                 box == [c EXCEPT !.item = rest, !.manifest = @ /\ manifest]
      <3>4. IsBox(c) /\ c.path \in Paths /\ IsItem(c.item, c.path)
        BY DEF Inv, StoredInv, Stored, IsBox
      <3>5. first = [path |-> c.path, meta |-> c.meta, item |-> rest, manifest |-> c.manifest]
        BY <3>4, Boxes
      <3>6. box = [first EXCEPT !.manifest = c.manifest /\ manifest]
        BY <3>4 DEF IsBox
      <3>7. box = [path |-> c.path, meta |-> c.meta, item |-> rest, manifest |-> kept]
        <4> HIDE DEF first
        <4> QED BY <3>5, <3>6
      <3> HIDE DEF box, kept
      <3>8. /\ box.path = c.path /\ box.item = rest /\ IsBox(box)
            /\ Range(rest) \subseteq Range(c.item)
        BY <3>4, <3>7, RestOf
      <3>9. trash' = (trash \ (gone \cup {c})) \cup {box}
        BY <3>3 DEF box
      <3> QED BY <3>8, <3>9, StoresRest DEF Inv, StoredInv
    <2> QED BY <2>1, <2>2
  <1>3. StoredInv'
    BY <1>1, <1>2 DEF StoredInv
  <1> QED BY <1>1, <1>3, EndsPlace DEF Inv

LEMMA DeleteStep ==
    ASSUME Inv, Empty \/ \E c \in trash : Delete(c)
    PROVE  Inv'
  <1>1. ASSUME NEW c \in trash, Delete(c)
        PROVE  Inv'
    <2>1. {c} \in SUBSET trash /\ (Purge({c}) \/ PurgeFails({c}))
      BY <1>1 DEF Delete
    <2> QED BY <2>1, PurgeStep
  <1>2. CASE Empty
    BY <1>2, PurgeStep DEF Empty
  <1> QED BY <1>1, <1>2

LEMMA NextStep ==
    ASSUME Inv, Next
    PROVE  Inv'
  <1>1. ASSUME NEW p \in Paths, Create(p) \/ CreateFails(p)
        PROVE  Inv'
    BY <1>1, CreateStep
  <1>2. ASSUME NEW p \in Paths, Discard(p)
        PROVE  Inv'
    BY <1>2, DiscardStep
  <1>3. ASSUME NEW p \in Paths, NEW n \in Notes, SaveCard(p, n)
        PROVE  Inv'
    BY <1>3, NotesStep DEF SaveCard
  <1>4. ASSUME NEW p \in Paths, NEW name \in Names, Rename(p, name)
        PROVE  Inv'
    BY <1>4, RenameStep
  <1>5. ASSUME NEW p \in Paths, NEW folder \in Paths \cup {Root}, Move(p, folder)
        PROVE  Inv'
    BY <1>5, MoveStep
  <1>6. ASSUME NEW c \in trash, Restore(c)
        PROVE  Inv'
    BY <1>6, RestoreStep
  <1>7. ASSUME Empty \/ \E c \in trash : Delete(c)
        PROVE  Inv'
    BY <1>7, DeleteStep
  <1>8. CASE SaveCardFails \/ Kill
    BY <1>8, NotesStep DEF SaveCardFails, Kill
  <1>9. CASE Remap \/ RenameBackFails \/ RemapBack \/ RemapBackFails
    BY <1>9, NotesStep DEF Remap, RenameBackFails, RemapBack, RemapBackFails, NotUndone
  <1>10. CASE RemapFails
    BY <1>10, GoesStep DEF RemapFails
  <1>11. CASE RenameBack
    BY <1>11, RenameBackStep
  <1>12. CASE Take \/ ReturnAgain
    BY <1>12, TakeStep
  <1>13. CASE TakeBack \/ Return
    BY <1>13, GiveStep
  <1>14. CASE DiscardFails
    BY <1>14, DiscardFailsStep
  <1>15. CASE ForgetFails
    BY <1>15, GoesStep DEF ForgetFails
  <1>16. CASE PutBack
    BY <1>16, GoesStep DEF PutBack
  <1>17. CASE PutBackFails
    BY <1>17, GoesStep DEF PutBackFails
  <1>18. CASE Forget \/ TakeBackFails \/ RecallCardsFails
    BY <1>18, NotesStep DEF Forget, TakeBackFails, RecallCardsFails, NotUndone
  <1>19. CASE ReturnFails \/ ReturnAgainFails \/ ForgetAgain \/ ForgetAgainFails
    BY <1>19, NotesStep
       DEF ReturnFails, ReturnAgainFails, ForgetAgain, ForgetAgainFails, NotUndone
  <1>20. CASE RecallCards \/ Drop
    BY <1>20, RemoveStep
  <1>21. CASE DropFails
    BY <1>21, DropFailsStep
  <1> QED BY <1>1, <1>2, <1>3, <1>4, <1>5, <1>6, <1>7, <1>8, <1>9, <1>10, <1>11,
             <1>12, <1>13, <1>14, <1>15, <1>16, <1>17, <1>18, <1>19, <1>20, <1>21
          DEF Next

LEMMA InvHolds == Spec => []Inv
  <1>1. Init => Inv
    <2> SUFFICES ASSUME Init
                 PROVE  Inv
      OBVIOUS
    <2>1. /\ tree = Nothing /\ trash = {} /\ made = {} /\ asked = {} /\ req = Idle
      BY DEF Init
    <2>2. StoredInv
      BY <2>1, Nothings DEF StoredInv, Stored
    <2> QED BY <2>1, <2>2 DEF Inv, PlaceInv
  <1>2. Inv /\ [Next]_vars => Inv'
    <2>1. Inv /\ UNCHANGED vars => Inv'
      BY DEF Inv, StoredInv, PlaceInv, vars
    <2> QED BY <2>1, NextStep
  <1> QED BY <1>1, <1>2, PTL DEF Spec

LEMMA InvNothingLost == Inv => NothingLost
  <1> SUFFICES ASSUME Inv, NEW e \in made \ asked
               PROVE  Cardinality({p \in DOMAIN tree : tree[p] = e}
                        \cup {c \in trash : Listed(c) /\ e \in Range(c.item)}) = 1
    BY DEF NothingLost
  <1> DEFINE live == {p \in DOMAIN tree : tree[p] = e}
             kept == {c \in trash : Listed(c) /\ e \in Range(c.item)}
  <1>1. /\ OnePlace(tree)
        /\ \A c \in trash : Range(tree) \cap Range(c.item) = {}
        /\ \A c, d \in trash : c # d => Range(c.item) \cap Range(d.item) = {}
        /\ e \in Range(tree) \/ \E c \in trash : c.manifest /\ e \in Range(c.item)
    BY DEF Inv, StoredInv, Stored, IsTree
  <1>2. \E x : live \cup kept = {x}
    <2>1. CASE e \in Range(tree)
      <3>1. PICK p \in DOMAIN tree : tree[p] = e
        BY <2>1 DEF Range
      <3>2. live = {p}
        BY <1>1, <3>1 DEF OnePlace
      <3>3. kept = {}
        BY <1>1, <2>1
      <3> QED BY <3>2, <3>3
    <2>2. CASE e \notin Range(tree)
      <3>1. PICK c \in trash : c.manifest /\ e \in Range(c.item)
        BY <1>1, <2>2
      <3>2. Listed(c)
        BY <3>1, Nothings DEF Listed
      <3>3. kept = {c}
        BY <1>1, <3>1, <3>2
      <3>4. live = {}
        BY <2>2 DEF Range
      <3> QED BY <3>3, <3>4
    <2> QED BY <2>1, <2>2
  <1> QED BY <1>2, FS_Singleton

(* Whatever failed and wherever the service was killed, an entry whose      *)
(* deletion nobody asked for is in the project or in an item of the trash,  *)
(* in one of the two and at one place.                                      *)
THEOREM EntriesAreKept == Spec => []NothingLost
  BY InvHolds, InvNothingLost, PTL

-----------------------------------------------------------------------------
(* The promise: what its names stand for here. *)

LEMMA SameOps ==
    /\ Promise!Paths = Paths
    /\ Promise!Entries = Entries
    /\ Promise!Nothing = Nothing
    /\ \A f : Promise!Range(f) = Range(f)
    /\ \A p : Promise!Front(p) = Front(p)
    /\ \A p, q : Promise!Inside(p, q) = Inside(p, q)
    /\ \A t, p : /\ Promise!Cut(t, p) = Cut(t, p)
                 /\ Promise!Subtree(t, p) = Subtree(t, p)
                 /\ Promise!HoldsFolder(t, p) = HoldsFolder(t, p)
                 /\ Promise!MayHoldFolder(t, p) = MayHoldFolder(t, p)
    /\ \A t, p, x : /\ Promise!Grafted(t, p, x) = Grafted(t, p, x)
                    /\ Promise!WithParent(t, p, x) = WithParent(t, p, x)
                    /\ Promise!WithEntry(t, p, x) = WithEntry(t, p, x)
    /\ \A item : Promise!Remainders(item) = Remainders(item)
  <1>1. Promise!Paths = Paths /\ Promise!Entries = Entries /\ Promise!Nothing = Nothing
    BY DEF Promise!Paths, Paths, Promise!Entries, Entries, Promise!Nothing, Nothing
  <1>2. \A f : Promise!Range(f) = Range(f)
    BY DEF Promise!Range, Range
  <1>3. \A p : Promise!Front(p) = Front(p)
    BY DEF Promise!Front, Front
  <1>4. \A p, q : Promise!Inside(p, q) = Inside(p, q)
    BY DEF Promise!Inside, Inside, Promise!IsPrefix, IsPrefix
  <1>5. \A p, q : Promise!Below(p, q) = Below(p, q)
    BY DEF Promise!Below, Below
  <1>6. \A t, p : /\ Promise!HoldsFolder(t, p) = HoldsFolder(t, p)
                  /\ Promise!MayHoldFolder(t, p) = MayHoldFolder(t, p)
    BY DEF Promise!HoldsFolder, HoldsFolder, Promise!MayHoldFolder, MayHoldFolder,
           Promise!Root, Root
  <1>7. \A t, p : Promise!Cut(t, p) = Cut(t, p)
    BY <1>4 DEF Promise!Cut, Cut, Promise!RestrictDomain, RestrictDomain, Promise!Restrict, Restrict
  <1>8. \A t, p : Promise!Subtree(t, p) = Subtree(t, p)
    BY <1>4, <1>5 DEF Promise!Subtree, Subtree
  <1>9. \A t, p, x : Promise!Grafted(t, p, x) = Grafted(t, p, x)
    BY <1>5 DEF Promise!Grafted, Grafted
  <1>10. \A t, p, x : Promise!With(t, p, x) = With(t, p, x)
    BY DEF Promise!With, With
  <1>11. \A t, p, x : Promise!WithParent(t, p, x) = WithParent(t, p, x)
    BY <1>3, <1>6, <1>10 DEF Promise!WithParent, WithParent
  <1>12. \A t, p, x : Promise!WithEntry(t, p, x) = WithEntry(t, p, x)
    BY <1>2, <1>10, <1>11 DEF Promise!WithEntry, WithEntry
  <1>13. \A item : Promise!Remainders(item) = Remainders(item)
    BY <1>4 DEF Promise!Remainders, Remainders, Promise!Restrict, Restrict
  <1> QED BY <1>1, <1>2, <1>3, <1>4, <1>6, <1>7, <1>8, <1>9, <1>11, <1>12, <1>13
-----------------------------------------------------------------------------
(* The steps of the promise, from a state v of what the operator sees to a  *)
(* state w, without the notes.                                              *)

Creates(v, w, p) ==
    /\ p \notin DOMAIN v.tree /\ MayHoldFolder(v.tree, Front(p))
    /\ w.tree \in WithEntry(v.tree, p, Entries \ v.made)
    /\ w.made = v.made \cup Range(w.tree)
    /\ w.trash = v.trash /\ w.asked = v.asked

Relocates(v, w, p, q) ==
    /\ p \in DOMAIN v.tree /\ q \notin DOMAIN v.tree
    /\ HoldsFolder(v.tree, Front(q)) /\ ~Inside(q, p)
    /\ w.tree = Grafted(Cut(v.tree, p), q, Subtree(v.tree, p))
    /\ w.trash = v.trash /\ w.made = v.made /\ w.asked = v.asked

Discards(v, w, p) ==
    /\ p \in DOMAIN v.tree
    /\ w.tree = Cut(v.tree, p)
    /\ w.trash = v.trash \cup {[path |-> p, item |-> Subtree(v.tree, p)]}
    /\ w.made = v.made /\ w.asked = v.asked

Restores(v, w, c) ==
    /\ c.path \notin DOMAIN v.tree /\ MayHoldFolder(v.tree, Front(c.path))
    /\ \E u \in WithParent(v.tree, c.path, Entries \ v.made) :
          w.tree = Grafted(u, c.path, c.item)
    /\ w.trash = v.trash \ {c}
    /\ w.made = v.made \cup Range(w.tree)
    /\ w.asked = v.asked

Purges(v, w, chosen) ==
    /\ w.asked = v.asked \cup UNION {Range(c.item) : c \in chosen}
    /\ \E gone \in SUBSET chosen :
          \/ w.trash = v.trash \ gone
          \/ \E c \in gone : \E rest \in Remainders(c.item) :
                w.trash = (v.trash \ gone) \cup {[c EXCEPT !.item = rest]}
    /\ w.tree = v.tree /\ w.made = v.made

Stays(v, w) ==
    w.tree = v.tree /\ w.trash = v.trash /\ w.made = v.made /\ w.asked = v.asked

Changes(v, w) ==
    \/ \E p \in Paths : Creates(v, w, p) \/ Discards(v, w, p)
    \/ \E p, q \in Paths : Relocates(v, w, p, q)
    \/ \E c \in v.trash : Restores(v, w, c)
    \/ \E chosen \in SUBSET v.trash : Purges(v, w, chosen)

(* What has an entry that is seen.                                          *)
KeptIn(w) == Range(w.tree) \cup UNION {Range(c.item) : c \in w.trash}

Follows(v, w) ==
    /\ v.loose => w.loose
    /\ w.loose \/ w.notes = {n \in v.notes : n[1] \in KeptIn(w)}

promised == <<seen.tree, seen.trash, seen.notes, seen.made, seen.asked, seen.loose>>

LEMMA ChangePromised ==
    ASSUME Follows(seen, seen'), Changes(seen, seen')
    PROVE  Promise!Next
  <1>1. Promise!NotesFollow
    BY SameOps DEF Follows, KeptIn, Promise!NotesFollow, Promise!Kept
  <1>2. ASSUME NEW p \in Paths, Creates(seen, seen', p)
        PROVE  Promise!Create(p)
    BY <1>1, <1>2, SameOps DEF Creates, Promise!Create
  <1>3. ASSUME NEW p \in Paths, Discards(seen, seen', p)
        PROVE  Promise!Discard(p)
    BY <1>1, <1>3, SameOps DEF Discards, Promise!Discard
  <1>4. ASSUME NEW p \in Paths, NEW q \in Paths, Relocates(seen, seen', p, q)
        PROVE  Promise!Relocate(p, q)
    BY <1>1, <1>4, SameOps DEF Relocates, Promise!Relocate
  <1>5. ASSUME NEW c \in seen.trash, Restores(seen, seen', c)
        PROVE  Promise!Restore(c)
    BY <1>1, <1>5, SameOps DEF Restores, Promise!Restore
  <1>6. ASSUME NEW chosen \in SUBSET seen.trash, Purges(seen, seen', chosen)
        PROVE  Promise!Purge(chosen)
    BY <1>1, <1>6, SameOps DEF Purges, Promise!Purge
  <1> QED BY <1>2, <1>3, <1>4, <1>5, <1>6, SameOps DEF Changes, Promise!Next

LEMMA StayPromised ==
    ASSUME Stays(seen, seen'), seen.loose \in BOOLEAN, seen'.loose \in BOOLEAN,
           seen.loose => seen'.loose, seen'.loose \/ seen'.notes = seen.notes
    PROVE  Promise!Next \/ UNCHANGED promised
  <1>1. CASE seen'.loose
    BY <1>1 DEF Stays, Promise!Next, Promise!Loosen
  <1>2. CASE ~seen'.loose
    <2>1. seen'.loose = seen.loose
      BY <1>2
    <2> QED BY <1>2, <2>1 DEF Stays, promised
  <1> QED BY <1>1, <1>2
-----------------------------------------------------------------------------
(* What the operator would find. *)

(* The containers as the request in progress found them.                    *)
Found(r, t, boxes) ==
    IF r.at \in {"take", "forget", "take back", "recall cards"} THEN boxes \ {r.box}
    ELSE IF r.at \in {"put back", "return again", "drop"}
      THEN (boxes \ {r.box}) \cup {Filled(r.box, Subtree(t, r.path))}
    ELSE boxes

(* The folder of a path is there or was made.                               *)
Opens(v, p, u) ==
    /\ p \notin DOMAIN v.tree /\ MayHoldFolder(v.tree, Front(p))
    /\ u \in WithParent(v.tree, p, Entries \ v.made)

(* What the request has done so far to the files and folders.               *)
SoFar(v, r, t, m) ==
    /\ r.at \in {"idle", "remap", "rename back", "remap back", "take", "forget",
                 "take back", "recall cards", "return", "forget again", "put back",
                 "return again", "drop"}
    /\ r.at \in {"idle", "take", "recall cards", "remap back"} => t = v.tree /\ m = v.made
    /\ r.at \in {"remap", "rename back"} =>
          /\ r.path \in DOMAIN v.tree /\ ~Inside(r.dest, r.path)
          /\ HoldsFolder(v.tree, Front(r.dest))
          /\ \A s \in DOMAIN Subtree(v.tree, r.path) : r.dest \o s \in Paths
          /\ t = Grafted(Cut(v.tree, r.path), r.dest, Subtree(v.tree, r.path))
          /\ m = v.made
    /\ r.at \in {"remap", "rename back", "remap back"} =>
          r.dest \in Paths \ DOMAIN v.tree
    /\ r.at \in {"forget", "take back"} =>
          /\ r.path \in DOMAIN v.tree
          /\ t = Cut(v.tree, r.path) /\ r.box.item = Subtree(v.tree, r.path)
          /\ m = v.made
    /\ r.at \in {"return", "forget again"} =>
          /\ Opens(v, r.path, t) /\ m = v.made \cup Range(t)
          /\ Range(r.box.item) \subseteq v.made
    /\ r.at \in {"put back", "return again", "drop"} =>
          LET u == Cut(t, r.path)  item == Subtree(t, r.path)
          IN  /\ Opens(v, r.path, u) /\ m = v.made \cup Range(u)
              /\ t = Grafted(u, r.path, item) /\ Range(item) \subseteq v.made

(* What the operator saw last, and what the request has done to it since.    *)
SeenInv ==
    /\ IsTree(seen.tree) /\ Range(seen.tree) \subseteq seen.made
    /\ seen.asked = asked
    /\ seen.trash = Shown(Found(req, tree, trash))
    /\ SoFar(seen, req, tree, made)
    /\ loose \in BOOLEAN /\ seen.loose \in BOOLEAN /\ (seen.loose => loose)

IsCard(c) == c = [board |-> c.board, card |-> c.card, note |-> c.note]

OneCard(cs) == \A c, d \in cs : c.card = d.card => c = d

(* Every note is on the card of an entry of the project, on the board of    *)
(* its folder, and so it is for the notes of an item in the trash.          *)
Carded(t, cs) ==
    /\ \A c \in cs : IsCard(c) /\ c.card \in DOMAIN t /\ c.board = Front(c.card)
    /\ OneCard(cs)

Boxed(b) ==
    /\ \A c \in b.meta : /\ IsCard(c) /\ c.board = Front(c.card)
                         /\ \E s \in DOMAIN b.item : c.card = b.path \o s
    /\ OneCard(b.meta)

Noting(notes, t, cs, boxes) ==
    /\ Carded(t, cs)
    /\ \A b \in boxes : Listed(b) => Boxed(b)
    /\ notes = CardNotes(t, cs) \cup TrashNotes(boxes)

(* As long as no notes are loose, those the operator saw are still there.   *)
NotesInv ==
    ~loose =>
      /\ IF req.at = "drop" THEN Noting(seen.notes, tree, cards, trash)
         ELSE Noting(seen.notes, seen.tree, cards, Found(req, tree, trash))
      /\ req.at \in {"take", "forget", "take back", "recall cards"} =>
            req.box.meta = Snapshot(req.path)

PromiseInv == Inv /\ SeenInv /\ NotesInv

-----------------------------------------------------------------------------
(* Requests that end. *)

(* The notes the operator sees are of entries he sees.                      *)
LEMMA NotesOfKept ==
    ASSUME NEW w, NEW cs, NEW boxes, w.trash = Shown(boxes),
           NEW n \in CardNotes(w.tree, cs) \cup TrashNotes(boxes)
    PROVE  n[1] \in KeptIn(w)
  <1>1. CASE n \in CardNotes(w.tree, cs)
    <2>1. PICK c \in cs : c.card \in DOMAIN w.tree /\ n = <<w.tree[c.card], c.note>>
      BY <1>1 DEF CardNotes
    <2> QED BY <2>1 DEF KeptIn, Range
  <1>2. CASE n \in TrashNotes(boxes)
    <2>1. PICK b \in boxes : Listed(b) /\ n \in BoxNotes(b)
      BY <1>2 DEF TrashNotes
    <2>2. PICK m \in b.meta : /\ Below(m.card, b.path) \in DOMAIN b.item
                              /\ n = <<b.item[Below(m.card, b.path)], m.note>>
      BY <2>1 DEF BoxNotes
    <2>3. n[1] \in Range(b.item)
      BY <2>2 DEF Range
    <2> DEFINE c == [path |-> b.path, item |-> b.item]
    <2>4. c \in Shown(boxes) /\ c.item = b.item
      BY <2>1 DEF Shown
    <2> QED BY <2>3, <2>4 DEF KeptIn
  <1> QED BY <1>1, <1>2

(* The invariant between two requests.                                      *)
LEMMA EndsInv ==
    ASSUME Inv', Ends, loose' \in BOOLEAN,
           ~loose' => \E notes : Noting(notes, tree', cards', trash')
    PROVE  /\ SeenInv' /\ NotesInv'
           /\ seen'.tree = tree' /\ seen'.trash = Shown(trash') /\ seen'.made = made'
           /\ seen'.asked = asked' /\ seen'.loose = loose'
           /\ seen'.notes = CardNotes(tree', cards') \cup TrashNotes(trash')
           /\ \A n \in seen'.notes : n[1] \in KeptIn(seen')
  <1>1. req' = Idle /\ seen' = View'
    BY DEF Ends
  <1>2. req'.at = "idle"
    BY <1>1 DEF Idle
  <1>3. /\ seen'.tree = tree' /\ seen'.trash = Shown(trash') /\ seen'.made = made'
        /\ seen'.asked = asked' /\ seen'.loose = loose'
        /\ seen'.notes = CardNotes(tree', cards') \cup TrashNotes(trash')
    BY <1>1 DEF View
  <1>4. Found(req', tree', trash') = trash'
    BY <1>2 DEF Found
  <1>5. SoFar(seen', req', tree', made')
    BY <1>2, <1>3 DEF SoFar
  <1>6. IsTree(tree') /\ Range(tree') \subseteq made'
    BY DEF Inv, StoredInv, Stored
  <1>7. SeenInv'
    BY <1>3, <1>4, <1>5, <1>6 DEF SeenInv
  <1>8. NotesInv'
    BY <1>2, <1>3, <1>4 DEF NotesInv, Noting
  <1>9. \A n \in seen'.notes : n[1] \in KeptIn(seen')
    BY <1>3, NotesOfKept
  <1> QED BY <1>3, <1>7, <1>8, <1>9

(* What a step has to show: it keeps the invariant, and is one of the       *)
(* promise's or of nobody's concern.                                        *)
Fulfils == SeenInv' /\ NotesInv' /\ (Promise!Next \/ UNCHANGED promised)

LEMMA EndsSeen ==
    ASSUME Ends
    PROVE  /\ seen'.tree = tree' /\ seen'.trash = Shown(trash') /\ seen'.made = made'
           /\ seen'.asked = asked' /\ seen'.loose = loose'
           /\ seen'.notes = CardNotes(tree', cards') \cup TrashNotes(trash')
  BY DEF Ends, View

LEMMA EndsChanged ==
    ASSUME SeenInv, Inv', Ends, loose' \in BOOLEAN, loose => loose',
           ~loose' => Noting(seen.notes, tree', cards', trash'),
           Changes(seen, seen')
    PROVE  Fulfils
  <1>1. /\ SeenInv' /\ NotesInv' /\ seen'.loose = loose'
        /\ seen'.notes = CardNotes(tree', cards') \cup TrashNotes(trash')
        /\ \A n \in seen'.notes : n[1] \in KeptIn(seen')
    BY EndsInv
  <1>2. ~loose' => seen'.notes = seen.notes
    BY <1>1 DEF Noting
  <1>3. seen.loose => loose'
    BY DEF SeenInv
  <1>4. Follows(seen, seen')
    BY <1>1, <1>2, <1>3 DEF Follows
  <1> QED BY <1>1, <1>4, ChangePromised DEF Fulfils

LEMMA EndsSame ==
    ASSUME SeenInv, Inv', Ends, loose' \in BOOLEAN, loose => loose',
           ~loose' => Noting(seen.notes, tree', cards', trash'),
           seen.tree = tree', seen.trash = Shown(trash'), seen.made = made',
           seen.asked = asked'
    PROVE  Fulfils
  <1>1. /\ SeenInv' /\ NotesInv'
        /\ seen'.tree = tree' /\ seen'.trash = Shown(trash') /\ seen'.made = made'
        /\ seen'.asked = asked' /\ seen'.loose = loose'
        /\ seen'.notes = CardNotes(tree', cards') \cup TrashNotes(trash')
    BY EndsInv
  <1>2. ~loose' => seen'.notes = seen.notes
    BY <1>1 DEF Noting
  <1>3. /\ seen.loose => loose'
        /\ seen.loose \in BOOLEAN
    BY DEF SeenInv
  <1>4. Stays(seen, seen')
    BY <1>1 DEF Stays
  <1> QED BY <1>1, <1>2, <1>3, <1>4, StayPromised DEF Fulfils

LEMMA GoesOnSeen ==
    ASSUME UNCHANGED seen, SeenInv', NotesInv'
    PROVE  Fulfils
  BY DEF Fulfils, promised

-----------------------------------------------------------------------------
(* The notes. *)

(* An unlisted container has no notes to show, and is not shown.            *)
LEMMA ListedOnly ==
    ASSUME NEW a, NEW b, {c \in a : Listed(c)} = {c \in b : Listed(c)}
    PROVE  /\ Shown(a) = Shown(b) /\ TrashNotes(a) = TrashNotes(b)
           /\ \A notes, t, cs : Noting(notes, t, cs, a) => Noting(notes, t, cs, b)
  <1>1. Shown(a) = Shown(b) /\ TrashNotes(a) = TrashNotes(b)
    BY DEF Shown, TrashNotes
  <1>2. \A c \in b : Listed(c) => c \in a
    OBVIOUS
  <1> QED BY <1>1, <1>2 DEF Noting

(* The project has more entries.                                            *)
LEMMA NotesGrow ==
    ASSUME NEW notes, NEW t, NEW cs, NEW boxes, Noting(notes, t, cs, boxes),
           NEW w, DOMAIN t \subseteq DOMAIN w, \A q \in DOMAIN t : w[q] = t[q]
    PROVE  Noting(notes, w, cs, boxes)
  <1>1. CardNotes(w, cs) = CardNotes(t, cs)
    <2>1. \A c \in cs : c.card \in DOMAIN t /\ c.card \in DOMAIN w /\ w[c.card] = t[c.card]
      BY DEF Noting, Carded
    <2> QED BY <2>1 DEF CardNotes
  <1>2. Carded(w, cs)
    BY DEF Noting, Carded
  <1> QED BY <1>1, <1>2 DEF Noting

(* There is nothing to forget inside a path at which there is no entry.     *)
LEMMA NothingRemoved ==
    ASSUME NEW t, IsTree(t), Carded(t, cards), NEW p \in Paths, p \notin DOMAIN t
    PROVE  Removed(p) = cards
  <1> SUFFICES ASSUME NEW c \in cards
               PROVE  ~Inside(c.board, p) /\ ~Inside(c.card, p)
    BY DEF Removed
  <1>1. c.card \in DOMAIN t /\ c.board = Front(c.card)
    BY DEF Carded
  <1>2. ~Inside(c.card, p)
    BY <1>1, FreePath
  <1>3. c.card \in Paths /\ c.card \in Trails /\ p \in Trails
    BY <1>1, PathTrails DEF IsTree
  <1>4. Front(c.card) \in Trails /\ Inside(c.card, Front(c.card))
    BY <1>3, PathFronts
  <1>5. ~Inside(Front(c.card), p)
    BY <1>2, <1>3, <1>4, Inserted
  <1> QED BY <1>1, <1>2, <1>5

(* A card whose board is in a folder is in that folder as well.             *)
LEMMA CardInside ==
    ASSUME NEW p \in Paths, NEW q \in Paths, Inside(Front(q), p)
    PROVE  Inside(q, p)
  <1>1. p \in Trails /\ q \in Trails /\ Front(q) \in Trails /\ Inside(q, Front(q))
    BY PathFronts
  <1> QED BY <1>1, Inserted

(* The cards inside a path are remembered and forgotten, and no others.     *)
LEMMA SnapshotIs ==
    ASSUME NEW t, IsTree(t), Carded(t, cards), NEW p \in Paths
    PROVE  /\ Snapshot(p) = {c \in cards : Inside(c.card, p)}
           /\ Removed(p) = {c \in cards : ~Inside(c.card, p)}
  <1>1. ASSUME NEW c \in cards, Inside(c.board, p)
        PROVE  Inside(c.card, p)
    <2>1. c.card \in Paths /\ c.board = Front(c.card)
      BY DEF Carded, IsTree
    <2> QED BY <1>1, <2>1, CardInside
  <1> QED BY <1>1 DEF Snapshot, Removed

(* What was remembered and not forgotten is there already.                  *)
LEMMA NothingRecalled ==
    ASSUME NEW t, Carded(t, cards), NEW box, box.meta = Snapshot(box.path)
    PROVE  Recalled(box) = cards
  <1>1. box.meta \subseteq cards
    BY DEF Snapshot
  <1>2. ASSUME NEW c \in cards, c \notin box.meta, NEW m \in box.meta
        PROVE  /\ ~SameKey(c, m)
               /\ ~(Inside(m.board, box.path) /\ m.board = c.board)
    <2>1. ~SameKey(c, m)
      BY <1>1, <1>2 DEF SameKey, Carded, OneCard
    <2>2. ~Inside(c.board, box.path)
      BY <1>2 DEF Snapshot
    <2> QED BY <2>1, <2>2
  <1> QED BY <1>1, <1>2 DEF Recalled

(* The notes of an item.                                                    *)
LEMMA BoxNotesIs ==
    ASSUME NEW b, IsBox(b), Boxed(b)
    PROVE  /\ \A m \in b.meta : \A s \in DOMAIN b.item :
                m.card = b.path \o s => <<b.item[s], m.note>> \in BoxNotes(b)
           /\ \A n \in BoxNotes(b) : \E m \in b.meta : \E s \in DOMAIN b.item :
                m.card = b.path \o s /\ n = <<b.item[s], m.note>>
  <1>1. b.path \in Trails /\ DOMAIN b.item \subseteq Trails
    BY PathTrails DEF IsBox, IsItem
  <1>2. ASSUME NEW m \in b.meta, NEW s \in DOMAIN b.item, m.card = b.path \o s
        PROVE  Inside(m.card, b.path) /\ Below(m.card, b.path) = s
    BY <1>1, <1>2, Joined
  <1>3. ASSUME NEW m \in b.meta
        PROVE  \E s \in DOMAIN b.item : m.card = b.path \o s
    BY DEF Boxed
  <1>4. ASSUME NEW n \in BoxNotes(b)
        PROVE  \E m \in b.meta : \E s \in DOMAIN b.item :
                  m.card = b.path \o s /\ n = <<b.item[s], m.note>>
    <2>1. PICK m \in b.meta : n = <<b.item[Below(m.card, b.path)], m.note>>
      BY <1>4 DEF BoxNotes
    <2>2. PICK s \in DOMAIN b.item : m.card = b.path \o s
      BY <1>3
    <2> QED BY <1>2, <2>1, <2>2
  <1>5. ASSUME NEW m \in b.meta, NEW s \in DOMAIN b.item, m.card = b.path \o s
        PROVE  <<b.item[s], m.note>> \in BoxNotes(b)
    BY <1>2, <1>5 DEF BoxNotes
  <1> QED BY <1>4, <1>5

LEMMA TrashNotesOf ==
    ASSUME NEW boxes, NEW b, Listed(b)
    PROVE  TrashNotes(boxes \cup {b}) = TrashNotes(boxes) \cup BoxNotes(b)
  BY DEF TrashNotes

(* An entry goes into the trash with its notes.                             *)
LEMMA NotesTaken ==
    ASSUME NEW t, IsTree(t), NEW p \in DOMAIN t, NEW notes, NEW boxes, NEW b,
           Noting(notes, t, cards, boxes), Listed(b), b.path = p, IsBox(b),
           b.item = Subtree(t, p), b.meta = Snapshot(p)
    PROVE  Noting(notes, Cut(t, p), Removed(p), boxes \cup {b})
  <1>1. /\ Carded(t, cards) /\ p \in Paths /\ p \in Trails /\ DOMAIN t \subseteq Trails
    BY PathTrails DEF Noting, IsTree
  <1>2. /\ b.meta = {c \in cards : Inside(c.card, p)}
        /\ Removed(p) = {c \in cards : ~Inside(c.card, p)}
    BY <1>1, SnapshotIs
  <1>3. /\ DOMAIN Cut(t, p) = {q \in DOMAIN t : ~Inside(q, p)}
        /\ \A q \in DOMAIN Cut(t, p) : Cut(t, p)[q] = t[q]
    BY ONLY CutIs
  <1>4. /\ DOMAIN b.item \subseteq Trails
        /\ \A s \in Trails : s \in DOMAIN b.item <=> p \o s \in DOMAIN t
        /\ \A s \in DOMAIN b.item : b.item[s] = t[p \o s]
    BY <1>1, SubtreeIs
  <1>5. ASSUME NEW c \in b.meta
        PROVE  \E s \in DOMAIN b.item : c.card = p \o s /\ b.item[s] = t[c.card]
    <2>1. c.card \in DOMAIN t /\ Inside(c.card, p)
      BY <1>1, <1>2 DEF Carded
    <2>2. PICK s \in Trails : c.card = p \o s
      BY <1>1, <2>1, Split
    <2> QED BY <1>4, <2>1, <2>2
  <1>6. Boxed(b)
    <2>1. OneCard(b.meta)
      BY <1>1, <1>2 DEF Carded, OneCard
    <2>2. \A c \in b.meta : IsCard(c) /\ c.board = Front(c.card)
      BY <1>1, <1>2 DEF Carded
    <2> QED BY <1>5, <2>1, <2>2 DEF Boxed
  <1>7. Carded(Cut(t, p), Removed(p))
    <2>1. OneCard(Removed(p))
      BY <1>1, <1>2 DEF Carded, OneCard
    <2> QED BY <1>1, <1>2, <1>3, <2>1 DEF Carded
  <1>8. CardNotes(t, cards) = CardNotes(Cut(t, p), Removed(p)) \cup BoxNotes(b)
    <2>1. ASSUME NEW c \in cards
          PROVE  <<t[c.card], c.note>> \in CardNotes(Cut(t, p), Removed(p)) \cup BoxNotes(b)
      <3>1. CASE Inside(c.card, p)
        <4>1. c \in b.meta
          BY <1>2, <3>1
        <4>2. PICK s \in DOMAIN b.item : c.card = p \o s /\ b.item[s] = t[c.card]
          BY <1>5, <4>1
        <4> QED BY <1>6, <4>1, <4>2, BoxNotesIs
      <3>2. CASE ~Inside(c.card, p)
        <4>1. c.card \in DOMAIN Cut(t, p) /\ Cut(t, p)[c.card] = t[c.card]
          BY <1>1, <1>3, <3>2 DEF Carded
        <4> QED BY <1>2, <3>2, <4>1 DEF CardNotes
      <3> QED BY <3>1, <3>2
    <2>2. ASSUME NEW n \in CardNotes(Cut(t, p), Removed(p))
          PROVE  n \in CardNotes(t, cards)
      <3>1. PICK c \in Removed(p) : /\ c.card \in DOMAIN Cut(t, p)
                                    /\ n = <<Cut(t, p)[c.card], c.note>>
        BY <2>2 DEF CardNotes
      <3>2. c \in cards /\ c.card \in DOMAIN t /\ n = <<t[c.card], c.note>>
        BY <1>2, <1>3, <3>1
      <3> QED BY <3>2 DEF CardNotes
    <2>3. ASSUME NEW n \in BoxNotes(b)
          PROVE  n \in CardNotes(t, cards)
      <3>1. \E c \in b.meta : \E s \in DOMAIN b.item :
              c.card = b.path \o s /\ n = <<b.item[s], c.note>>
        BY <1>6, <2>3, BoxNotesIs
      <3>3. PICK c \in b.meta : \E s \in DOMAIN b.item :
              c.card = p \o s /\ n = <<b.item[s], c.note>>
        BY <3>1
      <3>4. PICK s \in DOMAIN b.item : c.card = p \o s /\ n = <<b.item[s], c.note>>
        BY <3>3
      <3>2. c \in cards /\ c.card \in DOMAIN t /\ n = <<t[c.card], c.note>>
        BY <1>1, <1>2, <1>4, <3>4 DEF Carded
      <3> QED BY <3>2 DEF CardNotes
    <2>4. CardNotes(t, cards) \subseteq CardNotes(Cut(t, p), Removed(p)) \cup BoxNotes(b)
      BY <2>1 DEF CardNotes
    <2> QED BY <2>2, <2>3, <2>4
  <1>9. notes = CardNotes(Cut(t, p), Removed(p)) \cup TrashNotes(boxes \cup {b})
    BY <1>8, TrashNotesOf DEF Noting
  <1>10. \A c \in boxes \cup {b} : Listed(c) => Boxed(c)
    BY <1>6 DEF Noting
  <1> QED BY <1>7, <1>9, <1>10 DEF Noting

(* An item comes back with its notes.                                       *)
LEMMA NotesGiven ==
    ASSUME NEW t, IsTree(t), NEW u, IsTree(u), NEW p \in Paths, p \notin DOMAIN t,
           DOMAIN t \subseteq DOMAIN u, \A q \in DOMAIN t : u[q] = t[q],
           p \notin DOMAIN u, NEW notes, NEW boxes, NEW b,
           Noting(notes, t, cards, boxes \cup {b}),
           Listed(b), b.path = p, IsBox(b),
           NEW box, box.path = p, box.meta = b.meta
    PROVE  Noting(notes, Grafted(u, p, b.item), Recalled(box), boxes)
  <1> DEFINE w == Grafted(u, p, b.item)
  <1>1. /\ Carded(t, cards) /\ Boxed(b) /\ p \in Trails
        /\ DOMAIN t \subseteq Trails /\ DOMAIN t \subseteq Paths
        /\ DOMAIN b.item \subseteq Trails
    BY PathTrails DEF Noting, IsTree, IsBox, IsItem
  <1>2. Grafts(w, u, p, b.item)
    BY <1>1, GraftedIs
  <1> HIDE DEF w
  <1>3. \A q \in DOMAIN t : q \in DOMAIN w /\ w[q] = t[q]
    BY <1>2 DEF Grafts
  <1>4. \A q \in DOMAIN u : ~Inside(q, p)
    BY FreePath
  <1>5. ASSUME NEW s \in DOMAIN b.item
        PROVE  /\ p \o s \in DOMAIN w /\ w[p \o s] = b.item[s]
               /\ Inside(p \o s, p)
    <2>1. Inside(p \o s, p)
      BY <1>1, Joined
    <2>2. p \o s \notin DOMAIN u
      BY <1>4, <2>1
    <2> QED BY <1>2, <2>1, <2>2 DEF Grafts
  <1>6. ASSUME NEW c \in cards
        PROVE  /\ c.card \in DOMAIN t /\ ~Inside(c.card, p) /\ ~Inside(c.board, p)
    <2>1. c.card \in DOMAIN t /\ c.board = Front(c.card)
      BY <1>1 DEF Carded
    <2>2. ~Inside(c.card, p)
      BY <1>4, <2>1
    <2>3. c.card \in Paths
      BY <1>1, <2>1
    <2> QED BY <2>1, <2>2, <2>3, CardInside
  <1>7. ASSUME NEW m \in b.meta
        PROVE  \E s \in DOMAIN b.item : m.card = p \o s
    BY <1>1 DEF Boxed
  <1>8. \A m \in b.meta : Inside(m.card, p)
    BY <1>5, <1>7
  <1>9. Recalled(box) = cards \cup b.meta
    <2>1. ASSUME NEW c \in cards, NEW m \in box.meta
          PROVE  ~SameKey(c, m) /\ ~(Inside(m.board, box.path) /\ m.board = c.board)
      <3>1. ~SameKey(c, m)
        BY <1>6, <1>8 DEF SameKey
      <3> QED BY <1>6, <3>1
    <2> QED BY <2>1 DEF Recalled
  <1>10. Carded(w, Recalled(box))
    <2>1. OneCard(cards \cup b.meta)
      BY <1>1, <1>6, <1>8 DEF Carded, Boxed, OneCard
    <2>2. \A c \in b.meta : IsCard(c) /\ c.card \in DOMAIN w /\ c.board = Front(c.card)
      BY <1>1, <1>5, <1>7 DEF Boxed
    <2>3. \A c \in cards : IsCard(c) /\ c.card \in DOMAIN w /\ c.board = Front(c.card)
      BY <1>1, <1>3 DEF Carded
    <2> QED BY <1>9, <2>1, <2>2, <2>3 DEF Carded
  <1>11. CardNotes(w, Recalled(box)) = CardNotes(t, cards) \cup BoxNotes(b)
    <2>1. ASSUME NEW c \in cards
          PROVE  c.card \in DOMAIN w /\ w[c.card] = t[c.card] /\ c.card \in DOMAIN t
      BY <1>3, <1>6
    <2>2. ASSUME NEW c \in b.meta
          PROVE  /\ c.card \in DOMAIN w /\ <<w[c.card], c.note>> \in BoxNotes(b)
      <3>1. PICK s \in DOMAIN b.item : c.card = p \o s
        BY <1>7
      <3>2. w[c.card] = b.item[s] /\ c.card \in DOMAIN w
        BY <1>5, <3>1
      <3>3. <<b.item[s], c.note>> \in BoxNotes(b)
        BY <1>1, <3>1, BoxNotesIs
      <3> QED BY <3>2, <3>3
    <2>3. ASSUME NEW n \in BoxNotes(b)
          PROVE  n \in CardNotes(w, Recalled(box))
      <3>1. \E c \in b.meta : \E s \in DOMAIN b.item :
              c.card = b.path \o s /\ n = <<b.item[s], c.note>>
        BY <1>1, <2>3, BoxNotesIs
      <3>2. PICK c \in b.meta : \E s \in DOMAIN b.item :
              c.card = p \o s /\ n = <<b.item[s], c.note>>
        BY <3>1
      <3>3. PICK s \in DOMAIN b.item : c.card = p \o s /\ n = <<b.item[s], c.note>>
        BY <3>2
      <3>4. c.card \in DOMAIN w /\ w[c.card] = b.item[s]
        BY <1>5, <3>3
      <3> QED BY <1>9, <3>3, <3>4 DEF CardNotes
    <2>4. CardNotes(t, cards) \subseteq CardNotes(w, Recalled(box))
      <3> SUFFICES ASSUME NEW c \in cards
                   PROVE  <<t[c.card], c.note>> \in CardNotes(w, Recalled(box))
        BY DEF CardNotes
      <3> QED BY <1>9, <2>1 DEF CardNotes
    <2>5. CardNotes(w, Recalled(box)) \subseteq CardNotes(t, cards) \cup BoxNotes(b)
      <3> SUFFICES ASSUME NEW c \in cards \cup b.meta
                   PROVE  <<w[c.card], c.note>> \in CardNotes(t, cards) \cup BoxNotes(b)
        BY <1>9 DEF CardNotes
      <3>1. CASE c \in cards
        BY <2>1, <3>1 DEF CardNotes
      <3> QED BY <2>2, <3>1
    <2> QED BY <2>3, <2>4, <2>5
  <1>12. notes = CardNotes(w, Recalled(box)) \cup TrashNotes(boxes)
    BY <1>11, TrashNotesOf DEF Noting
  <1>13. Noting(notes, w, Recalled(box), boxes)
    BY <1>10, <1>12 DEF Noting
  <1> QED BY <1>13 DEF w

(* Paths in use stay different when one of them is renamed.                 *)
LEMMA Referred ==
    ASSUME NEW t, IsTree(t), NEW p \in DOMAIN t, NEW q \in Paths, q \notin DOMAIN t,
           NEW x \in DOMAIN t \cup {Root}, NEW y \in DOMAIN t \cup {Root},
           Reference(x, p, q) = Reference(y, p, q)
    PROVE  x = y
  <1>1. /\ p \in Paths /\ p \in Trails /\ q \in Trails
        /\ DOMAIN t \subseteq Trails /\ Root \in Trails /\ q # Root
    BY PathTrails DEF IsTree
  <1>2. ASSUME NEW z \in Trails, NEW s \in Trails, z = q \o s
        PROVE  z \notin DOMAIN t \cup {Root}
    <2>1. Inside(z, q)
      BY <1>1, <1>2, Joined
    <2>2. z # Root
      BY <1>1, <1>2, ConcatEqualIffEmpty DEF Trails, Root
    <2> QED BY <2>1, <2>2, FreePath
  <1>3. ASSUME NEW z \in DOMAIN t \cup {Root}, Inside(z, p)
        PROVE  /\ Below(z, p) \in Trails /\ z = p \o Below(z, p)
               /\ Reference(z, p, q) = q \o Below(z, p)
    BY <1>1, <1>3, Split DEF Reference
  <1>4. \A z : ~Inside(z, p) => Reference(z, p, q) = z
    BY DEF Reference
  <1>5. CASE Inside(x, p) /\ Inside(y, p)
    <2>1. /\ Below(x, p) \in Trails /\ x = p \o Below(x, p)
          /\ Reference(x, p, q) = q \o Below(x, p)
      BY <1>3, <1>5
    <2>2. /\ Below(y, p) \in Trails /\ y = p \o Below(y, p)
          /\ Reference(y, p, q) = q \o Below(y, p)
      BY <1>3, <1>5
    <2> DEFINE u == Below(x, p)
               v == Below(y, p)
    <2>3. u \in Trails /\ v \in Trails /\ q \o u = q \o v /\ x = p \o u /\ y = p \o v
      BY <2>1, <2>2
    <2> HIDE DEF u, v
    <2>4. u = v
      BY <1>1, <2>3, Cancels
    <2> QED BY <2>3, <2>4
  <1>6. ASSUME NEW a \in DOMAIN t \cup {Root}, NEW b \in DOMAIN t \cup {Root},
               Inside(a, p), ~Inside(b, p), Reference(a, p, q) = Reference(b, p, q)
        PROVE  FALSE
    <2>1. b = q \o Below(a, p) /\ Below(a, p) \in Trails /\ b \in Trails
      BY <1>1, <1>3, <1>4, <1>6
    <2> QED BY <1>2, <2>1
  <1>7. CASE ~Inside(x, p) /\ ~Inside(y, p)
    BY <1>4, <1>7
  <1> QED BY <1>5, <1>6, <1>7

LEMMA BoardOfCard ==
    ASSUME NEW t, IsTree(t), Carded(t, cards), NEW c \in cards
    PROVE  c.card \in DOMAIN t /\ c.board \in DOMAIN t \cup {Root}
  <1>1. c.card \in DOMAIN t /\ c.board = Front(c.card)
    BY DEF Carded
  <1>2. HoldsFolder(t, Front(c.card))
    BY <1>1 DEF IsTree
  <1> QED BY <1>1, <1>2 DEF HoldsFolder

Referring(c, p, q) ==
    [c EXCEPT !.board = Reference(@, p, q), !.card = Reference(@, p, q)]

(* No two cards of entries in use become the same.                          *)
LEMMA RemapsAll ==
    ASSUME NEW t, IsTree(t), Carded(t, cards), NEW p, NEW q,
           \A x, y \in DOMAIN t \cup {Root} : Reference(x, p, q) = Reference(y, p, q) => x = y,
           NEW cs \in Remaps(p, q)
    PROVE  cs = {Referring(c, p, q) : c \in cards}
  <1> DEFINE clash(c, d) == /\ c # d
                            /\ Reference(c.board, p, q) = Reference(d.board, p, q)
                            /\ c.board = d.board =>
                                  Reference(c.card, p, q) = Reference(d.card, p, q)
  <1>1. PICK k \in SUBSET cards :
          /\ \A c \in cards \ k : \E d \in k : clash(c, d)
          /\ cs = {Referring(c, p, q) : c \in k}
    BY DEF Remaps, Referring
  <1>2. ASSUME NEW c \in cards, NEW d \in cards
        PROVE  ~clash(c, d)
    <2> SUFFICES ASSUME clash(c, d)
                 PROVE  FALSE
      OBVIOUS
    <2>1. /\ c.card \in DOMAIN t /\ c.board \in DOMAIN t \cup {Root}
          /\ d.card \in DOMAIN t /\ d.board \in DOMAIN t \cup {Root}
      BY BoardOfCard
    <2>2. c.board = d.board
      BY <2>1
    <2>3. c.card = d.card
      BY <2>1, <2>2
    <2> QED BY <2>3 DEF Carded, OneCard
  <1> HIDE DEF clash
  <1>3. k = cards
    BY <1>1, <1>2
  <1> QED BY <1>1, <1>3

(* A note follows its entry that is renamed, unless it is moved to another  *)
(* folder: its card stays then on the board of the old one.                 *)
LEMMA NotesMoved ==
    ASSUME NEW t, IsTree(t), NEW p \in DOMAIN t, NEW q \in Paths, q \notin DOMAIN t,
           HoldsFolder(t, Front(q)), ~Inside(q, p), NEW notes, NEW boxes,
           Noting(notes, t, cards, boxes),
           Front(p) # Front(q) => \A c \in cards : c.card # p,
           NEW cs \in Remaps(p, q)
    PROVE  Noting(notes, Grafted(Cut(t, p), q, Subtree(t, p)), cs, boxes)
  <1> DEFINE w == Grafted(Cut(t, p), q, Subtree(t, p))
             to(x) == Reference(x, p, q)
  <1>1. /\ Carded(t, cards) /\ p \in Paths /\ p \in Trails /\ q \in Trails
        /\ DOMAIN t \subseteq Trails /\ DOMAIN t \subseteq Paths
    BY PathTrails DEF Noting, IsTree
  <1>2. cs = {Referring(c, p, q) : c \in cards}
    BY <1>1, Referred, RemapsAll
  <1>3. /\ DOMAIN Subtree(t, p) \subseteq Trails
        /\ \A s \in Trails : s \in DOMAIN Subtree(t, p) <=> p \o s \in DOMAIN t
        /\ \A s \in DOMAIN Subtree(t, p) : Subtree(t, p)[s] = t[p \o s]
    BY <1>1, SubtreeIs
  <1>4. Grafts(w, Cut(t, p), q, Subtree(t, p))
    BY <1>1, <1>3, GraftedIs
  <1>5. /\ DOMAIN Cut(t, p) = {x \in DOMAIN t : ~Inside(x, p)}
        /\ \A x \in DOMAIN Cut(t, p) : Cut(t, p)[x] = t[x]
    BY ONLY CutIs
  <1> HIDE DEF w
  <1>6. ASSUME NEW x \in DOMAIN t
        PROVE  to(x) \in DOMAIN w /\ w[to(x)] = t[x]
    <2>1. CASE Inside(x, p)
      <3>1. PICK s \in Trails : x = p \o s /\ to(x) = q \o s
        BY <1>1, <2>1, Split DEF Reference
      <3>2. s \in DOMAIN Subtree(t, p) /\ Subtree(t, p)[s] = t[x]
        BY <1>3, <3>1
      <3>3. Inside(q \o s, q)
        BY <1>1, <3>1, Joined
      <3>4. q \o s \notin DOMAIN Cut(t, p)
        BY <1>5, <3>3, FreePath
      <3> QED BY <1>4, <3>1, <3>2, <3>4 DEF Grafts
    <2>2. CASE ~Inside(x, p)
      BY <1>4, <1>5, <2>2 DEF Grafts, Reference
    <2> QED BY <2>1, <2>2
  <1>7. ASSUME NEW x \in DOMAIN t, x = p => Front(p) = Front(q)
        PROVE  to(Front(x)) = Front(to(x))
    <2>1. x \in Paths /\ x \in Trails /\ Front(x) \in Trails /\ Inside(x, Front(x))
      BY <1>1, PathFronts
    <2>2. CASE x = p
      <3>1. ~Inside(Front(p), p)
        BY <1>1, PathFronts, Inserted
      <3>2. to(p) = q
        <4>1. Inside(p, p) /\ p \o Root = p /\ q \o Root = q /\ Root \in Trails
          BY <1>1, Inserted, PathTrails
        <4>2. Below(p, p) = Root
          <5>1. Below(p \o Root, p) = Root
            BY <1>1, <4>1, Joined
          <5> QED BY <4>1, <5>1
        <4> QED BY <4>1, <4>2 DEF Reference
      <3>3. to(Front(p)) = Front(p)
        BY <3>1 DEF Reference
      <3> QED BY <1>7, <2>2, <3>2, <3>3
    <2>3. CASE x # p /\ Inside(x, p)
      <3>1. PICK s \in Trails : x = p \o s /\ to(x) = q \o s
        BY <1>1, <2>1, <2>3, Split DEF Reference
      <3>2. s # Root
        BY <1>1, <2>3, <3>1, Inserted
      <3>3. /\ Front(x) = p \o Front(s) /\ Front(to(x)) = q \o Front(s)
            /\ Front(s) \in Trails
        <4>1. Front(p \o s) = p \o Front(s) /\ Front(q \o s) = q \o Front(s)
          BY <1>1, <3>2, FrontInside
        <4>2. Front(s) \in Trails
          BY <3>2, Fronts
        <4> HIDE DEF to
        <4> QED BY ONLY <3>1, <4>1, <4>2
      <3>4. Inside(p \o Front(s), p) /\ Below(p \o Front(s), p) = Front(s)
        BY <1>1, <3>3, Joined
      <3> QED BY <3>3, <3>4 DEF Reference
    <2>4. CASE ~Inside(x, p)
      <3>1. ~Inside(Front(x), p)
        BY <1>1, <2>1, <2>4, Inserted
      <3> QED BY <2>4, <3>1 DEF Reference
    <2> QED BY <2>2, <2>3, <2>4
  <1>8. ASSUME NEW c \in cards
        PROVE  /\ Referring(c, p, q)
                     = [board |-> to(c.board), card |-> to(c.card), note |-> c.note]
               /\ c.card \in DOMAIN t /\ c.board = Front(c.card)
               /\ to(c.board) = Front(to(c.card))
    <2>1. /\ c = [board |-> c.board, card |-> c.card, note |-> c.note]
          /\ c.card \in DOMAIN t /\ c.board = Front(c.card)
      BY <1>1 DEF Carded, IsCard
    <2>2. to(c.board) = Front(to(c.card))
      BY <1>7, <2>1
    <2>3. [c EXCEPT !.board = to(c.board), !.card = to(c.card)]
             = [board |-> to(c.board), card |-> to(c.card), note |-> c.note]
      <3> DEFINE c1 == [c EXCEPT !.board = to(c.board)]
      <3>1. c1 = [board |-> to(c.board), card |-> c.card, note |-> c.note]
        BY <2>1
      <3>2. [c EXCEPT !.board = to(c.board), !.card = to(c.card)]
              = [c1 EXCEPT !.card = to(c.card)]
        OBVIOUS
      <3> HIDE DEF c1, to
      <3> QED BY <3>1, <3>2
    <2>4. Referring(c, p, q) = [c EXCEPT !.board = to(c.board), !.card = to(c.card)]
      BY <2>1 DEF Referring
    <2> QED BY <2>1, <2>2, <2>3, <2>4
  <1>9. ASSUME NEW d \in cs
        PROVE  \E c \in cards :
                 /\ d = [board |-> to(c.board), card |-> to(c.card), note |-> c.note]
                 /\ d.board = to(c.board) /\ d.card = to(c.card) /\ d.note = c.note
    <2>1. PICK c \in cards : d = Referring(c, p, q)
      BY <1>2
    <2>2. d = [board |-> to(c.board), card |-> to(c.card), note |-> c.note]
      BY <1>8, <2>1
    <2> HIDE DEF to
    <2>3. d.board = to(c.board) /\ d.card = to(c.card) /\ d.note = c.note
      BY <2>2
    <2> QED BY <2>2, <2>3
  <1>10. Carded(w, cs)
    <2>1. OneCard(cs)
      <3> SUFFICES ASSUME NEW d1 \in cs, NEW d2 \in cs, d1.card = d2.card
                   PROVE  d1 = d2
        BY DEF OneCard
      <3>1. PICK c1 \in cards : d1 = Referring(c1, p, q) /\ d1.card = to(c1.card)
        BY <1>2, <1>8
      <3>2. PICK c2 \in cards : d2 = Referring(c2, p, q) /\ d2.card = to(c2.card)
        BY <1>2, <1>8
      <3>3. c1.card \in DOMAIN t /\ c2.card \in DOMAIN t /\ to(c1.card) = to(c2.card)
        BY <1>8, <3>1, <3>2
      <3>4. c1.card = c2.card
        BY <3>3, Referred
      <3>5. c1 = c2
        BY <1>1, <3>4 DEF Carded, OneCard
      <3> QED BY <3>1, <3>2, <3>5
    <2>2. ASSUME NEW d \in cs
          PROVE  IsCard(d) /\ d.card \in DOMAIN w /\ d.board = Front(d.card)
      <3>1. PICK c \in cards :
                 /\ d = [board |-> to(c.board), card |-> to(c.card), note |-> c.note]
                 /\ d.board = to(c.board) /\ d.card = to(c.card) /\ d.note = c.note
        BY <1>9
      <3> HIDE DEF to
      <3> QED BY <1>6, <1>8, <3>1 DEF IsCard
    <2> QED BY <2>1, <2>2 DEF Carded
  <1>11. CardNotes(w, cs) = CardNotes(t, cards)
    <2>1. ASSUME NEW d \in cs
          PROVE  <<w[d.card], d.note>> \in CardNotes(t, cards)
      <3>1. PICK c \in cards : d.card = to(c.card) /\ d.note = c.note
        BY <1>9
      <3>2. c.card \in DOMAIN t /\ w[d.card] = t[c.card]
        BY <1>6, <1>8, <3>1
      <3> QED BY <3>1, <3>2 DEF CardNotes
    <2>2. ASSUME NEW c \in cards
          PROVE  <<t[c.card], c.note>> \in CardNotes(w, cs)
      <3> DEFINE d == Referring(c, p, q)
      <3>1. d \in cs
        BY <1>2
      <3>2. d = [board |-> to(c.board), card |-> to(c.card), note |-> c.note]
        BY <1>8
      <3> HIDE DEF d, to
      <3>3. d.card = to(c.card) /\ d.note = c.note
        BY <3>2
      <3>4. d.card \in DOMAIN w /\ w[d.card] = t[c.card]
        BY <1>6, <1>8, <3>3
      <3> QED BY <3>1, <3>3, <3>4 DEF CardNotes
    <2>3. CardNotes(w, cs) \subseteq CardNotes(t, cards)
      BY <2>1 DEF CardNotes
    <2>4. CardNotes(t, cards) \subseteq CardNotes(w, cs)
      BY <2>2 DEF CardNotes
    <2> QED BY <2>3, <2>4
  <1>12. Noting(notes, w, cs, boxes)
    BY <1>10, <1>11 DEF Noting
  <1> QED BY <1>12 DEF w

(* There is nothing to turn back where no entry was.                        *)
LEMMA NothingTurned ==
    ASSUME NEW t, IsTree(t), Carded(t, cards), NEW p, NEW q \in Paths, q \notin DOMAIN t,
           NEW cs \in Remaps(q, p)
    PROVE  cs = cards
  <1>1. DOMAIN t \subseteq Trails /\ q \in Trails /\ Root \in Trails /\ q # Root
    BY PathTrails DEF IsTree
  <1>2. ~Inside(Root, q)
    BY <1>1, PathTrails, Inserted
  <1>3. \A x \in DOMAIN t \cup {Root} : Reference(x, q, p) = x
    BY <1>2, FreePath DEF Reference
  <1>4. cs = {Referring(c, q, p) : c \in cards}
    BY <1>3, RemapsAll
  <1>5. ASSUME NEW c \in cards
        PROVE  Referring(c, q, p) = c
    <2>1. Reference(c.board, q, p) = c.board /\ Reference(c.card, q, p) = c.card
      BY <1>3, BoardOfCard
    <2>2. c = [board |-> c.board, card |-> c.card, note |-> c.note]
      BY DEF Carded, IsCard
    <2>3. Referring(c, q, p) = [c EXCEPT !.board = c.board, !.card = c.card]
      BY <2>1 DEF Referring
    <2> QED BY <2>2, <2>3
  <1> QED BY <1>4, <1>5

(* A note is written on the card of an entry.                               *)
LEMMA NotesSaved ==
    ASSUME NEW t, IsTree(t), NEW notes, NEW boxes, Noting(notes, t, cards, boxes),
           \A b \in boxes : IsBox(b) /\ Range(t) \cap Range(b.item) = {},
           NEW p \in DOMAIN t, NEW n
    PROVE  Noting({m \in notes : m[1] # t[p]} \cup {<<t[p], n>>}, t, Noted(p, n), boxes)
  <1> DEFINE card == [board |-> Front(p), card |-> p, note |-> n]
             cs == Noted(p, n)
  <1>1. Carded(t, cards) /\ OnePlace(t)
    BY DEF Noting, IsTree
  <1>2. card.board = Front(p) /\ card.card = p /\ card.note = n /\ IsCard(card)
    BY DEF IsCard
  <1>3. cs = {c \in cards : ~SameKey(c, card)} \cup {card}
    BY DEF Noted
  <1> HIDE DEF card, cs
  <1>4. \A c \in cards : SameKey(c, card) <=> c.card = p
    BY <1>1, <1>2 DEF SameKey, Carded
  <1>5. Carded(t, cs)
    BY <1>1, <1>2, <1>3, <1>4 DEF Carded, OneCard
  <1>6. \A c \in cards : c.card \in DOMAIN t /\ (t[c.card] = t[p] <=> c.card = p)
    BY <1>1 DEF Carded, OnePlace
  <1>7. CardNotes(t, cs) = {m \in CardNotes(t, cards) : m[1] # t[p]} \cup {<<t[p], n>>}
    <2>1. ASSUME NEW c \in cs
          PROVE  <<t[c.card], c.note>> \in
                    {m \in CardNotes(t, cards) : m[1] # t[p]} \cup {<<t[p], n>>}
      <3>1. CASE c = card
        BY <1>2, <3>1
      <3>2. CASE c # card
        <4>1. c \in cards /\ c.card \in DOMAIN t /\ t[c.card] # t[p]
          BY <1>3, <1>4, <1>6, <3>2
        <4> QED BY <4>1 DEF CardNotes
      <3> QED BY <3>1, <3>2
    <2>2. CardNotes(t, cs) \subseteq {m \in CardNotes(t, cards) : m[1] # t[p]} \cup {<<t[p], n>>}
      <3> SUFFICES ASSUME NEW c \in cs
                   PROVE  <<t[c.card], c.note>> \in
                            {m \in CardNotes(t, cards) : m[1] # t[p]} \cup {<<t[p], n>>}
        BY DEF CardNotes
      <3> QED BY <2>1
    <2>3. ASSUME NEW m \in CardNotes(t, cards), m[1] # t[p]
          PROVE  m \in CardNotes(t, cs)
      <3>1. PICK c \in cards : c.card \in DOMAIN t /\ m = <<t[c.card], c.note>>
        BY DEF CardNotes
      <3>2. c \in cs
        BY <1>3, <1>4, <2>3, <3>1
      <3> QED BY <3>1, <3>2 DEF CardNotes
    <2>4. <<t[p], n>> \in CardNotes(t, cs)
      BY <1>2, <1>3 DEF CardNotes
    <2> QED BY <2>2, <2>3, <2>4
  <1>8. \A m \in TrashNotes(boxes) : m[1] # t[p]
    <2> SUFFICES ASSUME NEW b \in boxes, Listed(b), NEW m \in BoxNotes(b)
                 PROVE  m[1] # t[p]
      BY DEF TrashNotes
    <2>1. m[1] \in Range(b.item)
      BY DEF BoxNotes, Range
    <2>2. t[p] \in Range(t)
      BY DEF Range
    <2> QED BY <2>1, <2>2
  <1>9. Noting({m \in notes : m[1] # t[p]} \cup {<<t[p], n>>}, t, cs, boxes)
    BY <1>5, <1>7, <1>8 DEF Noting
  <1> QED BY <1>9 DEF cs

(* Containers are deleted with their notes.                                 *)
LEMMA NotesPurged ==
    ASSUME NEW t, NEW notes, NEW cs, NEW boxes, Noting(notes, t, cs, boxes),
           \A b \in boxes : Range(t) \cap Range(b.item) = {},
           \A b, c \in boxes : b # c => Range(b.item) \cap Range(c.item) = {},
           NEW chosen \in SUBSET boxes, NEW w, w.tree = t, w.trash = Shown(boxes \ chosen),
           NEW kept, \A n : n \in kept <=> n \in notes /\ n[1] \in KeptIn(w)
    PROVE  Noting(kept, t, cs, boxes \ chosen)
  <1>1. \A n \in CardNotes(t, cs) \cup TrashNotes(boxes \ chosen) : n[1] \in KeptIn(w)
    BY NotesOfKept
  <1>2. TrashNotes(boxes) = TrashNotes(boxes \ chosen) \cup TrashNotes(chosen)
    BY DEF TrashNotes
  <1>3. ASSUME NEW n \in TrashNotes(chosen)
        PROVE  n[1] \notin KeptIn(w)
    <2>1. PICK b \in chosen : n \in BoxNotes(b)
      BY DEF TrashNotes
    <2>2. n[1] \in Range(b.item)
      BY <2>1 DEF BoxNotes, Range
    <2>3. n[1] \notin Range(t)
      BY <2>2
    <2>4. ASSUME NEW c \in w.trash
          PROVE  n[1] \notin Range(c.item)
      <3>1. PICK d \in boxes \ chosen : c = [path |-> d.path, item |-> d.item]
        BY DEF Shown
      <3>2. c.item = d.item /\ d # b
        BY <3>1
      <3> QED BY <2>2, <3>1, <3>2
    <2> QED BY <2>3, <2>4 DEF KeptIn
  <1>4. notes = CardNotes(t, cs) \cup TrashNotes(boxes \ chosen) \cup TrashNotes(chosen)
    BY <1>2 DEF Noting
  <1>5. kept = CardNotes(t, cs) \cup TrashNotes(boxes \ chosen)
    BY <1>1, <1>3, <1>4
  <1> QED BY <1>5 DEF Noting

-----------------------------------------------------------------------------
(* What the trash shows, and entries that are put back where they were.     *)

LEMMA Regrafted ==
    ASSUME NEW t, IsTree(t), NEW p \in DOMAIN t
    PROVE  Grafted(Cut(t, p), p, Subtree(t, p)) = t
  <1> DEFINE g == Grafted(Cut(t, p), p, Subtree(t, p))
  <1>1. DOMAIN t \subseteq Trails /\ p \in Trails /\ t \in [DOMAIN t -> Entries]
    BY PathTrails DEF IsTree
  <1>2. /\ DOMAIN Cut(t, p) = {q \in DOMAIN t : ~Inside(q, p)}
        /\ \A q \in DOMAIN Cut(t, p) : Cut(t, p)[q] = t[q]
        /\ Cut(t, p) \in [DOMAIN Cut(t, p) -> Entries]
    BY <1>1, CutIs
  <1>3. /\ DOMAIN Subtree(t, p) \subseteq Trails
        /\ \A s \in Trails : s \in DOMAIN Subtree(t, p) <=> p \o s \in DOMAIN t
        /\ \A s \in DOMAIN Subtree(t, p) : Subtree(t, p)[s] = t[p \o s]
        /\ Subtree(t, p) \in [DOMAIN Subtree(t, p) -> Entries]
    BY <1>1, SubtreeIs
  <1>4. Grafts(g, Cut(t, p), p, Subtree(t, p))
    BY <1>1, <1>3, GraftedIs
  <1> HIDE DEF g
  <1>5. g \in [DOMAIN g -> Entries]
    BY <1>2, <1>3, <1>4 DEF Grafts
  <1>6. ASSUME NEW q \in DOMAIN t
        PROVE  q \in DOMAIN g /\ g[q] = t[q]
    <2>1. CASE Inside(q, p)
      <3>1. PICK s \in Trails : q = p \o s
        BY <1>1, <2>1, Split
      <3> QED BY <1>2, <1>3, <1>4, <2>1, <3>1 DEF Grafts
    <2>2. CASE ~Inside(q, p)
      BY <1>2, <1>4, <2>2 DEF Grafts
    <2> QED BY <2>1, <2>2
  <1>7. ASSUME NEW q \in DOMAIN g
        PROVE  q \in DOMAIN t
    BY <1>2, <1>3, <1>4 DEF Grafts
  <1>8. DOMAIN g = DOMAIN t
    BY <1>6, <1>7
  <1>9. g = t
    BY <1>1, <1>5, <1>6, <1>8
  <1> QED BY <1>9 DEF g

LEMMA ShownOf ==
    ASSUME NEW boxes, NEW b, Listed(b)
    PROVE  Shown(boxes \cup {b}) = Shown(boxes) \cup {[path |-> b.path, item |-> b.item]}
  BY DEF Shown

(* What a container holds is shown by no other.                             *)
LEMMA ShownLess ==
    ASSUME NEW boxes, \A b \in boxes : IsBox(b),
           \A b, c \in boxes : b # c => Range(b.item) \cap Range(c.item) = {},
           NEW chosen \in SUBSET boxes
    PROVE  Shown(boxes \ chosen) = Shown(boxes) \ Shown(chosen)
  <1>1. ASSUME NEW b \in boxes \ chosen, NEW c \in chosen, Listed(c), b.item = c.item
        PROVE  FALSE
    <2>1. Root \in DOMAIN c.item
      BY <1>1, Nothings DEF Listed, IsBox
    <2>2. Range(c.item) # {}
      BY <2>1 DEF Range
    <2> QED BY <1>1, <2>2
  <1>2. \A b \in boxes \ chosen, c \in chosen : Listed(c) =>
            [path |-> b.path, item |-> b.item] # [path |-> c.path, item |-> c.item]
    BY <1>1
  <1>3. Shown(boxes) = Shown(boxes \ chosen) \cup Shown(chosen)
    BY DEF Shown
  <1>4. Shown(boxes \ chosen) \cap Shown(chosen) = {}
    BY <1>2 DEF Shown
  <1> QED BY <1>3, <1>4

(* The folder above a path is there, or it is made like another entry.      *)
LEMMA FolderMade ==
    ASSUME NEW t, IsTree(t), NEW m, Range(t) \subseteq m, NEW p \in Paths,
           MayHoldFolder(t, Front(p)), NEW u \in WithParent(t, p, Entries \ m)
    PROVE  /\ HoldsFolder(t, Front(p)) => u = t
           /\ ~HoldsFolder(t, Front(p)) =>
                 /\ Front(p) \in Paths /\ Front(p) \notin DOMAIN t
                 /\ MayHoldFolder(t, Front(Front(p)))
                 /\ u \in WithEntry(t, Front(p), Entries \ m)
  <1>1. CASE HoldsFolder(t, Front(p))
    BY <1>1 DEF WithParent
  <1>2. CASE ~HoldsFolder(t, Front(p))
    <2> DEFINE q == Front(p)
    <2>1. PICK f \in Folders \cap (Entries \ m) : u = With(t, q, f)
      BY <1>2 DEF WithParent
    <2>2. q \in Paths /\ q \notin DOMAIN t /\ Front(q) = Root
      BY <1>2, PathFronts DEF HoldsFolder, MayHoldFolder
    <2> HIDE DEF q
    <2>3. HoldsFolder(t, Front(q)) /\ MayHoldFolder(t, Front(q))
      BY <2>2, PathTrails DEF HoldsFolder, MayHoldFolder, IsTree
    <2>4. WithParent(t, q, Entries \ m) = {t}
      BY <2>3 DEF WithParent
    <2>5. f \in (Entries \ m) \ Range(t)
      OBVIOUS
    <2>6. u \in WithEntry(t, q, Entries \ m)
      BY <2>1, <2>4, <2>5 DEF WithEntry
    <2> QED BY <1>2, <2>2, <2>3, <2>6 DEF q
  <1> QED BY <1>1, <1>2

LEMMA UnlistedBox ==
    ASSUME NEW boxes, NEW b, ~Listed(b)
    PROVE  Shown(boxes \ {b}) = Shown(boxes)
  BY DEF Shown

(* If the request in progress ended now, its operator would find what a     *)
(* step of the promise gives, or what he found before.                      *)
LEMMA AsIfEnded ==
    ASSUME Inv, SeenInv, NEW w,
           w.tree = tree, w.trash = Shown(trash), w.made = made, w.asked = asked
    PROVE  Stays(seen, w) \/ Changes(seen, w)
  <1> DEFINE p == req.path
             q == req.dest
             box == req.box
  <1>1. /\ IsTree(seen.tree) /\ Range(seen.tree) \subseteq seen.made
        /\ w.asked = seen.asked
        /\ seen.trash = Shown(Found(req, tree, trash))
        /\ SoFar(seen, req, tree, made)
    BY DEF SeenInv
  <1>2. req.at # "idle" => InPlace(req, tree, trash) /\ p \in Paths
    BY Placed DEF At, Inv
  <1>3. /\ IsTree(tree)
        /\ \A c \in trash : IsBox(c) /\ Range(tree) \cap Range(c.item) = {}
    BY DEF Inv, StoredInv, Stored
  <1>4. CASE req.at \in {"idle", "remap back", "take", "recall cards"}
    <2>1. w.tree = seen.tree /\ w.made = seen.made
      BY <1>1, <1>4 DEF SoFar
    <2>2. w.trash = seen.trash
      <3>1. CASE req.at \in {"idle", "remap back"}
        BY <1>1, <3>1 DEF Found
      <3>2. CASE req.at \in {"take", "recall cards"}
        <4>1. ~Listed(box)
          BY <1>2, <3>2 DEF InPlace, Listed
        <4>2. Found(req, tree, trash) = trash \ {box}
          BY <3>2 DEF Found
        <4> QED BY <1>1, <4>1, <4>2, UnlistedBox
      <3> QED BY <1>4, <3>1, <3>2
    <2> QED BY <1>1, <2>1, <2>2 DEF Stays
  <1>5. CASE req.at \in {"remap", "rename back"}
    <2>1. Relocates(seen, w, p, q) /\ q \in Paths
      BY <1>1, <1>5 DEF SoFar, Relocates, Found
    <2> QED BY <1>2, <1>5, <2>1 DEF Changes
  <1>6. CASE req.at \in {"forget", "take back"}
    <2>1. box \in trash /\ box.path = p /\ Listed(box)
      BY <1>2, <1>6 DEF InPlace, Held, Listed
    <2>2. /\ p \in DOMAIN seen.tree /\ w.tree = Cut(seen.tree, p)
          /\ box.item = Subtree(seen.tree, p) /\ w.made = seen.made
      BY <1>1, <1>6 DEF SoFar
    <2>3. seen.trash = Shown(trash \ {box})
      BY <1>1, <1>6 DEF Found
    <2>4. Shown((trash \ {box}) \cup {box}) = seen.trash \cup {[path |-> p, item |-> box.item]}
      BY <2>1, <2>3, ShownOf
    <2>5. (trash \ {box}) \cup {box} = trash
      BY <2>1
    <2>6. Discards(seen, w, p)
      BY <1>1, <2>2, <2>4, <2>5 DEF Discards
    <2> QED BY <1>2, <1>6, <2>6 DEF Changes
  <1>7. CASE req.at \in {"return", "forget again"}
    <2>1. /\ p \in Paths /\ w.trash = seen.trash
      BY <1>1, <1>2, <1>7 DEF Found
    <2>2. /\ MayHoldFolder(seen.tree, Front(p))
          /\ w.tree \in WithParent(seen.tree, p, Entries \ seen.made)
          /\ w.made = seen.made \cup Range(w.tree)
      BY <1>1, <1>7 DEF SoFar, Opens
    <2>3. CASE HoldsFolder(seen.tree, Front(p))
      <3>1. w.tree = seen.tree
        BY <1>1, <2>1, <2>2, <2>3, FolderMade
      <3>2. w.made = seen.made
        BY <1>1, <2>2, <3>1
      <3> QED BY <1>1, <2>1, <3>1, <3>2 DEF Stays
    <2>4. CASE ~HoldsFolder(seen.tree, Front(p))
      <3>1. /\ Front(p) \in Paths /\ Front(p) \notin DOMAIN seen.tree
            /\ MayHoldFolder(seen.tree, Front(Front(p)))
            /\ w.tree \in WithEntry(seen.tree, Front(p), Entries \ seen.made)
        BY <1>1, <2>1, <2>2, <2>4, FolderMade
      <3>2. Creates(seen, w, Front(p))
        BY <1>1, <2>1, <2>2, <3>1 DEF Creates
      <3> QED BY <3>1, <3>2 DEF Changes
    <2> QED BY <2>3, <2>4
  <1>8. CASE req.at \in {"put back", "return again", "drop"}
    <2> DEFINE u == Cut(tree, p)
               item == Subtree(tree, p)
               c == [path |-> p, item |-> item]
               full == Filled(box, item)
    <2>1. /\ p \in Paths /\ p \in DOMAIN tree /\ ~Listed(box)
          /\ box \in trash /\ box.path = p /\ box.manifest
      BY <1>2, <1>8 DEF InPlace, Held, Listed
    <2>2. /\ p \notin DOMAIN seen.tree /\ MayHoldFolder(seen.tree, Front(p))
          /\ u \in WithParent(seen.tree, p, Entries \ seen.made)
          /\ w.made = seen.made \cup Range(u) /\ w.tree = Grafted(u, p, item)
          /\ Range(item) \subseteq seen.made
      BY <1>1, <1>8 DEF SoFar, Opens
    <2>3. Root \in DOMAIN item /\ item # Nothing
      BY <1>3, <2>1, OwnItem, Nothings
    <2>4. full.path = p /\ full.item = item /\ full.manifest
      BY <2>1, BoxOf
    <2>5. Listed(full) /\ c.path = p /\ c.item = item
      BY <2>3, <2>4 DEF Listed
    <2>6. Range(tree) = Range(u) \cup Range(item)
      BY <1>3, <2>1, Parts
    <2>7. w.trash = Shown(trash \ {box})
      BY <2>1, UnlistedBox
    <2>8. seen.trash = Shown((trash \ {box}) \cup {full})
      BY <1>1, <1>8 DEF Found
    <2>9. c = [path |-> full.path, item |-> full.item]
      BY <2>4
    <2> HIDE DEF u, item, full, c
    <2>10. seen.trash = w.trash \cup {c}
      BY <2>5, <2>7, <2>8, <2>9, ShownOf
    <2>11. c \notin w.trash
      <3> SUFFICES ASSUME c \in w.trash
                   PROVE  FALSE
        OBVIOUS
      <3>1. PICK b \in trash : c = [path |-> b.path, item |-> b.item]
        BY DEF Shown
      <3>2. b.item = item
        BY <2>5, <3>1
      <3>3. item[Root] \in Range(item)
        BY <2>3 DEF Range
      <3> QED BY <1>3, <2>6, <3>2, <3>3
    <2>12. c \in seen.trash /\ w.trash = seen.trash \ {c}
      BY <2>10, <2>11
    <2>13. w.made = seen.made \cup Range(w.tree)
      BY <2>2, <2>6
    <2>14. Restores(seen, w, c)
      BY <1>1, <2>2, <2>5, <2>12, <2>13 DEF Restores
    <2> QED BY <2>12, <2>14 DEF Changes
  <1> QED BY <1>1, <1>4, <1>5, <1>6, <1>7, <1>8 DEF SoFar

(* A request ends where it is.                                              *)
LEMMA EndsHere ==
    ASSUME PromiseInv, Inv', Ends, UNCHANGED <<tree, made, asked>>,
           {c \in trash' : Listed(c)} = {c \in trash : Listed(c)},
           loose' \in BOOLEAN, loose => loose',
           ~loose' => Noting(seen.notes, tree, cards', trash)
    PROVE  Fulfils
  <1>1. /\ seen'.tree = tree' /\ seen'.trash = Shown(trash') /\ seen'.made = made'
        /\ seen'.asked = asked'
    BY EndsSeen
  <1>2. /\ Shown(trash') = Shown(trash)
        /\ ~loose' => Noting(seen.notes, tree', cards', trash')
    BY ListedOnly
  <1>3. Inv /\ SeenInv
    BY DEF PromiseInv
  <1>4. Stays(seen, seen') \/ Changes(seen, seen')
    BY <1>1, <1>2, <1>3, AsIfEnded
  <1>5. CASE Stays(seen, seen')
    BY <1>1, <1>2, <1>3, <1>5, EndsSame DEF Stays
  <1>6. CASE Changes(seen, seen')
    BY <1>2, <1>3, <1>6, EndsChanged
  <1> QED BY <1>4, <1>5, <1>6
(* Nothing is taken away for a new entry.                                   *)
LEMMA Grown ==
    ASSUME NEW t, NEW p \in Paths, p \notin DOMAIN t, MayHoldFolder(t, Front(p)), NEW fresh
    PROVE  \A w \in WithParent(t, p, fresh) \cup WithEntry(t, p, fresh) :
              DOMAIN t \subseteq DOMAIN w /\ \A q \in DOMAIN t : w[q] = t[q]
  <1>1. ASSUME NEW u \in WithParent(t, p, fresh)
        PROVE  /\ DOMAIN t \subseteq DOMAIN u /\ \A q \in DOMAIN t : u[q] = t[q]
               /\ p \notin DOMAIN u
    <2>1. CASE HoldsFolder(t, Front(p))
      BY <2>1 DEF WithParent
    <2>2. CASE ~HoldsFolder(t, Front(p))
      <3>1. PICK f \in Folders : u = With(t, Front(p), f)
        BY <2>2 DEF WithParent
      <3>2. Front(p) \notin DOMAIN t /\ Front(p) # p
        BY <2>2, PathFronts DEF HoldsFolder, MayHoldFolder
      <3> QED BY <3>1, <3>2 DEF With
    <2> QED BY <2>1, <2>2
  <1>2. ASSUME NEW w \in WithEntry(t, p, fresh)
        PROVE  DOMAIN t \subseteq DOMAIN w /\ \A q \in DOMAIN t : w[q] = t[q]
    <2>1. PICK u \in WithParent(t, p, fresh) : \E e \in fresh \ Range(u) : w = With(u, p, e)
      BY DEF WithEntry
    <2>2. PICK e \in fresh \ Range(u) : w = With(u, p, e)
      BY <2>1
    <2>3. DOMAIN u \subseteq DOMAIN w /\ \A q \in DOMAIN u : w[q] = u[q]
      BY <1>1, <2>2 DEF With
    <2> QED BY <1>1, <2>3
  <1> QED BY <1>1, <1>2

(* Where the notes are those the operator saw.                              *)
Settled == req.at \in {"idle", "remap back", "take", "recall cards", "return",
                       "forget again", "drop"}

LEMMA NotesHere ==
    ASSUME PromiseInv, ~loose, Settled
    PROVE  Noting(seen.notes, tree, cards, trash)
  <1>1. /\ Inv /\ SeenInv /\ NotesInv /\ SoFar(seen, req, tree, made)
        /\ IsTree(seen.tree) /\ Range(seen.tree) \subseteq seen.made
    BY DEF PromiseInv, SeenInv
  <1>2. req.at # "idle" => InPlace(req, tree, trash) /\ req.path \in Paths
    BY <1>1, Placed DEF At, Inv
  <1>3. CASE req.at = "drop"
    BY <1>1, <1>3 DEF NotesInv
  <1>4. CASE req.at \in {"idle", "remap back"}
    BY <1>1, <1>4 DEF NotesInv, Found, SoFar
  <1>5. CASE req.at \in {"take", "recall cards"}
    <2>1. ~Listed(req.box)
      BY <1>2, <1>5 DEF InPlace, Listed
    <2>2. Noting(seen.notes, tree, cards, trash \ {req.box})
      BY <1>1, <1>5 DEF NotesInv, Found, SoFar
    <2>3. {c \in trash \ {req.box} : Listed(c)} = {c \in trash : Listed(c)}
      BY <2>1
    <2> QED BY <2>2, <2>3, ListedOnly
  <1>6. CASE req.at \in {"return", "forget again"}
    <2>1. Noting(seen.notes, seen.tree, cards, trash)
      BY <1>1, <1>6 DEF NotesInv, Found
    <2>2. /\ MayHoldFolder(seen.tree, Front(req.path))
          /\ tree \in WithParent(seen.tree, req.path, Entries \ seen.made)
      BY <1>1, <1>6 DEF SoFar, Opens
    <2>3. /\ DOMAIN seen.tree \subseteq DOMAIN tree
          /\ \A q \in DOMAIN seen.tree : tree[q] = seen.tree[q]
      <3> DEFINE fresh == Entries \ seen.made
      <3>1. /\ req.path \in Paths /\ req.path \notin DOMAIN seen.tree
            /\ tree \in WithParent(seen.tree, req.path, fresh)
                          \cup WithEntry(seen.tree, req.path, fresh)
        BY <1>1, <1>2, <1>6, <2>2 DEF SoFar, Opens
      <3> HIDE DEF fresh
      <3> QED BY <2>2, <3>1, Grown
    <2> QED BY <2>1, <2>3, NotesGrow
  <1> QED BY <1>3, <1>4, <1>5, <1>6 DEF Settled

LEMMA EndsUntouched ==
    ASSUME PromiseInv, Inv', Ends, UNCHANGED <<tree, made, asked>>,
           {c \in trash' : Listed(c)} = {c \in trash : Listed(c)},
           loose' \in BOOLEAN, loose => loose',
           loose' \/ (Settled /\ cards' = cards)
    PROVE  Fulfils
  <1>1. ~loose' => Noting(seen.notes, tree, cards', trash)
    BY NotesHere
  <1> QED BY <1>1, EndsHere

(* Writing the notes failed.                                                *)
LEMMA NotWritten ==
    ASSUME PromiseInv, SaveFails
    PROVE  loose' \in BOOLEAN /\ (loose => loose') /\ (loose' \/ cards' = cards)
  BY DEF SaveFails, PromiseInv, SeenInv

-----------------------------------------------------------------------------
(* Each action does what has to be shown. *)

LEMMA EndsUndone ==
    ASSUME PromiseInv, Inv',
           \/ SaveCardFails \/ RenameBackFails \/ RemapBackFails \/ TakeBackFails
           \/ ReturnFails \/ ReturnAgainFails \/ ForgetAgainFails \/ Kill
    PROVE  Fulfils
  <1> USE DEF Settled, At
  <1>1. loose \in BOOLEAN
    BY DEF PromiseInv, SeenInv
  <1>2. CASE SaveCardFails
    <2>1. req.at = "idle"
      BY <1>2 DEF SaveCardFails, Idle
    <2> QED BY <1>2, <2>1, NotWritten, EndsUntouched DEF SaveCardFails
  <1>3. CASE RemapBackFails \/ ForgetAgainFails
    BY <1>3, NotWritten, EndsUntouched DEF RemapBackFails, ForgetAgainFails
  <1>4. CASE RenameBackFails \/ TakeBackFails \/ ReturnAgainFails \/ Kill
    BY <1>4, EndsUntouched DEF RenameBackFails, TakeBackFails, ReturnAgainFails, Kill, NotUndone
  <1>5. CASE ReturnFails
    BY <1>1, <1>5, EndsUntouched DEF ReturnFails
  <1> QED BY <1>2, <1>3, <1>4, <1>5

LEMMA EndsForgetAgain ==
    ASSUME PromiseInv, Inv', ForgetAgain
    PROVE  Fulfils
  <1>1. /\ At("forget again") /\ req.at = "forget again" /\ loose \in BOOLEAN
        /\ IsTree(tree)
    BY DEF ForgetAgain, At, PromiseInv, SeenInv, Inv, StoredInv, Stored
  <1>2. req.path \in Paths /\ req.path \notin DOMAIN tree
    BY <1>1, Placed DEF PromiseInv, Inv, InPlace, Room
  <1>3. ~loose => cards' = cards
    <2>1. ~loose => Carded(tree, cards)
      BY <1>1, NotesHere DEF Settled, Noting
    <2> QED BY <1>1, <1>2, <2>1, NothingRemoved DEF ForgetAgain
  <1> QED BY <1>1, <1>3, EndsUntouched DEF ForgetAgain, Settled

LEMMA EndsRecall ==
    ASSUME PromiseInv, Inv', RecallCards \/ RecallCardsFails
    PROVE  Fulfils
  <1>1. /\ At("recall cards") /\ req.at = "recall cards" /\ loose \in BOOLEAN
        /\ Ends /\ UNCHANGED <<tree, made, asked>>
    BY DEF RecallCards, RecallCardsFails, At, PromiseInv, SeenInv
  <1>2. InPlace(req, tree, trash)
    BY <1>1, Placed DEF PromiseInv, Inv
  <1>3. ~Listed(req.box) /\ req.box.path = req.path
    BY <1>1, <1>2 DEF InPlace, Held, Listed
  <1>4. {c \in trash' : Listed(c)} = {c \in trash : Listed(c)}
    BY <1>3 DEF RecallCards, RecallCardsFails
  <1>5. ~loose => Recalled(req.box) = cards
    <2>1. ~loose => Carded(tree, cards)
      BY <1>1, NotesHere DEF Settled, Noting
    <2>2. ~loose => req.box.meta = Snapshot(req.box.path)
      BY <1>1, <1>3 DEF PromiseInv, NotesInv
    <2> QED BY <2>1, <2>2, NothingRecalled
  <1>6. loose' \in BOOLEAN /\ (loose => loose') /\ (loose' \/ cards' = cards)
    BY <1>1, <1>5, NotWritten DEF RecallCards, RecallCardsFails
  <1> QED BY <1>1, <1>4, <1>6, EndsUntouched DEF Settled

LEMMA EndsDrop ==
    ASSUME PromiseInv, Inv', Drop \/ DropFails
    PROVE  Fulfils
  <1>1. /\ At("drop") /\ req.at = "drop" /\ loose \in BOOLEAN
        /\ Ends /\ UNCHANGED <<tree, cards, made, asked, loose>>
    BY DEF Drop, DropFails, At, PromiseInv, SeenInv
  <1>2. InPlace(req, tree, trash)
    BY <1>1, Placed DEF PromiseInv, Inv
  <1>3. req.box.item = Nothing /\ req.box \in trash
    BY <1>1, <1>2 DEF InPlace, Held
  <1>4. {c \in trash' : Listed(c)} = {c \in trash : Listed(c)}
    <2>1. CASE Drop
      BY <1>3, <2>1 DEF Drop, Listed
    <2>2. CASE DropFails
      <3>1. PICK manifest \in BOOLEAN :
              trash' = (trash \ {req.box}) \cup {[req.box EXCEPT !.manifest = manifest]}
        BY <2>2 DEF DropFails
      <3> DEFINE b == [req.box EXCEPT !.manifest = manifest]
      <3>2. b.item = Nothing
        BY <1>3, BoxOf DEF PromiseInv
      <3>3. trash' = (trash \ {req.box}) \cup {b}
        BY <3>1
      <3> HIDE DEF b
      <3> QED BY <1>3, <3>2, <3>3 DEF Listed
    <2> QED BY <2>1, <2>2
  <1> QED BY <1>1, <1>4, EndsUntouched DEF Settled

LEMMA EndsRemap ==
    ASSUME PromiseInv, Inv', Remap
    PROVE  Fulfils
  <1> DEFINE p == req.path
             q == req.dest
  <1>1. /\ req.at = "remap" /\ loose \in BOOLEAN /\ Inv /\ NotesInv
        /\ SoFar(seen, req, tree, made) /\ IsTree(seen.tree)
    BY DEF Remap, At, PromiseInv, SeenInv
  <1>2. loose' \in BOOLEAN /\ loose' = (loose \/ Strands) /\ cards' \in Remaps(p, q)
        /\ UNCHANGED <<tree, trash, made, asked>> /\ Ends
    BY <1>1 DEF Remap, Strands
  <1>3. /\ p \in DOMAIN seen.tree /\ q \in Paths /\ q \notin DOMAIN seen.tree
        /\ ~Inside(q, p) /\ HoldsFolder(seen.tree, Front(q))
        /\ tree = Grafted(Cut(seen.tree, p), q, Subtree(seen.tree, p))
    BY <1>1 DEF SoFar
  <1>4. ASSUME ~loose'
        PROVE  Noting(seen.notes, tree, cards', trash)
    <2>1. ~loose /\ (Front(p) # Front(q) => \A c \in cards : c.card # p)
      BY <1>2, <1>4 DEF Strands
    <2>2. Noting(seen.notes, seen.tree, cards, trash)
      BY <1>1, <2>1 DEF NotesInv, Found
    <2> QED BY <1>1, <1>2, <1>3, <2>1, <2>2, NotesMoved
  <1> QED BY <1>2, <1>4, EndsHere

LEMMA EndsRemapBack ==
    ASSUME PromiseInv, Inv', RemapBack
    PROVE  Fulfils
  <1>1. /\ req.at = "remap back" /\ loose \in BOOLEAN
        /\ SoFar(seen, req, tree, made) /\ IsTree(tree)
        /\ cards' \in Remaps(req.dest, req.path)
    BY DEF RemapBack, At, PromiseInv, SeenInv, Inv, StoredInv, Stored
  <1>2. req.dest \in Paths /\ req.dest \notin DOMAIN tree
    BY <1>1 DEF SoFar
  <1>3. ~loose => cards' = cards
    <2>1. ~loose => Carded(tree, cards)
      BY <1>1, NotesHere DEF Settled, Noting
    <2> QED BY <1>1, <1>2, <2>1, NothingTurned
  <1> QED BY <1>1, <1>3, EndsUntouched DEF RemapBack, Settled

LEMMA EndsForget ==
    ASSUME PromiseInv, Inv', Forget
    PROVE  Fulfils
  <1> DEFINE p == req.path
             box == req.box
  <1>1. /\ At("forget") /\ req.at = "forget" /\ loose \in BOOLEAN /\ NotesInv
        /\ SoFar(seen, req, tree, made) /\ IsTree(seen.tree) /\ PlaceInv
        /\ cards' = Removed(p) /\ UNCHANGED <<tree, trash, made, asked, loose>> /\ Ends
    BY DEF Forget, At, PromiseInv, SeenInv, Inv
  <1>2. box \in trash /\ box.path = p /\ Listed(box)
    BY <1>1, Placed DEF InPlace, Held, Listed
  <1>3. /\ p \in DOMAIN seen.tree /\ tree = Cut(seen.tree, p)
        /\ box.item = Subtree(seen.tree, p)
    BY <1>1 DEF SoFar
  <1>4. IsBox(box)
    BY <1>2 DEF PromiseInv, Inv, StoredInv, Stored
  <1>5. ASSUME ~loose
        PROVE  Noting(seen.notes, tree, cards', trash)
    <2>1. Noting(seen.notes, seen.tree, cards, trash \ {box}) /\ box.meta = Snapshot(p)
      BY <1>1, <1>5 DEF NotesInv, Found
    <2>2. Noting(seen.notes, Cut(seen.tree, p), Removed(p), (trash \ {box}) \cup {box})
      BY <1>1, <1>2, <1>3, <1>4, <2>1, NotesTaken
    <2>3. (trash \ {box}) \cup {box} = trash
      BY <1>2
    <2> QED BY <1>1, <1>3, <2>2, <2>3
  <1> QED BY <1>1, <1>5, EndsHere

(* Between two requests.                                                    *)
LEMMA AtIdle ==
    ASSUME PromiseInv, req = Idle
    PROVE  /\ seen.tree = tree /\ seen.trash = Shown(trash) /\ seen.made = made
           /\ seen.asked = asked /\ loose \in BOOLEAN /\ seen.loose \in BOOLEAN
           /\ seen.loose => loose
           /\ ~loose => Noting(seen.notes, tree, cards, trash)
           /\ Stored(tree, trash, made, asked) /\ SeenInv
  <1>1. req.at = "idle"
    BY DEF Idle
  <1>2. /\ seen.tree = tree /\ seen.trash = Shown(trash) /\ seen.made = made
        /\ seen.asked = asked /\ loose \in BOOLEAN /\ seen.loose \in BOOLEAN
        /\ seen.loose => loose
    BY <1>1 DEF PromiseInv, SeenInv, SoFar, Found
  <1>3. ~loose => Noting(seen.notes, tree, cards, trash)
    BY <1>1, NotesHere DEF Settled
  <1> QED BY <1>2, <1>3 DEF PromiseInv, Inv, StoredInv

LEMMA EndsCreate ==
    ASSUME PromiseInv, Inv', NEW p \in Paths, Create(p) \/ CreateFails(p)
    PROVE  Fulfils
  <1>1. /\ req = Idle /\ p \notin DOMAIN tree /\ MayHoldFolder(tree, Front(p))
        /\ made' = made \cup Range(tree') /\ Ends
        /\ UNCHANGED <<trash, cards, asked, loose>>
        /\ \/ tree' \in WithEntry(tree, p, Entries \ made)
           \/ /\ tree' \in WithParent(tree, p, Entries \ made)
              /\ ~HoldsFolder(tree, Front(p))
    BY DEF Create, CreateFails
  <1>2. /\ seen.tree = tree /\ seen.trash = Shown(trash) /\ seen.made = made
        /\ seen.asked = asked /\ loose \in BOOLEAN /\ SeenInv
        /\ ~loose => Noting(seen.notes, tree, cards, trash)
        /\ IsTree(tree) /\ Range(tree) \subseteq made
    BY <1>1, AtIdle DEF Stored
  <1>3. /\ seen'.tree = tree' /\ seen'.trash = Shown(trash') /\ seen'.made = made'
        /\ seen'.asked = asked'
    BY <1>1, EndsSeen
  <1>4. Changes(seen, seen')
    <2>1. CASE tree' \in WithEntry(tree, p, Entries \ made)
      <3>1. Creates(seen, seen', p)
        BY <1>1, <1>2, <1>3, <2>1 DEF Creates
      <3> QED BY <3>1 DEF Changes
    <2>2. CASE /\ tree' \in WithParent(tree, p, Entries \ made)
               /\ ~HoldsFolder(tree, Front(p))
      <3>1. /\ Front(p) \in Paths /\ Front(p) \notin DOMAIN tree
            /\ MayHoldFolder(tree, Front(Front(p)))
            /\ tree' \in WithEntry(tree, Front(p), Entries \ made)
        BY <1>1, <1>2, <2>2, FolderMade
      <3>2. Creates(seen, seen', Front(p))
        BY <1>1, <1>2, <1>3, <3>1 DEF Creates
      <3> QED BY <3>1, <3>2 DEF Changes
    <2> QED BY <1>1, <2>1, <2>2
  <1>5. DOMAIN tree \subseteq DOMAIN tree' /\ \A q \in DOMAIN tree : tree'[q] = tree[q]
    BY <1>1, Grown
  <1>6. ~loose' => Noting(seen.notes, tree', cards', trash')
    BY <1>1, <1>2, <1>5, NotesGrow
  <1> QED BY <1>1, <1>2, <1>4, <1>6, EndsChanged

LEMMA EndsSaveCard ==
    ASSUME PromiseInv, Inv', NEW p \in Paths, NEW n \in Notes, SaveCard(p, n)
    PROVE  Fulfils
  <1>1. /\ req = Idle /\ p \in DOMAIN tree /\ cards' = Noted(p, n) /\ Ends
        /\ UNCHANGED <<tree, trash, made, asked, loose>>
    BY DEF SaveCard
  <1>2. /\ seen.tree = tree /\ seen.trash = Shown(trash) /\ seen.made = made
        /\ seen.asked = asked /\ loose \in BOOLEAN /\ seen.loose \in BOOLEAN
        /\ seen.loose => loose
        /\ ~loose => Noting(seen.notes, tree, cards, trash)
        /\ SeenInv
        /\ IsTree(tree) /\ \A b \in trash : IsBox(b) /\ Range(tree) \cap Range(b.item) = {}
    BY <1>1, AtIdle DEF Stored
  <1>3. CASE loose
    BY <1>1, <1>2, <1>3, EndsSame
  <1>4. CASE ~loose
    <2> DEFINE notes == {m \in seen.notes : m[1] # tree[p]} \cup {<<tree[p], n>>}
    <2>1. Noting(notes, tree', cards', trash')
      BY <1>1, <1>2, <1>4, NotesSaved
    <2>2. /\ SeenInv' /\ NotesInv'
          /\ seen'.tree = tree' /\ seen'.trash = Shown(trash') /\ seen'.made = made'
          /\ seen'.asked = asked' /\ seen'.loose = loose'
          /\ seen'.notes = CardNotes(tree', cards') \cup TrashNotes(trash')
      BY <1>1, <1>2, <2>1, EndsInv
    <2>3. seen'.notes = notes
      BY <2>1, <2>2 DEF Noting
    <2>4. tree[p] \in Entries /\ tree[p] \in Range(tree)
      BY <1>1, <1>2 DEF IsTree, Range
    <2>5. Promise!Annotate(tree[p], n)
      BY <1>1, <1>2, <1>4, <2>2, <2>3, <2>4, SameOps DEF Promise!Annotate
    <2> QED BY <2>2, <2>4, <2>5, SameOps DEF Promise!Next, Fulfils
  <1> QED BY <1>2, <1>3, <1>4

(* What a container that the trash does not list still holds is to be       *)
(* deleted.                                                                 *)
LEMMA UnlistedAsked ==
    ASSUME NEW t, NEW boxes, NEW m, NEW a, Stored(t, boxes, m, a),
           NEW chosen \in SUBSET boxes
    PROVE  a \cup UNION {Range(c.item) : c \in chosen}
             = a \cup UNION {Range(c.item) : c \in Shown(chosen)}
  <1>1. ASSUME NEW c \in chosen, NEW e \in Range(c.item)
        PROVE  e \in a \cup UNION {Range(d.item) : d \in Shown(chosen)}
    <2>1. CASE Listed(c)
      <3> DEFINE d == [path |-> c.path, item |-> c.item]
      <3>1. d \in Shown(chosen) /\ d.item = c.item
        BY <2>1 DEF Shown
      <3> QED BY <3>1
    <2>2. CASE ~Listed(c)
      <3>1. ~c.manifest
        BY <2>2, Nothings DEF Listed
      <3>2. e \in m /\ e \notin Range(t)
        BY DEF Stored
      <3>3. \A d \in boxes : e \in Range(d.item) => d = c
        BY DEF Stored
      <3> QED BY <3>1, <3>2, <3>3 DEF Stored
    <2> QED BY <2>1, <2>2
  <1>2. ASSUME NEW d \in Shown(chosen), NEW e \in Range(d.item)
        PROVE  e \in UNION {Range(c.item) : c \in chosen}
    <2>1. PICK c \in chosen : d = [path |-> c.path, item |-> c.item]
      BY DEF Shown
    <2> QED BY <2>1
  <1> QED BY <1>1, <1>2

LEMMA EndsPurge ==
    ASSUME PromiseInv, Inv', NEW chosen \in SUBSET trash, Purge(chosen)
    PROVE  Fulfils
  <1>1. /\ req = Idle /\ trash' = trash \ chosen /\ Ends
        /\ tree' = tree /\ cards' = cards /\ made' = made /\ loose' = loose
    BY DEF Purge, Asks
  <1>13. asked' = asked \cup UNION {Range(c.item) : c \in chosen}
    BY DEF Purge, Asks
  <1>2. /\ seen.tree = tree /\ seen.trash = Shown(trash) /\ seen.made = made
        /\ seen.asked = asked /\ loose \in BOOLEAN
        /\ (seen.loose => loose)
        /\ ~loose => Noting(seen.notes, tree, cards, trash)
        /\ Stored(tree, trash, made, asked)
    BY <1>1, AtIdle
  <1>3. /\ \A b \in trash : IsBox(b) /\ Range(tree) \cap Range(b.item) = {}
        /\ \A b, c \in trash : b # c => Range(b.item) \cap Range(c.item) = {}
    BY <1>2 DEF Stored
  <1>4. /\ seen'.tree = tree' /\ seen'.trash = Shown(trash') /\ seen'.made = made'
        /\ seen'.asked = asked' /\ seen'.loose = loose'
        /\ seen'.notes = CardNotes(tree', cards') \cup TrashNotes(trash')
    BY <1>1, EndsSeen
  <1> DEFINE kept == {n \in seen.notes : n[1] \in KeptIn(seen')}
  <1>12. \A n : n \in kept <=> n \in seen.notes /\ n[1] \in KeptIn(seen')
    OBVIOUS
  <1> HIDE DEF kept
  <1>5. ~loose' => Noting(kept, tree', cards', trash')
    <2>1. ASSUME ~loose
          PROVE  Noting(kept, tree, cards, trash \ chosen)
      BY <1>1, <1>2, <1>3, <1>4, <1>12, <2>1, NotesPurged
    <2> QED BY <1>1, <2>1
  <1>6. SeenInv' /\ NotesInv'
    <2>1. ~loose' => \E notes : Noting(notes, tree', cards', trash')
      BY <1>5
    <2>2. loose' \in BOOLEAN
      BY <1>1, <1>2
    <2> QED BY <1>1, <2>1, <2>2, EndsInv
  <1>7. Follows(seen, seen')
    <2>1. ~loose' => seen'.notes = kept
      BY <1>4, <1>5 DEF Noting
    <2>2. (seen.loose => seen'.loose) /\ (seen'.loose \/ ~loose')
      BY <1>1, <1>2, <1>4
    <2> QED BY <2>1, <2>2 DEF Follows, kept
  <1>8. Shown(chosen) \subseteq seen.trash /\ seen'.trash = seen.trash \ Shown(chosen)
    <2>1. Shown(chosen) \subseteq Shown(trash)
      BY DEF Shown
    <2> QED BY <1>1, <1>2, <1>3, <1>4, <2>1, ShownLess
  <1>9. seen'.asked = seen.asked \cup UNION {Range(c.item) : c \in Shown(chosen)}
    <2>1. asked \cup UNION {Range(c.item) : c \in chosen}
            = asked \cup UNION {Range(c.item) : c \in Shown(chosen)}
      BY <1>2, UnlistedAsked
    <2>2. seen'.asked = asked' /\ seen.asked = asked
      BY <1>2, <1>4
    <2> QED BY <1>13, <2>1, <2>2
  <1>10. Purges(seen, seen', Shown(chosen))
    BY <1>1, <1>2, <1>4, <1>8, <1>9 DEF Purges
  <1>11. Changes(seen, seen')
    BY <1>8, <1>10 DEF Changes
  <1> QED BY <1>6, <1>7, <1>11, ChangePromised DEF Fulfils

LEMMA EndsPurgeFails ==
    ASSUME PromiseInv, Inv', NEW chosen \in SUBSET trash, PurgeFails(chosen)
    PROVE  Fulfils
  <1>1. /\ req = Idle /\ asked' = asked \cup UNION {Range(c.item) : c \in chosen}
        /\ Ends /\ loose' = TRUE
        /\ UNCHANGED <<tree, cards, made>>
    BY DEF PurgeFails, Asks, NotUndone
  <1>2. /\ seen.tree = tree /\ seen.trash = Shown(trash) /\ seen.made = made
        /\ seen.asked = asked
        /\ Stored(tree, trash, made, asked) /\ SeenInv
    BY <1>1, AtIdle
  <1>3. /\ \A b \in trash : IsBox(b)
        /\ \A b, c \in trash : b # c => Range(b.item) \cap Range(c.item) = {}
    BY <1>2 DEF Stored
  <1>4. /\ seen'.tree = tree' /\ seen'.trash = Shown(trash') /\ seen'.made = made'
        /\ seen'.asked = asked'
    BY <1>1, EndsSeen
  <1>5. PICK gone \in SUBSET chosen : \E c \in chosen \ gone :
              \E rest \in Remainders(c.item), manifest \in BOOLEAN :
                trash' = (trash \ (gone \cup {c}))
                         \cup {[c EXCEPT !.item = rest, !.manifest = @ /\ manifest]}
    BY DEF PurgeFails
  <1>6. PICK c \in chosen \ gone :
              \E rest \in Remainders(c.item), manifest \in BOOLEAN :
                trash' = (trash \ (gone \cup {c}))
                         \cup {[c EXCEPT !.item = rest, !.manifest = @ /\ manifest]}
    BY <1>5
  <1>7. PICK rest \in Remainders(c.item), manifest \in BOOLEAN :
                trash' = (trash \ (gone \cup {c}))
                         \cup {[c EXCEPT !.item = rest, !.manifest = @ /\ manifest]}
    BY <1>6
  <1> DEFINE box == [c EXCEPT !.item = rest, !.manifest = @ /\ manifest]
             all == gone \cup {c}
             some == Shown(all)
  <1>8. /\ box.path = c.path /\ box.item = rest
        /\ (box.manifest => c.manifest) /\ Range(rest) \subseteq Range(c.item)
    <2> DEFINE first == [c EXCEPT !.item = rest]
               kept == c.manifest /\ manifest
    <2>1. IsBox(c)
      BY <1>3
    <2>2. first = [path |-> c.path, meta |-> c.meta, item |-> rest, manifest |-> c.manifest]
      BY <2>1, Boxes
    <2>3. box = [first EXCEPT !.manifest = kept]
      BY <2>1 DEF IsBox
    <2>4. box = [path |-> c.path, meta |-> c.meta, item |-> rest, manifest |-> kept]
      <3> HIDE DEF first
      <3> QED BY <2>2, <2>3
    <2>5. kept => c.manifest
      OBVIOUS
    <2> HIDE DEF box, kept
    <2> QED BY <2>1, <2>4, <2>5, RestOf
  <1>9. trash' = (trash \ all) \cup {box} /\ all \in SUBSET trash /\ c \in all
    BY <1>7
  <1> HIDE DEF box, all
  <1>10. Shown(trash \ all) = seen.trash \ some
    <2>1. all \in SUBSET trash
      BY <1>9
    <2>2. Shown(trash \ all) = Shown(trash) \ Shown(all)
      BY ONLY <1>3, <2>1, ShownLess
    <2> QED BY <1>2, <2>2
  <1>11. some \subseteq Shown(chosen) /\ Shown(chosen) \subseteq seen.trash
    BY <1>2, <1>9 DEF Shown, all
  <1>12. \/ seen'.trash = seen.trash \ some
         \/ \E x \in some : \E r \in Remainders(x.item) :
               seen'.trash = (seen.trash \ some) \cup {[x EXCEPT !.item = r]}
    <2>1. CASE Listed(box)
      <3> DEFINE d == [path |-> c.path, item |-> c.item]
      <3>1. rest # Nothing /\ IsItem(rest, c.path)
        BY <1>3, <1>8, <2>1, Remains DEF Listed, IsBox
      <3>2. Root \in DOMAIN rest
        BY <3>1, Nothings
      <3>3. Range(c.item) # {}
        BY <1>8, <3>2 DEF Range
      <3>4. Listed(c)
        BY <1>8, <2>1, <3>3, Nothings DEF Listed
      <3>5. d \in some
        BY <1>9, <3>4 DEF Shown
      <3>6. d.item = c.item /\ [d EXCEPT !.item = rest] = [path |-> c.path, item |-> rest]
        OBVIOUS
      <3> HIDE DEF some, d
      <3>7. seen'.trash = (seen.trash \ some) \cup {[path |-> c.path, item |-> rest]}
        BY <1>4, <1>8, <1>9, <1>10, <2>1, ShownOf
      <3>8. rest \in Remainders(d.item)
        BY <1>7, <3>6
      <3>9. seen'.trash = (seen.trash \ some) \cup {[d EXCEPT !.item = rest]}
        BY <3>6, <3>7
      <3> QED BY ONLY <3>5, <3>8, <3>9
    <2>2. CASE ~Listed(box)
      <3>1. Shown(trash') = Shown(trash \ all)
        BY <1>9, <2>2 DEF Shown
      <3> QED BY <1>4, <1>10, <3>1
    <2> QED BY <2>1, <2>2
  <1>13. seen'.asked = seen.asked \cup UNION {Range(x.item) : x \in Shown(chosen)}
    BY <1>1, <1>2, <1>4, UnlistedAsked
  <1> HIDE DEF some
  <1>14. Purges(seen, seen', Shown(chosen))
    BY <1>1, <1>2, <1>4, <1>11, <1>12, <1>13 DEF Purges
  <1>15. Changes(seen, seen')
    BY <1>11, <1>14 DEF Changes
  <1> QED BY <1>1, <1>2, <1>15, EndsChanged

(* A request goes on.                                                       *)
LEMMA GoesTo ==
    ASSUME PlaceInv, NEW place, At(place), place # "idle", NEW next, NEW box,
           GoesWith(next, box)
    PROVE  /\ req'.at = next /\ req'.path = req.path /\ req'.dest = req.dest
           /\ req'.box = box /\ seen' = seen /\ req.at = place
           /\ InPlace(req, tree, trash) /\ req.path \in Paths
  <1>1. /\ req = [at |-> place, path |-> req.path, dest |-> req.dest, box |-> req.box]
        /\ req.at = place /\ InPlace(req, tree, trash) /\ req.path \in Paths
    BY Placed
  <1>2. req' = [at |-> next, path |-> req.path, dest |-> req.dest, box |-> box]
    BY <1>1, GoesOn DEF GoesWith
  <1>3. seen' = seen
    BY DEF GoesWith
  <1> QED BY <1>1, <1>2, <1>3

LEMMA GoesFrom ==
    ASSUME PlaceInv, NEW place, At(place), place # "idle", NEW next, Goes(next)
    PROVE  /\ req'.at = next /\ req'.path = req.path /\ req'.dest = req.dest
           /\ req'.box = req.box /\ seen' = seen /\ req.at = place
           /\ InPlace(req, tree, trash) /\ req.path \in Paths
  <1>1. /\ req = [at |-> place, path |-> req.path, dest |-> req.dest, box |-> req.box]
        /\ req.at = place /\ InPlace(req, tree, trash) /\ req.path \in Paths
    BY Placed
  <1>2. req' = [at |-> next, path |-> req.path, dest |-> req.dest, box |-> req.box]
    BY <1>1, GoesOn DEF Goes
  <1>3. seen' = seen
    BY DEF Goes
  <1> QED BY <1>1, <1>2, <1>3

LEMMA GoesSeen ==
    ASSUME SeenInv, UNCHANGED <<seen, asked>>, loose' \in BOOLEAN, loose => loose',
           Shown(Found(req', tree', trash')) = seen.trash,
           SoFar(seen, req', tree', made'),
           ~loose' /\ req'.at # "drop"
               => Noting(seen.notes, seen.tree, cards', Found(req', tree', trash')),
           ~loose' /\ req'.at = "drop" => Noting(seen.notes, tree', cards', trash'),
           ~loose' /\ req'.at \in {"take", "forget", "take back", "recall cards"}
               => cards' = cards /\ req'.box.meta = Snapshot(req'.path)
    PROVE  Fulfils
  <1>1. SeenInv'
    <2>1. /\ IsTree(seen.tree) /\ Range(seen.tree) \subseteq seen.made
          /\ seen.asked = asked /\ seen.loose \in BOOLEAN /\ (seen.loose => loose)
      BY DEF SeenInv
    <2>2. seen' = seen /\ asked' = asked
      OBVIOUS
    <2>3. seen.loose => loose'
      BY <2>1
    <2> QED BY <2>1, <2>2, <2>3 DEF SeenInv
  <1>2. ~loose' /\ req'.at \in {"take", "forget", "take back", "recall cards"}
            => (req.box.meta = Snapshot(req.path))'
    BY DEF Snapshot
  <1>3. NotesInv'
    BY <1>2 DEF NotesInv
  <1> QED BY <1>1, <1>3, GoesOnSeen

LEMMA BeginsRestore ==
    ASSUME PromiseInv, NEW c \in trash, Restore(c)
    PROVE  Fulfils
  <1>1. /\ req = Idle /\ c.path \notin DOMAIN tree /\ MayHoldFolder(tree, Front(c.path))
        /\ tree' \in WithParent(tree, c.path, Entries \ made)
        /\ made' = made \cup Range(tree')
        /\ req' = [at |-> "return", path |-> c.path, dest |-> None, box |-> c]
        /\ UNCHANGED <<trash, cards, asked, loose, seen>>
    BY DEF Restore, Begins
  <1>2. req'.at = "return" /\ req'.path = c.path /\ req'.box = c
    BY <1>1
  <1>3. /\ seen.tree = tree /\ seen.trash = Shown(trash) /\ seen.made = made
        /\ loose \in BOOLEAN /\ SeenInv
        /\ ~loose => Noting(seen.notes, tree, cards, trash)
        /\ Range(c.item) \subseteq made
    BY <1>1, AtIdle DEF Stored
  <1>4. Found(req', tree', trash') = trash
    BY <1>1, <1>2 DEF Found
  <1>5. SoFar(seen, req', tree', made')
    BY <1>1, <1>2, <1>3 DEF SoFar, Opens
  <1> QED BY <1>1, <1>2, <1>3, <1>4, <1>5, GoesSeen

LEMMA BeginsRelocate ==
    ASSUME PromiseInv, NEW p, NEW q \in Paths, HoldsFolder(tree, Front(q)), Relocate(p, q)
    PROVE  Fulfils
  <1>1. /\ req = Idle /\ p \in DOMAIN tree /\ q \notin DOMAIN tree /\ ~Inside(q, p)
        /\ \A s \in DOMAIN Subtree(tree, p) : q \o s \in Paths
        /\ tree' = Grafted(Cut(tree, p), q, Subtree(tree, p))
        /\ req' = [at |-> "remap", path |-> p, dest |-> q, box |-> None]
        /\ UNCHANGED <<trash, cards, made, asked, loose, seen>>
    BY DEF Relocate, Begins
  <1>2. req'.at = "remap" /\ req'.path = p /\ req'.dest = q
    BY <1>1
  <1>3. /\ seen.tree = tree /\ seen.trash = Shown(trash) /\ seen.made = made
        /\ loose \in BOOLEAN /\ SeenInv
        /\ ~loose => Noting(seen.notes, tree, cards, trash)
    BY <1>1, AtIdle
  <1>4. Found(req', tree', trash') = trash
    BY <1>1, <1>2 DEF Found
  <1>5. SoFar(seen, req', tree', made')
    BY <1>1, <1>2, <1>3 DEF SoFar
  <1> QED BY <1>1, <1>2, <1>3, <1>4, <1>5, GoesSeen

LEMMA BeginsDiscard ==
    ASSUME PromiseInv, NEW p \in Paths, Discard(p)
    PROVE  Fulfils
  <1> DEFINE box == Container(p, Snapshot(p))
  <1>1. /\ req = Idle /\ p \in DOMAIN tree
        /\ req' = [at |-> "take", path |-> p, dest |-> None, box |-> box]
        /\ trash' = trash \cup {box}
        /\ UNCHANGED <<tree, cards, made, asked, loose, seen>>
    BY DEF Discard, Begins
  <1>2. box.item = Nothing /\ box.meta = Snapshot(p)
    BY DEF Container
  <1> HIDE DEF box
  <1>3. req'.at = "take" /\ req'.path = p /\ req'.box = box
    BY <1>1
  <1>4. /\ seen.tree = tree /\ seen.trash = Shown(trash) /\ seen.made = made
        /\ loose \in BOOLEAN /\ SeenInv
        /\ ~loose => Noting(seen.notes, tree, cards, trash)
    BY <1>1, AtIdle
  <1>5. Found(req', tree', trash') = trash' \ {box}
    BY <1>3 DEF Found
  <1>6. {c \in Found(req', tree', trash') : Listed(c)} = {c \in trash : Listed(c)}
    BY <1>1, <1>2, <1>5 DEF Listed
  <1>7. /\ Shown(Found(req', tree', trash')) = seen.trash
        /\ ~loose => Noting(seen.notes, tree, cards, Found(req', tree', trash'))
    BY <1>4, <1>6, ListedOnly
  <1>8. SoFar(seen, req', tree', made')
    BY <1>1, <1>3, <1>4 DEF SoFar
  <1> QED BY <1>1, <1>2, <1>3, <1>4, <1>7, <1>8, GoesSeen

(* A request goes on to undo or to clear up, with nothing changed yet.      *)
LEMMA GoesUnchanged ==
    ASSUME PromiseInv, RemapFails \/ ForgetFails \/ PutBackFails
    PROVE  Fulfils
  <1>1. ASSUME NEW place, NEW next, At(place), Goes(next), SaveFails,
               UNCHANGED <<tree, trash, made, asked>>,
               \/ place = "remap" /\ next = "rename back"
               \/ place = "forget" /\ next = "take back"
               \/ place = "put back" /\ next = "return again"
        PROVE  Fulfils
    <2>1. /\ req.at = place /\ req'.at = next /\ req'.path = req.path
          /\ req'.dest = req.dest /\ req'.box = req.box /\ seen' = seen
      BY <1>1, GoesFrom DEF PromiseInv, Inv
    <2>2. /\ SeenInv /\ NotesInv /\ seen.trash = Shown(Found(req, tree, trash))
          /\ SoFar(seen, req, tree, made)
      BY DEF PromiseInv, SeenInv
    <2>3. loose' \in BOOLEAN /\ (loose => loose') /\ (loose' \/ cards' = cards)
      BY <1>1, NotWritten
    <2>4. Found(req', tree', trash') = Found(req, tree, trash)
      BY <1>1, <2>1 DEF Found
    <2>5. SoFar(seen, req', tree', made')
      BY <1>1, <2>1, <2>2 DEF SoFar
    <2>6. ~loose' => /\ cards' = cards
                     /\ Noting(seen.notes, seen.tree, cards, Found(req, tree, trash))
                     /\ place = "forget" => req.box.meta = Snapshot(req.path)
      BY <1>1, <2>1, <2>2, <2>3 DEF NotesInv
    <2>7. next # "drop" /\ (next \in {"take", "forget", "take back", "recall cards"}
                              => place = "forget")
      BY <1>1
    <2> QED BY <1>1, <2>1, <2>2, <2>3, <2>4, <2>5, <2>6, <2>7, GoesSeen
  <1> QED BY <1>1 DEF RemapFails, ForgetFails, PutBackFails
LEMMA GoesRenameBack ==
    ASSUME PromiseInv, RenameBack
    PROVE  Fulfils
  <1> DEFINE p == req.path
             q == req.dest
             t == seen.tree
  <1>1. /\ At("rename back") /\ Goes("remap back")
        /\ tree' = Grafted(Cut(tree, q), p, Subtree(tree, q))
        /\ UNCHANGED <<trash, cards, made, asked, loose>>
        /\ PlaceInv /\ SeenInv /\ NotesInv /\ loose \in BOOLEAN
    BY DEF RenameBack, PromiseInv, Inv, SeenInv
  <1>2. /\ req.at = "rename back" /\ req'.at = "remap back" /\ req'.path = p
        /\ req'.dest = q /\ req'.box = req.box /\ seen' = seen
    BY <1>1, GoesFrom
  <1>3. /\ IsTree(t) /\ seen.trash = Shown(Found(req, tree, trash))
        /\ SoFar(seen, req, tree, made)
    BY <1>1 DEF SeenInv
  <1>4. /\ p \in DOMAIN t /\ q \in Paths /\ q \notin DOMAIN t /\ ~Inside(q, p)
        /\ HoldsFolder(t, Front(q)) /\ \A s \in DOMAIN Subtree(t, p) : q \o s \in Paths
        /\ tree = Grafted(Cut(t, p), q, Subtree(t, p)) /\ made = seen.made
    BY <1>2, <1>3 DEF SoFar
  <1> HIDE DEF p, q, t
  <1>5. Cut(tree, q) = Cut(t, p) /\ Subtree(tree, q) = Subtree(t, p)
    BY <1>3, <1>4, WayBack
  <1>6. tree' = t
    BY <1>1, <1>3, <1>4, <1>5, Regrafted
  <1>7. Found(req', tree', trash') = Found(req, tree, trash)
    BY <1>1, <1>2 DEF Found
  <1>8. SoFar(seen, req', tree', made')
    BY <1>1, <1>2, <1>4, <1>6 DEF SoFar, t
  <1>9. ~loose => Noting(seen.notes, seen.tree, cards, Found(req, tree, trash))
    BY <1>1, <1>2 DEF NotesInv
  <1> QED BY <1>1, <1>2, <1>3, <1>7, <1>8, <1>9, GoesSeen

(* What the container of the request is and is not, and its next form.      *)
LEMMA BoxFilled ==
    ASSUME Inv, req.box \in trash, NEW item
    PROVE  /\ Filled(req.box, item).path = req.box.path
           /\ Filled(req.box, item).meta = req.box.meta
           /\ Filled(req.box, item).item = item
           /\ Filled(req.box, item).manifest = req.box.manifest
  BY BoxOf

(* The request goes on to forget, or to forget again, what its container    *)
(* has taken.                                                               *)
LEMMA FoundTaken ==
    ASSUME Inv, req.box \in trash, req.path \in DOMAIN tree,
           NEW box, box = Filled(req.box, Subtree(tree, req.path))
    PROVE  /\ box.path = req.box.path /\ box.meta = req.box.meta
           /\ box.item = Subtree(tree, req.path) /\ box.manifest = req.box.manifest
           /\ ((trash \ {req.box}) \cup {box}) \ {box} = trash \ {req.box}
  <1>1. /\ box.path = req.box.path /\ box.meta = req.box.meta
        /\ box.item = Subtree(tree, req.path) /\ box.manifest = req.box.manifest
    BY BoxFilled
  <1>2. IsTree(tree) /\ \A c \in trash : Range(tree) \cap Range(c.item) = {}
    BY DEF Inv, StoredInv, Stored
  <1>3. Root \in DOMAIN box.item
    BY <1>1, <1>2, OwnItem
  <1>4. box.item[Root] \in Range(tree) /\ box.item[Root] \in Range(box.item)
    <2>1. req.path \in Paths
      BY <1>2 DEF IsTree
    <2>2. box.item[Root] \in Range(box.item)
      BY <1>3 DEF Range
    <2> QED BY <1>1, <1>2, <2>1, <2>2, Parts
  <1>5. box \notin trash
    BY <1>2, <1>4
  <1> QED BY <1>1, <1>5

LEMMA GoesTake ==
    ASSUME PromiseInv, Take
    PROVE  Fulfils
  <1> DEFINE p == req.path
             box == Filled(req.box, Subtree(tree, p))
  <1>1. /\ At("take") /\ tree' = Cut(tree, p) /\ GoesWith("forget", box)
        /\ UNCHANGED <<cards, made, asked, loose>>
        /\ Inv /\ PlaceInv /\ SeenInv /\ NotesInv /\ loose \in BOOLEAN
    BY DEF Take, PromiseInv, Inv, SeenInv
  <1>2. /\ req.at = "take" /\ req'.at = "forget" /\ req'.path = p
        /\ req'.box = box /\ seen' = seen /\ InPlace(req, tree, trash)
    BY <1>1, GoesTo
  <1>3. trash' = (trash \ {req.box}) \cup {box}
    BY <1>1 DEF GoesWith
  <1>4. /\ seen.trash = Shown(trash \ {req.box}) /\ tree = seen.tree /\ made = seen.made
        /\ ~loose => /\ Noting(seen.notes, seen.tree, cards, trash \ {req.box})
                     /\ req.box.meta = Snapshot(p)
    BY <1>1, <1>2 DEF SeenInv, SoFar, NotesInv, Found
  <1>5. req.box \in trash /\ p \in DOMAIN tree
    BY <1>2 DEF InPlace, Held
  <1>6. /\ box.item = Subtree(tree, p) /\ box.meta = req.box.meta
        /\ trash' \ {box} = trash \ {req.box}
    BY <1>1, <1>3, <1>5, FoundTaken
  <1> HIDE DEF p, box
  <1>7. Found(req', tree', trash') = trash \ {req.box}
    BY <1>2, <1>6 DEF Found
  <1>8. SoFar(seen, req', tree', made')
    BY <1>1, <1>2, <1>4, <1>5, <1>6 DEF SoFar
  <1> QED BY <1>1, <1>2, <1>4, <1>6, <1>7, <1>8, GoesSeen

LEMMA GoesReturnAgain ==
    ASSUME PromiseInv, ReturnAgain
    PROVE  Fulfils
  <1> DEFINE p == req.path
             box == Filled(req.box, Subtree(tree, p))
  <1>1. /\ At("return again") /\ tree' = Cut(tree, p) /\ GoesWith("forget again", box)
        /\ UNCHANGED <<cards, made, asked, loose>>
        /\ Inv /\ PlaceInv /\ SeenInv /\ NotesInv /\ loose \in BOOLEAN
    BY DEF ReturnAgain, PromiseInv, Inv, SeenInv
  <1>2. /\ req.at = "return again" /\ req'.at = "forget again" /\ req'.path = p
        /\ req'.box = box /\ seen' = seen /\ InPlace(req, tree, trash)
    BY <1>1, GoesTo
  <1>3. trash' = (trash \ {req.box}) \cup {box}
    BY <1>1 DEF GoesWith
  <1>4. Found(req, tree, trash) = trash'
    BY <1>2, <1>3 DEF Found
  <1>5. /\ seen.trash = Shown(trash')
        /\ Opens(seen, p, Cut(tree, p)) /\ made = seen.made \cup Range(Cut(tree, p))
        /\ Range(Subtree(tree, p)) \subseteq seen.made
        /\ ~loose => Noting(seen.notes, seen.tree, cards, trash')
    BY <1>1, <1>2, <1>4 DEF SeenInv, SoFar, NotesInv
  <1>6. box.item = Subtree(tree, p)
    <2>1. req.box \in trash
      BY <1>2 DEF InPlace, Held
    <2> QED BY <1>1, <2>1, BoxFilled
  <1> HIDE DEF p, box
  <1>7. Found(req', tree', trash') = trash'
    BY <1>2 DEF Found
  <1>8. SoFar(seen, req', tree', made')
    BY <1>1, <1>2, <1>5, <1>6 DEF SoFar
  <1> QED BY <1>1, <1>2, <1>5, <1>7, <1>8, GoesSeen

(* The entry is back, or has not been taken, and its container is empty.    *)
LEMMA GoesRecall ==
    ASSUME PromiseInv, NEW place \in {"take", "take back"}, At(place), NEW box,
           GoesWith("recall cards", box), UNCHANGED <<cards, made, asked, loose>>,
           box.item = Nothing, box.meta = req.box.meta, tree' = seen.tree
    PROVE  Fulfils
  <1>1. /\ SeenInv /\ NotesInv /\ loose \in BOOLEAN
    BY DEF PromiseInv, SeenInv
  <1>2. /\ req.at = place /\ req'.at = "recall cards" /\ req'.path = req.path
        /\ req'.box = box /\ seen' = seen
    BY GoesTo DEF PromiseInv, Inv
  <1>3. trash' = (trash \ {req.box}) \cup {box}
    BY DEF GoesWith
  <1>4. /\ seen.trash = Shown(trash \ {req.box}) /\ made = seen.made
        /\ ~loose => /\ Noting(seen.notes, seen.tree, cards, trash \ {req.box})
                     /\ req.box.meta = Snapshot(req.path)
    BY <1>1, <1>2 DEF SeenInv, SoFar, NotesInv, Found
  <1>5. Found(req', tree', trash') = trash' \ {box}
    BY <1>2 DEF Found
  <1>6. {c \in Found(req', tree', trash') : Listed(c)} = {c \in trash \ {req.box} : Listed(c)}
    BY <1>3, <1>5 DEF Listed
  <1>7. /\ Shown(Found(req', tree', trash')) = seen.trash
        /\ ~loose => Noting(seen.notes, seen.tree, cards, Found(req', tree', trash'))
    BY <1>4, <1>6, ListedOnly
  <1>8. SoFar(seen, req', tree', made')
    BY <1>2, <1>4 DEF SoFar
  <1> QED BY <1>1, <1>2, <1>4, <1>7, <1>8, GoesSeen

LEMMA GoesDiscardFails ==
    ASSUME PromiseInv, DiscardFails
    PROVE  Fulfils
  <1>1. PICK manifest \in BOOLEAN :
          GoesWith("recall cards", [req.box EXCEPT !.manifest = manifest])
    BY DEF DiscardFails
  <1> DEFINE box == [req.box EXCEPT !.manifest = manifest]
  <1>2. /\ At("take") /\ GoesWith("recall cards", box)
        /\ tree' = tree /\ UNCHANGED <<cards, made, asked, loose>>
    BY <1>1 DEF DiscardFails
  <1>3. InPlace(req, tree, trash) /\ req.at = "take"
    BY <1>2, Placed DEF PromiseInv, Inv
  <1>4. req.box \in trash /\ req.box.item = Nothing
    BY <1>3 DEF InPlace, Held
  <1>5. box.item = Nothing /\ box.meta = req.box.meta
    BY <1>4, BoxOf DEF PromiseInv
  <1>6. tree' = seen.tree
    BY <1>2, <1>3 DEF PromiseInv, SeenInv, SoFar
  <1> HIDE DEF box
  <1> QED BY <1>2, <1>5, <1>6, GoesRecall

LEMMA GoesTakeBack ==
    ASSUME PromiseInv, TakeBack
    PROVE  Fulfils
  <1> DEFINE box == Filled(req.box, Nothing)
  <1>1. /\ At("take back") /\ GoesWith("recall cards", box)
        /\ tree' = Grafted(tree, req.path, req.box.item)
        /\ UNCHANGED <<cards, made, asked, loose>>
    BY DEF TakeBack
  <1>2. InPlace(req, tree, trash) /\ req.at = "take back"
    BY <1>1, Placed DEF PromiseInv, Inv
  <1>3. box.item = Nothing /\ box.meta = req.box.meta
    <2>1. req.box \in trash
      BY <1>2 DEF InPlace, Held
    <2> QED BY <2>1, BoxFilled DEF PromiseInv
  <1>4. /\ IsTree(seen.tree) /\ req.path \in DOMAIN seen.tree
        /\ tree = Cut(seen.tree, req.path) /\ req.box.item = Subtree(seen.tree, req.path)
    BY <1>2 DEF PromiseInv, SeenInv, SoFar
  <1>5. tree' = seen.tree
    BY <1>1, <1>4, Regrafted
  <1> HIDE DEF box
  <1> QED BY <1>1, <1>3, <1>5, GoesRecall

LEMMA Refilled ==
    ASSUME NEW b, IsBox(b), NEW box, box = Filled(b, Nothing)
    PROVE  Filled(box, b.item) = b
  <1>1. b = [path |-> b.path, meta |-> b.meta, item |-> b.item, manifest |-> b.manifest]
    BY DEF IsBox
  <1>2. box = [path |-> b.path, meta |-> b.meta, item |-> Nothing, manifest |-> b.manifest]
    BY Boxes DEF Filled
  <1>3. [box EXCEPT !.item = b.item]
          = [path |-> b.path, meta |-> b.meta, item |-> b.item, manifest |-> b.manifest]
    BY <1>2
  <1> QED BY <1>1, <1>3 DEF Filled

LEMMA GoesReturn ==
    ASSUME PromiseInv, Return
    PROVE  Fulfils
  <1> DEFINE p == req.path
             item == req.box.item
             box == Filled(req.box, Nothing)
  <1>1. /\ At("return") /\ GoesWith("put back", box) /\ tree' = Grafted(tree, p, item)
        /\ UNCHANGED <<cards, made, asked, loose>>
        /\ Inv /\ PlaceInv /\ SeenInv /\ NotesInv /\ loose \in BOOLEAN
    BY DEF Return, PromiseInv, Inv, SeenInv
  <1>2. /\ req.at = "return" /\ req'.at = "put back" /\ req'.path = p
        /\ req'.box = box /\ seen' = seen /\ InPlace(req, tree, trash) /\ p \in Paths
    BY <1>1, GoesTo
  <1>3. trash' = (trash \ {req.box}) \cup {box}
    BY <1>1 DEF GoesWith
  <1>4. req.box \in trash /\ req.box.path = p /\ item # Nothing /\ Room(tree, p)
    BY <1>2 DEF InPlace, Held
  <1>5. /\ seen.trash = Shown(trash)
        /\ Opens(seen, p, tree) /\ made = seen.made \cup Range(tree)
        /\ Range(item) \subseteq seen.made
        /\ ~loose => Noting(seen.notes, seen.tree, cards, trash)
    BY <1>1, <1>2 DEF SeenInv, SoFar, NotesInv, Found
  <1>6. /\ IsTree(tree) /\ IsBox(req.box) /\ Range(tree) \cap Range(item) = {}
    BY <1>1, <1>4 DEF Inv, StoredInv, Stored
  <1>7. box.item = Nothing /\ Filled(box, item) = req.box
    BY <1>1, <1>4, <1>6, BoxFilled, Refilled
  <1>8. IsItem(item, p)
    BY <1>4, <1>6 DEF IsBox
  <1> HIDE DEF p, item, box
  <1>9. Cut(tree', p) = tree /\ Subtree(tree', p) = item
    <2>1. Joins(tree', tree, p, item)
      BY <1>1, <1>2, <1>4, <1>6, <1>8, GraftedTree DEF Room
    <2> QED BY <2>1 DEF Joins
  <1>10. Found(req', tree', trash') = (trash' \ {box}) \cup {req.box}
    BY <1>2, <1>7, <1>9 DEF Found
  <1>11. {c \in Found(req', tree', trash') : Listed(c)} = {c \in trash : Listed(c)}
    BY <1>3, <1>4, <1>7, <1>10 DEF Listed
  <1>12. /\ Shown(Found(req', tree', trash')) = seen.trash
         /\ ~loose => Noting(seen.notes, seen.tree, cards, Found(req', tree', trash'))
    BY <1>5, <1>11, ListedOnly
  <1>13. SoFar(seen, req', tree', made')
    BY <1>1, <1>2, <1>5, <1>9 DEF SoFar
  <1> QED BY <1>1, <1>2, <1>12, <1>13, GoesSeen

LEMMA GoesPutBack ==
    ASSUME PromiseInv, PutBack
    PROVE  Fulfils
  <1> DEFINE p == req.path
             box == req.box
             u == Cut(tree, p)
             b == Filled(box, Subtree(tree, p))
  <1>1. /\ At("put back") /\ Goes("drop") /\ cards' = Recalled(box)
        /\ UNCHANGED <<tree, trash, made, asked, loose>>
        /\ Inv /\ PlaceInv /\ SeenInv /\ NotesInv /\ loose \in BOOLEAN
    BY DEF PutBack, PromiseInv, Inv, SeenInv
  <1>2. /\ req.at = "put back" /\ req'.at = "drop" /\ req'.path = p
        /\ req'.box = box /\ seen' = seen /\ InPlace(req, tree, trash) /\ p \in Paths
    BY <1>1, GoesFrom
  <1>3. /\ box \in trash /\ box.path = p /\ box.manifest /\ box.item = Nothing
        /\ p \in DOMAIN tree
    BY <1>2 DEF InPlace, Held
  <1>4. IsTree(tree) /\ IsTree(seen.tree) /\ seen.trash = Shown(Found(req, tree, trash))
    BY <1>1 DEF Inv, StoredInv, Stored, SeenInv
  <1>5. Found(req, tree, trash) = (trash \ {box}) \cup {b}
    BY <1>2 DEF Found
  <1>6. /\ Opens(seen, p, u) /\ made = seen.made \cup Range(u)
        /\ tree = Grafted(u, p, Subtree(tree, p)) /\ Range(Subtree(tree, p)) \subseteq seen.made
    BY <1>1, <1>2 DEF SeenInv, SoFar
  <1>7. Found(req', tree', trash') = Found(req, tree, trash)
    BY <1>1, <1>2 DEF Found
  <1>8. SoFar(seen, req', tree', made')
    BY <1>1, <1>2, <1>6 DEF SoFar
  <1>9. ASSUME ~loose
        PROVE  Noting(seen.notes, tree, cards', trash)
    <2>1. Noting(seen.notes, seen.tree, cards, (trash \ {box}) \cup {b})
      BY <1>1, <1>2, <1>5, <1>9 DEF NotesInv
    <2>2. IsItem(Subtree(tree, p), p) /\ Root \in DOMAIN Subtree(tree, p)
      BY <1>3, <1>4, OwnItem
    <2>3. /\ b.path = p /\ b.meta = box.meta /\ b.item = Subtree(tree, p)
          /\ b.manifest /\ IsBox(b)
      BY <1>1, <1>3, <2>2, BoxOf
    <2>4. Listed(b)
      BY <2>2, <2>3, Nothings DEF Listed
    <2>5. /\ p \notin DOMAIN seen.tree /\ MayHoldFolder(seen.tree, Front(p))
          /\ u \in WithParent(seen.tree, p, Entries \ seen.made)
      BY <1>6 DEF Opens
    <2> HIDE DEF p, box, u, b
    <2>6. /\ DOMAIN seen.tree \subseteq DOMAIN u
          /\ \A q \in DOMAIN seen.tree : u[q] = seen.tree[q]
      <3> DEFINE fresh == Entries \ seen.made
      <3>1. u \in WithParent(seen.tree, p, fresh) \cup WithEntry(seen.tree, p, fresh)
        BY <2>5
      <3> HIDE DEF fresh
      <3> QED BY <1>2, <2>5, <3>1, Grown
    <2>7. IsTree(u) /\ p \notin DOMAIN u
      BY <1>2, <1>4, CutTree DEF u
    <2>8. Noting(seen.notes, Grafted(u, p, b.item), Recalled(box), trash \ {box})
      BY <1>2, <1>3, <1>4, <2>1, <2>3, <2>4, <2>5, <2>6, <2>7, NotesGiven
    <2>9. Noting(seen.notes, tree, cards', trash \ {box})
      BY <1>1, <1>6, <2>3, <2>8
    <2>10. {c \in trash \ {box} : Listed(c)} = {c \in trash : Listed(c)}
      BY <1>3 DEF Listed
    <2> QED BY <2>9, <2>10, ListedOnly
  <1> QED BY <1>1, <1>2, <1>4, <1>7, <1>8, <1>9, GoesSeen

-----------------------------------------------------------------------------
LEMMA EndsDelete ==
    ASSUME PromiseInv, Inv', Empty \/ \E c \in trash : Delete(c)
    PROVE  Fulfils
  <1>1. ASSUME NEW c \in trash, Delete(c)
        PROVE  Fulfils
    <2>1. {c} \in SUBSET trash /\ (Purge({c}) \/ PurgeFails({c}))
      BY <1>1 DEF Delete
    <2> QED BY <2>1, EndsPurge, EndsPurgeFails
  <1>2. CASE Empty
    BY <1>2, EndsPurge, EndsPurgeFails DEF Empty
  <1> QED BY <1>1, <1>2

LEMMA PromiseStep ==
    ASSUME PromiseInv, Next
    PROVE  Fulfils
  <1>1. Inv /\ Inv'
    BY NextStep DEF PromiseInv
  <1>2. ASSUME NEW p \in Paths, Create(p) \/ CreateFails(p)
        PROVE  Fulfils
    BY <1>1, <1>2, EndsCreate
  <1>3. ASSUME NEW p \in Paths, Discard(p)
        PROVE  Fulfils
    BY <1>3, BeginsDiscard
  <1>4. ASSUME NEW p \in Paths, NEW n \in Notes, SaveCard(p, n)
        PROVE  Fulfils
    BY <1>1, <1>4, EndsSaveCard
  <1>5. ASSUME NEW p \in Paths, NEW name \in Names, Rename(p, name)
        PROVE  Fulfils
    <2> DEFINE q == Append(Front(p), name)
    <2>1. q \in Paths /\ HoldsFolder(tree, Front(q)) /\ Relocate(p, q)
      BY <1>1, <1>5, RenameTo
    <2> HIDE DEF q
    <2> QED BY <2>1, BeginsRelocate
  <1>6. ASSUME NEW p \in Paths, NEW folder \in Paths \cup {Root}, Move(p, folder)
        PROVE  Fulfils
    <2> DEFINE q == Append(folder, Last(p))
    <2>1. q \in Paths /\ HoldsFolder(tree, Front(q)) /\ Relocate(p, q)
      BY <1>1, <1>6, MoveTo
    <2> HIDE DEF q
    <2> QED BY <2>1, BeginsRelocate
  <1>7. ASSUME NEW c \in trash, Restore(c)
        PROVE  Fulfils
    BY <1>7, BeginsRestore
  <1>8. CASE Empty \/ \E c \in trash : Delete(c)
    BY <1>1, <1>8, EndsDelete
  <1>9. CASE \/ SaveCardFails \/ RenameBackFails \/ RemapBackFails \/ TakeBackFails
             \/ ReturnFails \/ ReturnAgainFails \/ ForgetAgainFails \/ Kill
    BY <1>1, <1>9, EndsUndone
  <1>10. CASE Remap \/ RemapBack \/ Forget \/ ForgetAgain
    BY <1>1, <1>10, EndsRemap, EndsRemapBack, EndsForget, EndsForgetAgain
  <1>11. CASE RecallCards \/ RecallCardsFails \/ Drop \/ DropFails
    BY <1>1, <1>11, EndsRecall, EndsDrop
  <1>12. CASE RemapFails \/ ForgetFails \/ PutBackFails
    BY <1>12, GoesUnchanged
  <1>13. CASE RenameBack \/ Take \/ ReturnAgain \/ DiscardFails \/ TakeBack
    BY <1>13, GoesRenameBack, GoesTake, GoesReturnAgain, GoesDiscardFails, GoesTakeBack
  <1>14. CASE Return \/ PutBack
    BY <1>14, GoesReturn, GoesPutBack
  <1> QED BY <1>2, <1>3, <1>4, <1>5, <1>6, <1>7, <1>8, <1>9, <1>10, <1>11, <1>12,
             <1>13, <1>14
          DEF Next

LEMMA PromiseInit ==
    ASSUME Init
    PROVE  PromiseInv /\ Promise!Init
  <1>1. /\ tree = Nothing /\ trash = {} /\ cards = {} /\ made = {} /\ asked = {}
        /\ req = Idle /\ req.at = "idle" /\ loose = FALSE /\ seen = View
    BY DEF Init, Idle
  <1>2. Shown({}) = {} /\ CardNotes(Nothing, {}) = {} /\ TrashNotes({}) = {}
    BY DEF Shown, CardNotes, TrashNotes
  <1>3. /\ seen.tree = Nothing /\ seen.trash = {} /\ seen.notes = {} /\ seen.made = {}
        /\ seen.asked = {} /\ seen.loose = FALSE
    BY <1>1, <1>2 DEF View
  <1>4. Found(req, tree, trash) = {}
    BY <1>1 DEF Found
  <1>5. SoFar(seen, req, tree, made)
    BY <1>1, <1>3 DEF SoFar
  <1>6. SeenInv
    BY <1>1, <1>2, <1>3, <1>4, <1>5, Nothings DEF SeenInv
  <1>7. Noting({}, Nothing, {}, {})
    BY <1>2 DEF Noting, Carded, OneCard
  <1>8. NotesInv
    BY <1>1, <1>3, <1>4, <1>7 DEF NotesInv
  <1>9. Inv
    BY <1>1, Nothings DEF Inv, StoredInv, Stored, PlaceInv
  <1>10. Promise!Init
    BY <1>3, SameOps DEF Promise!Init
  <1> QED BY <1>6, <1>8, <1>9, <1>10 DEF PromiseInv

(* Between any two requests the operator finds what BinderPromise says,     *)
(* whatever failed and wherever the service was killed: an entry is         *)
(* created, moved, discarded, restored or deleted as a whole or not at all, *)
(* and notes follow their entries until something has loosened them.        *)
THEOREM OperatorIsPromised == Spec => KeepsPromise
  <1>1. Init => PromiseInv /\ Promise!Init
    BY PromiseInit
  <1>2. PromiseInv /\ [Next]_vars => PromiseInv' /\ [Promise!Next]_Promise!promiseVars
    <2> SUFFICES ASSUME PromiseInv, [Next]_vars
                 PROVE  PromiseInv' /\ [Promise!Next]_Promise!promiseVars
      OBVIOUS
    <2>1. CASE Next
      <3>1. Inv' /\ Fulfils
        BY <2>1, NextStep, PromiseStep DEF PromiseInv
      <3> QED BY <3>1 DEF PromiseInv, Fulfils, promised, Promise!promiseVars
    <2>2. CASE UNCHANGED vars
      <3>1. Inv'
        BY <2>2 DEF PromiseInv, Inv, StoredInv, PlaceInv, vars
      <3>2. SeenInv'
        BY <2>2 DEF PromiseInv, SeenInv, vars
      <3>3. NotesInv'
        BY <2>2 DEF PromiseInv, NotesInv, Snapshot, vars
      <3> QED BY <2>2, <3>1, <3>2, <3>3 DEF PromiseInv, Promise!promiseVars, vars
    <2> QED BY <2>1, <2>2
  <1> QED BY <1>1, <1>2, PTL DEF Spec, KeepsPromise, Promise!Spec
==============================================================================
