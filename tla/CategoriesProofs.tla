-------------------------- MODULE CategoriesProofs --------------------------
(***************************************************************************)
(* Theorems about Categories, for every set of categories and any number   *)
(* of concurrent requests.                                                 *)
(***************************************************************************)
EXTENDS Categories, TLAPS

CategoryRow ==
  [life : {"unborn", "live", "gone"}, parent : Cats \union {NoCat},
   kind : Kinds, active : BOOLEAN]

Write ==
  [op : {"none", "create", "update", "setActive", "put"}, id : Cats \union {NoCat},
   parent : Cats \union {Absent}, kind : Kinds \union {Absent}, cascade : BOOLEAN,
   active : BOOLEAN \union {Absent}, targets : SUBSET Cats, stale : BOOLEAN]

\* A request that will write a kind, or a switch, knows which.
KindKnown(w) ==
  /\ w.op = "create" \/ (w.op = "update" /\ w.cascade) => w.kind \in Kinds
  /\ w.op \in {"create", "setActive"} => w.active \in BOOLEAN

Typed ==
  /\ category \in [Cats -> CategoryRow]
  /\ request \in [Editors -> Write]
  /\ allocated \subseteq Cats
  /\ \A r \in Editors : KindKnown(request[r])

\* Rows that exist refer to rows that exist: the foreign keys.
ForeignKeys ==
  /\ \A c \in Live : category[c].parent \in Live \union {NoCat}
  /\ allocated \subseteq Live

\* What the checks of a request found, which holds until another one writes.
FoundCreate(w) == w.parent \in Roots /\ w.kind = category[w.parent].kind

FoundUpdate(w) ==
  /\ w.id \in Live
  /\ \/ /\ Stays(w.id, w.parent)
        /\ category[w.id].parent # NoCat =>
             KindFits(w.kind, category[w.id].parent) /\ ~w.cascade
        /\ category[w.id].parent = NoCat =>
             (w.cascade <=> w.kind \notin {Absent, category[w.id].kind})
     \/ /\ ~Stays(w.id, w.parent)
        /\ MayMove(w.id, w.parent, w.kind)
        /\ ~w.cascade

FoundSetActive(w) ==
  /\ w.id \in Live
  /\ w.cascade <=> category[w.id].parent = NoCat
  /\ category[w.id].parent # NoCat /\ ~w.active => NotLastActive(w.id)

FoundPut(w) == \A c \in w.targets : c \in Roots /\ category[c].kind = "EXPENSE"

Found(w) ==
  /\ w.op = "create" => FoundCreate(w)
  /\ w.op = "update" => FoundUpdate(w)
  /\ w.op = "setActive" => FoundSetActive(w)
  /\ w.op = "put" => FoundPut(w)

ChecksStand == \A r \in Editors : request[r].stale \/ Found(request[r])

\* What the tree is while no request has written on overtaken checks.
TwoDeep ==
  \A c \in Live : category[c].parent # NoCat => category[c].parent \in Roots

KindsMatch ==
  \A c \in Live : category[c].parent # NoCat =>
    c \in silent \/ category[c].kind = category[category[c].parent].kind

RootsUsable ==
  \A p \in Roots : p \notin hollowed =>
    /\ Children(p) # {}
    /\ category[p].active => ActiveChildren(p) # {}

AllocatedRoots ==
  \A c \in allocated :
    c \in repurposed \/ (c \in Roots /\ category[c].kind = "EXPENSE")

Sound == TwoDeep /\ KindsMatch /\ RootsUsable /\ AllocatedRoots

TreeInv ==
  /\ Typed
  /\ ForeignKeys
  /\ ChecksStand
  /\ raced \in BOOLEAN
  /\ ~raced => Sound

-----------------------------------------------------------------------------

LEMMA NoWriteTyped == NoWrite \in Write /\ NoWrite.op = "none"
  BY DEF NoWrite, Write, Kinds

LEMMA TreeInvInit == TreeInit => TreeInv
  <1> SUFFICES ASSUME TreeInit PROVE TreeInv
    OBVIOUS
  <1>1. NoRow \in CategoryRow /\ NoRow.life = "unborn"
    BY DEF NoRow, CategoryRow, Kinds
  <1>2. Typed
    BY <1>1, NoWriteTyped DEF TreeInit, Typed, KindKnown
  <1>3. Live = {} /\ Roots = {}
    BY <1>1 DEF TreeInit, Live, Roots
  <1>4. ChecksStand
    BY NoWriteTyped DEF TreeInit, ChecksStand, Found
  <1> QED
    BY <1>2, <1>3, <1>4 DEF TreeInit, TreeInv, ForeignKeys, Sound, TwoDeep, KindsMatch,
       RootsUsable, AllocatedRoots

\* After a write every other request is idle or stale.
LEMMA DoneRequests ==
  ASSUME Typed, NEW r \in Editors, Done(r)
  PROVE  /\ request' \in [Editors -> Write]
         /\ \A s \in Editors : request'[s].op = "none" \/ request'[s].stale
         /\ \A s \in Editors : KindKnown(request'[s])
         /\ raced' \in BOOLEAN
         /\ ~raced' => ~raced /\ ~request[r].stale
  <1>1. \A s \in Editors :
          /\ [request[s] EXCEPT !.stale = TRUE] \in Write
          /\ [request[s] EXCEPT !.stale = TRUE].stale
          /\ [request[s] EXCEPT !.stale = TRUE].op = request[s].op
          /\ [request[s] EXCEPT !.stale = TRUE].kind = request[s].kind
          /\ [request[s] EXCEPT !.stale = TRUE].cascade = request[s].cascade
          /\ [request[s] EXCEPT !.stale = TRUE].active = request[s].active
    BY DEF Typed, Write
  <1>2. \A s \in Editors :
          request'[s] = NoWrite \/ request'[s] = [request[s] EXCEPT !.stale = TRUE]
    BY DEF Done
  <1>3. request' \in [Editors -> Write]
    BY <1>1, NoWriteTyped DEF Done
  <1>4. \A s \in Editors : KindKnown(request'[s])
    <2> SUFFICES ASSUME NEW s \in Editors
                 PROVE  KindKnown(request'[s])
      OBVIOUS
    <2>1. CASE request'[s] = NoWrite
      BY <2>1, NoWriteTyped DEF KindKnown
    <2>2. CASE request'[s] = [request[s] EXCEPT !.stale = TRUE]
      <3>1. KindKnown(request[s])
        BY DEF Typed
      <3> QED
        BY Zenon, <1>1, <2>2, <3>1 DEF KindKnown
    <2> QED
      BY <1>2, <2>1, <2>2
  <1>5. \A s \in Editors : request'[s].op = "none" \/ request'[s].stale
    BY <1>1, <1>2, NoWriteTyped
  <1>6. raced' \in BOOLEAN /\ (~raced' => ~raced /\ ~request[r].stale)
    BY Zenon DEF Done
  <1> QED
    BY <1>3, <1>4, <1>5, <1>6

LEMMA DoneChecks ==
  ASSUME Typed, NEW r \in Editors, Done(r)
  PROVE  ChecksStand'
  BY DoneRequests DEF ChecksStand, Found

\* A step that leaves the rows alone leaves what was found true.
LEMMA FoundStable ==
  ASSUME UNCHANGED category, NEW w
  PROVE  Found(w)' = Found(w)
  BY DEF Found, FoundCreate, FoundUpdate, FoundSetActive, FoundPut, Roots, Live,
     Stays, KindFits, MayMove, CanParent, Children, NotLastActive, ActiveChildren

-----------------------------------------------------------------------------
(* Checks                                                                  *)

LEMMA PassKeeps ==
  ASSUME TreeInv, NEW r \in Editors, NEW w \in Write, Pass(r, w), Found(w), KindKnown(w)
  PROVE  TreeInv'
  <1>1. UNCHANGED <<category, allocated, raced, silent, hollowed, repurposed>>
    BY DEF Pass, history
  <1>2. request' = [request EXCEPT ![r] = w]
    BY DEF Pass
  <1>3. Typed'
    BY <1>1, <1>2 DEF TreeInv, Typed
  <1>4. ForeignKeys'
    BY <1>1 DEF TreeInv, ForeignKeys, Live
  <1>5. ChecksStand'
    <2>1. \A s \in Editors : request'[s] = w \/ request'[s] = request[s]
      BY <1>2 DEF TreeInv, Typed
    <2> SUFFICES ASSUME NEW s \in Editors, NEW v, v = request'[s], ~v.stale
                 PROVE  Found(v)'
      BY DEF ChecksStand, Found, FoundCreate, FoundUpdate, FoundSetActive, FoundPut,
         Stays, MayMove, NotLastActive
    <2>2. Found(v)
      BY <2>1 DEF TreeInv, ChecksStand
    <2> QED
      BY <1>1, <2>2, FoundStable
  <1>6. Sound' = Sound
    BY <1>1 DEF Sound, TwoDeep, KindsMatch, RootsUsable, AllocatedRoots, Roots, Live,
       Children, ActiveChildren
  <1> QED
    BY <1>1, <1>3, <1>4, <1>5, <1>6 DEF TreeInv

LEMMA CheckCreateKeeps ==
  ASSUME TreeInv, NEW r \in Editors, NEW p \in Cats, NEW kind \in Kinds \union {Absent},
         NEW active \in BOOLEAN, CheckCreate(r, p, kind, active)
  PROVE  TreeInv'
  <1> DEFINE w == [NoWrite EXCEPT !.op = "create", !.parent = p, !.kind = category[p].kind,
                                  !.active = active]
  <1>1. category[p].kind \in Kinds
    BY DEF TreeInv, Typed, CategoryRow
  <1>2. /\ w \in Write /\ w.op = "create" /\ w.parent = p /\ w.kind = category[p].kind
        /\ w.active = active
    BY <1>1 DEF NoWrite, Write
  <1>3. Found(w)
    BY <1>2 DEF CheckCreate, CanParent, Found, FoundCreate
  <1>4. Pass(r, w)
    BY DEF CheckCreate
  <1> QED
    BY <1>1, <1>2, <1>3, <1>4, PassKeeps DEF KindKnown

LEMMA CheckUpdateKeeps ==
  ASSUME TreeInv, NEW r \in Editors, NEW c \in Cats, NEW parent \in Cats \union {Absent},
         NEW kind \in Kinds \union {Absent}, NEW active \in BOOLEAN \union {Absent},
         CheckUpdate(r, c, parent, kind, active)
  PROVE  TreeInv'
  <1> DEFINE cascade == /\ Stays(c, parent)
                        /\ category[c].parent = NoCat
                        /\ kind \notin {Absent, category[c].kind}
             w == [NoWrite EXCEPT !.op = "update", !.id = c, !.parent = parent,
                                  !.kind = kind, !.active = active, !.cascade = cascade]
  <1>1. Pass(r, w)
    BY DEF CheckUpdate
  <1>2. /\ w.op = "update" /\ w.id = c /\ w.parent = parent /\ w.kind = kind
        /\ w.cascade = cascade
    BY DEF NoWrite
  <1>3. cascade \in BOOLEAN
    OBVIOUS
  <1>4. w \in Write
    <2> HIDE DEF cascade
    <2> QED
      BY <1>3 DEF NoWrite, Write
  <1>5. Found(w)
    <2> HIDE DEF w
    <2> QED
      BY <1>2 DEF CheckUpdate, Found, FoundUpdate
  <1> HIDE DEF w
  <1> QED
    BY <1>1, <1>2, <1>4, <1>5, PassKeeps DEF KindKnown

LEMMA CheckSetActiveKeeps ==
  ASSUME TreeInv, NEW r \in Editors, NEW c \in Cats, NEW active \in BOOLEAN,
         CheckSetActive(r, c, active)
  PROVE  TreeInv'
  <1> DEFINE cascade == category[c].parent = NoCat
             w == [NoWrite EXCEPT !.op = "setActive", !.id = c, !.active = active,
                                  !.cascade = cascade]
  <1>1. Pass(r, w)
    BY DEF CheckSetActive
  <1>2. w.op = "setActive" /\ w.id = c /\ w.active = active /\ w.cascade = cascade
    BY DEF NoWrite
  <1>3. cascade \in BOOLEAN
    OBVIOUS
  <1>4. w \in Write
    <2> HIDE DEF cascade
    <2> QED
      BY <1>3 DEF NoWrite, Write, Kinds
  <1>5. Found(w)
    <2> HIDE DEF w
    <2> QED
      BY <1>2 DEF CheckSetActive, Found, FoundSetActive
  <1> HIDE DEF w
  <1> QED
    BY <1>1, <1>2, <1>4, <1>5, PassKeeps DEF KindKnown

LEMMA CheckPutKeeps ==
  ASSUME TreeInv, NEW r \in Editors, NEW targets \in SUBSET Cats, CheckPut(r, targets)
  PROVE  TreeInv'
  <1> DEFINE w == [NoWrite EXCEPT !.op = "put", !.targets = targets]
  <1>1. w \in Write /\ w.op = "put" /\ w.targets = targets
    BY DEF NoWrite, Write
  <1>2. Found(w)
    BY <1>1 DEF CheckPut, Allocatable, Found, FoundPut
  <1>3. Pass(r, w)
    BY DEF CheckPut
  <1> QED
    BY <1>1, <1>2, <1>3, PassKeeps DEF KindKnown

LEMMA GiveUpKeeps ==
  ASSUME TreeInv, NEW r \in Editors, GiveUp(r)
  PROVE  TreeInv'
  BY NoWriteTyped, PassKeeps DEF GiveUp, Pass, Found, KindKnown

-----------------------------------------------------------------------------
(* Writes                                                                  *)

\* Roots stay usable in a step that takes nothing from those it does not
\* excuse.
LEMMA UsableKept ==
  ASSUME RootsUsable, NEW rows, HollowedBy(rows),
         \A p \in Roots' \ (hollowed \union rows) :
           \/ ActiveChildren(p)' # {}
           \/ /\ p \in Roots
              /\ Children(p) \subseteq Children(p)'
              /\ ActiveChildren(p) \subseteq ActiveChildren(p)'
              /\ category'[p].active => category[p].active
  PROVE  RootsUsable'
  <1> SUFFICES ASSUME NEW p \in Roots', p \notin hollowed'
               PROVE  /\ Children(p)' # {}
                      /\ category'[p].active => ActiveChildren(p)' # {}
    BY DEF RootsUsable
  <1>1. CASE ActiveChildren(p)' # {}
    BY <1>1 DEF ActiveChildren
  <1>2. CASE ActiveChildren(p)' = {}
    <2>1. p \notin hollowed /\ p \notin rows
      BY <1>2 DEF HollowedBy, Hollow
    <2>2. /\ p \in Roots
          /\ Children(p) \subseteq Children(p)'
          /\ ActiveChildren(p) \subseteq ActiveChildren(p)'
          /\ category'[p].active => category[p].active
      BY <1>2, <2>1
    <2>3. Children(p) # {} /\ (category[p].active => ActiveChildren(p) # {})
      BY <2>1, <2>2 DEF RootsUsable
    <2> QED
      BY <2>2, <2>3
  <1> QED
    BY <1>1, <1>2

LEMMA CreateRootKeeps ==
  ASSUME TreeInv, NEW r \in Editors, NEW root \in Cats, NEW others \in Cats,
         NEW kind \in Kinds, NEW active \in BOOLEAN,
         CreateRoot(r, root, others, kind, active)
  PROVE  TreeInv'
  <1> USE DEF TreeInv
  <1>1. Done(r) /\ UNCHANGED <<allocated, silent, hollowed, repurposed>>
    BY DEF CreateRoot, history
  <1>2. Row(NoCat, kind, active) \in CategoryRow /\ Row(root, kind, TRUE) \in CategoryRow
    BY DEF Row, CategoryRow
  <1>3. \A d \in Cats : category'[d] =
          IF d = root THEN Row(NoCat, kind, active)
          ELSE IF d = others THEN Row(root, kind, TRUE) ELSE category[d]
    BY DEF CreateRoot, Typed
  <1>4. root # others /\ root \notin Live /\ others \notin Live
    BY DEF CreateRoot, Unborn, Live
  <1>5. Typed'
    BY <1>1, <1>2, DoneRequests DEF CreateRoot, Typed
  <1>6. Live' = Live \union {root, others}
    BY <1>3 DEF Live, Row
  <1>7. ForeignKeys'
    BY <1>1, <1>3, <1>4, <1>6 DEF ForeignKeys, Row, Live
  <1>8. ASSUME ~raced'
        PROVE  Sound'
    <2>1. Sound
      BY <1>1, <1>8, DoneRequests
    <2>2. Roots' = Roots \union {root}
      BY <1>3, <1>4, <1>6, CategoryAssumption DEF Roots, Row, Live
    <2>3. \A p \in Roots : p # root /\ category'[p] = category[p] /\
            Children(p)' = Children(p) /\ ActiveChildren(p)' = ActiveChildren(p)
      BY <1>3, <1>4, <1>6, CategoryAssumption DEF Roots, Live, Children, ActiveChildren, Row
    <2>4. others \in Children(root)' /\ others \in ActiveChildren(root)'
      BY <1>3, <1>4, <1>6 DEF Children, ActiveChildren, Row
    <2>5. TwoDeep'
      BY <1>3, <1>4, <1>6, <2>1, <2>2 DEF Sound, TwoDeep, Row, Live
    <2>6. KindsMatch'
      BY <1>1, <1>3, <1>4, <1>6, <2>1 DEF Sound, KindsMatch, TwoDeep, Roots, Row, Live
    <2>7. RootsUsable'
      BY <1>1, <1>3, <2>1, <2>2, <2>3, <2>4 DEF Sound, RootsUsable
    <2>8. AllocatedRoots'
      BY <1>1, <2>1, <2>2, <2>3 DEF Sound, AllocatedRoots
    <2> QED
      BY <2>5, <2>6, <2>7, <2>8 DEF Sound
  <1> QED
    BY <1>1, <1>5, <1>7, <1>8, DoneRequests, DoneChecks

LEMMA CreateSubKeeps ==
  ASSUME TreeInv, NEW r \in Editors, NEW c \in Cats, CreateSub(r, c)
  PROVE  TreeInv'
  <1> USE DEF TreeInv
  <1>1. PICK p \in Cats : p = request[r].parent
    BY DEF CreateSub, Live
  <1>2. /\ Done(r) /\ UNCHANGED <<allocated, silent, repurposed>>
        /\ HollowedBy({})
        /\ request[r].op = "create" /\ p \in Live /\ c \in Unborn
        /\ category' = [category EXCEPT ![c] = Row(p, request[r].kind, request[r].active)]
    BY <1>1 DEF CreateSub
  <1>3. /\ request[r].kind \in Kinds /\ request[r].active \in BOOLEAN
        /\ ~request[r].stale => p \in Roots /\ request[r].kind = category[p].kind
    BY <1>1, <1>2 DEF Typed, KindKnown, ChecksStand, Found, FoundCreate
  <1>4. Row(p, request[r].kind, request[r].active) \in CategoryRow
    BY <1>3 DEF Row, CategoryRow
  <1>5. \A d \in Cats : category'[d] =
          IF d = c THEN Row(p, request[r].kind, request[r].active) ELSE category[d]
    BY <1>2 DEF Typed
  <1>6. c \notin Live /\ c # p
    BY <1>2 DEF Unborn, Live
  <1>7. Typed'
    BY <1>2, <1>4, DoneRequests DEF Typed
  <1>8. Live' = Live \union {c}
    BY <1>5 DEF Live, Row
  <1>9. ForeignKeys'
    BY <1>2, <1>5, <1>6, <1>8 DEF ForeignKeys, Row, Live
  <1>10. ASSUME ~raced'
         PROVE  Sound'
    <2>1. Sound /\ p \in Roots /\ request[r].kind = category[p].kind
      BY <1>2, <1>3, <1>10, DoneRequests
    <2>2. Roots' = Roots
      BY <1>2, <1>5, <1>6, <1>8, CategoryAssumption DEF Roots, Row, Live
    <2>3. \A q \in Roots : /\ category'[q] = category[q]
                           /\ Children(q) \subseteq Children(q)'
                           /\ ActiveChildren(q) \subseteq ActiveChildren(q)'
      BY <1>5, <1>6, <1>8 DEF Roots, Live, Children, ActiveChildren
    <2>5. TwoDeep'
      BY <1>5, <1>6, <1>8, <2>1, <2>2 DEF Sound, TwoDeep, Row, Live
    <2>6. KindsMatch'
      BY <1>2, <1>5, <1>6, <1>8, <2>1 DEF Sound, KindsMatch, TwoDeep, Roots, Row, Live
    <2>7. RootsUsable'
      BY <1>2, <2>1, <2>2, <2>3, UsableKept DEF Sound
    <2>8. AllocatedRoots'
      BY <1>2, <2>1, <2>2, <2>3 DEF Sound, AllocatedRoots
    <2> QED
      BY <2>5, <2>6, <2>7, <2>8 DEF Sound
  <1> QED
    BY <1>2, <1>7, <1>9, <1>10, DoneRequests, DoneChecks

\* What update() does to each row.
LEMMA UpdateRows ==
  ASSUME TreeInv, NEW r \in Editors, Update(r), NEW w, w = request[r]
  PROVE  /\ w \in Write /\ w.op = "update" /\ w.id \in Live /\ KindKnown(w)
         /\ w.parent \in Live \union {Absent}
         /\ \A d \in Cats :
              /\ category'[d] \in CategoryRow
              /\ category'[d].life = category[d].life
              /\ category'[d].active =
                   IF d = w.id /\ w.active # Absent THEN w.active ELSE category[d].active
              /\ category'[d].parent =
                   IF d = w.id /\ w.parent # Absent THEN w.parent ELSE category[d].parent
              /\ category'[d].kind =
                   IF d = w.id
                   THEN IF w.kind = Absent THEN category[d].kind ELSE w.kind
                   ELSE IF w.cascade /\ d \in Children(w.id)
                   THEN w.kind ELSE category[d].kind
  <1> USE DEF TreeInv, Typed
  <1>1. /\ w \in Write /\ w.op = "update" /\ w.id \in Live /\ KindKnown(w)
        /\ w.parent \in Live \union {Absent}
        /\ category' = [d \in Cats |->
             CASE d = w.id -> Updated(category[d], w)
               [] d # w.id /\ w.cascade /\ d \in Children(w.id) ->
                    [category[d] EXCEPT !.kind = w.kind]
               [] OTHER -> category[d]]
    BY DEF Update
  <1> SUFFICES ASSUME NEW d \in Cats
               PROVE  /\ category'[d] \in CategoryRow
                      /\ category'[d].life = category[d].life
                      /\ category'[d].active =
                           IF d = w.id /\ w.active # Absent THEN w.active ELSE category[d].active
                      /\ category'[d].parent =
                           IF d = w.id /\ w.parent # Absent THEN w.parent ELSE category[d].parent
                      /\ category'[d].kind =
                           IF d = w.id
                           THEN IF w.kind = Absent THEN category[d].kind ELSE w.kind
                           ELSE IF w.cascade /\ d \in Children(w.id)
                           THEN w.kind ELSE category[d].kind
    BY <1>1
  <1>2. category[d] \in CategoryRow
    OBVIOUS
  <1>3. CASE d = w.id
    <2>1. category'[d] = [category[d] EXCEPT
            !.parent = IF w.parent = Absent THEN @ ELSE w.parent,
            !.kind = IF w.kind = Absent THEN @ ELSE w.kind,
            !.active = IF w.active = Absent THEN @ ELSE w.active]
      BY <1>1, <1>3 DEF Updated, Given
    <2>2. /\ w.parent # Absent => w.parent \in Cats
          /\ w.kind # Absent => w.kind \in Kinds
          /\ w.active # Absent => w.active \in BOOLEAN
      BY <1>1 DEF Write, Live
    <2> QED
      BY <1>2, <1>3, <2>1, <2>2 DEF CategoryRow
  <1>4. CASE d # w.id /\ w.cascade /\ d \in Children(w.id)
    <2>1. category'[d] = [category[d] EXCEPT !.kind = w.kind]
      BY <1>1, <1>4
    <2>2. w.kind \in Kinds
      BY <1>1, <1>4 DEF KindKnown
    <2> QED
      BY <1>2, <1>4, <2>1, <2>2 DEF CategoryRow
  <1>5. CASE d # w.id /\ ~(w.cascade /\ d \in Children(w.id))
    <2>1. category'[d] = category[d]
      BY <1>1, <1>5
    <2> QED
      BY <1>2, <1>5, <2>1
  <1> QED
    BY <1>3, <1>4, <1>5

\* An update whose checks still stand: one step for a row that stays under its
\* parent, one for a row that moves.
LEMMA UpdateStays ==
  ASSUME TreeInv, Sound, NEW r \in Editors, Update(r), NEW w, w = request[r],
         FoundUpdate(w), Stays(w.id, w.parent)
  PROVE  Sound'
  <1> USE DEF TreeInv
  <1>1. PICK c \in Cats : c = w.id
    BY UpdateRows DEF Live
  <1>2. \A d \in Cats : /\ category'[d].life = category[d].life
                        /\ category'[d].active =
                             IF d = c /\ w.active # Absent THEN w.active ELSE category[d].active
                        /\ category'[d].parent = category[d].parent
    BY <1>1, UpdateRows DEF Stays
  <1>3. /\ Live' = Live /\ Roots' = Roots
        /\ \A p \in Cats : Children(p)' = Children(p)
    BY <1>2 DEF Live, Roots, Children
  <1>4. /\ allocated' = allocated
        /\ HollowedBy(IF w.active # Absent THEN {c, category[c].parent} ELSE {})
    BY <1>1 DEF Update, Stays
  <1>5. w.parent \in {Absent, category[c].parent}
    BY <1>1 DEF Stays
  <1>6. TwoDeep'
    BY <1>2, <1>3 DEF Sound, TwoDeep, Live
  <1>7. KindsMatch'
    <2>1. \A d \in Cats : category'[d].kind =
            IF d = c THEN IF w.kind = Absent THEN category[d].kind ELSE w.kind
            ELSE IF w.cascade /\ d \in Children(c) THEN w.kind ELSE category[d].kind
      BY <1>1, UpdateRows
    <2> SUFFICES ASSUME NEW d \in Live, category[d].parent # NoCat, d \notin silent'
                 PROVE  category'[d].kind = category'[category[d].parent].kind
      BY <1>2, <1>3 DEF KindsMatch, Live
    <2>2. PICK p \in Roots : p = category[d].parent
      BY DEF Sound, TwoDeep
    <2>3. d \in Cats /\ p \in Cats /\ category[p].parent = NoCat /\ d # p
      BY <2>2 DEF Roots, Live
    <2>4. d \notin silent => category[d].kind = category[p].kind
      BY <2>2 DEF Sound, KindsMatch
    <2>5. d \in Children(c) <=> p = c
      BY <2>2, <2>3 DEF Children
    <2>6. p \notin Children(c)
      BY <2>3, CategoryAssumption DEF Children
    <2>7. CASE w.kind = Absent
      <3>1. silent' = silent
        BY <1>1, <1>5, <2>7 DEF Update
      <3>2. ~w.cascade
        BY <2>7 DEF FoundUpdate, MayMove
      <3> QED
        BY <2>1, <2>2, <2>3, <2>4, <2>7, <3>1, <3>2
    <2>8. CASE w.kind # Absent
      <3>1. silent' = silent \ ({c} \union IF w.cascade THEN Children(c) ELSE {})
        BY <1>1, <2>8 DEF Update
      <3>2. CASE category[c].parent = NoCat
        <4>1. w.cascade <=> w.kind # category[c].kind
          BY <1>1, <2>8, <3>2 DEF FoundUpdate
        <4>2. d # c
          BY <2>2, <2>3, <3>2
        <4>3. category'[d].kind = IF w.cascade /\ p = c THEN w.kind ELSE category[d].kind
          BY <2>1, <2>3, <2>5, <4>2
        <4>4. category'[p].kind = IF p = c THEN w.kind ELSE category[p].kind
          BY <2>1, <2>3, <2>6, <2>8
        <4>5. d \in silent => w.cascade /\ p = c
          BY <2>5, <3>1, <4>2
        <4> QED
          BY <2>2, <2>4, <4>1, <4>3, <4>4, <4>5
      <3>3. CASE category[c].parent # NoCat
        <4>1. ~w.cascade /\ w.kind = category[category[c].parent].kind
          BY <1>1, <2>8, <3>3 DEF FoundUpdate, KindFits
        <4> QED
          BY <2>1, <2>2, <2>3, <2>4, <2>8, <3>1, <3>3, <4>1
      <3> QED
        BY <3>2, <3>3
    <2> QED
      BY <2>7, <2>8
  <1>8. RootsUsable'
    <2> DEFINE rows == IF w.active # Absent THEN {c, category[c].parent} ELSE {}
    <2> SUFFICES ASSUME NEW p \in Roots, p \notin rows
                 PROVE  /\ ActiveChildren(p) \subseteq ActiveChildren(p)'
                        /\ category'[p].active => category[p].active
      BY <1>3, <1>4, UsableKept DEF Sound, Roots, Live
    <2>1. p \in Cats
      BY DEF Roots, Live
    <2>2. \A d \in Children(p) \union {p} : d \in Cats /\ category'[d].active = category[d].active
      BY <1>2, <2>1 DEF Children, Live
    <2> QED
      BY <1>3, <2>1, <2>2 DEF ActiveChildren
  <1>9. AllocatedRoots'
    <2> SUFFICES ASSUME NEW d \in allocated, d \notin repurposed'
                 PROVE  d \in Roots /\ category'[d].kind = "EXPENSE"
      BY <1>3, <1>4 DEF AllocatedRoots
    <2>1. d \notin repurposed /\ (d = c => w.kind \in {Absent, category[c].kind})
      BY <1>1 DEF Update
    <2>2. d \in Roots /\ category[d].kind = "EXPENSE"
      BY <2>1 DEF Sound, AllocatedRoots
    <2>3. d \in Cats /\ d \notin Children(c)
      BY <2>2, CategoryAssumption DEF Roots, Live, Children
    <2> QED
      BY <1>1, <2>1, <2>2, <2>3, UpdateRows
  <1> QED
    BY <1>6, <1>7, <1>8, <1>9 DEF Sound

LEMMA UpdateMoves ==
  ASSUME TreeInv, Sound, NEW r \in Editors, Update(r), NEW w, w = request[r],
         FoundUpdate(w), ~Stays(w.id, w.parent)
  PROVE  Sound'
  <1> USE DEF TreeInv
  <1>1. PICK c \in Cats, q \in Cats : c = w.id /\ q = w.parent
    BY UpdateRows DEF Live, Stays
  <1>2. /\ c \in Live /\ q \in Roots /\ q # c /\ q # category[c].parent
        /\ w.kind \in {Absent, category[q].kind}
        /\ Children(c) = {} /\ ~w.cascade
    BY <1>1 DEF FoundUpdate, MayMove, CanParent, KindFits, Stays
  <1>3. \A d \in Cats : /\ category'[d].life = category[d].life
                        /\ d # c => category'[d].active = category[d].active
                        /\ category'[d].parent = IF d = c THEN q ELSE category[d].parent
                        /\ category'[d].kind = IF d = c /\ w.kind # Absent
                                               THEN w.kind ELSE category[d].kind
    BY <1>1, <1>2, UpdateRows, CategoryAssumption DEF Live, Roots
  <1>4. Live' = Live /\ Roots' = Roots \ {c}
    BY <1>2, <1>3, CategoryAssumption DEF Live, Roots
  <1>5. \A p \in Cats : /\ Children(p) \ {c} \subseteq Children(p)'
                        /\ ActiveChildren(p) \ {c} \subseteq ActiveChildren(p)'
    BY <1>3, <1>4 DEF Live, Children, ActiveChildren
  <1>6. /\ allocated' = allocated
        /\ HollowedBy({c, category[c].parent})
        /\ silent' = IF w.kind # Absent THEN silent \ {c} ELSE silent \union {c}
        /\ repurposed' = IF c \in allocated THEN repurposed \union {c} ELSE repurposed
    BY <1>1, <1>2 DEF Update, Stays
  <1>7. TwoDeep'
    BY <1>2, <1>3, <1>4 DEF Sound, TwoDeep, Roots, Live, Children
  <1>8. KindsMatch'
    <2> SUFFICES ASSUME NEW d \in Live, category'[d].parent # NoCat, d \notin silent'
                 PROVE  category'[d].kind = category'[category'[d].parent].kind
      BY <1>4 DEF KindsMatch
    <2>1. CASE d = c
      BY <1>2, <1>3, <1>6, <2>1 DEF Roots, Live
    <2>2. CASE d # c
      <3>1. d \notin silent /\ category[d].parent # NoCat /\ category'[d].parent = category[d].parent
        BY <1>3, <1>6, <2>2 DEF Live
      <3>2. category[d].parent \in Cats /\ category[d].parent # c
        BY <1>2, <3>1 DEF Sound, TwoDeep, Roots, Live, Children
      <3> QED
        BY <1>3, <2>2, <3>1, <3>2 DEF Sound, KindsMatch, Live
    <2> QED
      BY <2>1, <2>2
  <1>9. RootsUsable'
    <2> SUFFICES ASSUME NEW p \in Roots, p # c, p # category[c].parent
                 PROVE  /\ Children(p) \subseteq Children(p)'
                        /\ ActiveChildren(p) \subseteq ActiveChildren(p)'
                        /\ category'[p].active => category[p].active
      BY <1>4, <1>6, UsableKept DEF Sound
    <2>1. p \in Cats /\ c \notin Children(p) /\ c \notin ActiveChildren(p)
      BY DEF Roots, Live, Children, ActiveChildren
    <2> QED
      BY <1>3, <1>5, <2>1
  <1>10. AllocatedRoots'
    <2> SUFFICES ASSUME NEW d \in allocated, d \notin repurposed'
                 PROVE  d \in Roots \ {c} /\ category'[d].kind = "EXPENSE"
      BY <1>4, <1>6 DEF AllocatedRoots
    <2>1. d # c /\ d \notin repurposed
      BY <1>6
    <2> QED
      BY <1>3, <2>1 DEF Sound, AllocatedRoots, Roots, Live
  <1> QED
    BY <1>7, <1>8, <1>9, <1>10 DEF Sound

LEMMA UpdateKeeps ==
  ASSUME TreeInv, NEW r \in Editors, Update(r)
  PROVE  TreeInv'
  <1> USE DEF TreeInv
  <1>1. PICK w : w = request[r]
    OBVIOUS
  <1>2. Done(r) /\ allocated' = allocated
    BY DEF Update
  <1>3. category' \in [Cats -> CategoryRow]
    BY <1>1, UpdateRows DEF Update
  <1>4. Typed'
    BY <1>2, <1>3, DoneRequests DEF Typed
  <1>5. Live' = Live
    BY <1>1, UpdateRows DEF Live
  <1>6. ForeignKeys'
    BY <1>1, <1>2, <1>5, UpdateRows DEF ForeignKeys, Live
  <1>7. ASSUME ~raced'
        PROVE  Sound'
    <2>1. Sound /\ ~w.stale
      BY <1>1, <1>2, <1>7, DoneRequests
    <2>2. FoundUpdate(w)
      BY <1>1, <2>1, UpdateRows DEF ChecksStand, Found
    <2> QED
      BY <1>1, <2>1, <2>2, UpdateStays, UpdateMoves
  <1> QED
    BY <1>2, <1>4, <1>6, <1>7, DoneRequests, DoneChecks

LEMMA SetActiveKeeps ==
  ASSUME TreeInv, NEW r \in Editors, SetActive(r)
  PROVE  TreeInv'
  <1> USE DEF TreeInv
  <1>1. PICK w \in Write : w = request[r]
    BY DEF Typed
  <1>2. /\ w.op = "setActive" /\ w.id \in Live
        /\ Done(r)
        /\ HollowedBy({})
        /\ UNCHANGED <<allocated, silent, repurposed>>
        /\ category' = [d \in Cats |->
             IF d = w.id \/ (w.cascade /\ d \in Children(w.id))
             THEN [category[d] EXCEPT !.active = w.active] ELSE category[d]]
    BY <1>1 DEF SetActive
  <1>3. PICK c \in Cats : c = w.id
    BY <1>2 DEF Live
  <1>4. \A d \in Cats :
          /\ category'[d] \in CategoryRow
          /\ category'[d].life = category[d].life
          /\ category'[d].parent = category[d].parent
          /\ category'[d].kind = category[d].kind
          /\ category'[d].active =
               IF d = c \/ (w.cascade /\ d \in Children(c))
               THEN w.active ELSE category[d].active
    <2> SUFFICES ASSUME NEW d \in Cats
                 PROVE  /\ category'[d] \in CategoryRow
                        /\ category'[d].life = category[d].life
                        /\ category'[d].parent = category[d].parent
                        /\ category'[d].kind = category[d].kind
                        /\ category'[d].active =
                             IF d = c \/ (w.cascade /\ d \in Children(c))
                             THEN w.active ELSE category[d].active
      OBVIOUS
    <2>1. category[d] \in CategoryRow /\ w.active \in BOOLEAN
      BY <1>1, <1>2 DEF Typed, KindKnown
    <2>2. CASE d = c \/ (w.cascade /\ d \in Children(c))
      <3>1. category'[d] = [category[d] EXCEPT !.active = w.active]
        BY <1>2, <1>3, <2>2
      <3> QED
        BY <2>1, <2>2, <3>1 DEF CategoryRow
    <2>3. CASE ~(d = c \/ (w.cascade /\ d \in Children(c)))
      <3>1. category'[d] = category[d]
        BY <1>2, <1>3, <2>3
      <3> QED
        BY <2>1, <2>3, <3>1
    <2> QED
      BY <2>2, <2>3
  <1>5. /\ Live' = Live /\ Roots' = Roots
        /\ \A p \in Cats : Children(p)' = Children(p)
    BY <1>4 DEF Live, Roots, Children
  <1>6. Typed'
    BY <1>2, <1>4, DoneRequests DEF Typed
  <1>7. ForeignKeys'
    BY <1>2, <1>4, <1>5 DEF ForeignKeys, Live
  <1>8. ASSUME ~raced'
        PROVE  Sound'
    <2>1. Sound /\ ~w.stale
      BY <1>1, <1>2, <1>8, DoneRequests
    <2>2. /\ w.cascade <=> category[c].parent = NoCat
          /\ category[c].parent # NoCat /\ ~w.active => NotLastActive(c)
      BY <1>1, <1>2, <1>3, <2>1 DEF ChecksStand, Found, FoundSetActive
    <2>3. TwoDeep'
      BY <1>4, <1>5, <2>1 DEF Sound, TwoDeep, Live
    <2>4. KindsMatch'
      BY <1>2, <1>4, <1>5, <2>1 DEF Sound, KindsMatch, TwoDeep, Roots, Live
    <2>5. AllocatedRoots'
      BY <1>2, <1>4, <1>5, <2>1 DEF Sound, AllocatedRoots, Roots, Live
    <2>6. RootsUsable'
      <3> SUFFICES ASSUME NEW p \in Roots, p \notin hollowed, category'[p].active
                   PROVE  ActiveChildren(p)' # {}
        <4>1. \A p \in Roots : p \in hollowed \/ Children(p)' # {}
          BY <1>5, <2>1 DEF Sound, RootsUsable, Roots, Live
        <4>2. \A p \in Roots : p \notin hollowed' => p \notin hollowed \/ ActiveChildren(p)' # {}
          BY <1>2, <1>5 DEF HollowedBy, Hollow
        <4> QED
          BY <1>5, <4>1, <4>2 DEF RootsUsable, ActiveChildren
      <3>1. p \in Cats /\ category[p].parent = NoCat
        BY DEF Roots, Live
      <3>2. Children(p) # {} /\ (category[p].active => ActiveChildren(p) # {})
        BY <2>1 DEF Sound, RootsUsable
      <3>3. ActiveChildren(p)' = {d \in Children(p) : category'[d].active}
        BY <1>5, <3>1 DEF ActiveChildren
      <3>4. \A d \in Children(p) : d \in Cats /\ d # p /\ category[d].parent = p
        BY <3>1, CategoryAssumption DEF Children, Live
      \* The root itself is switched on, with all it has.
      <3>5. CASE c = p
        <4>1. w.cascade /\ w.active
          BY <1>4, <2>2, <3>1, <3>5
        <4>2. \A d \in Children(p) : category'[d].active
          BY <1>4, <3>4, <3>5, <4>1
        <4> QED
          BY <3>2, <3>3, <4>2
      <3>6. CASE c # p
        <4>1. category[p].active
          <5>1. p \notin Children(c)
            BY <3>1, CategoryAssumption DEF Children
          <5> QED
            BY <1>4, <3>1, <3>6, <5>1
        <4>2. ActiveChildren(p) # {}
          BY <3>2, <4>1
        <4>3. \A d \in Children(p) : d \notin Children(c)
          BY <3>4, <3>6 DEF Children
        <4>4. \A d \in Children(p) : d # c => category'[d].active = category[d].active
          BY <1>4, <3>4, <4>3
        <4>5. CASE category[c].parent = p /\ ~w.active
          <5>1. ActiveChildren(p) \ {c} # {}
            BY <2>2, <3>1, <4>1, <4>5, CategoryAssumption DEF NotLastActive
          <5> QED
            BY <3>3, <4>4, <5>1 DEF ActiveChildren
        <4>6. CASE category[c].parent = p /\ w.active
          <5>1. category'[c].active /\ c \in Children(p)
            BY <1>2, <1>3, <1>4, <4>6 DEF Children
          <5> QED
            BY <3>3, <5>1
        <4>7. CASE category[c].parent # p
          <5>1. c \notin Children(p)
            BY <4>7 DEF Children
          <5> QED
            BY <3>3, <4>2, <4>4, <5>1 DEF ActiveChildren
        <4> QED
          BY <4>5, <4>6, <4>7
      <3> QED
        BY <3>5, <3>6
    <2> QED
      BY <2>3, <2>4, <2>5, <2>6 DEF Sound
  <1> QED
    BY <1>2, <1>6, <1>7, <1>8, DoneRequests, DoneChecks

LEMMA RemoveKeeps ==
  ASSUME TreeInv, NEW r \in Editors, NEW c \in Cats, Remove(r, c)
  PROVE  TreeInv'
  <1> USE DEF TreeInv
  <1>1. /\ Done(r)
        /\ c \in Live /\ Children(c) = {} /\ c \notin allocated
        /\ UNCHANGED <<allocated, repurposed>>
        /\ silent' = silent \ {c}
        /\ HollowedBy({category[c].parent})
    BY DEF Remove
  <1>2. [NoRow EXCEPT !.life = "gone"] \in CategoryRow
        /\ [NoRow EXCEPT !.life = "gone"].life = "gone"
    BY DEF NoRow, CategoryRow, Kinds
  <1>3. \A d \in Cats : category'[d] =
          IF d = c THEN [NoRow EXCEPT !.life = "gone"] ELSE category[d]
    BY DEF Remove, Typed
  <1>4. Typed'
    BY <1>1, <1>2, DoneRequests DEF Remove, Typed
  <1>5. Live' = Live \ {c} /\ Roots' = Roots \ {c}
    BY <1>2, <1>3 DEF Live, Roots
  <1>6. \A d \in Live : category[d].parent # c
    BY <1>1 DEF Children
  <1>7. ForeignKeys'
    BY <1>1, <1>3, <1>5, <1>6 DEF ForeignKeys, Live
  <1>8. ASSUME ~raced'
        PROVE  Sound'
    <2>1. Sound
      BY <1>1, <1>8, DoneRequests
    <2>2. TwoDeep'
      BY <1>3, <1>5, <1>6, <2>1 DEF Sound, TwoDeep, Live
    <2>3. KindsMatch'
      BY <1>1, <1>3, <1>5, <1>6, <2>1 DEF Sound, KindsMatch, TwoDeep, Roots, Live
    <2>4. AllocatedRoots'
      BY <1>1, <1>3, <1>5, <2>1 DEF Sound, AllocatedRoots, Roots, Live
    <2>5. RootsUsable'
      <3> SUFFICES ASSUME NEW p \in Roots, p # c, p # category[c].parent
                   PROVE  /\ Children(p) \subseteq Children(p)'
                          /\ ActiveChildren(p) \subseteq ActiveChildren(p)'
                          /\ category'[p].active => category[p].active
        BY <1>1, <1>5, <2>1, UsableKept DEF Sound
      <3>1. category'[p] = category[p] /\ c \notin Children(p) /\ c \notin ActiveChildren(p)
        BY <1>3 DEF Roots, Live, Children, ActiveChildren
      <3> QED
        BY <1>3, <1>5, <3>1 DEF Children, ActiveChildren, Live
    <2> QED
      BY <2>2, <2>3, <2>4, <2>5 DEF Sound
  <1> QED
    BY <1>1, <1>4, <1>7, <1>8, DoneRequests, DoneChecks

LEMMA PutKeeps ==
  ASSUME TreeInv, NEW r \in Editors, Put(r)
  PROVE  TreeInv'
  <1> USE DEF TreeInv
  <1>1. /\ request[r].op = "put" /\ request[r].targets \subseteq Live
        /\ allocated' = request[r].targets /\ repurposed' = {}
        /\ request' = [request EXCEPT ![r] = NoWrite]
        /\ UNCHANGED <<category, silent, hollowed>>
    BY DEF Put
  <1>2. raced' \in BOOLEAN /\ (~raced' => ~raced /\ ~request[r].stale)
    BY Zenon DEF Put
  <1>3. Typed'
    BY <1>1, NoWriteTyped DEF Typed, KindKnown, Live
  <1>4. ForeignKeys'
    BY <1>1 DEF ForeignKeys, Live
  <1>5. ChecksStand'
    <2>1. \A s \in Editors : request'[s] = NoWrite \/ request'[s] = request[s]
      BY <1>1 DEF Typed
    <2> SUFFICES ASSUME NEW s \in Editors, NEW v, v = request'[s], ~v.stale
                 PROVE  Found(v)'
      BY DEF ChecksStand, Found, FoundCreate, FoundUpdate, FoundSetActive, FoundPut,
         Stays, MayMove, NotLastActive
    <2>2. Found(v)
      BY <2>1, NoWriteTyped DEF ChecksStand, Found
    <2> QED
      BY <1>1, <2>2, FoundStable
  <1>6. ASSUME ~raced'
        PROVE  Sound'
    <2>1. Sound /\ \A c \in allocated' : c \in Roots /\ category[c].kind = "EXPENSE"
      BY <1>1, <1>2, <1>6 DEF ChecksStand, Found, FoundPut
    <2> QED
      BY <1>1, <2>1 DEF Sound, TwoDeep, KindsMatch, RootsUsable, AllocatedRoots, Roots,
         Live, Children, ActiveChildren
  <1> QED
    BY <1>2, <1>3, <1>4, <1>5, <1>6

-----------------------------------------------------------------------------

LEMMA TreeInvStep == TreeInv /\ [TreeNext]_treeVars => TreeInv'
  <1> SUFFICES ASSUME TreeInv, [TreeNext]_treeVars PROVE TreeInv'
    OBVIOUS
  <1>1. CASE UNCHANGED treeVars
    <2>1. UNCHANGED <<category, allocated, request, raced, silent, hollowed, repurposed>>
      BY <1>1 DEF treeVars
    <2>2. ChecksStand'
      BY <2>1 DEF TreeInv, ChecksStand, Found, FoundCreate, FoundUpdate, FoundSetActive,
         FoundPut, Roots, Live, Stays, KindFits, MayMove, CanParent, Children,
         NotLastActive, ActiveChildren
    <2> QED
      BY <2>1, <2>2 DEF TreeInv, Typed, KindKnown, ForeignKeys, Sound, TwoDeep, KindsMatch,
         RootsUsable, AllocatedRoots, Roots, Live, Children, ActiveChildren
  <1> QED
    BY <1>1, CreateRootKeeps, CheckCreateKeeps, CreateSubKeeps, CheckUpdateKeeps,
       UpdateKeeps, CheckSetActiveKeeps, SetActiveKeeps, RemoveKeeps, CheckPutKeeps,
       PutKeeps, GiveUpKeeps
       DEF TreeNext

LEMMA TreeInvariant == TreeSpec => []TreeInv
  BY TreeInvInit, TreeInvStep, PTL DEF TreeSpec

\* However many requests edit the tree, parents exist, and the tree has two
\* levels until one of them writes on checks another has overtaken.
THEOREM TreeHasTwoLevels == TreeSpec => []TwoLevels
  <1>1. TreeInv => TwoLevels
    BY DEF TreeInv, ForeignKeys, Sound, TwoDeep, TwoLevels
  <1> QED
    BY TreeInvariant, <1>1, PTL

\* Under the same condition a subcategory has its parent's kind, unless it was
\* moved by a request that named none.
THEOREM KindsAreKept == TreeSpec => []KindKept
  <1>1. TreeInv => KindKept
    BY DEF TreeInv, Sound, KindsMatch, KindKept
  <1> QED
    BY TreeInvariant, <1>1, PTL

\* Under the same condition an active root has an active subcategory: whatever
\* is created and toggled, in any order, only a removal, a move or a PATCH of
\* isActive leaves one without.
THEOREM ActiveRootsAreUsable == TreeSpec => []ActiveRootUsable
  <1>1. TreeInv => ActiveRootUsable
    BY DEF TreeInv, Sound, RootsUsable, ActiveRootUsable
  <1> QED
    BY TreeInvariant, <1>1, PTL

\* Under the same condition a budget allocates to expense roots only, what was
\* changed after it was put excepted.
THEOREM BudgetsAllocateRoots == TreeSpec => []AllocatesRoots
  <1>1. TreeInv => AllocatesRoots
    BY DEF TreeInv, Sound, AllocatedRoots, AllocatesRoots
  <1> QED
    BY TreeInvariant, <1>1, PTL

=============================================================================
