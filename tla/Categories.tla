----------------------------- MODULE Categories -----------------------------
(***************************************************************************)
(* The category tree of one user (categories.service.ts) and the           *)
(* allocations of one quarterly budget to its roots (budgets.service.ts),  *)
(* with the foreign keys of the schema between them.                       *)
(*                                                                         *)
(* A handler checks the tree with reads of its own and writes afterwards,  *)
(* in one transaction.  Check... keeps in request[r] what the write needs; *)
(* a request whose check another write has overtaken is stale.             *)
(***************************************************************************)

CONSTANTS
  Cats,       \* category ids
  NoCat,      \* parentId is null
  Absent,     \* a field the request body does not have
  Editors     \* requests

Kinds == {"EXPENSE", "INCOME"}

ASSUME CategoryAssumption ==
  /\ NoCat \notin Cats
  /\ Absent # NoCat
  /\ Absent \notin Cats
  /\ Absent \notin Kinds
  /\ Absent \notin BOOLEAN

VARIABLES
  category,   \* the rows; one is unborn, live or gone
  allocated,  \* the categories of the budget's allocations
  request,    \* what each request has checked and is about to write
  raced,      \* history: a stale request wrote
  silent,     \* history: moved by a request that named no kind, and not given one since
  hollowed,   \* history: a move, a removal or a patch of isActive left it without an
              \* active subcategory, and it has had none since
  repurposed  \* history: allocated, and moved or given another kind since

history == <<silent, hollowed, repurposed>>

treeVars == <<category, allocated, request, raced, silent, hollowed, repurposed>>

NoRow == [life |-> "unborn", parent |-> NoCat, kind |-> "EXPENSE", active |-> FALSE]

NoWrite == [op |-> "none", id |-> NoCat, parent |-> Absent, kind |-> Absent,
            cascade |-> FALSE, active |-> Absent, targets |-> {}, stale |-> FALSE]

TreeInit ==
  /\ category = [c \in Cats |-> NoRow]
  /\ allocated = {}
  /\ request = [r \in Editors |-> NoWrite]
  /\ raced = FALSE
  /\ silent = {}
  /\ hollowed = {}
  /\ repurposed = {}

Live == {c \in Cats : category[c].life = "live"}
Roots == {c \in Live : category[c].parent = NoCat}
Children(p) == {c \in Live : category[c].parent = p}
ActiveChildren(p) == {c \in Children(p) : category[c].active}

\* Roots without what invariant 3 asks of an active one.
Hollow == {p \in Roots : ActiveChildren(p) = {}}

\* Nothing asks for the last active subcategory when rows is what a write
\* takes one from, or switches: the roots among them are excused for as long as
\* they are hollow.
HollowedBy(rows) == hollowed' = (hollowed \union rows) \cap Hollow'

Unborn == {c \in Cats : category[c].life = "unborn"}
Row(parent, kind, active) ==
  [life |-> "live", parent |-> parent, kind |-> kind, active |-> active]

-----------------------------------------------------------------------------

Idle(r) == request[r].op = "none"

\* A request has made its checks: what it will write.
Pass(r, write) ==
  /\ request' = [request EXCEPT ![r] = write]
  /\ UNCHANGED <<category, allocated, raced, history>>

\* A request writes: the checks of the others are out of date.
Done(r) ==
  /\ request' = [s \in Editors |->
       IF s = r \/ Idle(s) THEN NoWrite ELSE [request[s] EXCEPT !.stale = TRUE]]
  /\ raced' = (raced \/ request[r].stale)

\* A row that is gone, a foreign key, a lost connection: nothing is written.
GiveUp(r) ==
  /\ ~Idle(r)
  /\ request' = [request EXCEPT ![r] = NoWrite]
  /\ UNCHANGED <<category, allocated, raced, history>>

-----------------------------------------------------------------------------
(* create()                                                                *)

\* Others is active whatever the body says of its root.
CreateRoot(r, root, others, kind, active) ==
  /\ Idle(r)
  /\ {root, others} \subseteq Unborn
  /\ root # others
  /\ category' = [category EXCEPT ![root] = Row(NoCat, kind, active),
                                  ![others] = Row(root, kind, TRUE)]
  /\ Done(r)
  /\ UNCHANGED <<allocated, history>>

\* Mutant of CanParent: a subcategory is a parent as well.
CanParentAny(p) == p \in Live

CanParent(p) == p \in Roots

\* Mutant of KindFits: the parent's kind is not asked for.
KindFitsAny(kind, p) == TRUE

\* A kind given for a subcategory must be its parent's.
KindFits(kind, p) == kind \in {Absent, category[p].kind}

CheckCreate(r, p, kind, active) ==
  /\ Idle(r)
  /\ CanParent(p)
  /\ KindFits(kind, p)
  /\ Pass(r, [NoWrite EXCEPT !.op = "create", !.parent = p, !.kind = category[p].kind,
                             !.active = active])

CreateSub(r, c) ==
  /\ request[r].op = "create"
  /\ request[r].parent \in Live
  /\ c \in Unborn
  /\ category' = [category EXCEPT ![c] =
       Row(request[r].parent, request[r].kind, request[r].active)]
  /\ HollowedBy({})
  /\ Done(r)
  /\ UNCHANGED <<allocated, silent, repurposed>>

-----------------------------------------------------------------------------
(* update()                                                                *)

\* targetParentId(): staying, or moving under another root.
Stays(c, parent) == parent \in {Absent, category[c].parent}

MayMove(c, parent, kind) ==
  /\ parent # c
  /\ CanParent(parent)
  /\ KindFits(kind, parent)
  /\ Children(c) = {}

CheckUpdate(r, c, parent, kind, active) ==
  /\ Idle(r)
  /\ c \in Live
  /\ \/ /\ Stays(c, parent)
        /\ category[c].parent # NoCat => KindFits(kind, category[c].parent)
     \/ ~Stays(c, parent) /\ MayMove(c, parent, kind)
  /\ Pass(r, [NoWrite EXCEPT
       !.op = "update", !.id = c, !.parent = parent, !.kind = kind, !.active = active,
       !.cascade = /\ Stays(c, parent)
                   /\ category[c].parent = NoCat
                   /\ kind \notin {Absent, category[c].kind}])

\* Mutant of Updated: a missing field is written too.
UpdatedWithMissing(row, write) ==
  [row EXCEPT !.parent = write.parent, !.kind = write.kind, !.active = write.active]

Given(field, old) == IF field = Absent THEN old ELSE field

\* Only the fields of the body are written.
Updated(row, write) ==
  [row EXCEPT !.parent = Given(write.parent, @), !.kind = Given(write.kind, @),
              !.active = Given(write.active, @)]

\* A new kind of a root goes to its subcategories as well; isActive stays where
\* it was given, and no subcategory is asked for.
Update(r) ==
  LET write == request[r]
      c == write.id
      from == category[c].parent
      moves == write.parent \notin {Absent, from}
  IN /\ write.op = "update"
     /\ c \in Live
     /\ write.parent \in Live \union {Absent}
     /\ category' = [d \in Cats |->
          CASE d = c -> Updated(category[d], write)
            [] d # c /\ write.cascade /\ d \in Children(c) ->
                 [category[d] EXCEPT !.kind = write.kind]
            [] OTHER -> category[d]]
     /\ silent' = CASE write.kind # Absent ->
                         silent \ ({c} \union IF write.cascade THEN Children(c) ELSE {})
                    [] write.kind = Absent /\ moves -> silent \union {c}
                    [] OTHER -> silent
     /\ HollowedBy(IF moves \/ write.active # Absent THEN {c, from} ELSE {})
     /\ repurposed' = IF c \in allocated /\ (moves \/ write.kind \notin {Absent, category[c].kind})
                      THEN repurposed \union {c} ELSE repurposed
     /\ Done(r)
     /\ UNCHANGED allocated

-----------------------------------------------------------------------------
(* setActive() and remove()                                                *)

\* Mutant of NotLastActive: nothing is asserted.
NotLastActiveAny(c) == TRUE

\* assertNotLastActiveSubcategory().
NotLastActive(c) ==
  LET p == category[c].parent IN
  category[p].active => ActiveChildren(p) \ {c} # {}

CheckSetActive(r, c, active) ==
  /\ Idle(r)
  /\ c \in Live
  /\ category[c].parent # NoCat /\ ~active => NotLastActive(c)
  /\ Pass(r, [NoWrite EXCEPT !.op = "setActive", !.id = c, !.active = active,
                             !.cascade = category[c].parent = NoCat])

SetActive(r) ==
  LET write == request[r] IN
  /\ write.op = "setActive"
  /\ write.id \in Live
  /\ category' = [d \in Cats |->
       IF d = write.id \/ (write.cascade /\ d \in Children(write.id))
       THEN [category[d] EXCEPT !.active = write.active] ELSE category[d]]
  /\ HollowedBy({})
  /\ Done(r)
  /\ UNCHANGED <<allocated, silent, repurposed>>

\* The foreign keys restrict: no subcategories, no allocations.
Remove(r, c) ==
  /\ Idle(r)
  /\ c \in Live
  /\ Children(c) = {}
  /\ c \notin allocated
  /\ category' = [category EXCEPT ![c] = [NoRow EXCEPT !.life = "gone"]]
  /\ silent' = silent \ {c}
  /\ HollowedBy({category[c].parent})
  /\ Done(r)
  /\ UNCHANGED <<allocated, repurposed>>

-----------------------------------------------------------------------------
(* put() of the budget: all its allocations at once.                       *)

\* Mutant of Allocatable: the kind is not asked for.
AllocatableAnyKind == {c \in Roots : category[c].active \/ c \in allocated}

Allocatable ==
  {c \in Roots : category[c].kind = "EXPENSE" /\ (category[c].active \/ c \in allocated)}

CheckPut(r, targets) ==
  /\ Idle(r)
  /\ targets \subseteq Allocatable
  /\ Pass(r, [NoWrite EXCEPT !.op = "put", !.targets = targets])

Put(r) ==
  /\ request[r].op = "put"
  /\ request[r].targets \subseteq Live
  /\ allocated' = request[r].targets
  /\ repurposed' = {}
  /\ request' = [request EXCEPT ![r] = NoWrite]
  /\ raced' = (raced \/ request[r].stale)
  /\ UNCHANGED <<category, silent, hollowed>>

-----------------------------------------------------------------------------

TreeNext ==
  \E r \in Editors :
    \/ \E root, others \in Cats, kind \in Kinds, active \in BOOLEAN :
         CreateRoot(r, root, others, kind, active)
    \/ \E p \in Cats, kind \in Kinds \union {Absent}, active \in BOOLEAN :
         CheckCreate(r, p, kind, active)
    \/ \E c \in Cats : CreateSub(r, c)
    \/ \E c \in Cats, parent \in Cats \union {Absent}, kind \in Kinds \union {Absent},
         active \in BOOLEAN \union {Absent} : CheckUpdate(r, c, parent, kind, active)
    \/ Update(r)
    \/ \E c \in Cats, active \in BOOLEAN : CheckSetActive(r, c, active)
    \/ SetActive(r)
    \/ \E c \in Cats : Remove(r, c)
    \/ \E targets \in SUBSET Cats : CheckPut(r, targets)
    \/ Put(r)
    \/ GiveUp(r)

TreeSpec == TreeInit /\ [][TreeNext]_treeVars

-----------------------------------------------------------------------------

\* Every variable has its type.
TreeTypeOK ==
  /\ category \in [Cats -> [life : {"unborn", "live", "gone"}, parent : Cats \union {NoCat},
                            kind : Kinds, active : BOOLEAN]]
  /\ allocated \subseteq Cats
  /\ request \in [Editors ->
       [op : {"none", "create", "update", "setActive", "put"}, id : Cats \union {NoCat},
        parent : Cats \union {Absent}, kind : Kinds \union {Absent}, cascade : BOOLEAN,
        active : BOOLEAN \union {Absent}, targets : SUBSET Cats, stale : BOOLEAN]]
  /\ raced \in BOOLEAN
  /\ silent \subseteq Cats
  /\ hollowed \subseteq Cats
  /\ repurposed \subseteq Cats

\* Invariant 1 of the service: two levels, never three.  No sequence of moves,
\* creations and removals breaks it, as long as no request writes on checks
\* that another has made out of date.  A parent exists in any case.
TwoLevels ==
  \A c \in Live : category[c].parent # NoCat =>
    /\ category[c].parent \in Live
    /\ raced \/ category[c].parent \in Roots

\* Invariant 2 of the service, as far as it goes: a subcategory has its parent's
\* kind through every change of either, unless it was moved by a request that
\* named no kind.
KindKept ==
  \A c \in Live : category[c].parent # NoCat =>
    raced \/ c \in silent \/ category[c].kind = category[category[c].parent].kind

\* Invariant 3 of the service, as far as it goes: an active root has an active
\* subcategory through every creation and every toggle, those of its own and of
\* its subcategories, unless a removal, a move or a PATCH of isActive, none of
\* which asks for the last one, has left it without.
ActiveRootUsable ==
  \A p \in Roots : category[p].active =>
    raced \/ p \in hollowed \/ ActiveChildren(p) # {}

\* A budget divides income among expense roots: whatever was moved, removed or
\* given another kind before it was put, an allocated category is one, unless
\* that very category has been changed since.
AllocatesRoots ==
  \A c \in allocated :
    raced \/ c \in repurposed \/ (c \in Roots /\ category[c].kind = "EXPENSE")

\* Invariant 2 as categories.service.ts:30 states it.
SubcategoryMatchesParent ==
  \A c \in Live : category[c].parent # NoCat =>
    category[c].kind = category[category[c].parent].kind

=============================================================================
