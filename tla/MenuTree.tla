----------------------------- MODULE MenuTree -----------------------------
(***************************************************************************)
(* The menu tree of one tenant and the roles it is granted to: creating,   *)
(* editing and deleting menus (service/menu_service.py, api/menu.py),      *)
(* replacing the menus of a role (tenant_association_writer.py), and the   *)
(* route tree a user gets from them (auth/permission_collect.py,           *)
(* auth/service.py build_menu_tree).                                       *)
(*                                                                         *)
(* A handler reads first and writes when it commits; the reads and the     *)
(* commit are two steps and other requests run between them.  The foreign  *)
(* keys of the schema are part of the commit: a menu's parent must exist,  *)
(* a menu with children cannot be deleted (RESTRICT), and a deleted menu   *)
(* takes its grants with it (CASCADE).  Names, icons and order are left    *)
(* out; a button carries its permission code.                              *)
(***************************************************************************)
EXTENDS Integers, SequencesExt

CONSTANTS Request,    \* concurrent administrators' requests
          Role,       \* roles of the tenant, one user each
          Code,       \* permission codes of buttons
          Lists,      \* button lists a form may submit, repetitions included
          MaxMenu,    \* rows ever created
          MaxWrites   \* commits of all requests together

VARIABLES menu,       \* the live rows of sys_menu, by id
          grant,      \* sys_role_menu: the ids each role holds
          req,        \* what each request has read and is about to write
          last,       \* the newest id
          writes      \* commits so far

vars == <<menu, grant, req, last, writes>>

Root == 0
NoCode == "no permission"
Idle == [op |-> "idle"]

Live == DOMAIN menu

Row(kind, parent, code, on) ==
  [kind |-> kind, parent |-> parent, code |-> code, on |-> on]

ChildrenOf(ids) == {i \in Live : menu[i].parent \in ids}

ButtonsOf(id) == {i \in Live : menu[i].parent = id /\ menu[i].kind = "F"}

\* The rows of a list of buttons under menu id, numbered after the id first.
NewButtons(id, codes, first) ==
  [i \in (first + 1)..(first + Len(codes)) |-> Row("F", id, codes[i - first], TRUE)]

Init ==
  /\ menu = <<>>
  /\ grant = [o \in Role |-> {}]
  /\ req = [r \in Request |-> Idle]
  /\ last = 0
  /\ writes = 0

Free(r) == req[r].op \in {"idle", "saved"} /\ writes < MaxWrites

Write == writes < MaxWrites /\ writes' = writes + 1

(***************************************************************************)
(* Creating a menu and its buttons is one insert per row and one commit;   *)
(* the parent may be any live row, a button included.                      *)
(***************************************************************************)
create_menu(r) ==
  \E kind \in {"M", "C", "F"}, parent \in Live \cup {Root},
     on \in BOOLEAN, codes \in Lists :
    LET id == last + 1 IN
    /\ Free(r) /\ Write
    /\ id + Len(codes) <= MaxMenu
    /\ menu' = [i \in Live \cup {id} |->
                  IF i = id THEN Row(kind, parent, NoCode, on) ELSE menu[i]]
                 @@ NewButtons(id, codes, id)
    /\ last' = id + Len(codes)
    /\ req' = [req EXCEPT ![r] = Idle]
    /\ UNCHANGED grant

(***************************************************************************)
(* Editing reads the menu and its buttons, keyed by permission code (of    *)
(* two buttons with one code the dictionary keeps one).                    *)
(***************************************************************************)
ReadForUpdate(r) ==
  \E id \in Live :
  \E byCode \in {f \in [{menu[b].code : b \in ButtonsOf(id)} -> ButtonsOf(id)] :
                 \A c \in DOMAIN f : menu[f[c]].code = c} :
    /\ Free(r)
    /\ req' = [req EXCEPT ![r] = [op |-> "update", id |-> id, byCode |-> byCode]]
    /\ UNCHANGED <<menu, grant, last, writes>>

\* to_delete; SQL's IN never matches a row without a permission.
Removed(q, codes) == (DOMAIN q.byCode \ Range(codes)) \ {NoCode}

\* Faulty variant: the rows that were read are deleted by their ids.
DroppedAsRead(q, codes) == {q.byCode[c] : c \in Removed(q, codes)} \cap Live

\* Faulty variant: the buttons are deleted and built again.
DroppedAll(q, codes) == ButtonsOf(q.id)

\* The removed buttons, by code and not by the ids that were read.
Dropped(q, codes) == {i \in ButtonsOf(q.id) : menu[i].code \in Removed(q, codes)}

Added(q, codes) == SelectSeq(codes, LAMBDA c : c \notin DOMAIN q.byCode)

\* Faulty variant: the handler's own check is all there is.
Unrestricted(ids) == FALSE

\* Deleting a set of rows is refused by the foreign key while another row
\* has one of them as its parent.
Restricted(ids) == ChildrenOf(ids) \ ids # {}

\* The commit of an edit.  The form always carries a parent, which is never
\* compared with the menu's own descendants, a type and a status.  It fails, and
\* changes nothing, when the row or the new parent is gone, when a kept
\* button that is renamed is gone, or when a removed button has children.
CommitUpdate(r) ==
  \E parent \in 0..last, kind \in {"M", "C", "F"}, on \in BOOLEAN, codes \in Lists :
    LET q == req[r]
        gone == Dropped(q, codes)
        kept == Live \ gone
        added == Added(q, codes) IN
    /\ q.op = "update"
    /\ Write
    /\ \/ /\ q.id \in Live
          /\ parent \in kept \cup {Root}
          /\ ~Restricted(gone)
          /\ last + Len(added) <= MaxMenu
          /\ menu' = [i \in kept |->
                        IF i = q.id THEN Row(kind, parent, menu[i].code, on) ELSE menu[i]]
                       @@ NewButtons(q.id, added, last)
          /\ grant' = [o \in Role |-> grant[o] \ gone]
          /\ last' = last + Len(added)
          /\ req' = [req EXCEPT ![r] = [op |-> "saved", id |-> q.id,
                                        removed |-> Removed(q, codes)]]
       \/ /\ \/ q.id \notin Live
             \/ parent \notin kept \cup {Root}
             \/ Restricted(gone)
             \/ \E c \in DOMAIN q.byCode \cap Range(codes) : q.byCode[c] \notin Live
          /\ req' = [req EXCEPT ![r] = Idle]
          /\ UNCHANGED <<menu, grant, last>>

(***************************************************************************)
(* Deleting: the check for children and the DELETE are two statements.     *)
(* A single delete refuses any child, a batch only children outside it.    *)
(***************************************************************************)
delete_menu(r) ==
  \E id \in Live :
    /\ Free(r)
    /\ ChildrenOf({id}) = {}
    /\ req' = [req EXCEPT ![r] = [op |-> "delete", ids |-> {id}]]
    /\ UNCHANGED <<menu, grant, last, writes>>

batch_delete_menus(r) ==
  \E ids \in SUBSET Live \ {{}} :
    /\ Free(r)
    /\ ChildrenOf(ids) \subseteq ids
    /\ req' = [req EXCEPT ![r] = [op |-> "delete", ids |-> ids]]
    /\ UNCHANGED <<menu, grant, last, writes>>

CommitDelete(r) ==
  LET ids == req[r].ids \cap Live IN
  /\ req[r].op = "delete"
  /\ Write
  /\ req' = [req EXCEPT ![r] = Idle]
  /\ UNCHANGED last
  /\ \/ /\ ~Restricted(ids)
        /\ menu' = [i \in Live \ ids |-> menu[i]]
        /\ grant' = [o \in Role |-> grant[o] \ ids]
     \/ /\ Restricted(ids)
        /\ UNCHANGED <<menu, grant>>

(***************************************************************************)
(* Replacing the menus of a role: the ids are checked to exist, and a menu *)
(* deleted in between makes the insert fail, so the step happens on live   *)
(* menus or not at all.                                                    *)
(***************************************************************************)
replace_role_menus ==
  \E o \in Role, ids \in SUBSET Live :
    /\ Write
    /\ grant' = [grant EXCEPT ![o] = ids]
    /\ UNCHANGED <<menu, req, last>>

Next ==
  \/ \E r \in Request :
       create_menu(r) \/ ReadForUpdate(r) \/ CommitUpdate(r)
         \/ delete_menu(r) \/ batch_delete_menus(r) \/ CommitDelete(r)
  \/ replace_role_menus

Spec == Init /\ [][Next]_vars

-----------------------------------------------------------------------------
(***************************************************************************)
(* What a user of a role gets.                                             *)
(***************************************************************************)
\* collect_user_permission_codes: the status of a menu does not matter.
Permissions(o) == {menu[i].code : i \in grant[o]} \ {NoCode}

Routable == {i \in Live : menu[i].kind \in {"M", "C"} /\ menu[i].on}

\* collect_user_menus.
UserMenus(o) == grant[o] \cap Routable

\* The rows of ids one meets walking down from a parent.
Below(ids, parent) ==
  LET below[p \in ids \cup {parent}] ==
        UNION {below[i] \cup {i} : i \in {j \in ids : menu[j].parent = p}} IN
  below[parent]

\* The trees the menu editor shows: every row, and the list without buttons.
get_menu_tree == Below(Live, Root)
get_menu_tree_list == Below({i \in Live : menu[i].kind # "F"}, Root)

\* Faulty variant: a directory is kept though nothing is left below it.
TreeWithEmpty(ids, parent) == Below(ids, parent)

\* build_menu_tree from the root down: the menus that become routes, every
\* directory being a layout of its children only.
build_menu_tree(ids, parent) ==
  LET tree[p \in ids \cup {parent}] ==
        UNION {IF menu[i].kind = "M" /\ tree[i] = {} THEN {} ELSE tree[i] \cup {i} :
                 i \in {j \in ids : menu[j].parent = p}} IN
  tree[parent]

getUserRoutes(o) == build_menu_tree(UserMenus(o), Root)

\* A super administrator's routes do not go through roles.
SuperAdminRoutes == build_menu_tree(Routable, Root)

\* get_role_menus: the menus of a role that have no child in the table.
RoleMenuList(o) == {i \in grant[o] : ChildrenOf({i}) = {}}

-----------------------------------------------------------------------------
TypeOK ==
  /\ Live \subseteq 1..MaxMenu
  /\ \A i \in Live :
       menu[i] \in [kind : {"M", "C", "F"}, parent : 0..MaxMenu,
                    code : Code \cup {NoCode}, on : BOOLEAN]
  /\ grant \in [Role -> SUBSET (1..MaxMenu)]
  /\ \A r \in Request : req[r].op \in {"idle", "saved", "update", "delete"}
  /\ last \in 0..MaxMenu
  /\ writes \in 0..MaxWrites

\* No interleaving of creating, moving and deleting leaves a menu under a
\* parent that is gone, or a role with a grant of a menu that is gone: the
\* checks of delete_menu and batch_delete_menus are stale when they delete.
NothingDangles ==
  /\ \A i \in Live : menu[i].parent \in Live \cup {Root}
  /\ \A o \in Role : grant[o] \subseteq Live

\* The ids met in n steps on the way from menu i up to the root, i included.
PathUp(i, n) ==
  LET path[k \in 0..n] ==
        IF k = 0 THEN {i}
        ELSE path[k - 1] \cup {menu[j].parent : j \in path[k - 1] \ {Root}} IN
  path[n]

\* A page is a route exactly when it and every directory and page above it
\* are granted, enabled and lead to the root; a directory is one exactly when
\* such a page is below it.  Menus on a cycle are no routes, building the tree
\* from the root never follows one, and an administrator finds every route in
\* the menu editor.
RoutesAreReachable ==
  \A o \in Role :
    LET mine == UserMenus(o)
        path(i) == PathUp(i, MaxMenu)
        pages == {i \in mine : menu[i].kind = "C" /\ Root \in path(i)
                                 /\ path(i) \subseteq mine \cup {Root}} IN
    /\ getUserRoutes(o) = (UNION {path(i) : i \in pages}) \ {Root}
    /\ getUserRoutes(o) \subseteq SuperAdminRoutes
    /\ SuperAdminRoutes \subseteq get_menu_tree_list \cap get_menu_tree

\* A saved edit removes what the form removed and nothing else: no button of
\* the menu keeps a code the form dropped, however many rows concurrent edits
\* gave that code, and no role loses any other grant (update_menu, "avoid
\* breaking role_menus by delete and rebuild").
EditIsExact ==
  \A r \in Request :
     req[r].op = "update" /\ req'[r].op = "saved" =>
       LET q == req'[r] IN
       /\ \A i \in DOMAIN menu' \ {q.id} :
            menu'[i].parent = q.id /\ menu'[i].kind = "F" =>
              menu'[i].code \notin q.removed
       /\ \A o \in Role : \A i \in grant[o] \ grant'[o] :
            menu[i].parent = q.id /\ menu[i].code \in q.removed

\* A role holds a menu that has children but holds none of the children.
Isolated(o, i) == /\ i \in grant[o]
                  /\ ChildrenOf({i}) # {}
                  /\ ChildrenOf({i}) \cap grant[o] = {}

\* An edit never turns a menu a role holds into an isolated parent, which
\* the role editor lists as not held (get_role_menus: "new code no longer
\* produces isolated parents, see menu_service.update_menu").
\* The code does not meet it (README, "Where documents and code part").
EditsIsolateNothing ==
  \A r \in Request :
     req[r].op = "update" /\ req'[r].op = "saved" =>
       \A o \in Role, i \in Live : Isolated(o, i)' => Isolated(o, i)
=============================================================================
