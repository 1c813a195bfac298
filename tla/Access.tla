------------------------------- MODULE Access -------------------------------
(***************************************************************************)
(* One document, or one record, and the people who work on it through the  *)
(* web client: each sees a copy of the document and of the own permissions *)
(* (queryClient.ts keeps both), presses the buttons the page shows for     *)
(* those copies, and the server decides on what is true by then: the roles *)
(* (requireAuth resolves them on every request), the route's permission    *)
(* (requirePermission) and the document's status (the services).           *)
(* Quantities and stock are left out: a posting short of stock is not a    *)
(* refusal here.  Only the buttons call the server.                        *)
(***************************************************************************)
EXTENDS Pages

CONSTANTS Users,       \* people signed in to the web client
          PageKinds,   \* the kinds of document and record looked at
          Team,        \* Team[u]: the system roles user u starts with
          Reassigned   \* Reassigned[u]: the sets of roles u may be given later

ASSUME AccessAssumption ==
    /\ PageKinds \subseteq DOMAIN Services
    /\ Team \in [Users -> SUBSET DOMAIN SystemRolePermissions]
    /\ Reassigned \in [Users -> SUBSET SUBSET DOMAIN SystemRolePermissions]

VARIABLES doc,      \* the document as the server has it
          roles,    \* roles[u]: the roles user u has on the server
          me,       \* me[u]: the permissions the client of u was told
          page      \* page[u]: the copy of the document on u's page

accessVars == <<doc, roles, me, page>>

FirstStatus(kind) ==
    IF kind = "user" THEN "invited" ELSE IF kind \in RecordKinds THEN "active" ELSE "draft"

Statuses(kind) ==
    {FirstStatus(kind)}
        \cup UNION {Services[kind][op].from \cup Services[kind][op].to :
                        op \in DOMAIN Services[kind]}
        \cup IF kind \in DOMAIN Progress THEN {p[2] : p \in Progress[kind]} ELSE {}

Marks == {"reversed", "reversal"}

Closed == [kind |-> "none"]     \* no page is open

(* The permissions of all the user's roles. *)
EffectivePermissions(u) == UNION {SystemRolePermissions[r] : r \in roles[u]}

Documents(kind) ==
    [kind : {kind}, status : Statuses(kind), marks : SUBSET Marks, creator : Users]

AccessTypeOK ==
    /\ \E kind \in PageKinds : /\ doc \in Documents(kind)
                               /\ page \in [Users -> Documents(kind) \cup {Closed}]
    /\ roles \in [Users -> SUBSET DOMAIN SystemRolePermissions]
    /\ me \in [Users -> SUBSET Permission]

AccessInit ==
    /\ \E kind \in PageKinds, u \in Users :
        doc = [kind |-> kind, status |-> FirstStatus(kind), marks |-> {}, creator |-> u]
    /\ roles = Team
    /\ me = [u \in Users |-> {}]
    /\ page = [u \in Users |-> Closed]

-----------------------------------------------------------------------------
(* What a page shows, and what the server says *)

(* An archived record is not in the list the buttons stand in. *)
Offered(view, permissions) ==
    {b \in DetailPages[view.kind] :
        /\ view.status \in b.in
        /\ view.marks \cap b.unless = {}
        /\ b.permission \in permissions}

OwnApproval(u, op) == op = "approve" /\ doc.kind \in PreventSelfApproval /\ doc.creator = u

(* What the approvals page lists for the user. *)
PendingApprovals(u) ==
    {d \in {doc} : /\ d.kind \in PreventSelfApproval /\ d.status = "submitted"
                   /\ Permits(me[u], Routes[d.kind].view)
                   /\ Permits(me[u], Routes[d.kind].approve)}

Admits(u, op) ==
    /\ Permits(EffectivePermissions(u), RouteOf(doc.kind, op))
    /\ RouteOf(doc.kind, op).keyed => SendsKey(op)
    /\ Accepts(doc.kind, op, doc.status)
    /\ ~OwnApproval(u, op)

-----------------------------------------------------------------------------
SignIn(u) ==
    /\ me' = [me EXCEPT ![u] = EffectivePermissions(u)]
    /\ UNCHANGED <<doc, roles, page>>

(* An administrator gives the user other roles; the client is not told. *)
UpdateUserRoles(u) ==
    /\ \E r \in Reassigned[u] : roles' = [roles EXCEPT ![u] = r]
    /\ UNCHANGED <<doc, me, page>>

Open(u) ==
    /\ Permits(EffectivePermissions(u), Routes[doc.kind].view)
    /\ page' = [page EXCEPT ![u] = doc]
    /\ UNCHANGED <<doc, roles, me>>

(* The mutation succeeds and its queries are invalidated: the page shows   *)
(* the new document.  A reversal marks the document it reverses.           *)
Press(u, b) ==
    /\ page[u] # Closed
    /\ b \in Offered(page[u], me[u])
    /\ Admits(u, b.op)
    /\ LET step == Services[doc.kind][b.op]
       IN  \/ \E s \in step.to : doc' = [doc EXCEPT !.status = s]
           \/ step.to = {} /\ doc' = [doc EXCEPT !.marks = IF b.op = "reverse"
                                                          THEN @ \cup {"reversed"} ELSE @]
    /\ page' = [page EXCEPT ![u] = doc']
    /\ UNCHANGED <<roles, me>>

(* A refusal changes nothing: the page stays as it was. *)

(* Another document moves this one on. *)
Advance ==
    /\ doc.kind \in DOMAIN Progress
    /\ \E s \in Statuses(doc.kind) :
        <<doc.status, s>> \in Progress[doc.kind] /\ doc' = [doc EXCEPT !.status = s]
    /\ UNCHANGED <<roles, me, page>>

(* The users look at the reversal of the document instead. *)
LookAtReversal ==
    /\ doc.marks = {"reversed"}
    /\ doc' = [doc EXCEPT !.marks = {"reversal"}]
    /\ page' = [u \in Users |-> Closed]
    /\ UNCHANGED <<roles, me>>

AccessNext ==
    \/ \E u \in Users : SignIn(u) \/ UpdateUserRoles(u) \/ Open(u)
                        \/ \E b \in DetailPages[doc.kind] : Press(u, b)
    \/ Advance \/ LookAtReversal

AccessSpec == AccessInit /\ [][AccessNext]_accessVars

-----------------------------------------------------------------------------
UpToDate(u) == page[u] = doc /\ me[u] = EffectivePermissions(u)

(* Whoever looks at an up-to-date page is shown no button the server then  *)
(* refuses for lack of permission, a missing key or the wrong status: the  *)
(* pages and the services agree in every reachable status of every kind.   *)
(* The approval of one's own document is the exception: a page does not    *)
(* know the policy.  And every tile and New button leads to a list the     *)
(* user may read and a route the user may call.                            *)
OfferedIsAccepted ==
    /\ \A u \in Users : UpToDate(u) =>
        \A b \in Offered(page[u], me[u]) : OwnApproval(u, b.op) \/ Admits(u, b.op)
    /\ \A u \in Users : me[u] = EffectivePermissions(u) =>
        /\ \A kind \in DOMAIN AppModules :
            AppModules[kind] \in me[u] => Permits(me[u], Routes[kind].view)
        /\ \A kind \in DOMAIN NewButtons :
            NewButtons[kind] \in me[u] => Permits(me[u], Routes[kind].create)

(* A document the server would still move on is stuck for nobody's sake:   *)
(* some user of the team is shown, on a fresh page, a button that works.   *)
NothingStuck ==
    LET open == \E op \in DOMAIN Services[doc.kind] \ {"edit", "reverse", "returnStock"} :
                    Accepts(doc.kind, op, doc.status)
    IN  open => \E u \in Users :
                    /\ Permits(EffectivePermissions(u), Routes[doc.kind].view)
                    /\ \E b \in Offered(doc, EffectivePermissions(u)) :
                            b.op # "edit" /\ Admits(u, b.op)

(* A user who is shown a New button may read the lists its form needs: a   *)
(* Requester, who works on stock requests, can fill one in.                *)
FormsCanBeFilled ==
    \A u \in Users, kind \in DOMAIN NewButtons :
        /\ NewButtons[kind] \in me[u] /\ me[u] = EffectivePermissions(u)
        => \A list \in FormLists[kind] : Permits(me[u], Routes[list].view)

(* Every submitted document the approvals page lists for a user is one the *)
(* user can approve.                                                       *)
ApprovalsCanBeGiven ==
    \A u \in Users :
        me[u] = EffectivePermissions(u) /\ doc \in PendingApprovals(u) => Admits(u, "approve")

-----------------------------------------------------------------------------
(* Who does the work, and the inductive invariant *)

Keeps(u, role) == role \in Team[u] /\ \A r \in Reassigned[u] : role \in r

(* Two people can approve, whatever other roles are given or taken: nobody *)
(* approves an own document, and a submitted transfer cannot be rejected.  *)
Staffed ==
    \E u, v \in Users : /\ u # v
                        /\ Keeps(u, "administrator")
                        /\ Keeps(v, "administrator") \/ Keeps(v, "manager")

RolesKept ==
    \A u \in Users, role \in DOMAIN SystemRolePermissions : Keeps(u, role) => role \in roles[u]

AccessInv == AccessTypeOK /\ RolesKept
=============================================================================
