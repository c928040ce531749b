------------------------------ MODULE UsersPage ------------------------------
(***************************************************************************)
(* User management (views/UserManagementView.tsx) and the endpoints behind  *)
(* it (app/controllers/user_controller.py).  The rows that decide which     *)
(* buttons a member of the staff is offered may be old: the server reads    *)
(* the actor and the account again.                                         *)
(* An instance follows one duty: the buttons of the rows, or one dialog.    *)
(* An endpoint reads and checks the account in one step and changes it in    *)
(* another: no row is locked in between.                                     *)
(***************************************************************************)
EXTENDS Naturals, FiniteSets

CONSTANTS
  Me,            \* the account at the page
  Others,        \* the other accounts
  Targets,       \* those that the viewer acts on
  Grants,        \* the roles that the viewer picks
  MaxUserCalls,  \* requests under way, at most
  Nobody_        \* no account, or none that the page knows

Role == {"User", "Moderator", "Admin"}

ASSUME UsersAssumption ==
  /\ IsFiniteSet(Others) /\ Me \notin Others /\ Targets \subseteq Others \cup {Me} /\ Nobody_ \notin Others \cup {Me}
  /\ Nobody_ \notin [role : Role, status : {"Enabled", "Disabled"}]
  /\ Grants \subseteq Role /\ MaxUserCalls \in Nat \ {0}

VARIABLES
  duty,       \* what the instance follows
  accounts,   \* account -> [role, status], or Nobody_ when it is not there
  rowsSeen,   \* the same, as the page last loaded it
  myRole,     \* the role of the viewer as the page knows it
  dialog,     \* [target, value]: the open dialog and its input
  audit,      \* [of, loading, failed]: whose trail is shown, as a set
  userCalls,  \* requests: [id, kind, of, value, auth, stage, found, got, live]
  deeds       \* history: [by, read, was, becomes] of the last change a request made, as a set

usersVars == <<duty, accounts, rowsSeen, myRole, dialog, audit, userCalls, deeds>>

People == Others \cup {Me}

Duty == {"rows", "create", "reset", "username", "role", "audit"}

Staff(role) == role \in {"Moderator", "Admin"}

\* canManageTarget, and can_manage_user on the server.
CanManage(by, role) == by = "Admin" \/ (by = "Moderator" /\ role = "User")

Present(list) == {u \in People : list[u] # Nobody_}

Closed == [target |-> Nobody_, value |-> "none"]

UserCall(calls, kind, of, value) ==
  calls \cup {[kind |-> kind, of |-> of, value |-> value, auth |-> "none", stage |-> "sent", found |-> {}, got |-> {},
               live |-> TRUE, id |-> CHOOSE i \in 1 .. MaxUserCalls : \A c \in calls : c.id # i]}

UserRoom == Cardinality(userCalls) < MaxUserCalls

UsersInit ==
  /\ duty \in Duty
  /\ accounts \in [People -> [role : Role, status : {"Enabled"}] \cup {Nobody_}]
  /\ \A u \in People : accounts[u] = Nobody_ <=> duty = "create" /\ u \in Targets
  /\ myRole = accounts[Me].role /\ Staff(myRole)
  /\ rowsSeen = accounts
  /\ dialog = Closed
  /\ audit = [of |-> {}, loading |-> FALSE, failed |-> FALSE]
  /\ userCalls = {}
  /\ deeds = {}
-----------------------------------------------------------------------------
(* The viewer. *)

AskUsers(kind, of, value) ==
  /\ UserRoom
  /\ userCalls' = UserCall(userCalls, kind, of, value)
  /\ UNCHANGED <<duty, accounts, rowsSeen, myRole, dialog, audit, deeds>>

\* reload.
ReloadUsers == duty = "rows" /\ AskUsers("list", Me, "none")

\* Disable or Enable, whichever the row says.
ToggleStatus ==
  /\ duty = "rows"
  /\ \E u \in Present(rowsSeen) \cap Targets :
       /\ CanManage(myRole, rowsSeen[u].role)
       /\ AskUsers("status", u, IF rowsSeen[u].status = "Enabled" THEN "Disabled" ELSE "Enabled")

DeleteUser ==
  /\ duty = "rows" /\ myRole = "Admin"
  /\ \E u \in Present(rowsSeen) \cap Targets : AskUsers("delete", u, "none")

\* The role of a new account is offered to administrators only.
CreateUser ==
  /\ duty = "create"
  /\ \E u \in Targets \ Present(accounts), role \in IF myRole = "Admin" THEN Grants ELSE {"User"} :
       AskUsers("create", u, role)

\* Opening a dialog: the inputs for a username and a role start with those of
\* the row, the one for a password with what was typed in it last.
OpenDialog ==
  /\ dialog.target = Nobody_
  /\ \E u \in Present(rowsSeen) \cap Targets :
       /\ \/ duty = "reset" /\ CanManage(myRole, rowsSeen[u].role) /\ dialog' = [dialog EXCEPT !.target = u]
          \/ duty = "username" /\ myRole = "Admin" /\ dialog' = [target |-> u, value |-> "old"]
          \/ duty = "role" /\ myRole = "Admin" /\ dialog' = [target |-> u, value |-> rowsSeen[u].role]
  /\ UNCHANGED <<duty, accounts, rowsSeen, myRole, audit, userCalls, deeds>>

EditDialog ==
  /\ dialog.target # Nobody_ /\ duty # "audit"
  /\ \E value \in IF duty = "role" THEN Grants ELSE {"new", "short"} : dialog' = [dialog EXCEPT !.value = value]
  /\ UNCHANGED <<duty, accounts, rowsSeen, myRole, audit, userCalls, deeds>>

CancelDialog ==
  /\ dialog.target # Nobody_ /\ duty # "audit"
  /\ dialog' = [dialog EXCEPT !.target = Nobody_]
  /\ UNCHANGED <<duty, accounts, rowsSeen, myRole, audit, userCalls, deeds>>

ConfirmDialog == dialog.target # Nobody_ /\ duty # "audit" /\ AskUsers(duty, dialog.target, dialog.value)

\* As a bug would have it: the trail asked for before is not disowned.
KeptLive(calls) == calls

\* The clean-up of the audit effect.
DisownAudit(calls) == {IF c.kind = "audit" THEN [c EXCEPT !.live = FALSE] ELSE c : c \in calls}

OpenAudit ==
  /\ duty = "audit" /\ dialog.target = Nobody_ /\ UserRoom
  /\ \E u \in Present(rowsSeen) :
       /\ dialog' = [target |-> u, value |-> "none"]
       /\ userCalls' = UserCall(DisownAudit(userCalls), "audit", u, "none")
  /\ audit' = [audit EXCEPT !.loading = TRUE, !.failed = FALSE]
  /\ UNCHANGED <<duty, accounts, rowsSeen, myRole, deeds>>

CloseAudit ==
  /\ duty = "audit" /\ dialog.target # Nobody_
  /\ dialog' = Closed
  /\ userCalls' = DisownAudit(userCalls)
  /\ audit' = [audit EXCEPT !.of = {}]
  /\ UNCHANGED <<duty, accounts, rowsSeen, myRole, deeds>>
-----------------------------------------------------------------------------
(* The server: the actor is read and checked first, then the account. *)

\* get_authenticated_context and the role that the endpoint requires.
Authenticate ==
  /\ \E c \in userCalls :
       /\ c.stage = "sent"
       /\ LET me  == accounts[Me]
              may == /\ me # Nobody_
                     /\ me.status = "Enabled"
                     /\ IF c.kind \in {"delete", "role", "username"} THEN me.role = "Admin" ELSE Staff(me.role)
          IN userCalls' = (userCalls \ {c}) \cup
                {[c EXCEPT !.stage = IF may THEN "known" ELSE "refused", !.auth = IF may THEN me.role ELSE "none"]}
  /\ UNCHANGED <<duty, accounts, rowsSeen, myRole, dialog, audit, deeds>>

\* As a bug would have it: the page's own test of the row is relied upon.
AllowedByPage(c, u) == c.value # "short" /\ (u = Nobody_) = (c.kind = "create")

\* What the endpoint checks of the account and of the value.
Allowed(c, u) ==
  /\ c.value # "short"
  /\ c.kind \in {"status", "reset"} => u # Nobody_ /\ CanManage(c.auth, u.role)
  /\ c.kind \in {"role", "username", "delete"} => u # Nobody_
  /\ c.kind = "create" => u = Nobody_ /\ CanManage(c.auth, c.value)

\* An endpoint answers a question, or reads the account and checks the request.
ServeUserCall ==
  /\ \E c \in userCalls :
       /\ c.stage = "known"
       /\ userCalls' = (userCalls \ {c}) \cup
            {IF c.kind = "list" THEN [c EXCEPT !.stage = "served", !.got = {accounts}]
             ELSE IF c.kind = "audit" THEN [c EXCEPT !.stage = "served"]
             ELSE IF Allowed(c, accounts[c.of]) THEN [c EXCEPT !.stage = "checked", !.found = {accounts[c.of]}]
             ELSE [c EXCEPT !.stage = "refused"]}
  /\ UNCHANGED <<duty, accounts, rowsSeen, myRole, dialog, audit, deeds>>

\* The session writes nothing when what it is told is what it read.
Unwritten(c, read) ==
  \/ c.kind = "status" /\ c.value = read.status
  \/ c.kind = "role" /\ c.value = read.role
  \/ c.kind = "username" /\ c.value = "old"

\* An UPDATE that finds no row fails, and so does an INSERT of a name taken by now.
Collides(c, u) == IF c.kind = "create" THEN u # Nobody_ ELSE c.kind # "delete" /\ u = Nobody_

\* Only the column that is set is written.
After(c, u) ==
  CASE c.kind = "status" -> [u EXCEPT !.status = c.value]
    [] c.kind = "role"   -> [u EXCEPT !.role = c.value]
    [] c.kind = "delete" -> Nobody_
    [] c.kind = "create" -> [role |-> c.value, status |-> "Enabled"]
    [] c.kind \in {"reset", "username"} -> u

RoleHeld(u) == IF u = Nobody_ THEN "User" ELSE u.role

\* The change is written to the account as it is by now, and committed.
CommitUserCall ==
  /\ \E c \in userCalls : \E read \in c.found :
       /\ c.stage = "checked"
       /\ \/ /\ Unwritten(c, read)
             /\ userCalls' = (userCalls \ {c}) \cup {[c EXCEPT !.stage = "served", !.found = {}]}
             /\ UNCHANGED <<accounts, deeds>>
          \/ /\ ~Unwritten(c, read) /\ Collides(c, accounts[c.of])
             /\ userCalls' = (userCalls \ {c}) \cup {[c EXCEPT !.stage = "refused", !.found = {}]}
             /\ UNCHANGED <<accounts, deeds>>
          \/ /\ ~Unwritten(c, read) /\ ~Collides(c, accounts[c.of])
             /\ userCalls' = (userCalls \ {c}) \cup {[c EXCEPT !.stage = "served", !.found = {}]}
             /\ accounts' = [accounts EXCEPT ![c.of] = After(c, @)]
             /\ deeds' = {[by |-> c.auth, read |-> RoleHeld(read), was |-> RoleHeld(accounts[c.of]),
                           becomes |-> RoleHeld(After(c, accounts[c.of]))]}
  /\ UNCHANGED <<duty, rowsSeen, myRole, dialog, audit>>

\* Another administrator demotes, disables or promotes.
ElsewhereAdministered ==
  /\ duty # "audit"
  /\ accounts[Me] # Nobody_
  /\ \/ accounts' = [accounts EXCEPT ![Me].role = "User"]
     \/ /\ duty = "create"
        /\ accounts' = [accounts EXCEPT ![Me].status = "Disabled"]
     \/ /\ duty \in {"rows", "reset"}
        /\ \E u \in Others \cap Present(accounts) : accounts' = [accounts EXCEPT ![u].role = "Moderator"]
  /\ accounts' # accounts
  /\ UNCHANGED <<duty, rowsSeen, myRole, dialog, audit, userCalls, deeds>>
-----------------------------------------------------------------------------
(* Answers, in any order. *)

ListServed ==
  /\ \E c \in userCalls : \E list \in c.got :
       /\ c.kind = "list"
       /\ userCalls' = userCalls \ {c}
       /\ rowsSeen' = list
  /\ UNCHANGED <<duty, accounts, myRole, dialog, audit, deeds>>

\* The dialog of whomever is open by now is closed; a password's reload is the
\* one that is not asked for.
ChangeAnswered ==
  /\ \E c \in userCalls :
       /\ c.kind \notin {"list", "audit"} /\ c.stage = "served"
       /\ userCalls' = IF c.kind = "reset" THEN userCalls \ {c} ELSE UserCall(userCalls \ {c}, "list", Me, "none")
       /\ dialog' = CASE c.kind \in {"reset", "username"} -> Closed
                      [] c.kind = "role"                  -> [dialog EXCEPT !.target = Nobody_]
                      [] OTHER                            -> dialog
  /\ UNCHANGED <<duty, accounts, rowsSeen, myRole, audit, deeds>>

AuditServed ==
  /\ \E c \in userCalls :
       /\ c.kind = "audit" /\ c.stage = "served"
       /\ userCalls' = userCalls \ {c}
       /\ audit' = IF c.live THEN [audit EXCEPT !.of = {c.of}, !.loading = FALSE] ELSE audit
  /\ UNCHANGED <<duty, accounts, rowsSeen, myRole, dialog, deeds>>

\* Refused or lost.
UserCallFails ==
  /\ \E c \in userCalls :
       /\ userCalls' = userCalls \ {c}
       /\ audit' = IF c.kind = "audit" /\ c.live THEN [audit EXCEPT !.loading = FALSE, !.failed = TRUE] ELSE audit
  /\ UNCHANGED <<duty, accounts, rowsSeen, myRole, dialog, deeds>>

UsersNext ==
  \/ ReloadUsers \/ ToggleStatus \/ DeleteUser \/ CreateUser
  \/ OpenDialog \/ EditDialog \/ CancelDialog \/ ConfirmDialog \/ OpenAudit \/ CloseAudit
  \/ Authenticate \/ ServeUserCall \/ CommitUserCall \/ ElsewhereAdministered
  \/ ListServed \/ ChangeAnswered \/ AuditServed \/ UserCallFails
-----------------------------------------------------------------------------
\* The figures above the table.
UserCounts ==
  LET shown == Present(rowsSeen)
  IN [total  |-> Cardinality(shown),
      active |-> Cardinality({u \in shown : rowsSeen[u].status = "Enabled"}),
      staff  |-> Cardinality({u \in shown : Staff(rowsSeen[u].role)})]

UsersTypeOK ==
  /\ \A u \in Present(accounts) : accounts[u] \in [role : Role, status : {"Enabled", "Disabled"}]
  /\ myRole \in {"Moderator", "Admin"}
  /\ dialog.target \in People \cup {Nobody_}
  /\ audit.of \subseteq People
  /\ Cardinality(userCalls) <= MaxUserCalls
  /\ UserCounts.active <= UserCounts.total /\ UserCounts.staff <= UserCounts.total

\* Rows may be old, the viewer may have been demoted and the account promoted
\* since: what a moderator's request changes was an account of a user when the
\* endpoint read it, and the request neither makes nor unmakes one of the staff;
\* a user's request changes nothing.  That the account still is a user's when it is
\* written does not hold: nothing keeps an administrator from promoting it after
\* the check, and a moderator's request then disables one of the staff, or sets
\* their password.
DeedsWereAllowed ==
  \A d \in deeds :
    d.by = "Admin" \/ (d.by = "Moderator" /\ d.read = "User" /\ d.becomes = d.was)

\* A trail is never shown under the name of another account, however the
\* dialog was closed and opened while it was on its way.
AuditIsOfTarget == audit.of \subseteq {dialog.target}
=============================================================================
