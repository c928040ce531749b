---------------------------- MODULE UsersProofs -----------------------------
(*****************************************************************************)
(* What user management does for any accounts, roles and number of requests  *)
(* under way, and what the provider of the session tells the pages.  An      *)
(* endpoint acts on the role that it read of the actor, so the first         *)
(* invariant ties the rights of a request to what has been read, and the     *)
(* trail that is on its way to the dialog that asked for it.  The second one *)
(* ties what a question about the session was answered to the session.       *)
(*****************************************************************************)
EXTENDS UsersPage, Session, FunctionTheorems, FiniteSetTheorems, TLAPS

(* How many requests are under way. *)

\* No more requests than there may be.
Few(calls, n) == IsFiniteSet(calls) /\ Cardinality(calls) \in 0 .. n

LEMMA FewOK ==
  ASSUME NEW n \in Nat, NEW calls, Few(calls, n)
  PROVE  /\ \A some \in SUBSET calls : Few(some, n)
         /\ \A c \in calls : \A d : Few((calls \ {c}) \cup {d}, n)
         /\ Cardinality(calls) < n => \A d : Few(calls \cup {d}, n)
<1>1. IsFiniteSet(calls) /\ Cardinality(calls) \in Nat /\ Cardinality(calls) <= n
  BY DEF Few
<1>2. ASSUME NEW some \in SUBSET calls PROVE Few(some, n)
  BY <1>1, FS_Subset, FS_CardinalityType DEF Few
<1>3. ASSUME NEW c \in calls, NEW d PROVE Few((calls \ {c}) \cup {d}, n)
  <2>1. IsFiniteSet(calls \ {c}) /\ Cardinality(calls \ {c}) = Cardinality(calls) - 1
    BY <1>1, FS_RemoveElement
  <2>2. Cardinality(calls \ {c}) \in Nat
    BY <2>1, FS_CardinalityType
  <2>3. /\ IsFiniteSet((calls \ {c}) \cup {d})
        /\ Cardinality((calls \ {c}) \cup {d}) \in {Cardinality(calls \ {c}), Cardinality(calls \ {c}) + 1}
    BY <2>1, FS_AddElement
  <2> QED BY <1>1, <2>1, <2>2, <2>3 DEF Few
<1>4. ASSUME Cardinality(calls) < n, NEW d PROVE Few(calls \cup {d}, n)
  <2>1. /\ IsFiniteSet(calls \cup {d})
        /\ Cardinality(calls \cup {d}) \in {Cardinality(calls), Cardinality(calls) + 1}
    BY <1>1, FS_AddElement
  <2> QED BY <1>1, <1>4, <2>1 DEF Few
<1> QED BY <1>2, <1>3, <1>4

\* Requests that are changed one by one are no more than they were.
LEMMA FewChanged ==
  ASSUME NEW n \in Nat, NEW calls, Few(calls, n), NEW f, DOMAIN f = calls
  PROVE  Few({f[c] : c \in calls}, n) /\ Cardinality({f[c] : c \in calls}) <= Cardinality(calls)
<1> DEFINE image == {f[c] : c \in calls}
           onto == [c \in calls |-> f[c]]
<1>1. onto \in Surjection(calls, image)
  BY DEF Surjection
<1>2. IsFiniteSet(calls) /\ Cardinality(calls) \in 0 .. n
  BY DEF Few
<1> HIDE DEF onto, image
<1>3. IsFiniteSet(image) /\ Cardinality(image) <= Cardinality(calls)
  BY <1>1, <1>2, FS_Surjection
<1>4. Cardinality(image) \in Nat
  BY <1>3, FS_CardinalityType
<1> QED BY <1>2, <1>3, <1>4 DEF Few, image

-----------------------------------------------------------------------------
(* User management. *)

UsersSpec == UsersInit /\ [][UsersNext]_usersVars

AnAccount == [role : Role, status : {"Enabled", "Disabled"}]

Roll == [People -> AnAccount \cup {Nobody_}]

\* A request has these fields and no others.
Fields == {"kind", "of", "value", "auth", "stage", "found", "got", "live", "id"}

IsCall(c) == c = [x \in Fields |-> c[x]]

CallOK(c) ==
  /\ IsCall(c)
  /\ c.kind \in {"list", "status", "delete", "create", "reset", "username", "role", "audit"}
  /\ c.of \in People
  /\ c.kind = "status" => c.value \in {"Enabled", "Disabled"}
  /\ c.kind \in {"role", "create"} => c.value \in Role
  /\ c.got \subseteq Roll
  /\ c.found \subseteq AnAccount \cup {Nobody_}

\* What a request that is known may do was read from the account of its actor, and
\* one that was checked may be made of the account as it was read.
RightsOK(c) ==
  /\ c.stage \in {"known", "checked"} =>
       /\ c.auth \in {"Moderator", "Admin"}
       /\ c.kind \in {"delete", "role", "username"} => c.auth = "Admin"
  /\ c.stage = "checked" => c.kind \notin {"list", "audit"} /\ \A read \in c.found : Allowed(c, read)

\* A trail that is still to be shown is of the account whose dialog is open.
TrailOK(c) == /\ (c.kind = "audit") = (duty = "audit")
              /\ c.kind = "audit" /\ c.live => c.of = dialog.target

DialogOK ==
  /\ dialog = [target |-> dialog.target, value |-> dialog.value]
  /\ dialog.target \in People \cup {Nobody_}
  /\ dialog.target # Nobody_ => duty \in {"reset", "username", "role", "audit"}
  /\ dialog.target # Nobody_ /\ duty = "role" => dialog.value \in Role

UsersInv ==
  /\ duty \in Duty
  /\ accounts \in Roll /\ rowsSeen \in Roll
  /\ DialogOK
  /\ \A c \in userCalls : CallOK(c) /\ RightsOK(c) /\ TrailOK(c)
  /\ audit = [x \in {"of", "loading", "failed"} |-> audit[x]]
  /\ audit.of \subseteq People
  /\ duty # "audit" => audit.of = {}
  /\ AuditIsOfTarget
  /\ DeedsWereAllowed
-----------------------------------------------------------------------------
LEMMA NobodyIsNoOne == Nobody_ \notin People
BY UsersAssumption DEF People

\* A request that is asked for keeps the invariant of requests.
LEMMA UserCallOK ==
  ASSUME NEW calls, NEW kind, NEW of \in People, NEW value,
         \A c \in calls : CallOK(c) /\ RightsOK(c) /\ TrailOK(c),
         kind = "status" => value \in {"Enabled", "Disabled"},
         kind \in {"role", "create"} => value \in Role,
         kind \in {"list", "status", "delete", "create", "reset", "username", "role", "audit"},
         (kind = "audit") = (duty = "audit"), kind = "audit" => of = dialog.target
  PROVE  \A c \in UserCall(calls, kind, of, value) : CallOK(c) /\ RightsOK(c) /\ TrailOK(c)
BY DEF UserCall, CallOK, IsCall, Fields, RightsOK, TrailOK

LEMMA UsersInitOK == UsersInit => UsersInv
<1> SUFFICES ASSUME UsersInit PROVE UsersInv
  OBVIOUS
<1> USE DEF UsersInit
<1>1. accounts \in Roll /\ rowsSeen \in Roll
  BY DEF Roll, AnAccount
<1>2. DialogOK
  BY DEF DialogOK, Closed
<1>3. AuditIsOfTarget /\ DeedsWereAllowed
  BY DEF AuditIsOfTarget, DeedsWereAllowed
<1> QED BY <1>1, <1>2, <1>3 DEF UsersInv

\* The steps that only ask the server.
LEMMA AskOK ==
  ASSUME UsersInv, NEW kind, NEW of \in People, NEW value,
         AskUsers(kind, of, value),
         kind = "status" => value \in {"Enabled", "Disabled"},
         kind \in {"role", "create"} => value \in Role,
         kind \in {"list", "status", "delete", "create", "reset", "username", "role"}, duty # "audit"
  PROVE  UsersInv'
<1>1. \A c \in userCalls' : CallOK(c) /\ RightsOK(c) /\ TrailOK(c)
  BY UserCallOK DEF AskUsers, UsersInv
<1>2. (\A c \in userCalls : CallOK(c) /\ RightsOK(c) /\ TrailOK(c))'
  BY <1>1 DEF AskUsers, CallOK, IsCall, Fields, RightsOK, TrailOK, Roll, AnAccount, People
<1> QED BY <1>2 DEF AskUsers, UsersInv, DialogOK, AuditIsOfTarget, DeedsWereAllowed, Roll

LEMMA AsksOK ==
  ASSUME UsersInv, ReloadUsers \/ ToggleStatus \/ DeleteUser \/ CreateUser \/ ConfirmDialog
  PROVE  UsersInv'
<1> USE DEF UsersInv
<1>1. CASE ReloadUsers
  BY <1>1, AskOK, Me \in People DEF ReloadUsers, People
<1>2. CASE ToggleStatus
  BY <1>2, AskOK DEF ToggleStatus, Present
<1>3. CASE DeleteUser
  BY <1>3, AskOK DEF DeleteUser, Present
<1>4. CASE CreateUser
  BY <1>4, AskOK, UsersAssumption DEF CreateUser, People, Role
<1>5. CASE ConfirmDialog
  BY <1>5, AskOK DEF ConfirmDialog, DialogOK
<1> QED BY <1>1, <1>2, <1>3, <1>4, <1>5

\* The dialogs that change an account.
LEMMA DialogsOK ==
  ASSUME UsersInv, OpenDialog \/ EditDialog \/ CancelDialog
  PROVE  UsersInv'
<1> USE DEF UsersInv
<1>1. DialogOK' /\ duty # "audit"
  <2>1. CASE OpenDialog
    <3> PICK u \in Present(rowsSeen) \cap Targets :
          \/ duty = "reset" /\ dialog' = [dialog EXCEPT !.target = u]
          \/ duty = "username" /\ dialog' = [target |-> u, value |-> "old"]
          \/ duty = "role" /\ dialog' = [target |-> u, value |-> rowsSeen[u].role]
      BY <2>1 DEF OpenDialog
    <3>1. u \in People /\ rowsSeen[u] \in AnAccount /\ duty' = duty
      BY <2>1 DEF OpenDialog, Present, Roll
    <3> QED BY <3>1 DEF DialogOK, AnAccount
  <2>2. CASE EditDialog
    BY <2>2, UsersAssumption DEF EditDialog, DialogOK
  <2>3. CASE CancelDialog
    BY <2>3 DEF CancelDialog, DialogOK
  <2> QED BY <2>1, <2>2, <2>3
<1>2. UNCHANGED <<duty, accounts, rowsSeen, audit, userCalls, deeds>>
  BY DEF OpenDialog, EditDialog, CancelDialog
<1>3. (\A c \in userCalls : CallOK(c) /\ RightsOK(c) /\ TrailOK(c))'
  BY <1>1, <1>2 DEF CallOK, IsCall, Fields, RightsOK, TrailOK, Roll
<1>4. audit.of = {}
  BY <1>1
<1> QED BY <1>1, <1>2, <1>3, <1>4 DEF AuditIsOfTarget, DeedsWereAllowed, Roll

\* Disowning the trail leaves no live one, and every request as it was.
LEMMA DisownOK ==
  ASSUME UsersInv
  PROVE  \A c \in DisownAudit(userCalls) : CallOK(c) /\ RightsOK(c)
            /\ ((c.kind = "audit") = (duty = "audit")) /\ (c.kind = "audit" => ~c.live)
BY DEF UsersInv, DisownAudit, CallOK, IsCall, Fields, RightsOK, TrailOK

LEMMA AuditDialogOK ==
  ASSUME UsersInv, OpenAudit \/ CloseAudit
  PROVE  UsersInv'
<1> USE DEF UsersInv
<1>1. CASE OpenAudit
  <2> PICK u \in Present(rowsSeen) :
        /\ dialog' = [target |-> u, value |-> "none"]
        /\ userCalls' = UserCall(DisownAudit(userCalls), "audit", u, "none")
    BY <1>1 DEF OpenAudit
  <2>1. u \in People /\ duty = "audit" /\ audit.of = {}
    BY <1>1, NobodyIsNoOne DEF OpenAudit, Present, AuditIsOfTarget
  <2>2. (\A c \in userCalls : CallOK(c) /\ RightsOK(c) /\ TrailOK(c))'
    BY <1>1, <2>1, DisownOK DEF OpenAudit, UserCall, CallOK, IsCall, Fields, RightsOK, TrailOK, Roll
  <2>3. DialogOK'
    BY <1>1, <2>1 DEF OpenAudit, DialogOK
  <2> QED BY <1>1, <2>1, <2>2, <2>3 DEF OpenAudit, AuditIsOfTarget, DeedsWereAllowed, Roll
<1>2. CASE CloseAudit
  <2>1. (\A c \in userCalls : CallOK(c) /\ RightsOK(c) /\ TrailOK(c))'
    BY <1>2, DisownOK DEF CloseAudit, CallOK, IsCall, Fields, RightsOK, TrailOK, Roll
  <2>2. DialogOK'
    BY <1>2 DEF CloseAudit, DialogOK, Closed
  <2> QED BY <1>2, <2>1, <2>2 DEF CloseAudit, AuditIsOfTarget, DeedsWereAllowed, Roll
<1> QED BY <1>1, <1>2

\* The server reads the actor.
LEMMA AuthenticateOK ==
  ASSUME UsersInv, Authenticate
  PROVE  UsersInv'
<1> USE DEF UsersInv
<1> DEFINE me == accounts[Me]
           may(c) == /\ me # Nobody_
                     /\ me.status = "Enabled"
                     /\ IF c.kind \in {"delete", "role", "username"} THEN me.role = "Admin" ELSE Staff(me.role)
           read(c) == [c EXCEPT !.stage = IF may(c) THEN "known" ELSE "refused",
                                !.auth = IF may(c) THEN me.role ELSE "none"]
<1> PICK c \in userCalls : c.stage = "sent" /\ userCalls' = (userCalls \ {c}) \cup {read(c)}
  BY DEF Authenticate
<1>1. UNCHANGED <<duty, accounts, rowsSeen, myRole, dialog, audit, deeds>>
  BY DEF Authenticate
<1>2. CallOK(read(c)) /\ TrailOK(read(c)) /\ RightsOK(read(c))
  <2>1. CallOK(c) /\ TrailOK(c) /\ (may(c) => me.role \in {"Moderator", "Admin"})
    BY DEF Staff
  <2>2. IsCall(read(c)) /\ read(c).stage = (IF may(c) THEN "known" ELSE "refused")
        /\ read(c).auth = (IF may(c) THEN me.role ELSE "none")
        /\ \A x \in Fields \ {"stage", "auth"} : read(c)[x] = c[x]
    BY <2>1 DEF CallOK, IsCall, Fields
  <2>3. may(c) /\ c.kind \in {"delete", "role", "username"} => me.role = "Admin"
    OBVIOUS
  <2> HIDE DEF may, me, read
  <2> QED BY <2>1, <2>2, <2>3 DEF CallOK, Fields, TrailOK, RightsOK
<1> HIDE DEF me, may, read
<1>3. \A x \in userCalls' : CallOK(x) /\ RightsOK(x) /\ TrailOK(x)
  BY <1>2
<1>4. (\A x \in userCalls : CallOK(x) /\ RightsOK(x) /\ TrailOK(x))'
  BY <1>1, <1>3 DEF CallOK, IsCall, RightsOK, TrailOK
<1> QED BY <1>1, <1>4 DEF CallOK, DialogOK, AuditIsOfTarget, DeedsWereAllowed, Roll

\* The account after a change is an account, or none; a moderator's change is
\* allowed of a user's account only, and leaves the role that it finds.
LEMMA AfterOK ==
  ASSUME NEW c, CallOK(c), c.kind \notin {"list", "audit"}, NEW read \in AnAccount \cup {Nobody_}, Allowed(c, read),
         NEW u \in AnAccount \cup {Nobody_}, ~Collides(c, u)
  PROVE  /\ After(c, u) \in AnAccount \cup {Nobody_}
         /\ c.auth = "Moderator" /\ c.kind \in {"status", "reset", "create"} =>
              RoleHeld(read) = "User" /\ RoleHeld(After(c, u)) = RoleHeld(u)
<1>0. Nobody_ \notin AnAccount
  BY UsersAssumption DEF AnAccount
<1>1. CASE c.kind = "status"
  <2>1. u \in AnAccount /\ After(c, u) = [u EXCEPT !.status = c.value]
    BY <1>1 DEF Collides, After
  <2>2. After(c, u) \in AnAccount /\ After(c, u).role = u.role
    BY <1>1, <2>1 DEF CallOK, AnAccount
  <2>3. c.auth = "Moderator" => RoleHeld(read) = "User"
    BY <1>1 DEF Allowed, CanManage, RoleHeld
  <2> QED BY <1>0, <2>1, <2>2, <2>3 DEF RoleHeld
<1>2. CASE c.kind = "create"
  BY <1>2 DEF CallOK, After, Collides, Allowed, AnAccount, RoleHeld, CanManage
<1>3. CASE c.kind \in {"reset", "username"}
  BY <1>3 DEF CallOK, After, Collides, Allowed, AnAccount, RoleHeld, CanManage
<1>4. CASE c.kind = "role"
  BY <1>4 DEF CallOK, After, Collides, AnAccount
<1>5. CASE c.kind = "delete"
  BY <1>5 DEF CallOK, After
<1> QED BY <1>1, <1>2, <1>3, <1>4, <1>5 DEF CallOK

\* One request goes on, and nothing else changes.
LEMMA RequestGoesOnOK ==
  ASSUME UsersInv, NEW d, userCalls' \subseteq userCalls \cup {d}, CallOK(d), RightsOK(d), TrailOK(d),
         UNCHANGED <<duty, dialog>>
  PROVE  (\A x \in userCalls : CallOK(x) /\ RightsOK(x) /\ TrailOK(x))'
<1>1. \A x \in userCalls' : CallOK(x) /\ RightsOK(x) /\ TrailOK(x)
  BY DEF UsersInv
<1> QED BY <1>1 DEF CallOK, IsCall, Fields, RightsOK, TrailOK, Roll

\* The server reads the account, and checks.
LEMMA ServeOK ==
  ASSUME UsersInv, ServeUserCall
  PROVE  UsersInv'
<1> USE DEF UsersInv
<1> PICK c \in userCalls :
      /\ c.stage = "known"
      /\ userCalls' = (userCalls \ {c}) \cup
           {IF c.kind = "list" THEN [c EXCEPT !.stage = "served", !.got = {accounts}]
            ELSE IF c.kind = "audit" THEN [c EXCEPT !.stage = "served"]
            ELSE IF Allowed(c, accounts[c.of]) THEN [c EXCEPT !.stage = "checked", !.found = {accounts[c.of]}]
            ELSE [c EXCEPT !.stage = "refused"]}
  BY DEF ServeUserCall
<1>1. UNCHANGED <<duty, accounts, rowsSeen, dialog, audit, deeds>>
  BY DEF ServeUserCall
<1>2. CallOK(c) /\ RightsOK(c) /\ TrailOK(c)
  OBVIOUS
<1>3. accounts[c.of] \in AnAccount \cup {Nobody_}
  BY <1>2 DEF CallOK, Roll
<1>4. ASSUME NEW d, d \in {[c EXCEPT !.stage = "served", !.got = {accounts}], [c EXCEPT !.stage = "served"],
                          [c EXCEPT !.stage = "refused"]}
      PROVE  CallOK(d) /\ RightsOK(d) /\ TrailOK(d)
  <2>1. /\ IsCall(d) /\ d.stage \in {"served", "refused"} /\ (d.got = c.got \/ d.got = {accounts})
        /\ \A x \in Fields \ {"stage", "got"} : d[x] = c[x]
    BY <1>2, <1>4 DEF CallOK, IsCall, Fields
  <2>2. accounts \in Roll
    OBVIOUS
  <2> QED BY <1>2, <2>1, <2>2 DEF CallOK, Fields, RightsOK, TrailOK
<1>5. ASSUME NEW d, d = [c EXCEPT !.stage = "checked", !.found = {accounts[c.of]}],
             c.kind \notin {"list", "audit"}, Allowed(c, accounts[c.of])
      PROVE  CallOK(d) /\ RightsOK(d) /\ TrailOK(d)
  <2>1. /\ IsCall(d) /\ d.stage = "checked" /\ d.found = {accounts[c.of]}
        /\ \A x \in Fields \ {"stage", "found"} : d[x] = c[x]
    BY <1>2, <1>5 DEF CallOK, IsCall, Fields
  <2>2. CallOK(d) /\ TrailOK(d)
    BY <1>2, <1>3, <2>1 DEF CallOK, Fields, TrailOK
  <2>3. Allowed(d, accounts[c.of])
    BY <1>5, <2>1 DEF Allowed, Fields
  <2>4. RightsOK(d)
    BY <1>2, <1>5, <2>1, <2>3 DEF RightsOK, Fields
  <2> QED BY <2>2, <2>4
<1>6. \E d : userCalls' \subseteq userCalls \cup {d} /\ CallOK(d) /\ RightsOK(d) /\ TrailOK(d)
  <2>1. CASE c.kind = "list"
    BY <1>4, <2>1
  <2>2. CASE c.kind = "audit"
    BY <1>4, <2>2
  <2>3. CASE c.kind \notin {"list", "audit"} /\ Allowed(c, accounts[c.of])
    BY <1>5, <2>3
  <2>4. CASE c.kind \notin {"list", "audit"} /\ ~Allowed(c, accounts[c.of])
    BY <1>4, <2>4
  <2> QED BY <2>1, <2>2, <2>3, <2>4
<1>7. (\A x \in userCalls : CallOK(x) /\ RightsOK(x) /\ TrailOK(x))'
  BY <1>1, <1>6, RequestGoesOnOK
<1> QED BY <1>1, <1>7 DEF DialogOK, AuditIsOfTarget, DeedsWereAllowed, Roll

\* The server writes what was allowed of the account that was read, to the account
\* as it is.
LEMMA CommitOK ==
  ASSUME UsersInv, CommitUserCall
  PROVE  UsersInv'
<1> USE DEF UsersInv
<1> PICK c \in userCalls, read \in UNION {x.found : x \in userCalls} :
      /\ c.stage = "checked" /\ read \in c.found
      /\ \/ /\ userCalls' = (userCalls \ {c}) \cup {[c EXCEPT !.stage = "served", !.found = {}]}
            /\ UNCHANGED <<accounts, deeds>>
         \/ /\ userCalls' = (userCalls \ {c}) \cup {[c EXCEPT !.stage = "refused", !.found = {}]}
            /\ UNCHANGED <<accounts, deeds>>
         \/ /\ ~Collides(c, accounts[c.of])
            /\ userCalls' = (userCalls \ {c}) \cup {[c EXCEPT !.stage = "served", !.found = {}]}
            /\ accounts' = [accounts EXCEPT ![c.of] = After(c, @)]
            /\ deeds' = {[by |-> c.auth, read |-> RoleHeld(read), was |-> RoleHeld(accounts[c.of]),
                          becomes |-> RoleHeld(After(c, accounts[c.of]))]}
  BY DEF CommitUserCall
<1>1. UNCHANGED <<duty, rowsSeen, dialog, audit>>
  BY DEF CommitUserCall
<1>2. CallOK(c) /\ RightsOK(c) /\ TrailOK(c)
  OBVIOUS
<1>3. (\A x \in userCalls : CallOK(x) /\ RightsOK(x) /\ TrailOK(x))'
  <2>1. ASSUME NEW d, d \in {[c EXCEPT !.stage = "served", !.found = {}], [c EXCEPT !.stage = "refused", !.found = {}]}
        PROVE  CallOK(d) /\ RightsOK(d) /\ TrailOK(d)
    BY <1>2, <2>1 DEF CallOK, IsCall, Fields, RightsOK, TrailOK
  <2>2. \E d : userCalls' \subseteq userCalls \cup {d} /\ CallOK(d) /\ RightsOK(d) /\ TrailOK(d)
    BY <2>1
  <2> QED BY <1>1, <2>2, RequestGoesOnOK
<1>4. accounts' \in Roll /\ DeedsWereAllowed'
  <2>1. CASE UNCHANGED <<accounts, deeds>>
    BY <2>1 DEF Roll, DeedsWereAllowed
  <2>2. CASE /\ ~Collides(c, accounts[c.of])
             /\ accounts' = [accounts EXCEPT ![c.of] = After(c, @)]
             /\ deeds' = {[by |-> c.auth, read |-> RoleHeld(read), was |-> RoleHeld(accounts[c.of]),
                           becomes |-> RoleHeld(After(c, accounts[c.of]))]}
    <3>1. /\ c.of \in People /\ accounts[c.of] \in AnAccount \cup {Nobody_}
          /\ read \in AnAccount \cup {Nobody_} /\ Allowed(c, read) /\ c.kind \notin {"list", "audit"}
      BY <1>2 DEF CallOK, RightsOK, Roll
    <3>2. /\ After(c, accounts[c.of]) \in AnAccount \cup {Nobody_}
          /\ c.auth = "Moderator" /\ c.kind \in {"status", "reset", "create"} =>
               RoleHeld(read) = "User" /\ RoleHeld(After(c, accounts[c.of])) = RoleHeld(accounts[c.of])
      BY <1>2, <2>2, <3>1, AfterOK
    <3>3. c.auth \in {"Moderator", "Admin"} /\ (c.auth = "Moderator" => c.kind \in {"status", "reset", "create"})
      BY <1>2, <3>1 DEF RightsOK, CallOK
    <3>4. accounts' \in Roll
      BY <2>2, <3>1, <3>2 DEF Roll
    <3> QED BY <2>2, <3>2, <3>3, <3>4 DEF DeedsWereAllowed
  <2> QED BY <2>1, <2>2
<1> QED BY <1>1, <1>3, <1>4 DEF DialogOK, AuditIsOfTarget, Roll

LEMMA ElsewhereOK ==
  ASSUME UsersInv, ElsewhereAdministered
  PROVE  UsersInv'
<1> USE DEF UsersInv
<1>1. UNCHANGED <<duty, rowsSeen, myRole, dialog, audit, userCalls, deeds>>
  BY DEF ElsewhereAdministered
<1>2. accounts' \in Roll
  <2>1. \E u \in Present(accounts), r \in Role, s \in {"Enabled", "Disabled"} :
          accounts' \in {[accounts EXCEPT ![u].role = r], [accounts EXCEPT ![u].status = s]}
    BY DEF ElsewhereAdministered, Present, People, Role
  <2>2. \A u \in Present(accounts) : u \in People /\ accounts[u] \in AnAccount
    BY DEF Present, Roll
  <2> QED BY <2>1, <2>2 DEF Roll, AnAccount
<1>3. (\A x \in userCalls : CallOK(x) /\ RightsOK(x) /\ TrailOK(x))'
  BY <1>1 DEF CallOK, IsCall, RightsOK, TrailOK, Roll
<1> QED BY <1>1, <1>2, <1>3 DEF DialogOK, AuditIsOfTarget, DeedsWereAllowed, Roll

\* The answers.
LEMMA AnswersOK ==
  ASSUME UsersInv, ListServed \/ ChangeAnswered \/ AuditServed \/ UserCallFails
  PROVE  UsersInv'
<1> USE DEF UsersInv
<1>1. CASE ListServed
  <2>1. rowsSeen' \in Roll /\ userCalls' \subseteq userCalls
    BY <1>1 DEF ListServed, CallOK
  <2>2. UNCHANGED <<duty, accounts, myRole, dialog, audit, deeds>>
    BY <1>1 DEF ListServed
  <2> QED BY <2>1, <2>2 DEF CallOK, IsCall, Fields, RightsOK, TrailOK, DialogOK, AuditIsOfTarget, DeedsWereAllowed, Roll
<1>2. CASE ChangeAnswered
  <2> PICK c \in userCalls :
        /\ c.kind \notin {"list", "audit"}
        /\ userCalls' = IF c.kind = "reset" THEN userCalls \ {c}
                        ELSE UserCall(userCalls \ {c}, "list", Me, "none")
        /\ dialog' \in {Closed, [dialog EXCEPT !.target = Nobody_], dialog}
    BY <1>2 DEF ChangeAnswered
  <2>1. UNCHANGED <<duty, accounts, rowsSeen, myRole, audit, deeds>> /\ duty # "audit"
    BY <1>2 DEF ChangeAnswered, TrailOK
  <2>2. \A x \in userCalls' : CallOK(x) /\ RightsOK(x) /\ TrailOK(x)
    BY <2>1, UserCallOK, Me \in People DEF People
  <2>3. DialogOK'
    BY <2>1 DEF DialogOK, Closed
  <2>4. (\A x \in userCalls : CallOK(x) /\ RightsOK(x) /\ TrailOK(x))'
    BY <2>1, <2>2 DEF CallOK, IsCall, RightsOK, TrailOK, Roll
  <2> QED BY <2>1, <2>3, <2>4 DEF AuditIsOfTarget, DeedsWereAllowed, Roll
<1>3. CASE AuditServed
  <2>1. UNCHANGED <<duty, accounts, rowsSeen, myRole, dialog, deeds>> /\ userCalls' \subseteq userCalls
    BY <1>3 DEF AuditServed
  <2>2. PICK c \in userCalls : /\ c.kind = "audit"
          /\ audit' = IF c.live THEN [audit EXCEPT !.of = {c.of}, !.loading = FALSE] ELSE audit
    BY <1>3 DEF AuditServed
  <2> DEFINE trail == audit
  <2>0. /\ c.of \in People /\ duty = "audit" /\ (c.live => c.of = dialog.target)
        /\ trail = [x \in {"of", "loading", "failed"} |-> trail[x]]
    BY <2>2 DEF CallOK, TrailOK
  <2>3. /\ audit' = [x \in {"of", "loading", "failed"} |-> audit'[x]]
        /\ audit'.of \subseteq People /\ audit'.of \subseteq {dialog.target} /\ duty = "audit"
    <3>1. CASE c.live
      <4>1. audit' = [trail EXCEPT !.of = {c.of}, !.loading = FALSE]
        BY <2>2, <3>1
      <4> HIDE DEF trail
      <4> QED BY <2>0, <3>1, <4>1
    <3>2. CASE ~c.live
      BY <2>2, <2>0, <3>2 DEF AuditIsOfTarget
    <3> QED BY <3>1, <3>2
  <2> QED BY <2>1, <2>3 DEF CallOK, IsCall, Fields, RightsOK, TrailOK, DialogOK, AuditIsOfTarget, DeedsWereAllowed, Roll
<1>4. CASE UserCallFails
  <2>1. UNCHANGED <<duty, accounts, rowsSeen, myRole, dialog, deeds>> /\ userCalls' \subseteq userCalls
    BY <1>4 DEF UserCallFails
  <2>2. /\ audit' = [x \in {"of", "loading", "failed"} |-> audit'[x]]
        /\ audit'.of = audit.of
    BY <1>4 DEF UserCallFails
  <2> QED BY <2>1, <2>2 DEF CallOK, IsCall, Fields, RightsOK, TrailOK, DialogOK, AuditIsOfTarget, DeedsWereAllowed, Roll
<1> QED BY <1>1, <1>2, <1>3, <1>4

LEMMA UsersNextOK == UsersInv /\ [UsersNext]_usersVars => UsersInv'
<1> SUFFICES ASSUME UsersInv, [UsersNext]_usersVars PROVE UsersInv'
  OBVIOUS
<1>1. CASE UNCHANGED usersVars
  BY <1>1 DEF usersVars, UsersInv, CallOK, IsCall, Fields, RightsOK, TrailOK, DialogOK, AuditIsOfTarget,
     DeedsWereAllowed, Roll
<1>2. CASE UsersNext
  BY <1>2, AsksOK, DialogsOK, AuditDialogOK, AuthenticateOK, ServeOK, CommitOK, ElsewhereOK, AnswersOK DEF UsersNext
<1> QED BY <1>1, <1>2
-----------------------------------------------------------------------------
\* The invariant holds for any accounts and any number of requests.
THEOREM UsersInvariant == UsersSpec => []UsersInv
BY UsersInitOK, UsersNextOK, PTL DEF UsersSpec

\* However old the rows are and whoever was promoted or demoted since, a change is
\* made with the rights that its actor was found to have, over the account that the
\* endpoint read: a moderator's never makes or unmakes one of the staff, and is of
\* a user's account unless that is promoted between the check and the write
\* (app/controllers/user_controller.py).
THEOREM DeedsWereAllowedAlways == UsersSpec => []DeedsWereAllowed
<1>1. UsersInv => DeedsWereAllowed
  BY DEF UsersInv
<1> QED BY <1>1, UsersInvariant, PTL

\* In whatever order dialogs are opened and trails arrive, the trail shown is
\* of the account whose dialog is open (the audit effect of UserManagementView).
THEOREM AuditIsOfTargetAlways == UsersSpec => []AuditIsOfTarget
<1>1. UsersInv => AuditIsOfTarget
  BY DEF UsersInv
<1> QED BY <1>1, UsersInvariant, PTL
-----------------------------------------------------------------------------
\* The viewer stays on the staff, as far as the page knows, and asks no more than
\* it may at once.
UsersFew == Few(userCalls, MaxUserCalls) /\ myRole \in {"Moderator", "Admin"}

LEMMA UsersFewInit == UsersInit => UsersFew
BY UsersAssumption, FS_EmptySet DEF UsersInit, UsersFew, Few, Staff

LEMMA UsersFewNext == UsersFew /\ [UsersNext]_usersVars => UsersFew'
<1> SUFFICES ASSUME UsersFew, [UsersNext]_usersVars PROVE Few(userCalls', MaxUserCalls)
  BY DEF UsersFew, UsersNext, usersVars, ReloadUsers, ToggleStatus, DeleteUser, CreateUser, ConfirmDialog, AskUsers,
     OpenDialog, EditDialog, CancelDialog, OpenAudit, CloseAudit, Authenticate, ServeUserCall, CommitUserCall, ElsewhereAdministered,
     ListServed, ChangeAnswered, AuditServed, UserCallFails
<1> DEFINE n == MaxUserCalls
<1>1. n \in Nat /\ Few(userCalls, n)
  BY UsersAssumption DEF UsersFew
<1>2. CASE UNCHANGED userCalls
  BY <1>1, <1>2
<1>3. ASSUME NEW kind, NEW of, NEW value, AskUsers(kind, of, value) PROVE Few(userCalls', n)
  BY <1>1, <1>3, FewOK DEF AskUsers, UserRoom, UserCall
<1>4. Few(DisownAudit(userCalls), n) /\ Cardinality(DisownAudit(userCalls)) <= Cardinality(userCalls)
  <2> DEFINE f == [c \in userCalls |-> IF c.kind = "audit" THEN [c EXCEPT !.live = FALSE] ELSE c]
  <2>1. DisownAudit(userCalls) = {f[c] : c \in userCalls} /\ DOMAIN f = userCalls
    BY DEF DisownAudit
  <2> HIDE DEF f
  <2> QED BY <1>1, <2>1, FewChanged
<1>5. CASE OpenAudit
  <2>1. Cardinality(DisownAudit(userCalls)) < n
    BY <1>1, <1>4, <1>5 DEF OpenAudit, UserRoom, Few
  <2>2. \E c : userCalls' = DisownAudit(userCalls) \cup {c}
    BY <1>5 DEF OpenAudit, UserCall
  <2> QED BY <1>1, <1>4, <2>1, <2>2, FewOK
<1>6. CASE CloseAudit
  BY <1>4, <1>6 DEF CloseAudit
<1>7. ASSUME NEW c \in userCalls, \/ userCalls' \subseteq userCalls
                                  \/ \E d : userCalls' = (userCalls \ {c}) \cup {d}
      PROVE Few(userCalls', n)
  BY <1>1, <1>7, FewOK
<1>8. CASE Authenticate
  BY <1>7, <1>8 DEF Authenticate
<1>9. CASE ServeUserCall
  BY <1>7, <1>9 DEF ServeUserCall
<1>15. CASE CommitUserCall
  BY <1>7, <1>15 DEF CommitUserCall
<1>10. CASE ListServed \/ AuditServed \/ UserCallFails
  BY <1>7, <1>10 DEF ListServed, AuditServed, UserCallFails
<1>11. CASE ChangeAnswered
  BY <1>7, <1>11 DEF ChangeAnswered, UserCall
<1>12. CASE OpenDialog \/ EditDialog \/ CancelDialog \/ ElsewhereAdministered
  BY <1>2, <1>12 DEF OpenDialog, EditDialog, CancelDialog, ElsewhereAdministered
<1>13. CASE UNCHANGED usersVars
  BY <1>2, <1>13 DEF usersVars
<1>14. CASE ReloadUsers \/ ToggleStatus \/ DeleteUser \/ CreateUser \/ ConfirmDialog
  BY <1>3, <1>14 DEF ReloadUsers, ToggleStatus, DeleteUser, CreateUser, ConfirmDialog
<1> QED BY <1>5, <1>6, <1>8, <1>9, <1>10, <1>11, <1>12, <1>13, <1>14, <1>15 DEF UsersNext

\* The figures above the table count parts of what the first one counts.
LEMMA CountsFit == UserCounts.active <= UserCounts.total /\ UserCounts.staff <= UserCounts.total
<1> DEFINE shown == Present(rowsSeen)
           active == {u \in shown : rowsSeen[u].status = "Enabled"}
           staff == {u \in shown : Staff(rowsSeen[u].role)}
<1>1. IsFiniteSet(People)
  BY UsersAssumption, FS_AddElement DEF People
<1>2. IsFiniteSet(shown)
  BY <1>1, FS_Subset DEF Present
<1>3. active \in SUBSET shown /\ staff \in SUBSET shown
  OBVIOUS
<1> HIDE DEF shown, active, staff
<1>4. Cardinality(active) <= Cardinality(shown) /\ Cardinality(staff) <= Cardinality(shown)
  BY <1>2, <1>3, FS_Subset
<1>5. UserCounts = [total |-> Cardinality(shown), active |-> Cardinality(active), staff |-> Cardinality(staff)]
  BY DEF UserCounts, shown, active, staff
<1> QED BY <1>4, <1>5

\* The state of user management is of its kind: accounts and the trail are of
\* people, requests are no more than may be, and the figures above the table fit.
THEOREM UsersTypeOKAlways == UsersSpec => []UsersTypeOK
<1>1. UsersInv /\ UsersFew => UsersTypeOK
  <2> SUFFICES ASSUME UsersInv, UsersFew PROVE UsersTypeOK
    OBVIOUS
  <2>1. \A u \in Present(accounts) : accounts[u] \in AnAccount
    BY DEF UsersInv, Roll, Present
  <2>2. dialog.target \in People \cup {Nobody_} /\ audit.of \subseteq People
    BY DEF UsersInv, DialogOK
  <2>3. Cardinality(userCalls) <= MaxUserCalls /\ myRole \in {"Moderator", "Admin"}
    BY UsersAssumption DEF UsersFew, Few
  <2> QED BY <2>1, <2>2, <2>3, CountsFit DEF UsersTypeOK, AnAccount
<1>2. UsersSpec => []UsersFew
  BY UsersFewInit, UsersFewNext, PTL DEF UsersSpec
<1> QED BY <1>1, <1>2, UsersInvariant, PTL
-----------------------------------------------------------------------------
(* The session. *)

SessionSpec == SessionInit /\ [][SessionNext]_sessionVars

Visitor == Account \cup {NoUser}

AuthFields == {"id", "kind", "who", "stage", "to", "live"}

AuthCallOK(c) ==
  /\ c = [x \in AuthFields |-> c[x]]
  /\ c.kind \in {"me", "login", "logout"} /\ c.who \in Visitor /\ c.to \in Site \cup {""}
  /\ c.kind = "login" => c.to \in Site

SessionTypes ==
  /\ session \in Visitor /\ leaving \in BOOLEAN
  /\ auth \in [user : Visitor, loading : BOOLEAN]
  /\ here \in [page : Site, back : Site]
  /\ \A c \in authCalls : AuthCallOK(c)

\* One question is under way at a time, what it was answered is so, and a user is
\* forgotten before the session changes hands.
Calm(calls, user, loading, left, account) ==
  /\ \A c, d \in calls : c = d
  /\ \A c \in calls : /\ c.kind = "me" /\ c.to = "" => loading
                      /\ c.kind = "logout" => left
                      /\ c.kind = "me" /\ c.stage = "served" => c.who = account
  /\ user # NoUser /\ (\A c \in calls : c.kind = "login") => user = account

AsksOneByOne == ~shaken => Calm(authCalls, auth.user, auth.loading, leaving, session)

SessionInv == SessionTypes /\ AsksOneByOne
-----------------------------------------------------------------------------
LEMMA SiteIs ==
  /\ Site = {"home", "landing", "login", "register", "hub", "docs", "dashboard", "experiments", "blueprints",
             "models", "favorites", "profile", "jobs", "moderation", "users", "system"}
  /\ DOMAIN NavRole \subseteq Site
BY DEF Site, Guard, NavRole

\* The requests d and c are one, as far as its kind and its page go.
Continues(d, c) == AuthCallOK(d) /\ d.kind = c.kind /\ d.to = c.to

LEMMA AuthNumberedOK ==
  ASSUME NEW c, AuthCallOK(c), NEW n
  PROVE  Continues([c EXCEPT !.id = n], c) /\ [c EXCEPT !.id = n].stage = c.stage
BY DEF Continues, AuthCallOK, AuthFields

LEMMA AuthStagedOK ==
  ASSUME NEW c, AuthCallOK(c), NEW stage
  PROVE  Continues([c EXCEPT !.stage = stage], c) /\ [c EXCEPT !.stage = stage].stage = stage
BY DEF Continues, AuthCallOK, AuthFields

LEMMA AuthRepliedOK ==
  ASSUME NEW c, AuthCallOK(c), NEW stage, NEW who \in Visitor
  PROVE  /\ Continues([c EXCEPT !.stage = stage, !.who = who], c)
         /\ [c EXCEPT !.stage = stage, !.who = who].who = who
BY DEF Continues, AuthCallOK, AuthFields

LEMMA ThenAskedOK ==
  ASSUME NEW c, AuthCallOK(c), c.kind = "login"
  PROVE  LET d == [c EXCEPT !.kind = "me", !.who = NoUser, !.stage = "sent"]
         IN  AuthCallOK(d) /\ d.kind = "me" /\ d.to \in Site /\ d.stage = "sent"
BY DEF AuthCallOK, AuthFields, Visitor

LEMMA AskingIsOK ==
  ASSUME NEW kind \in {"me", "logout"}
  PROVE  /\ AuthCallOK(Asking(kind)) /\ Asking(kind).kind = kind
         /\ Asking(kind).to = "" /\ Asking(kind).stage = "token"
BY DEF Asking, AuthCallOK, AuthFields, Visitor

LEMMA SessionInitOK == SessionInit => SessionInv
<1> SUFFICES ASSUME SessionInit PROVE SessionInv
  OBVIOUS
<1> DEFINE first == [Asking("me") EXCEPT !.stage = "sent"]
<1>1. AuthCallOK(first) /\ first.kind = "me" /\ first.stage = "sent" /\ first.to = ""
  BY DEF Asking, AuthCallOK, AuthFields, Visitor
<1>2. authCalls = AuthCall({}, first)
  BY DEF SessionInit
<1> HIDE DEF first
<1>3. PICK c : authCalls = {c} /\ AuthCallOK(c) /\ c.kind = "me" /\ c.stage = "sent"
  <2>1. PICK n : authCalls = {[first EXCEPT !.id = n]}
    BY <1>2 DEF AuthCall
  <2> DEFINE c == [first EXCEPT !.id = n]
  <2>2. Continues(c, first) /\ c.stage = first.stage
    BY <1>1, AuthNumberedOK
  <2>3. authCalls = {c}
    BY <2>1
  <2> HIDE DEF c
  <2> QED BY <1>1, <2>2, <2>3 DEF Continues
<1>4. SessionTypes
  <2>1. here \in [page : Site, back : Site]
    <3>1. here \in [page : Entry, back : {"dashboard"}]
      BY DEF SessionInit
    <3>2. Entry \subseteq Site /\ "dashboard" \in Site
      BY SessionAssumption, SiteIs
    <3> QED BY <3>1, <3>2
  <2> QED BY <1>3, <2>1 DEF SessionInit, SessionTypes, Visitor
<1> QED BY <1>3, <1>4 DEF SessionInit, SessionInv, AsksOneByOne, Calm

\* A redirection stays on the site.
LEMMA RedirectedOK ==
  ASSUME NEW h \in [page : Site, back : Site], NEW a
  PROVE  Redirected(h, a) \in [page : Site, back : Site]
BY SiteIs DEF Redirected

\* A request, but for whether its form is still there.
SameRequest(d, c) ==
  AuthCallOK(d) /\ d.kind = c.kind /\ d.stage = c.stage /\ d.to = c.to /\ d.who = c.who

LEMMA SameButLive ==
  ASSUME NEW c, AuthCallOK(c), NEW live
  PROVE  SameRequest([c EXCEPT !.live = live], c)
BY DEF SameRequest, AuthCallOK, AuthFields

\* The page changes, and nothing of a request but whether the form is there.
LEMMA GoToOK ==
  ASSUME SessionTypes, NEW h \in [page : Site, back : Site], NEW calls \in SUBSET authCalls, NEW waiting,
         GoTo(h, calls, waiting)
  PROVE  /\ here' \in [page : Site, back : Site]
         /\ \A d \in authCalls' : AuthCallOK(d)
         /\ \A user, account : \A loading, left \in BOOLEAN :
              Calm(calls, user, loading, left, account) => Calm(authCalls', user, loading, left, account)
<1>1. CASE h.page = here.page
  BY <1>1 DEF GoTo, SessionTypes
<1>2. CASE h.page # here.page
  <2> DEFINE moved(c) == [c EXCEPT !.live = c.kind = "me" /\ c.to = ""]
  <2>1. authCalls' = {moved(c) : c \in calls} /\ here' = h
    BY <1>2 DEF GoTo
  <2>2. ASSUME NEW c \in calls PROVE SameRequest(moved(c), c)
    BY SameButLive DEF SessionTypes
  <2> HIDE DEF moved
  <2>3. \A d \in authCalls' : AuthCallOK(d)
    BY <2>1, <2>2 DEF SameRequest
  <2>4. ASSUME NEW user, NEW account, NEW loading \in BOOLEAN, NEW left \in BOOLEAN,
             Calm(calls, user, loading, left, account)
        PROVE  Calm(authCalls', user, loading, left, account)
    <3>1. \A c, d \in authCalls' : c = d
      BY <2>1, <2>4 DEF Calm
    <3>2. ASSUME user # NoUser, \A c \in authCalls' : c.kind = "login" PROVE user = account
      BY <2>1, <2>2, <2>4, <3>2 DEF Calm, SameRequest
    <3>3. ASSUME NEW d \in authCalls'
          PROVE  /\ d.kind = "me" /\ d.to = "" => loading
                 /\ d.kind = "logout" => left
                 /\ d.kind = "me" /\ d.stage = "served" => d.who = account
      <4>1. PICK c \in calls : SameRequest(d, c)
        BY <2>1, <2>2
      <4> QED BY <2>4, <4>1 DEF Calm, SameRequest
    <3> QED BY <3>1, <3>2, <3>3 DEF Calm
  <2> QED BY <2>1, <2>3, <2>4
<1> QED BY <1>1, <1>2

LEMMA FollowOK == SessionInv /\ Follow => SessionInv'
<1> SUFFICES ASSUME SessionInv, Follow PROVE SessionInv'
  OBVIOUS
<1> USE DEF SessionInv
<1>1. PICK p \in Site : GoTo(Redirected([page |-> p, back |-> "dashboard"], auth), authCalls, entering)
  BY SiteIs DEF Follow, Links, VisibleNav
<1>2. Redirected([page |-> p, back |-> "dashboard"], auth) \in [page : Site, back : Site]
  BY RedirectedOK, SiteIs
<1>3. UNCHANGED <<session, auth, leaving, shaken>>
  BY DEF Follow
<1> QED BY <1>1, <1>2, <1>3, GoToOK DEF SessionTypes, AsksOneByOne

\* A form sends a request.
LEMMA SubmitLoginOK == SessionInv /\ SubmitLogin => SessionInv'
<1> SUFFICES ASSUME SessionInv, SubmitLogin PROVE SessionInv'
  OBVIOUS
<1> USE DEF SessionInv
<1>1. UNCHANGED <<session, auth, here, leaving>>
  BY DEF SubmitLogin
<1>2. CASE UNCHANGED <<entering, authCalls, shaken>>
  BY <1>1, <1>2 DEF SessionTypes, AsksOneByOne
<1>3. ASSUME NEW u \in Account,
             authCalls' = AuthCall(authCalls, [Asking("login") EXCEPT !.who = u, !.to = here.back]),
             shaken' = (shaken \/ auth.loading \/ LoggingIn \/ \E c \in authCalls : c.kind = "logout")
      PROVE  SessionInv'
  <2> DEFINE asked == [Asking("login") EXCEPT !.who = u, !.to = here.back]
  <2>1. AuthCallOK(asked) /\ asked.kind = "login" /\ asked.to = here.back
    BY DEF Asking, AuthCallOK, AuthFields, Visitor, SessionTypes
  <2>2. authCalls' = AuthCall(authCalls, asked)
    BY <1>3
  <2> HIDE DEF asked
  <2>3. PICK c : authCalls' = authCalls \cup {c} /\ AuthCallOK(c) /\ c.kind = "login"
    <3>1. PICK n : authCalls' = authCalls \cup {[asked EXCEPT !.id = n]}
      BY <2>2 DEF AuthCall
    <3> DEFINE c == [asked EXCEPT !.id = n]
    <3>2. Continues(c, asked)
      BY <2>1, AuthNumberedOK
    <3>3. authCalls' = authCalls \cup {c}
      BY <3>1
    <3> HIDE DEF c
    <3> QED BY <2>1, <3>2, <3>3 DEF Continues
  <2>4. SessionTypes'
    BY <1>1, <2>3 DEF SessionTypes
  <2>5. ASSUME ~shaken' PROVE authCalls = {}
    BY <1>3, <2>5 DEF AsksOneByOne, Calm, SessionTypes, AuthCallOK, LoggingIn
  <2>6. AsksOneByOne'
    BY <1>1, <1>3, <2>3, <2>5 DEF AsksOneByOne, Calm
  <2> QED BY <2>4, <2>6
<1> QED BY <1>2, <1>3 DEF SubmitLogin

LEMMA ClickLogoutOK == SessionInv /\ ClickLogout => SessionInv'
<1> SUFFICES ASSUME SessionInv, ClickLogout PROVE SessionInv'
  OBVIOUS
<1> USE DEF SessionInv
<1>1. /\ authCalls' = AuthCall(authCalls, Asking("logout"))
      /\ ~auth.loading /\ ~leaving /\ leaving' = TRUE /\ shaken' = (shaken \/ LoggingIn)
      /\ UNCHANGED <<session, auth, here, entering>>
  BY DEF ClickLogout
<1>2. PICK c : authCalls' = authCalls \cup {c} /\ AuthCallOK(c) /\ c.kind = "logout"
  <2>1. PICK n : authCalls' = authCalls \cup {[Asking("logout") EXCEPT !.id = n]}
    BY <1>1 DEF AuthCall
  <2> DEFINE c == [Asking("logout") EXCEPT !.id = n]
  <2>2. Continues(c, Asking("logout"))
    BY AskingIsOK, AuthNumberedOK
  <2>3. authCalls' = authCalls \cup {c}
    BY <2>1
  <2> HIDE DEF c
  <2> QED BY <2>2, <2>3, AskingIsOK DEF Continues
<1>3. SessionTypes'
  BY <1>1, <1>2 DEF SessionTypes
<1>4. ASSUME ~shaken' PROVE authCalls = {}
  BY <1>1, <1>4 DEF AsksOneByOne, Calm, SessionTypes, AuthCallOK, LoggingIn
<1>5. AsksOneByOne'
  BY <1>1, <1>2, <1>4 DEF AsksOneByOne, Calm
<1> QED BY <1>3, <1>5

\* A request goes on: it is still the one that is under way.
LEMMA GoesOnOK ==
  ASSUME SessionInv, NEW c \in authCalls, NEW d, authCalls' = (authCalls \ {c}) \cup {d}, Continues(d, c),
         UNCHANGED <<auth, here, leaving, shaken>>, session' \in Visitor,
         d.kind = "me" /\ d.stage = "served" => d.who = session',
         session' = session \/ d.kind # "login"
  PROVE  SessionInv'
<1> USE DEF SessionInv
<1>1. SessionTypes'
  BY DEF SessionTypes, Continues
<1>2. AsksOneByOne'
  BY DEF AsksOneByOne, Calm, Continues
<1> QED BY <1>1, <1>2

LEMMA ServesOK ==
  ASSUME SessionInv, TokenFetched \/ ServeMe \/ ServeLogin \/ ServeLogout \/ Expire
  PROVE  SessionInv'
<1> USE DEF SessionInv
<1>1. \A c \in authCalls : AuthCallOK(c)
  BY DEF SessionTypes
<1>2. CASE TokenFetched
  <2>1. PICK c \in authCalls, stage \in {"sent", "refused"} :
          c.stage = "token" /\ authCalls' = (authCalls \ {c}) \cup {[c EXCEPT !.stage = stage]}
    BY <1>2 DEF TokenFetched, StagedAuth
  <2> DEFINE d == [c EXCEPT !.stage = stage]
  <2>2. Continues(d, c) /\ d.stage = stage
    BY <1>1, AuthStagedOK
  <2>3. authCalls' = (authCalls \ {c}) \cup {d}
    BY <2>1
  <2> HIDE DEF d
  <2> QED BY <1>2, <2>1, <2>2, <2>3, GoesOnOK DEF TokenFetched, SessionTypes
<1>3. ASSUME NEW c \in authCalls, NEW stage, NEW who \in Visitor, Replied(c, stage, who), session' \in Visitor,
             c.kind = "me" => who = session', session' = session \/ c.kind # "login"
      PROVE  SessionInv'
  <2> DEFINE d == [c EXCEPT !.stage = stage, !.who = who]
  <2>1. Continues(d, c) /\ d.who = who
    BY <1>1, AuthRepliedOK
  <2>2. authCalls' = (authCalls \ {c}) \cup {d} /\ UNCHANGED <<auth, here, entering, leaving, shaken>>
    BY <1>3 DEF Replied
  <2> HIDE DEF d
  <2> QED BY <1>3, <2>1, <2>2, GoesOnOK DEF Continues
<1>4. CASE ServeMe
  BY <1>3, <1>4 DEF ServeMe, SessionTypes
<1>5. CASE ServeLogin
  BY <1>3, <1>5 DEF ServeLogin, SessionTypes, AuthCallOK
<1>6. CASE ServeLogout
  <2>1. NoUser \in Visitor
    BY DEF Visitor
  <2> QED BY <1>3, <1>6, <2>1 DEF ServeLogout
<1>7. CASE Expire
  BY <1>7 DEF Expire, SessionTypes, AsksOneByOne, Visitor
<1> QED BY <1>2, <1>4, <1>5, <1>6, <1>7

LEMMA MeAnsweredOK == SessionInv /\ MeAnswered => SessionInv'
<1> SUFFICES ASSUME SessionInv, MeAnswered PROVE SessionInv'
  OBVIOUS
<1> USE DEF SessionInv
<1>1. PICK c \in authCalls, lost \in BOOLEAN :
        /\ c.kind = "me" /\ (c.stage = "served" \/ lost)
        /\ auth' = [user |-> IF lost THEN NoUser ELSE c.who, loading |-> auth.loading /\ c.to # ""]
        /\ GoTo(Redirected(IF c.to = "" THEN here ELSE [page |-> c.to, back |-> "dashboard"], auth'),
                authCalls \ {c}, entering /\ ~(c.to # "" /\ c.live))
        /\ UNCHANGED <<session, leaving, shaken>>
  BY DEF MeAnswered
<1>2. auth' \in [user : Visitor, loading : BOOLEAN] /\ (auth'.user # NoUser => c.stage = "served" /\ auth'.user = c.who)
  BY <1>1 DEF SessionTypes, AuthCallOK, Visitor
<1>3. (IF c.to = "" THEN here ELSE [page |-> c.to, back |-> "dashboard"]) \in [page : Site, back : Site]
  BY SiteIs DEF SessionTypes, AuthCallOK
<1>4. PICK h \in [page : Site, back : Site] : \E waiting : GoTo(h, authCalls \ {c}, waiting)
  BY <1>1, <1>3, RedirectedOK
<1>5. /\ here' \in [page : Site, back : Site]
      /\ \A d \in authCalls' : AuthCallOK(d)
      /\ \A user, account : \A loading, left \in BOOLEAN :
           Calm(authCalls \ {c}, user, loading, left, account) => Calm(authCalls', user, loading, left, account)
  BY <1>4, GoToOK
<1>6. ASSUME ~shaken PROVE Calm(authCalls \ {c}, auth'.user, auth'.loading, leaving, session)
  BY <1>1, <1>2, <1>6 DEF AsksOneByOne, Calm
<1>7. SessionTypes'
  BY <1>1, <1>2, <1>5 DEF SessionTypes
<1>8. auth'.loading \in BOOLEAN /\ leaving \in BOOLEAN /\ UNCHANGED <<session, leaving, shaken>>
  BY <1>1, <1>2 DEF SessionTypes
<1>9. AsksOneByOne'
  BY <1>5, <1>6, <1>8 DEF AsksOneByOne
<1> QED BY <1>7, <1>9

LEMMA LoginEndsOK == SessionInv /\ (LoginAnswered \/ LoginFails) => SessionInv'
<1> SUFFICES ASSUME SessionInv, LoginAnswered \/ LoginFails PROVE SessionInv'
  OBVIOUS
<1> USE DEF SessionInv
<1>1. CASE LoginAnswered
  <2>1. PICK c \in authCalls :
          /\ c.kind = "login" /\ session' = c.who
          /\ authCalls' = (authCalls \ {c}) \cup {[c EXCEPT !.kind = "me", !.who = NoUser, !.stage = "sent"]}
    BY <1>1 DEF LoginAnswered
  <2> DEFINE d == [c EXCEPT !.kind = "me", !.who = NoUser, !.stage = "sent"]
  <2>2. AuthCallOK(d) /\ d.kind = "me" /\ d.to \in Site /\ d.stage = "sent"
    BY <2>1, ThenAskedOK DEF SessionTypes
  <2>3. authCalls' = (authCalls \ {c}) \cup {d} /\ UNCHANGED <<auth, here, leaving, shaken>>
    BY <1>1, <2>1 DEF LoginAnswered
  <2> HIDE DEF d
  <2>4. d.to # ""
    BY <2>2, SiteIs
  <2>5. SessionTypes'
    BY <2>1, <2>2, <2>3 DEF SessionTypes, AuthCallOK
  <2>6. AsksOneByOne'
    BY <2>2, <2>3, <2>4 DEF AsksOneByOne, Calm
  <2> QED BY <2>5, <2>6
<1>2. CASE LoginFails
  BY <1>2 DEF LoginFails, SessionTypes, AsksOneByOne, Calm
<1> QED BY <1>1, <1>2

LEMMA LogoutEndsOK == SessionInv /\ (LogoutAnswered \/ LogoutFails) => SessionInv'
<1> SUFFICES ASSUME SessionInv, LogoutAnswered \/ LogoutFails PROVE SessionInv'
  OBVIOUS
<1> USE DEF SessionInv
<1>1. /\ auth' = [auth EXCEPT !.user = NoUser] /\ leaving' = FALSE /\ UNCHANGED shaken
      /\ session' \in {NoUser, session}
  BY DEF LogoutAnswered, LogoutFails
<1>2. auth' \in [user : Visitor, loading : BOOLEAN] /\ auth'.user = NoUser /\ session' \in Visitor
  BY <1>1 DEF SessionTypes, Visitor
<1>3. PICK c \in authCalls, h \in [page : Site, back : Site] :
        c.kind = "logout" /\ GoTo(h, authCalls \ {c}, entering)
  BY SiteIs, RedirectedOK DEF LogoutAnswered, LogoutFails, SessionTypes
<1>4. /\ here' \in [page : Site, back : Site]
      /\ \A d \in authCalls' : AuthCallOK(d)
      /\ \A user, account : \A loading, left \in BOOLEAN :
           Calm(authCalls \ {c}, user, loading, left, account) => Calm(authCalls', user, loading, left, account)
  BY <1>3, GoToOK
<1>5. ASSUME ~shaken PROVE Calm(authCalls \ {c}, auth'.user, auth'.loading, leaving', session')
  BY <1>2, <1>3, <1>5 DEF AsksOneByOne, Calm
<1>6. SessionTypes'
  BY <1>1, <1>2, <1>4 DEF SessionTypes
<1>7. auth'.loading \in BOOLEAN /\ leaving' \in BOOLEAN
  BY <1>1, <1>2
<1>8. AsksOneByOne'
  BY <1>1, <1>4, <1>5, <1>7 DEF AsksOneByOne
<1> QED BY <1>6, <1>8

LEMMA SessionNextOK == SessionInv /\ [SessionNext]_sessionVars => SessionInv'
<1>1. SessionInv /\ UNCHANGED sessionVars => SessionInv'
  BY DEF sessionVars, SessionInv, SessionTypes, AsksOneByOne
<1> QED BY <1>1, FollowOK, SubmitLoginOK, ClickLogoutOK, ServesOK, MeAnsweredOK, LoginEndsOK, LogoutEndsOK
    DEF SessionNext

\* The inductive invariant of the session's provider: unless requests raced, one is
\* under way at a time and what it was answered is still so.
THEOREM SessionInvariant == SessionSpec => []SessionInv
BY SessionInitOK, SessionNextOK, PTL DEF SessionSpec

\* Without a login that overlaps with other requests, and with all requests answered,
\* the user that the pages show has the session (SessionProvider).
THEOREM SignedInIsRealAlways == SessionSpec => []SignedInIsReal
<1>1. SessionInv => SignedInIsReal
  BY DEF SessionInv, AsksOneByOne, Calm, SignedInIsReal
<1> QED BY <1>1, SessionInvariant, PTL

\* The login form waits for a request of its own, and no more are asked for than may be.
Entered(h, waiting, calls) ==
  waiting => h.page = "login" /\ \E c \in calls : c.live /\ (c.kind = "login" \/ c.to # "")

\* No page follows a logout.
LeavesFor(calls) == \A c \in calls : c.kind = "logout" => c.to = ""

SessionFew == Few(authCalls, MaxAuthCalls) /\ Entered(here, entering, authCalls) /\ LeavesFor(authCalls)

LEMMA AuthCallFits ==
  ASSUME NEW calls, Few(calls, MaxAuthCalls), Cardinality(calls) < MaxAuthCalls, NEW c,
         AuthCallOK(c)
  PROVE  \E d : /\ AuthCall(calls, c) = calls \cup {d} /\ Continues(d, c) /\ d.live = c.live
                /\ Few(AuthCall(calls, c), MaxAuthCalls)
<1>1. PICK n : AuthCall(calls, c) = calls \cup {[c EXCEPT !.id = n]}
  BY DEF AuthCall
<1> DEFINE d == [c EXCEPT !.id = n]
<1>2. Continues(d, c) /\ d.live = c.live
  BY DEF Continues, AuthCallOK, AuthFields
<1>3. AuthCall(calls, c) = calls \cup {d}
  BY <1>1
<1> HIDE DEF d
<1>4. Few(calls \cup {d}, MaxAuthCalls)
  BY FewOK, SessionAssumption
<1> QED BY <1>2, <1>3, <1>4

\* The page is gone to: the login form, if it is still there, waits for what it waited for.
LEMMA GoToFew ==
  ASSUME SessionTypes, Few(authCalls, MaxAuthCalls), LeavesFor(authCalls),
         NEW h, NEW calls \in SUBSET authCalls, NEW waiting, GoTo(h, calls, waiting),
         Entered(here, waiting, calls)
  PROVE  SessionFew'
<1>1. here' = h
  BY DEF GoTo
<1>2. Few(calls, MaxAuthCalls) /\ LeavesFor(calls)
  BY FewOK, SessionAssumption DEF LeavesFor
<1>3. CASE h.page = here.page
  BY <1>1, <1>2, <1>3 DEF GoTo, SessionFew, Entered
<1>4. CASE h.page # here.page
  <2> DEFINE moved(d) == [d EXCEPT !.live = d.kind = "me" /\ d.to = ""]
             f == [d \in calls |-> moved(d)]
  <2>1. authCalls' = {moved(d) : d \in calls} /\ entering' = FALSE
    BY <1>4 DEF GoTo
  <2>2. ASSUME NEW d \in calls PROVE SameRequest(moved(d), d)
    BY SameButLive DEF SessionTypes
  <2> HIDE DEF moved
  <2>5. {moved(d) : d \in calls} = {f[d] : d \in calls} /\ DOMAIN f = calls
    OBVIOUS
  <2> HIDE DEF f
  <2>3. Few(authCalls', MaxAuthCalls)
    <3>1. MaxAuthCalls \in Nat
      BY SessionAssumption
    <3>2. authCalls' = {f[d] : d \in calls} /\ DOMAIN f = calls
      BY ONLY <2>1, <2>5
    <3> QED BY <1>2, <3>1, <3>2, FewChanged
  <2>4. ASSUME NEW e \in authCalls', e.kind = "logout" PROVE e.to = ""
    <3>1. PICK d \in calls : SameRequest(e, d)
      BY <2>1, <2>2
    <3> QED BY <1>2, <2>4, <3>1 DEF LeavesFor, SameRequest
  <2>6. LeavesFor(authCalls')
    BY ONLY <2>4 DEF LeavesFor
  <2>7. Entered(here', entering', authCalls')
    BY <2>1 DEF Entered
  <2> QED BY <2>3, <2>6, <2>7 DEF SessionFew
<1> QED BY <1>3, <1>4

LEMMA SessionFewInit == SessionInit => SessionFew
<1> SUFFICES ASSUME SessionInit PROVE SessionFew
  OBVIOUS
<1> DEFINE first == [Asking("me") EXCEPT !.stage = "sent"]
<1>1. AuthCallOK(first) /\ first.kind = "me"
  BY DEF Asking, AuthCallOK, AuthFields, Visitor
<1>2. authCalls = AuthCall({}, first) /\ entering = FALSE
  BY DEF SessionInit
<1> HIDE DEF first
<1>3. Cardinality({}) < MaxAuthCalls /\ Few({}, MaxAuthCalls)
  BY FS_EmptySet, SessionAssumption DEF Few
<1>4. PICK d : authCalls = {} \cup {d} /\ Continues(d, first) /\ Few(authCalls, MaxAuthCalls)
  BY <1>1, <1>2, <1>3, AuthCallFits
<1> QED BY <1>1, <1>2, <1>4 DEF SessionFew, Entered, LeavesFor, Continues

\* A request goes on.
LEMMA GoesOnFew ==
  ASSUME SessionFew, NEW c \in authCalls, NEW d, authCalls' = (authCalls \ {c}) \cup {d},
         d.live = c.live, d.to = c.to, d.kind = "logout" => c.kind = "logout",
         c.kind = "login" => d.kind = "login" \/ d.to # "",
         UNCHANGED <<here, entering>>
  PROVE  SessionFew'
<1>1. Few(authCalls', MaxAuthCalls)
  BY FewOK, SessionAssumption DEF SessionFew
<1>2. LeavesFor(authCalls')
  BY DEF SessionFew, LeavesFor
<1>3. Entered(here', entering', authCalls')
  BY DEF SessionFew, Entered
<1> QED BY <1>1, <1>2, <1>3 DEF SessionFew

LEMMA SessionFewNext == SessionInv /\ SessionFew /\ [SessionNext]_sessionVars => SessionFew'
<1> SUFFICES ASSUME SessionInv, SessionFew, [SessionNext]_sessionVars PROVE SessionFew'
  OBVIOUS
<1>1. /\ SessionTypes /\ \A c \in authCalls : AuthCallOK(c)
      /\ Few(authCalls, MaxAuthCalls) /\ Entered(here, entering, authCalls) /\ LeavesFor(authCalls)
  BY DEF SessionInv, SessionTypes, SessionFew
<1>2. CASE Follow
  <2>1. PICK h : GoTo(h, authCalls, entering)
    BY <1>2 DEF Follow
  <2> QED BY <1>1, <2>1, GoToFew
<1>3. CASE SubmitLogin
  <2>1. here.page = "login" /\ UNCHANGED here
    BY <1>3 DEF SubmitLogin
  <2>2. CASE UNCHANGED <<entering, authCalls>>
    BY <1>1, <2>1, <2>2 DEF SessionFew
  <2>3. ASSUME NEW u \in Account, AuthRoom,
               authCalls' = AuthCall(authCalls, [Asking("login") EXCEPT !.who = u, !.to = here.back])
        PROVE  SessionFew'
    <3> DEFINE asked == [Asking("login") EXCEPT !.who = u, !.to = here.back]
    <3>1. AuthCallOK(asked) /\ asked.kind = "login" /\ asked.live = TRUE
      BY <1>1 DEF Asking, AuthCallOK, AuthFields, Visitor, SessionTypes
    <3>2. authCalls' = AuthCall(authCalls, asked)
      BY <2>3
    <3> HIDE DEF asked
    <3>3. PICK d : authCalls' = authCalls \cup {d} /\ Continues(d, asked) /\ d.live = asked.live /\ Few(authCalls', MaxAuthCalls)
      BY <1>1, <2>3, <3>1, <3>2, AuthCallFits DEF AuthRoom
    <3> QED BY <1>1, <2>1, <3>1, <3>3 DEF SessionFew, Entered, LeavesFor, Continues
  <2> QED BY <1>3, <2>2, <2>3 DEF SubmitLogin
<1>4. CASE ClickLogout
  <2>1. /\ AuthRoom /\ authCalls' = AuthCall(authCalls, Asking("logout")) /\ UNCHANGED <<here, entering>>
    BY <1>4 DEF ClickLogout
  <2>2. PICK d : authCalls' = authCalls \cup {d} /\ Continues(d, Asking("logout")) /\ Few(authCalls', MaxAuthCalls)
    BY <1>1, <2>1, AskingIsOK, AuthCallFits DEF AuthRoom
  <2>3. d.kind = "logout" /\ d.to = ""
    BY <2>2, AskingIsOK DEF Continues
  <2> QED BY <1>1, <2>1, <2>2, <2>3 DEF SessionFew, Entered, LeavesFor
<1>5. CASE TokenFetched
  <2>1. PICK c \in authCalls, stage \in {"sent", "refused"} : authCalls' = (authCalls \ {c}) \cup {[c EXCEPT !.stage = stage]}
    BY <1>5 DEF TokenFetched, StagedAuth
  <2> DEFINE d == [c EXCEPT !.stage = stage]
  <2>2. d.live = c.live /\ d.to = c.to /\ d.kind = c.kind
    BY <1>1 DEF AuthCallOK, AuthFields
  <2>3. authCalls' = (authCalls \ {c}) \cup {d} /\ UNCHANGED <<here, entering>>
    BY <1>5, <2>1 DEF TokenFetched
  <2> HIDE DEF d
  <2> QED BY <2>2, <2>3, GoesOnFew
<1>6. ASSUME NEW c \in authCalls, NEW stage, NEW who, Replied(c, stage, who) PROVE SessionFew'
  <2> DEFINE d == [c EXCEPT !.stage = stage, !.who = who]
  <2>2. d.live = c.live /\ d.to = c.to /\ d.kind = c.kind
    BY <1>1 DEF AuthCallOK, AuthFields
  <2>3. authCalls' = (authCalls \ {c}) \cup {d} /\ UNCHANGED <<here, entering>>
    BY <1>6 DEF Replied
  <2> HIDE DEF d
  <2> QED BY <2>2, <2>3, GoesOnFew
<1>7. CASE ServeMe \/ ServeLogin \/ ServeLogout
  BY <1>6, <1>7 DEF ServeMe, ServeLogin, ServeLogout
<1>8. CASE Expire \/ UNCHANGED sessionVars
  <2>1. UNCHANGED <<here, entering, authCalls>>
    BY <1>8 DEF Expire, sessionVars
  <2> QED BY <1>1, <2>1 DEF SessionFew
<1>9. CASE MeAnswered
  <2>1. PICK c \in authCalls : /\ c.kind = "me"
                               /\ \E h : GoTo(h, authCalls \ {c}, entering /\ ~(c.to # "" /\ c.live))
    BY <1>9 DEF MeAnswered
  <2>2. PICK h : GoTo(h, authCalls \ {c}, entering /\ ~(c.to # "" /\ c.live))
    BY <2>1
  <2> DEFINE waiting == entering /\ ~(c.to # "" /\ c.live)
  <2>3. Entered(here, waiting, authCalls \ {c})
    BY <1>1, <2>1 DEF Entered
  <2>4. GoTo(h, authCalls \ {c}, waiting)
    BY <2>2
  <2> HIDE DEF waiting
  <2> QED BY <1>1, <2>3, <2>4, GoToFew
<1>10. CASE LoginAnswered
  <2>1. PICK c \in authCalls :
          c.kind = "login" /\ authCalls' = (authCalls \ {c}) \cup {[c EXCEPT !.kind = "me", !.who = NoUser, !.stage = "sent"]}
    BY <1>10 DEF LoginAnswered
  <2> DEFINE d == [c EXCEPT !.kind = "me", !.who = NoUser, !.stage = "sent"]
  <2>2. d.live = c.live /\ d.to = c.to /\ d.kind = "me"
    BY <1>1 DEF AuthCallOK, AuthFields
  <2>3. c.to # ""
    BY <1>1, <2>1, SiteIs DEF AuthCallOK
  <2>4. authCalls' = (authCalls \ {c}) \cup {d} /\ UNCHANGED <<here, entering>>
    BY <1>10, <2>1 DEF LoginAnswered
  <2> HIDE DEF d
  <2> QED BY <2>2, <2>3, <2>4, GoesOnFew
<1>11. CASE LoginFails
  <2>1. PICK c \in authCalls : authCalls' = authCalls \ {c} /\ entering' = (entering /\ ~c.live) /\ UNCHANGED here
    BY <1>11 DEF LoginFails
  <2>2. Few(authCalls', MaxAuthCalls)
    BY <1>1, <2>1, FewOK, SessionAssumption
  <2> QED BY <1>1, <2>1, <2>2 DEF SessionFew, Entered, LeavesFor
<1>12. CASE LogoutAnswered \/ LogoutFails
  <2>1. PICK c \in authCalls : c.kind = "logout" /\ \E h : GoTo(h, authCalls \ {c}, entering)
    BY <1>12 DEF LogoutAnswered, LogoutFails
  <2>2. PICK h : GoTo(h, authCalls \ {c}, entering)
    BY <2>1
  <2>3. Entered(here, entering, authCalls \ {c})
    BY <1>1, <2>1 DEF Entered, LeavesFor
  <2> QED BY <1>1, <2>2, <2>3, GoToFew
<1> QED BY <1>2, <1>3, <1>4, <1>5, <1>7, <1>8, <1>9, <1>10, <1>11, <1>12 DEF SessionNext

\* The visitor is on a page of the site under an account or none, and the login form
\* waits only as long as a request of its own is under way (LoginView).
THEOREM SessionTypeOKAlways == SessionSpec => []SessionTypeOK
<1>1. SessionInv /\ SessionFew => SessionTypeOK
  <2> SUFFICES ASSUME SessionInv, SessionFew PROVE SessionTypeOK
    OBVIOUS
  <2>1. Cardinality(authCalls) <= MaxAuthCalls
    BY SessionAssumption DEF SessionFew, Few
  <2> QED BY <2>1 DEF SessionInv, SessionTypes, SessionFew, Entered, SessionTypeOK, Visitor
<1>2. SessionSpec => []SessionFew
  BY SessionFewInit, SessionFewNext, SessionInvariant, PTL DEF SessionSpec
<1> QED BY <1>1, <1>2, SessionInvariant, PTL

LEMMA RanksOK == ASSUME NEW u \in Account PROVE RankOf(u) \in 1 .. 3
BY SessionAssumption DEF RankOf, Rank

LEMMA NavigationIsRight == SessionInv => NavigationFits
<1> SUFFICES ASSUME SessionInv PROVE NavigationFits
  OBVIOUS
<1>1. auth.user = NoUser \/ RankOf(auth.user) \in 1 .. 3
  BY RanksOK DEF SessionInv, SessionTypes, Visitor
<1>2. auth.user = NoUser => RankOf(auth.user) = 0
  BY DEF RankOf
<1>3. here.page \in Site
  BY DEF SessionInv, SessionTypes
<1>4. ASSUME Rendered(here, auth), here.page # "moderation" PROVE RankOf(auth.user) >= Needs[here.page]
  BY <1>1, <1>2, <1>3, <1>4, SiteIs DEF Rendered, Authorized, Needs, Guard, Rank
<1>5. ASSUME ~auth.loading, NEW p \in VisibleNav(auth)
      PROVE  Redirected([here EXCEPT !.page = p], auth).page = p
  <2>1. p \in DOMAIN NavRole /\ RankOf(auth.user) >= Rank[NavRole[p]] /\ auth.user # NoUser
    BY <1>5 DEF VisibleNav
  <2>2. Authorized(p, auth.user)
    BY <2>1 DEF Authorized, Guard, NavRole, Rank
  <2> QED BY <2>2 DEF Redirected, SessionInv, SessionTypes
<1> QED BY <1>4, <1>5 DEF NavigationFits

\* A view is rendered only for those whom its requests are answered for, and no link
\* shown leads to a page that turns its visitor away (RoleGuard, lib/routes/nav.ts).
THEOREM NavigationFitsAlways == SessionSpec => []NavigationFits
BY SessionInvariant, NavigationIsRight, PTL
-----------------------------------------------------------------------------

(* Opening an account. *)

RegistrationSpec == RegistrationInit /\ [][RegistrationNext]_registrationVars

JoinFields == {"draft", "stage", "live", "id"}

JoinOK(c) == c = [x \in JoinFields |-> c[x]] /\ c.draft \in Drafts

\* A form waits for a request of its own.
FormWaits == joining.submitting => place = "register" /\ \E c \in joins : c.live

RegistrationInv ==
  /\ place \in {"register", "login", "home"}
  /\ joining = [values |-> joining.values, errors |-> joining.errors, submitting |-> joining.submitting]
  /\ joining.values \in Drafts /\ joining.submitting \in BOOLEAN
  /\ registered \subseteq Drafts
  /\ \A c \in joins : JoinOK(c)
  /\ FormWaits

LEMMA BlankFormOK ==
  /\ BlankForm = [values |-> BlankForm.values, errors |-> BlankForm.errors, submitting |-> BlankForm.submitting]
  /\ BlankForm.values \in Drafts /\ BlankForm.submitting = FALSE
<1>1. EmptyDraft \in Drafts
  BY RegistrationAssumption DEF EmptyDraft
<1> QED BY <1>1 DEF BlankForm

LEMMA RegistrationInitOK == RegistrationInit => RegistrationInv
BY BlankFormOK DEF RegistrationInit, RegistrationInv, FormWaits

\* The page is left for p, or the form stays with the requests that are kept.
LEMMA LeaveForOK ==
  ASSUME RegistrationInv, NEW p \in {"register", "login", "home"}, NEW calls \in SUBSET joins, LeaveFor(p, calls),
         p # place \/ ~joining.submitting, UNCHANGED registered
  PROVE  RegistrationInv'
<1> USE DEF RegistrationInv
<1>1. CASE p = place
  BY <1>1 DEF LeaveFor, FormWaits
<1>2. CASE p # place
  <2>1. joining' = BlankForm /\ place' = p /\ joins' = {[c EXCEPT !.live = FALSE] : c \in calls}
    BY <1>2 DEF LeaveFor
  <2>2. \A c \in joins' : JoinOK(c)
    BY <2>1 DEF JoinOK, JoinFields
  <2>3. /\ joining' = [values |-> joining'.values, errors |-> joining'.errors, submitting |-> joining'.submitting]
        /\ joining'.values \in Drafts /\ joining'.submitting = FALSE
    BY <2>1, BlankFormOK
  <2> QED BY <2>1, <2>2, <2>3 DEF FormWaits
<1> QED BY <1>1, <1>2

LEMMA RegistrationNextOK == RegistrationInv /\ [RegistrationNext]_registrationVars => RegistrationInv'
<1> SUFFICES ASSUME RegistrationInv, [RegistrationNext]_registrationVars PROVE RegistrationInv'
  OBVIOUS
<1> USE DEF RegistrationInv
<1> DEFINE v == joining.values
           e == joining.errors
           s == joining.submitting
<1>1. CASE TypeDraft
  <2>1. PICK d \in Drafts : joining' = [joining EXCEPT !.values = d]
    BY <1>1 DEF TypeDraft
  <2>2. joining' = [values |-> d, errors |-> e, submitting |-> s]
    BY <2>1
  <2> QED BY <1>1, <2>2 DEF TypeDraft, FormWaits
<1>2. CASE SubmitRegistration
  <2>1. UNCHANGED <<place, registered>> /\ place = "register"
    BY <1>2 DEF SubmitRegistration
  <2>2. ASSUME NEW faults, joining' = [joining EXCEPT !.errors = faults], UNCHANGED joins PROVE RegistrationInv'
    <3>1. joining' = [values |-> v, errors |-> faults, submitting |-> s]
      BY <2>2
    <3> QED BY <2>1, <2>2, <3>1 DEF FormWaits
  <2>3. ASSUME joining' = [joining EXCEPT !.submitting = TRUE],
               NEW i, joins' = joins \cup {[draft |-> v, stage |-> "token", live |-> TRUE, id |-> i]}
        PROVE  RegistrationInv'
    <3>1. joining' = [values |-> v, errors |-> e, submitting |-> TRUE]
      BY <2>3
    <3> DEFINE c == [draft |-> v, stage |-> "token", live |-> TRUE, id |-> i]
    <3>2. c.live /\ c \in joins' /\ JoinOK(c)
      BY <2>3 DEF JoinOK, JoinFields
    <3>3. \A x \in joins' : JoinOK(x)
      BY <2>3, <3>2
    <3> HIDE DEF c
    <3>4. FormWaits'
      BY <2>1, <3>2 DEF FormWaits
    <3> QED BY <2>1, <3>1, <3>3, <3>4
  <2> QED BY <1>2, <2>2, <2>3 DEF SubmitRegistration
<1>3. CASE FollowLink
  <2>1. PICK p \in {"register", "login", "home"} \ {place} : LeaveFor(p, joins)
    BY <1>3 DEF FollowLink
  <2> QED BY <1>3, <2>1, LeaveForOK DEF FollowLink
<1>4. ASSUME NEW c \in joins, NEW stage, joins' = StagedJoin(c, stage), UNCHANGED <<place, joining>>,
             registered' \subseteq Drafts
      PROVE  RegistrationInv'
  <2> DEFINE d == [c EXCEPT !.stage = stage]
  <2>1. JoinOK(d) /\ d.live = c.live
    BY DEF JoinOK, JoinFields
  <2>2. joins' = (joins \ {c}) \cup {d}
    BY <1>4 DEF StagedJoin
  <2> HIDE DEF d
  <2>3. FormWaits'
    BY <1>4, <2>1, <2>2 DEF FormWaits
  <2> QED BY <1>4, <2>1, <2>2, <2>3
<1>5. CASE JoinSent
  BY <1>4, <1>5 DEF JoinSent
<1>6. CASE ServeJoin
  BY <1>4, <1>6 DEF ServeJoin, JoinOK
<1>7. CASE JoinAnswered
  <2>1. PICK c \in joins : LeaveFor("login", joins \ {c})
    BY <1>7 DEF JoinAnswered
  <2>2. "login" # place \/ ~joining.submitting
    BY DEF FormWaits
  <2> QED BY <1>7, <2>1, <2>2, LeaveForOK DEF JoinAnswered
<1>8. CASE JoinFails
  <2>1. PICK c \in joins : joins' = joins \ {c} /\ joining' = [joining EXCEPT !.submitting = @ /\ ~c.live]
    BY <1>8 DEF JoinFails
  <2>2. joining' = [values |-> v, errors |-> e, submitting |-> s /\ ~c.live] /\ UNCHANGED <<place, registered>>
    BY <1>8, <2>1 DEF JoinFails
  <2> QED BY <2>1, <2>2 DEF FormWaits
<1>9. CASE UNCHANGED registrationVars
  BY <1>9 DEF registrationVars, FormWaits
<1> QED BY <1>1, <1>2, <1>3, <1>5, <1>6, <1>7, <1>8, <1>9 DEF RegistrationNext

\* The registration page shows a form that may be typed, which waits only as long
\* as a request of its own is under way, and accounts are opened with such forms
\* only.
THEOREM RegistrationTypeOKAlways == RegistrationSpec => []RegistrationTypeOK
<1>1. RegistrationInv => RegistrationTypeOK
  BY DEF RegistrationInv, RegistrationTypeOK, FormWaits
<1> QED BY <1>1, RegistrationInitOK, RegistrationNextOK, PTL DEF RegistrationSpec
=============================================================================
