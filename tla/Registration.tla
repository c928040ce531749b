----------------------------- MODULE Registration -----------------------------
(***************************************************************************)
(* Opening an account: the registration page (views/RegistrationView.tsx),  *)
(* the checks of the forms (lib/validators) and the endpoint               *)
(* (app/controllers/authentication_controller.py), which checks again.      *)
(***************************************************************************)
EXTENDS Naturals, FiniteSets

CONSTANTS
  Drafts,    \* what may be typed into the forms, the empty form among them
  MaxJoins   \* registrations under way, at most

\* Nothing is typed yet.
BlankDraft(d) == ~d.name /\ d.username.length = 0 /\ d.email = "" /\ d.password.length = 0

ASSUME RegistrationAssumption ==
  /\ MaxJoins \in Nat \ {0}
  /\ (\E d \in Drafts : BlankDraft(d)) /\ \A d \in Drafts :
       /\ DOMAIN d = {"name", "username", "email", "password", "confirm"}
       /\ d.name \in BOOLEAN  \* whether there is one
       /\ d.username \in [length : Nat, plain : BOOLEAN]
       /\ d.email \in {"", "odd", "at", "address"}  \* "at": no more than an @
       /\ {d.password, d.confirm} \subseteq [length : Nat, word : STRING]

VARIABLES
  place,       \* the page: "register", "login", or another
  joining,     \* [values, errors, submitting]: the form
  joins,       \* requests: [id, draft, stage, live]
  registered   \* on the server: what accounts were opened with

registrationVars == <<place, joining, joins, registered>>

EmptyDraft == CHOOSE d \in Drafts : BlankDraft(d)

BlankForm == [values |-> EmptyDraft, errors |-> {}, submitting |-> FALSE]

JoinRoom == Cardinality(joins) < MaxJoins

StagedJoin(c, stage) == (joins \ {c}) \cup {[c EXCEPT !.stage = stage]}
-----------------------------------------------------------------------------
(* The forms' checks, and the server's. *)

EmailFault(d) == IF d.email = "address" THEN {} ELSE {"email"}

\* validateLoginForm.
LoginFaults(d) == EmailFault(d) \cup (IF d.password.length = 0 THEN {"password"} ELSE {})

\* validateRegistrationForm.
RegistrationFaults(d) ==
  EmailFault(d)
  \cup {f \in {"name", "username", "password", "confirm"} :
          CASE f = "name"     -> ~d.name
            [] f = "username" -> d.username.length \notin 3 .. 32 \/ ~d.username.plain
            [] f = "password" -> d.password.length < 8
            [] f = "confirm"  -> d.confirm.length = 0 \/ d.confirm # d.password}

\* _validate_registration_payload.
Registrable(d) ==
  /\ d.name /\ d.username.length \in 6 .. 12 /\ d.username.plain
  /\ d.email \in {"at", "address"} /\ d.password.length >= 8

\* The button is disabled while a request is under way or a fault is shown.
CanSubmit(form) == ~form.submitting /\ form.errors = {}
-----------------------------------------------------------------------------
RegistrationInit == place = "register" /\ joining = BlankForm /\ joins = {} /\ registered = {}

\* setField: the faults that the last submission found stay.
TypeDraft ==
  /\ place = "register"
  /\ \E d \in Drafts \ {joining.values} : joining' = [joining EXCEPT !.values = d]
  /\ UNCHANGED <<place, joins, registered>>

\* onSubmit.
SubmitRegistration ==
  /\ place = "register" /\ CanSubmit(joining)
  /\ LET faults == RegistrationFaults(joining.values) IN
       \/ faults # {} /\ joining' = [joining EXCEPT !.errors = faults] /\ UNCHANGED joins
       \/ /\ faults = {} /\ JoinRoom
          /\ joining' = [joining EXCEPT !.submitting = TRUE]
          /\ joins' = joins \cup {[draft |-> joining.values, stage |-> "token", live |-> TRUE,
                                   id |-> CHOOSE i \in 1 .. MaxJoins : \A c \in joins : c.id # i]}
  /\ UNCHANGED <<place, registered>>

\* The page becomes p: its form is blank, and the answers to what the former one
\* has sent change none.
LeaveFor(p, calls) ==
  /\ place' = p
  /\ IF p = place THEN joins' = calls /\ UNCHANGED joining
     ELSE joins' = {[c EXCEPT !.live = FALSE] : c \in calls} /\ joining' = BlankForm

\* The links between the two forms and the home page.
FollowLink ==
  /\ \E p \in {"register", "login", "home"} \ {place} : LeaveFor(p, joins)
  /\ UNCHANGED registered

\* The token is there, or the request goes without one and is refused.
JoinSent ==
  /\ \E c \in joins, stage \in {"sent", "refused"} : c.stage = "token" /\ joins' = StagedJoin(c, stage)
  /\ UNCHANGED <<place, joining, registered>>

\* POST /auth/register: refused for what is in it, or for a username or an email
\* that an account has, be it one of others.
ServeJoin ==
  /\ \E c \in joins :
       /\ c.stage = "sent"
       /\ \/ /\ Registrable(c.draft) /\ c.draft \notin registered
             /\ registered' = registered \cup {c.draft}
             /\ joins' = StagedJoin(c, "served")
          \/ joins' = StagedJoin(c, "refused") /\ UNCHANGED registered
  /\ UNCHANGED <<place, joining>>

\* The login page is gone to whether or not the form is still there.
JoinAnswered ==
  /\ \E c \in joins : c.stage = "served" /\ LeaveFor("login", joins \ {c})
  /\ UNCHANGED registered

\* The request was refused, or its answer was lost.
JoinFails ==
  /\ \E c \in joins :
       /\ c.stage # "token" /\ joins' = joins \ {c}
       /\ joining' = [joining EXCEPT !.submitting = @ /\ ~c.live]
  /\ UNCHANGED <<place, registered>>

RegistrationNext ==
  \/ TypeDraft \/ SubmitRegistration \/ FollowLink
  \/ JoinSent \/ ServeJoin \/ JoinAnswered \/ JoinFails
-----------------------------------------------------------------------------
\* A form waits only as long as its request is under way.
RegistrationTypeOK ==
  /\ place \in {"register", "login", "home"} /\ joining.values \in Drafts /\ registered \subseteq Drafts
  /\ joining.submitting => place = "register" /\ \E c \in joins : c.live
=============================================================================
