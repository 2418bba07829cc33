--------------------------------- MODULE Access ---------------------------------
(***************************************************************************)
(* Accounts, sessions and roles: signup, login, logout, members and the    *)
(* event log of src/server.js, and the two operator scripts that provision *)
(* accounts beside the running server (scripts/manage-pilot-workspace.js,  *)
(* scripts/manage-demo-user.js).                                           *)
(*                                                                         *)
(* A request reads its session, then awaits its body, and acts in a        *)
(* transaction with the account it read before.  Every account is created  *)
(* together with its one membership, so both are one record here.          *)
(***************************************************************************)
EXTENDS FiniteSets, Naturals

CONSTANTS
  Users,        \* e-mail addresses
  Orgs,         \* organizations
  NoOrg,        \* the organization of an unknown user
  Calls,        \* requests served at the same time
  SessionTtl,   \* sessionTtlMs
  MaxClock,     \* bound: the clock
  MaxSessions,  \* bound: sessions ever opened
  MaxPasswords  \* bound: passwords an account ever has

ASSUME AccessAssumption ==
  /\ {SessionTtl, MaxClock, MaxSessions} \subseteq Nat
  /\ MaxPasswords \in Nat \ {0}
  /\ NoOrg \notin Orgs

VARIABLES
  accounts,     \* db.users and db.memberships
  orgs,         \* db.organizations
  sessions,     \* db.sessions, by identifier
  clock,        \* Date.now()
  held          \* what each request read of its session

accessVars == <<accounts, orgs, sessions, clock, held>>

Roles == {"viewer", "analyst", "admin", "owner"}

\* ROLE_RANK
Rank(role) == CASE role = "viewer" -> 0 [] role = "analyst" -> 1
                [] role = "admin" -> 2 [] role = "owner" -> 3

\* "password" counts the passwords of the account: 0 is an unknown user.
\* accessExpiresAt is past the clock when it is null.
Never == MaxClock + 1
Account == [org : Orgs \cup {NoOrg}, role : Roles, password : 0..MaxPasswords,
            expires : 0..Never]

Unknown == [org |-> NoOrg, role |-> "viewer", password |-> 0, expires |-> Never]

\* "with" is the password the session was opened with.
Session == [user : Users, expires : Nat, with : 1..MaxPasswords]

NoRequest == [pc |-> "idle"]
Authenticated == [pc : {"authenticated"}, session : 1..MaxSessions, user : Users,
                  org : Orgs, role : Roles]

AccessTypeOK ==
  /\ accounts \in [Users -> Account]
  /\ orgs \subseteq Orgs
  /\ \A s \in DOMAIN sessions : s \in 1..MaxSessions /\ sessions[s] \in Session
  /\ clock \in 0..MaxClock
  /\ held \in [Calls -> {NoRequest} \cup Authenticated]

AccessInit ==
  /\ accounts = [u \in Users |-> Unknown]
  /\ orgs = {}
  /\ sessions = <<>>
  /\ clock = 0
  /\ held = [r \in Calls |-> NoRequest]

Known(u) == accounts[u].password > 0

Without(u) == [s \in {x \in DOMAIN sessions : sessions[x].user # u} |-> sessions[s]]

\* What is stored of an account.
Joined(u, org, role, password, expires) ==
  accounts' = [accounts EXCEPT ![u] =
    [org |-> org, role |-> role, password |-> password, expires |-> expires]]

-----------------------------------------------------------------------------
(* Sessions                                                                *)

\* A cookie is an identifier with the server's signature of it: none verifies
\* but those of the identifiers that createSession gave out.
SignedIds == 1..MaxSessions

\* createSession, with an identifier nobody holds.
OpenSession(u, password) ==
  \E s \in SignedIds :
    /\ s \notin DOMAIN sessions
    /\ \A r \in Calls : held[r] # NoRequest => held[r].session # s
    /\ sessions' = [x \in DOMAIN sessions \cup {s} |->
         IF x = s THEN [user |-> u, expires |-> clock + SessionTtl, with |-> password]
                  ELSE sessions[x]]

\* signup: one new organization, its owner and a session.
Signup(u, org) ==
  /\ ~Known(u)
  /\ org \notin orgs
  /\ orgs' = orgs \cup {org}
  /\ Joined(u, org, "owner", 1, Never)
  /\ OpenSession(u, 1)
  /\ UNCHANGED <<clock, held>>

\* login with the right password.  An expired account is refused by throwing,
\* and the removal of its sessions just before is not written.
Login(u) ==
  /\ Known(u)
  /\ accounts[u].expires > clock
  /\ OpenSession(u, accounts[u].password)
  /\ UNCHANGED <<accounts, orgs, clock, held>>

\* getRequestSession finds the session, its user and the membership.
Usable(s) ==
  /\ sessions[s].expires >= clock
  /\ accounts[sessions[s].user].expires > clock

\* requireSession and requestContext: the account as it is now is what the
\* request will act with.
Authenticate(r, s) ==
  /\ held[r] = NoRequest
  /\ s \in DOMAIN sessions
  /\ Usable(s)
  /\ LET u == sessions[s].user IN
       held' = [held EXCEPT ![r] =
         [pc |-> "authenticated", session |-> s, user |-> u,
          org |-> accounts[u].org, role |-> accounts[u].role]]
  /\ UNCHANGED <<accounts, orgs, sessions, clock>>

\* requireRole
Holds(r, role) == held[r] # NoRequest /\ Rank(held[r].role) >= Rank(role)

Answers(r) == held' = [held EXCEPT ![r] = NoRequest]

\* The answer of a request that reads, or is refused.
Answered(r) ==
  /\ held[r] # NoRequest
  /\ Answers(r)
  /\ UNCHANGED <<accounts, orgs, sessions, clock>>

\* POST /api/auth/logout
Logout(r) ==
  /\ held[r] # NoRequest
  /\ sessions' = [s \in DOMAIN sessions \ {held[r].session} |-> sessions[s]]
  /\ Answers(r)
  /\ UNCHANGED <<accounts, orgs, clock>>

-----------------------------------------------------------------------------
(* Members                                                                 *)

\* createWorkspaceMember: the role is assignable, the address unknown.
CreateMember(r, u, role) ==
  /\ Holds(r, "owner")
  /\ role # "owner"
  /\ ~Known(u)
  /\ Joined(u, held[r].org, role, 1, Never)
  /\ Answers(r)
  /\ UNCHANGED <<orgs, sessions, clock>>

\* SELF_ROLE_CHANGE_BLOCKED and OWNER_ROLE_PROTECTED
Changeable(r, u) == u # held[r].user /\ accounts[u].role # "owner"

\* updateWorkspaceMemberRole
ChangeRole(r, u, role) ==
  /\ Holds(r, "owner")
  /\ role # "owner"
  /\ Known(u)
  /\ accounts[u].org = held[r].org
  /\ Changeable(r, u)
  /\ Joined(u, accounts[u].org, role, accounts[u].password, accounts[u].expires)
  /\ Answers(r)
  /\ UNCHANGED <<orgs, sessions, clock>>

-----------------------------------------------------------------------------
(* Operator scripts                                                        *)

\* Mutant: a rotated account keeps its sessions.
SessionsKept(u) == sessions

\* db.sessions.filter when a password is rotated
RotatedSessions(u) == Without(u)

\* upsertPilotUser, called by provisionSinglePilotUser with rotate and by
\* provisionQaWorkspace with or without: the organization is created when it is
\* missing, an account of another one is refused, and the access is renewed.
ProvisionPilotUser(u, org, role, rotate, expires) ==
  /\ Known(u) => accounts[u].org = org
  /\ expires \in (clock + 1)..MaxClock
  /\ orgs' = orgs \cup {org}
  /\ IF Known(u) /\ ~rotate
       THEN /\ Joined(u, org, role, accounts[u].password, expires)
            /\ UNCHANGED sessions
       ELSE /\ accounts[u].password < MaxPasswords
            /\ Joined(u, org, role, accounts[u].password + 1, expires)
            /\ sessions' = RotatedSessions(u)
  /\ UNCHANGED <<clock, held>>

\* provisionQaWorkspace with disable: an unknown account is refused, its password
\* being empty; a known one gets the role of its identity and is closed.
DisableQaUser(u, role) ==
  /\ Known(u)
  /\ Joined(u, accounts[u].org, role, accounts[u].password, clock)
  /\ sessions' = Without(u)
  /\ UNCHANGED <<orgs, clock, held>>

\* manage-demo-user: a known account is moved to the organization as a viewer.
ProvisionDemoUser(u, org, expires) ==
  /\ org \in orgs
  /\ expires \in (clock + 1)..MaxClock
  /\ accounts[u].password < MaxPasswords
  /\ Joined(u, org, "viewer", accounts[u].password + 1, expires)
  /\ sessions' = RotatedSessions(u)
  /\ UNCHANGED <<orgs, clock, held>>

Operate ==
  \E u \in Users :
    \/ \E org \in Orgs, role \in Roles, rotate \in BOOLEAN, expires \in 1..MaxClock :
         ProvisionPilotUser(u, org, role, rotate, expires)
    \/ \E role \in Roles : DisableQaUser(u, role)
    \/ \E org \in Orgs, expires \in 1..MaxClock : ProvisionDemoUser(u, org, expires)

-----------------------------------------------------------------------------
TimePasses ==
  /\ clock < MaxClock
  /\ clock' = clock + 1
  /\ UNCHANGED <<accounts, orgs, sessions, held>>

AccessNext ==
  \/ \E u \in Users, org \in Orgs : Signup(u, org)
  \/ \E u \in Users : Login(u)
  \/ \E r \in Calls, s \in SignedIds : Authenticate(r, s)
  \/ \E r \in Calls : Answered(r)
  \/ \E r \in Calls : Logout(r)
  \/ \E r \in Calls, u \in Users, role \in Roles : CreateMember(r, u, role)
  \/ \E r \in Calls, u \in Users, role \in Roles : ChangeRole(r, u, role)
  \/ Operate
  \/ TimePasses

AccessSpec == AccessInit /\ [][AccessNext]_accessVars

-----------------------------------------------------------------------------
(* Properties                                                              *)

\* A stored session was opened with the password the account has now, because
\* rotating a credential ends every session, also one opened just before the
\* script ran; and whatever members of an organization do to each other, also with
\* roles that were taken from them meanwhile, no owner loses the role: only an
\* operator's script can lock a workspace.
SessionsAreCurrent ==
  \A s \in DOMAIN sessions : sessions[s].with = accounts[sessions[s].user].password

OwnersKeepTheirRole ==
  \/ \A u \in Users : Known(u) /\ accounts[u].role = "owner" => accounts'[u] = accounts[u]
  \/ Operate

AccessHolds == [][SessionsAreCurrent' /\ OwnersKeepTheirRole]_accessVars

=============================================================================
