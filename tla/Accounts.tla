------------------------------- MODULE Accounts -------------------------------
(***************************************************************************)
(* Accounts, tenants, tokens and saved projects: what the API does between *)
(* two statements of the database, for several browser tabs at once.  A    *)
(* request runs in one thread of the API, which may die between any two of *)
(* its commits; the unique constraints of the tables refuse a commit (500).*)
(* A tab holds a token, the code in its editor, and at most one request.   *)
(***************************************************************************)
EXTENDS Integers, FiniteSets, FiniteSetsExt

CONSTANTS
    Tabs,
    Usernames,
    SlugOf,      \* build_tenant_slug: two names may give the same slug
    Legacy,      \* an account from before PBKDF2, [username, password] or none
    Passwords,
    MaxRequests  \* bound: requests, expiries and crashes

NoCode == "none"  \* no project

ASSUME AccountsAssumption ==
    /\ SlugOf \in [Usernames -> Nat] /\ MaxRequests \in Nat
    /\ Legacy \subseteq [username : Usernames, password : Passwords]
    /\ IsFiniteSet(Legacy) /\ Cardinality(Legacy) <= 1
    /\ NoCode \notin Tabs

VARIABLES
    tenants,   \* table tenant: slugs, as <<base, suffix>>
    users,     \* table user, by username
    projects,  \* table project, of one name: by owner, its code
    requests,
    tabs       \* per tab: its request, what it has read, its token and its editor

acVars == <<tenants, users, projects, requests, tabs>>

NoUser == [slug |-> <<0, 0>>, password |-> "", form |-> "none", logins |-> 0, valid |-> FALSE]
NoToken == [user |-> "", number |-> 0]
NewTab == [at |-> "idle", name |-> "", password |-> "", slug |-> <<0, 0>>, legacy |-> FALSE, found |-> FALSE,
           registered |-> FALSE, issued |-> NoToken, token |-> NoToken, code |-> NoCode, saved |-> FALSE]
Exists(n) == users[n].form # "none"

AcInit ==
    /\ tenants = {<<SlugOf[l.username], 1>> : l \in Legacy}
    /\ users = [n \in Usernames |->
         IF \E l \in Legacy : l.username = n
         THEN [NoUser EXCEPT !.slug = <<SlugOf[n], 1>>, !.form = "legacy",
                 !.password = (CHOOSE l \in Legacy : TRUE).password]
         ELSE NoUser]
    /\ projects = [n \in Usernames |-> NoCode] /\ requests = 0
    /\ tabs = [t \in Tabs |-> [NewTab EXCEPT !.code = t]]

\* One step of tab t's request; e is the tab after it.
Does(t, stage, e) == tabs[t].at = stage /\ tabs' = [tabs EXCEPT ![t] = e]
ReadsOnly == UNCHANGED <<tenants, users, projects>>
\* What is refused at once (401, 409) changes nothing and is left out.
Asked == requests < MaxRequests /\ requests' = requests + 1
Released(e) == [e EXCEPT !.at = "idle", !.slug = <<0, 0>>, !.found = FALSE, !.legacy = FALSE]

(***************************************************************************)
(* register_user: two reads, then a commit each for tenant and user.       *)
(***************************************************************************)
Register(t) ==
    /\ ReadsOnly /\ Asked
    /\ \E n \in Usernames, p \in Passwords :
         /\ ~Exists(n)
         /\ Does(t, "idle", [tabs[t] EXCEPT !.at = "slug", !.name = n, !.password = p,
                                             !.registered = FALSE, !.saved = FALSE])
FreeSlug(base) == <<base, Min({k \in 1 .. Cardinality(tenants) + 1 : <<base, k>> \notin tenants})>>
ChooseSlug(t) ==
    /\ ReadsOnly /\ UNCHANGED requests
    /\ Does(t, "slug", [tabs[t] EXCEPT !.at = "tenant", !.slug = FreeSlug(SlugOf[tabs[t].name])])
AddTenant(t) ==
    /\ UNCHANGED <<users, projects, requests>>
    /\ IF tabs[t].slug \in tenants
       THEN Does(t, "tenant", Released(tabs[t])) /\ UNCHANGED tenants
       ELSE Does(t, "tenant", [tabs[t] EXCEPT !.at = "user"]) /\ tenants' = tenants \cup {tabs[t].slug}
Fresh(e) == [NoUser EXCEPT !.slug = e.slug, !.password = e.password, !.form = "pbkdf2"]

\* Faulty variant: the name is not unique.
AddUserUnconstrained(t) ==
    /\ tabs[t].at = "user" /\ UNCHANGED <<tenants, projects, requests>>
    /\ Does(t, "user", [Released(tabs[t]) EXCEPT !.registered = TRUE])
    /\ users' = [users EXCEPT ![tabs[t].name] = Fresh(tabs[t])]

AddUser(t) ==
    /\ tabs[t].at = "user" /\ UNCHANGED <<tenants, projects, requests>>
    /\ IF Exists(tabs[t].name)
       THEN Does(t, "user", Released(tabs[t])) /\ UNCHANGED users
       ELSE /\ Does(t, "user", [Released(tabs[t]) EXCEPT !.registered = TRUE])
            /\ users' = [users EXCEPT ![tabs[t].name] = Fresh(tabs[t])]

(***************************************************************************)
(* login_user: each login replaces the token, and the hash of an account   *)
(* from before PBKDF2; api.auth.login then looks its own token up.         *)
(***************************************************************************)
Login(t) ==
    /\ ReadsOnly /\ Asked
    /\ \E n \in Usernames, p \in Passwords :
         /\ Exists(n) /\ users[n].password = p
         /\ Does(t, "idle", [tabs[t] EXCEPT !.at = "token", !.name = n, !.password = p,
                              !.legacy = users[n].form = "legacy", !.registered = FALSE, !.saved = FALSE])
Upgraded(u, e) == IF e.legacy THEN [u EXCEPT !.form = "pbkdf2", !.password = e.password] ELSE u
SetToken(t) ==
    tabs[t].at = "token" /\
    LET n == tabs[t].name
        next == users[n].logins + 1 IN
    /\ Does(t, "token", [tabs[t] EXCEPT !.at = "verify", !.issued = [user |-> n, number |-> next]])
    /\ users' = [users EXCEPT ![n] = [Upgraded(@, tabs[t]) EXCEPT !.logins = next, !.valid = TRUE]]
    /\ UNCHANGED <<tenants, projects, requests>>
Accepts(token) == token # NoToken /\ users[token.user].valid /\ users[token.user].logins = token.number
\* Overtaken by another login of the user, it fails and the tab gets no token.
VerifyLogin(t) ==
    /\ ReadsOnly /\ UNCHANGED requests
    /\ Does(t, "verify", [Released(tabs[t]) EXCEPT
         !.issued = NoToken, !.token = IF Accepts(tabs[t].issued) THEN tabs[t].issued ELSE @])
Logout(t) == ReadsOnly /\ Asked /\ tabs[t].token # NoToken /\ Does(t, "idle", [tabs[t] EXCEPT !.token = NoToken])
Expire(n) ==
    /\ Asked /\ users[n].valid /\ users' = [users EXCEPT ![n].valid = FALSE]
    /\ UNCHANGED <<tenants, projects, tabs>>

(***************************************************************************)
(* Projects: every user's project of one name.  A save looks the name up,  *)
(* then inserts or updates; a load goes by the owner's id.  The editor's   *)
(* code is known by the tab it was written in.                             *)
(***************************************************************************)
SaveProject(t) ==
    /\ ReadsOnly /\ Asked /\ Accepts(tabs[t].token)
    /\ LET n == tabs[t].token.user IN
       Does(t, "idle", [tabs[t] EXCEPT !.at = "save", !.name = n, !.found = projects[n] # NoCode, !.saved = FALSE,
                                        !.registered = FALSE])
\* The row that another request inserted meanwhile refuses the insert.
CommitProject(t) ==
    /\ tabs[t].at = "save" /\ UNCHANGED <<tenants, users, requests>>
    /\ LET n == tabs[t].name IN
       IF ~tabs[t].found /\ projects[n] # NoCode
       THEN Does(t, "save", Released(tabs[t])) /\ UNCHANGED projects
       ELSE /\ Does(t, "save", [Released(tabs[t]) EXCEPT !.saved = TRUE])
            /\ projects' = [projects EXCEPT ![n] = tabs[t].code]
LoadProject(t) ==
    /\ ReadsOnly /\ Asked /\ Accepts(tabs[t].token) /\ projects[tabs[t].token.user] # NoCode
    /\ Does(t, "idle", [tabs[t] EXCEPT !.code = projects[tabs[t].token.user]])

\* The API dies: what was committed stays, the requests end without answer.
ApiDies ==
    /\ Asked
    /\ \E t \in Tabs : tabs[t].at # "idle"
    /\ tabs' = [t \in Tabs |-> IF tabs[t].at = "idle" THEN tabs[t]
                              ELSE [Released(tabs[t]) EXCEPT !.issued = NoToken]]
    /\ ReadsOnly

AcNext ==
    \/ \E t \in Tabs :
        \/ Register(t) \/ ChooseSlug(t) \/ AddTenant(t) \/ AddUser(t)
        \/ Login(t) \/ SetToken(t) \/ VerifyLogin(t) \/ Logout(t)
        \/ SaveProject(t) \/ CommitProject(t) \/ LoadProject(t)
    \/ (\E n \in Usernames : Expire(n)) \/ ApiDies

AcTypeOK ==
    /\ requests \in 0 .. MaxRequests /\ tenants \subseteq {SlugOf[n] : n \in Usernames} \X Nat
    /\ DOMAIN users = Usernames /\ DOMAIN tabs = Tabs
    /\ \A n \in Usernames :
        /\ users[n].slug \in tenants \cup {NoUser.slug} /\ users[n].password \in Passwords \cup {""}
        /\ users[n].form \in {"none", "legacy", "pbkdf2"} /\ users[n].logins \in Nat /\ users[n].valid \in BOOLEAN
    /\ projects \in [Usernames -> Tabs \cup {NoCode}]
    /\ \A t \in Tabs : tabs[t].at \in {"idle", "slug", "tenant", "user", "token", "verify", "save"}

\* Whoever was told that the account is registered logs in with his own
\* password; users never share a tenant; the tokens of two tabs that log in
\* separately never serve the same user; a saved project is there, whichever
\* requests raced (auth_service, ensure_unique_tenant_slug, upsert_project).
AccountsHold ==
    /\ \A t \in Tabs : tabs[t].registered =>
        Exists(tabs[t].name) /\ users[tabs[t].name].password = tabs[t].password
    /\ \A n, m \in Usernames : Exists(n) /\ n # m =>
        users[n].slug \in tenants /\ users[n].slug # users[m].slug
    /\ \A t, u \in Tabs : t # u /\ Accepts(tabs[t].token) /\ Accepts(tabs[u].token) =>
        tabs[t].token.user # tabs[u].token.user
    /\ \A t \in Tabs : tabs[t].saved => projects[tabs[t].name] # NoCode
===============================================================================
