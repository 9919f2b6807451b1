--------------------------- MODULE FamilyAccounts ---------------------------
(***************************************************************************)
(* The accounts of the family companion: the requests of the server that   *)
(* change them (signup, invite, accept, profile, important events, login), *)
(* FamilyStateStore with its JSON file, the agents of FamilyService and    *)
(* the sessions of AuthService.                                            *)
(*                                                                         *)
(* Requests run in the server's thread pool. A request is the list of      *)
(* steps it has left; between two steps another thread may run, since the  *)
(* store has no lock. Writing the file is two steps: opening it, which     *)
(* empties it, and dumping the store into it.                              *)
(***************************************************************************)
EXTENDS Naturals, Sequences, FiniteSets

CONSTANTS
  Thread,       \* threads of the pool
  Family,       \* family ids
  Email,        \* addresses, compared without case
  User,         \* user ids (random: none is drawn twice)
  Invite,       \* invite tokens (random)
  MaxRequests,  \* bound of the model: requests served
  MaxRestarts,  \* bound of the model: restarts of the server
  None,         \* no owner, no entry
  Torn          \* a file that is not JSON

ASSUME AccountsAssumption ==
  /\ None \notin User \cup Family \cup Email \cup Invite
  /\ MaxRequests \in Nat /\ MaxRestarts \in Nat

VARIABLES
  families,  \* the "families" of the store: owner and important events
  users,     \* the "users" of the store
  invites,   \* the "invites" of the store
  agents,    \* FamilyService.agents
  sessions,  \* users with a session token
  disk,      \* the file
  writers,   \* threads that have the file open
  clash,     \* those that another thread disturbed while they had it open
  request,   \* what each thread is doing
  drawn,     \* user ids and invite tokens already drawn
  served, restarts,
  answered   \* for the properties: families whose signup was answered

vars == <<families, users, invites, agents, sessions, disk, writers, clash,
          request, drawn, served, restarts, answered>>

store == <<families, users, invites>>

Contents == [families |-> families, users |-> users, invites |-> invites]
Empty == [families |-> [f \in Family |-> None], users |-> [u \in User |-> None],
          invites |-> [i \in Invite |-> None]]

(* A request: the steps left and what it carries. `read` is the entry it   *)
(* has read and will write back.                                           *)
NoRequest ==
  [todo |-> <<>>, family |-> None, email |-> None, user |-> None,
   role |-> "member", invite |-> None, read |-> None]

Role == {"owner", "member"}

Save == <<"open", "dump">>

AddMemberSteps == <<"readFamily", "addMember">> \o Save

RegisterSteps == <<"checkUser", "addUser">> \o Save \o AddMemberSteps

SignupSteps ==
  <<"checkFamily", "addAgent", "readFamily", "putFamily">> \o Save \o RegisterSteps
    \o <<"readFamily", "putOwner">> \o Save \o <<"login">>

(* Mutant of AcceptSteps: the invite is marked before the user exists.     *)
AcceptStepsMarkFirst ==
  <<"checkInvite", "useInvite">> \o Save \o RegisterSteps \o <<"login">>

AcceptSteps == <<"checkInvite">> \o RegisterSteps \o <<"useInvite">> \o Save \o <<"login">>

InviteSteps == <<"checkOwner", "saveInvite">> \o Save

(* Mutant of EventsSteps: nothing is written.                              *)
EventsStepsUnsaved == <<"readFamily", "putEvents">>

EventsSteps == <<"readFamily", "putEvents">> \o Save

ProfileSteps == <<"readUser", "putUser">> \o Save

-----------------------------------------------------------------------------
Init ==
  /\ families = Empty.families /\ users = Empty.users /\ invites = Empty.invites
  /\ agents = {} /\ sessions = {}
  /\ disk = Contents
  /\ writers = {} /\ clash = {}
  /\ request = [t \in Thread |-> NoRequest]
  /\ drawn = {}
  /\ served = 0 /\ restarts = 0
  /\ answered = {}

UsersWith(e) == {u \in User : users[u] # None /\ users[u].email = e}

(* A family entry as a payload is merged into it.                          *)
Entry(read) == IF read = None THEN [owner |-> None, events |-> 0] ELSE read

At(t, step) == request[t].todo # <<>> /\ Head(request[t].todo) = step

(* The step is done with request r; or the request ends in an error.       *)
Done(t, r) == request' = [request EXCEPT ![t] = [r EXCEPT !.todo = Tail(@)]]
Refuse(t) == request' = [request EXCEPT ![t] = NoRequest]

(* The step asks for P and goes on, or refuses the request.                *)
Check(t, P, r) == IF P THEN Done(t, r) ELSE Refuse(t)

(* A change of the store disturbs the threads that are dumping it.         *)
Disturb == clash' = clash \cup writers

outside == <<disk, writers, served, restarts, answered>>

-----------------------------------------------------------------------------
(* Requests arrive.                                                        *)
Begin(t, r) ==
  /\ request[t].todo = <<>>
  /\ served < MaxRequests
  /\ served' = served + 1
  /\ request' = [request EXCEPT ![t] = r]
  /\ UNCHANGED <<store, agents, sessions, disk, writers, clash, drawn, restarts, answered>>

Signup(t) ==
  \E f \in Family, e \in Email :
    Begin(t, [NoRequest EXCEPT !.todo = SignupSteps, !.family = f, !.email = e,
                               !.role = "owner"])

Accept(t) ==
  \E i \in Invite \cap drawn, e \in Email :
    Begin(t, [NoRequest EXCEPT !.todo = AcceptSteps, !.invite = i, !.email = e])

(* The role is the inviter's choice.                                       *)
InviteMember(t) ==
  \E u \in sessions, f \in Family, e \in Email, r \in Role :
    Begin(t, [NoRequest EXCEPT !.todo = InviteSteps, !.user = u, !.family = f,
                               !.email = e, !.role = r])

(* The important events of the user's family are replaced.                 *)
SaveEvents(t) ==
  \E u \in sessions :
    /\ users[u].family \in agents
    /\ Begin(t, [NoRequest EXCEPT !.todo = EventsSteps, !.user = u,
                                  !.family = users[u].family])

UpdateProfile(t) ==
  \E u \in sessions : Begin(t, [NoRequest EXCEPT !.todo = ProfileSteps, !.user = u])

-----------------------------------------------------------------------------
(* Steps on families.                                                      *)

CheckFamily(t) ==
  /\ At(t, "checkFamily")
  /\ Check(t, request[t].family \notin agents, request[t])
  /\ UNCHANGED <<store, agents, sessions, clash, drawn, outside>>

(* The chain calls are over; the agent is registered.                      *)
AddAgent(t) ==
  /\ At(t, "addAgent")
  /\ agents' = agents \cup {request[t].family}
  /\ Done(t, request[t])
  /\ UNCHANGED <<store, sessions, clash, drawn, outside>>

ReadFamily(t) ==
  /\ At(t, "readFamily")
  /\ Done(t, [request[t] EXCEPT !.read = families[request[t].family]])
  /\ UNCHANGED <<store, agents, sessions, clash, drawn, outside>>

(* upsert_family and the write back of add_family_member: the entry as it  *)
(* was read, with the change.                                              *)
WriteFamily(t, step, entry) ==
  /\ At(t, step)
  /\ families' = [families EXCEPT ![request[t].family] = entry]
  /\ Disturb
  /\ Done(t, request[t])
  /\ UNCHANGED <<users, invites, agents, sessions, drawn, outside>>

PutFamily(t) == WriteFamily(t, "putFamily", Entry(request[t].read))

AddMember(t) == WriteFamily(t, "addMember", Entry(request[t].read))

PutOwner(t) ==
  WriteFamily(t, "putOwner", [Entry(request[t].read) EXCEPT !.owner = request[t].user])

PutEvents(t) ==
  WriteFamily(t, "putEvents", [Entry(request[t].read) EXCEPT !.events = 1])

-----------------------------------------------------------------------------
(* Steps on users and invites.                                             *)

(* The family must exist and the address be new; hashing the password      *)
(* comes between this and the next step.                                   *)
CheckUser(t) ==
  /\ At(t, "checkUser")
  /\ Check(t, /\ families[request[t].family] # None
              /\ UsersWith(request[t].email) = {}, request[t])
  /\ UNCHANGED <<store, agents, sessions, clash, drawn, outside>>

AddUser(t) ==
  /\ At(t, "addUser")
  /\ \E u \in User \ drawn :
       /\ users' = [users EXCEPT ![u] =
            [family |-> request[t].family, email |-> request[t].email,
             role |-> request[t].role, name |-> 0]]
       /\ drawn' = drawn \cup {u}
       /\ Done(t, [request[t] EXCEPT !.user = u])
  /\ Disturb
  /\ UNCHANGED <<families, invites, agents, sessions, outside>>

ReadUser(t) ==
  /\ At(t, "readUser")
  /\ Check(t, users[request[t].user] # None,
              [request[t] EXCEPT !.read = users[request[t].user]])
  /\ UNCHANGED <<store, agents, sessions, clash, drawn, outside>>

(* Mutant of PutUser: the profile replaces the entry.                      *)
PutUserOnly(t) ==
  /\ At(t, "putUser")
  /\ users' = [users EXCEPT ![request[t].user] =
       [family |-> None, email |-> None, role |-> "member", name |-> 1]]
  /\ Disturb
  /\ Done(t, request[t])
  /\ UNCHANGED <<families, invites, agents, sessions, drawn, outside>>

PutUser(t) ==
  /\ At(t, "putUser")
  /\ users' = [users EXCEPT ![request[t].user] = [request[t].read EXCEPT !.name = 1]]
  /\ Disturb
  /\ Done(t, request[t])
  /\ UNCHANGED <<families, invites, agents, sessions, drawn, outside>>

CheckOwner(t) ==
  LET f == request[t].family IN
  /\ At(t, "checkOwner")
  /\ Check(t, /\ families[f] # None
              /\ families[f].owner = request[t].user
              /\ UsersWith(request[t].email) = {}, request[t])
  /\ UNCHANGED <<store, agents, sessions, clash, drawn, outside>>

SaveInvite(t) ==
  /\ At(t, "saveInvite")
  /\ \E i \in Invite \ drawn :
       /\ invites' = [invites EXCEPT ![i] =
            [family |-> request[t].family, email |-> request[t].email,
             role |-> request[t].role, used |-> FALSE]]
       /\ drawn' = drawn \cup {i}
  /\ Disturb
  /\ Done(t, request[t])
  /\ UNCHANGED <<families, users, agents, sessions, outside>>

(* require_invite and the address; an invite may have expired.             *)
CheckInvite(t) ==
  LET i == invites[request[t].invite] IN
  /\ At(t, "checkInvite")
  /\ \E expired \in BOOLEAN :
       IF i = None \/ expired THEN Refuse(t)
       ELSE Check(t, ~i.used /\ families[i.family] # None /\ i.email = request[t].email,
                  [request[t] EXCEPT !.family = i.family, !.role = i.role])
  /\ UNCHANGED <<store, agents, sessions, clash, drawn, outside>>

UseInvite(t) ==
  /\ At(t, "useInvite")
  /\ invites' = [invites EXCEPT ![request[t].invite].used = TRUE]
  /\ Disturb
  /\ Done(t, request[t])
  /\ UNCHANGED <<families, users, agents, sessions, drawn, outside>>

(* authenticate finds a user of the address. Another user of the address   *)
(* than the one just registered may have another password.                 *)
Login(t) ==
  /\ At(t, "login")
  /\ \E u \in UsersWith(request[t].email) :
       \/ /\ sessions' = sessions \cup {u}
          /\ answered' = IF request[t].invite = None
                         THEN answered \cup {request[t].family} ELSE answered
          /\ Done(t, request[t])
       \/ /\ u # request[t].user
          /\ Refuse(t)
          /\ UNCHANGED <<sessions, answered>>
  /\ UNCHANGED <<store, agents, disk, writers, clash, drawn, served, restarts>>

-----------------------------------------------------------------------------
(* _persist: open(path, "w"), then json.dump.                              *)
Open(t) ==
  /\ At(t, "open")
  /\ disk' = Torn
  /\ writers' = writers \cup {t}
  /\ clash' = IF writers = {} THEN clash ELSE clash \cup writers \cup {t}
  /\ Done(t, request[t])
  /\ UNCHANGED <<store, agents, sessions, drawn, served, restarts, answered>>

(* Undisturbed, the file has the store. Otherwise the texts may be mixed,  *)
(* or the dictionary changed while it was dumped, which raises.            *)
Dump(t) ==
  /\ At(t, "dump")
  /\ writers' = writers \ {t}
  /\ clash' = clash \ {t}
  /\ \/ /\ disk' = Contents
        /\ Done(t, request[t])
     \/ /\ t \in clash
        /\ disk' = Torn
        /\ Done(t, request[t]) \/ Refuse(t)
  /\ UNCHANGED <<store, agents, sessions, drawn, served, restarts, answered>>

(* The server goes down and comes up: _load takes the file, or starts from *)
(* nothing when it cannot be read.                                         *)
Restart ==
  /\ restarts < MaxRestarts
  /\ restarts' = restarts + 1
  /\ LET c == IF disk = Torn THEN Empty ELSE disk IN
       /\ families' = c.families /\ users' = c.users /\ invites' = c.invites
       /\ agents' = {f \in Family : c.families[f] # None}
  /\ sessions' = {} /\ writers' = {} /\ clash' = {}
  /\ request' = [t \in Thread |-> NoRequest]
  /\ UNCHANGED <<disk, drawn, served, answered>>

-----------------------------------------------------------------------------
Arrive(t) ==
  \/ Signup(t)
  \/ Accept(t)
  \/ InviteMember(t)
  \/ SaveEvents(t)
  \/ UpdateProfile(t)

Step(t) ==
  \/ CheckFamily(t) \/ AddAgent(t)
  \/ ReadFamily(t) \/ PutFamily(t) \/ AddMember(t) \/ PutOwner(t) \/ PutEvents(t)
  \/ CheckUser(t) \/ AddUser(t)
  \/ ReadUser(t) \/ PutUser(t)
  \/ CheckOwner(t) \/ SaveInvite(t)
  \/ CheckInvite(t) \/ UseInvite(t)
  \/ Login(t)
  \/ Open(t) \/ Dump(t)

Next == (\E t \in Thread : Arrive(t) \/ Step(t)) \/ Restart

Spec == Init /\ [][Next]_vars

-----------------------------------------------------------------------------
FamilyEntry == [owner : User \cup {None}, events : 0..1]
UserEntry == [family : Family, email : Email, role : Role, name : 0..1]
InviteEntry == [family : Family, email : Email, role : Role, used : BOOLEAN]

ASSUME EntryAssumption == None \notin FamilyEntry \cup UserEntry \cup InviteEntry

TypeOK ==
  /\ families \in [Family -> FamilyEntry \cup {None}]
  /\ users \in [User -> UserEntry \cup {None}]
  /\ invites \in [Invite -> InviteEntry \cup {None}]
  /\ agents \subseteq Family /\ sessions \subseteq User
  /\ clash \subseteq writers /\ writers \subseteq Thread
  /\ drawn \subseteq User \cup Invite

(* What refers to an entry finds it: the owner of a family is one of its   *)
(* users, a user's family, a session's user and the user of a used invite  *)
(* exist. In the store and in what a restart would load, wherever requests *)
(* are interrupted (auth.py:114-145, 194-213, server.py:160-191).          *)
Consistent(c) ==
  /\ \A f \in Family : c.families[f] # None /\ c.families[f].owner # None =>
       LET o == c.users[c.families[f].owner] IN o # None /\ o.family = f /\ o.role = "owner"
  /\ \A u \in User : c.users[u] # None => c.families[c.users[u].family] # None
  /\ \A i \in Invite : c.invites[i] # None /\ c.invites[i].used =>
       \E u \in User : /\ c.users[u] # None
                       /\ c.users[u].family = c.invites[i].family
                       /\ c.users[u].email = c.invites[i].email

ReferencesResolve ==
  /\ Consistent(Contents)
  /\ disk # Torn => Consistent(disk)
  /\ \A u \in sessions : users[u] # None

(* A readable file is never older than the store once every request that   *)
(* changed something has written it; store, file and requests are typed.   *)
DiskCurrent ==
  /\ TypeOK
  /\ disk # Torn /\ (\A t \in Thread : request[t].todo = <<>>) => disk = Contents

(* A user is never moved to another family, address or role by a request   *)
(* (state.py:75 "Preserve family_id if the incoming payload omitted it").  *)
IdentityStays ==
  [][\A u \in User : users[u] # None /\ restarts' = restarts =>
       /\ users'[u] # None
       /\ users'[u].family = users[u].family
       /\ users'[u].email = users[u].email
       /\ users'[u].role = users[u].role]_vars

(* auth.py:127 "email already registered": one account per address.        *)
EmailsAreUnique == \A e \in Email : Cardinality(UsersWith(e)) <= 1

(* service.py:78 "Family ... already exists": a signup does not get the id *)
(* of a family that has an owner.                                          *)
OwnerStays ==
  [][\A f \in Family :
       families[f] # None /\ families[f].owner # None /\ restarts' = restarts =>
         families'[f].owner = families[f].owner]_vars

(* server.py:333 "Use /auth/signup to create a family with an owner        *)
(* account": a family no signup is at work on has an owner.                *)
EveryFamilyHasOwner ==
  \A f \in Family : families[f] # None /\ families[f].owner = None =>
    \E t \in Thread : /\ request[t].family = f
                      /\ \E i \in DOMAIN request[t].todo : request[t].todo[i] = "putOwner"

(* README.md:94 "Family metadata persisted at                              *)
(* ~/.membase/family_agents/state.json": a family whose signup was         *)
(* answered is there after a restart.                                      *)
AnsweredSurvives == \A f \in answered : families[f] # None
=============================================================================
