----------------------------- MODULE RoleSwitch -----------------------------
(***************************************************************************)
(* The admin panel's role change.  The user-service keeps a set of roles   *)
(* per user and offers only "assign one" and "remove one"; setUserRole     *)
(* (admin-client.ts) composes them into "switch to exactly one role" from  *)
(* the roles the operator's page last listed, which other operators may    *)
(* have changed since.  Each request is a step, and may fail before or     *)
(* after the user-service applied it.  The order of the removals is that   *)
(* of the role catalog, which the user-service chooses: any order.         *)
(***************************************************************************)
EXTENDS Naturals, Sequences, FiniteSetsExt

CONSTANTS Users,       \* those whose rows are looked at
          Operators,   \* those who work in the panel, users of it or not
          Roles,       \* the role catalog
          Hierarchy,   \* the known roles, lowest first
          Admin

ASSUME RolesAssumption == Admin \in Roles /\ Hierarchy \in Seq(Roles) \ {<<>>}

VARIABLES roles,       \* the user-service's roles of each user
          listed,      \* the roles each operator's page shows (react-query's data)
          switch       \* each page's role mutation

roleVars == <<roles, listed, switch>>

Switch == [st : {"idle", "assigning", "removing", "refetching"},
           user : Users \cup Operators, target : Roles,
           todo : SUBSET Roles,   \* to remove
           alone : BOOLEAN]       \* started from the true roles, and no one else
                                  \* has changed them since (history)

RoleTypeOK ==
    /\ roles \in [Users -> SUBSET Roles]
    /\ listed \in [Operators -> [Users -> SUBSET Roles]]
    /\ switch \in [Operators -> Switch]

Idle(a) == [st |-> "idle", user |-> a, target |-> Admin, todo |-> {}, alone |-> FALSE]

RoleInit ==
    /\ roles \in [Users -> SUBSET Roles]
    /\ \A a \in Operators \cap Users : Admin \in roles[a]
    /\ listed = [a \in Operators |-> roles]
    /\ switch = [a \in Operators |-> Idle(a)]

\* deriveHighestRole: what the row's select shows.
Highest(held) ==
    LET known == {i \in DOMAIN Hierarchy : Hierarchy[i] \in held}
    IN Hierarchy[IF known = {} THEN 1 ELSE Max(known)]

-----------------------------------------------------------------------------
\* The users list is fetched, at mount or on react-query's own refetches.
List(a) ==
    /\ listed' = [listed EXCEPT ![a] = roles]
    /\ UNCHANGED <<roles, switch>>

MutGuard(a, u, r) == TRUE

\* handleRoleChange blocks an operator who would strip their own admin role.
Guard(a, u, r) == ~ (a = u /\ Admin \in listed[a][u] /\ r # Admin)

\* What is left to do once the target role is there.
Continue(todo) == IF todo = {} THEN "refetching" ELSE "removing"

MutChoose(a, u, r) ==
    /\ switch[a].st = "idle"
    /\ r # Highest(listed[a][u])
    /\ Guard(a, u, r)
    /\ switch' = [switch EXCEPT ![a] =
           [st |-> IF listed[a][u] \ {r} # {} THEN "removing" ELSE "assigning",
            user |-> u, target |-> r,
            todo |-> listed[a][u] \ {r}, alone |-> listed[a][u] = roles[u]]]
    /\ UNCHANGED <<roles, listed>>

\* The select fires when its value changes; all selects are disabled while the
\* mutation is pending.
Choose(a, u, r) ==
    /\ switch[a].st = "idle"
    /\ r # Highest(listed[a][u])
    /\ Guard(a, u, r)
    /\ switch' = [switch EXCEPT ![a] =
           [st |-> IF r \in listed[a][u] THEN Continue(listed[a][u] \ {r}) ELSE "assigning",
            user |-> u, target |-> r,
            todo |-> listed[a][u] \ {r}, alone |-> listed[a][u] = roles[u]]]
    /\ UNCHANGED <<roles, listed>>

\* The user-service makes the user's roles `held` at a's request; a's page goes on to s.
Apply(a, held, s) ==
    LET u == switch[a].user
    IN /\ roles' = [roles EXCEPT ![u] = held]
       /\ switch' = [b \in Operators |->
              IF b = a THEN s
              ELSE [switch[b] EXCEPT !.alone = @ /\ ~ (switch[b].user = u /\ held # roles[u])]]
       /\ UNCHANGED listed

Assigned(a) ==
    /\ switch[a].st = "assigning"
    /\ \E lost \in BOOLEAN :
          Apply(a, roles[switch[a].user] \cup {switch[a].target},
                IF lost THEN Idle(a) ELSE [switch[a] EXCEPT !.st = Continue(switch[a].todo)])

Removed(a) ==
    /\ switch[a].st = "removing"
    /\ \E r \in switch[a].todo, lost \in BOOLEAN :
          Apply(a, roles[switch[a].user] \ {r},
                IF lost THEN Idle(a)
                ELSE [switch[a] EXCEPT !.todo = @ \ {r}, !.st = Continue(switch[a].todo \ {r})])

\* A failed request ends the mutation: onError shows the message and nothing is
\* invalidated.
Failed(a) ==
    /\ switch[a].st \in {"assigning", "removing"}
    /\ switch' = [switch EXCEPT ![a] = Idle(a)]
    /\ UNCHANGED <<roles, listed>>

\* onSuccess returns the invalidation's promise: the mutation is pending until
\* the list has been fetched again, or that has failed.
Refetched(a) ==
    /\ switch[a].st = "refetching"
    /\ switch' = [switch EXCEPT ![a] = Idle(a)]
    /\ listed' \in {listed, [listed EXCEPT ![a] = roles]}
    /\ UNCHANGED roles

RoleNext == \E a \in Operators :
    \/ List(a)
    \/ \E u \in Users, r \in Roles : Choose(a, u, r)
    \/ Assigned(a) \/ Removed(a) \/ Failed(a) \/ Refetched(a)

RoleSpec == RoleInit /\ [][RoleNext]_roleVars

-----------------------------------------------------------------------------
(* Properties. *)

\* While a switch runs alone it knows the user's roles exactly, so when it
\* succeeds the user has the chosen role and no other.
AloneInv(a) ==
    LET s == switch[a] IN
    /\ s.target \notin s.todo
    /\ s.alone =>
          /\ s.st # "idle" /\ s.user \in Users
          /\ s.st = "assigning" => roles[s.user] = s.todo
          /\ s.st = "removing" => roles[s.user] = s.todo \cup {s.target}
          /\ s.st = "refetching" => roles[s.user] = {s.target}
AloneIsExact == \A a \in Operators : AloneInv(a)

\* A user who holds a role is left without any only by a switch that did not
\* run alone: failures, wherever they strike, leave too many roles, not too few.
NeverRoleless ==
    [][\A u \in Users : roles[u] # {} /\ roles'[u] = {} =>
          \E a \in Operators : switch[a].user = u /\ switch[a].st = "removing"
                               /\ ~ switch[a].alone]_roleVars

\* The guard on a page that may be out of date: an operator's admin role is
\* removed only by another operator's switch, never by their own.
NoSelfDemotion ==
    [][\A u \in Users : Admin \in roles[u] /\ Admin \notin roles'[u] =>
          \E a \in Operators \ {u} : switch[a].st = "removing" /\ switch[a].user = u]_roleVars

\* "Switch a user to exactly one role" (admin-client.ts): so does every switch
\* that succeeds.
ExactlyOneRole ==
    \A a \in Operators :
        switch[a].st = "refetching" => roles[switch[a].user] = {switch[a].target}

-----------------------------------------------------------------------------
(* The inductive strengthening of AloneIsExact. *)

\* Nobody plans to remove their own admin role.
OwnAdminKept == \A a \in Operators : switch[a].user = a => Admin \notin switch[a].todo

\* A switch under way is about a listed user.
UserListed == \A a \in Operators : switch[a].st # "idle" => switch[a].user \in Users

\* No operator's page, however stale, plans to remove their own admin role.
RoleInv == RoleTypeOK /\ UserListed /\ OwnAdminKept /\ AloneIsExact
=============================================================================
