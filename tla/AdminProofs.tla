---------------------------- MODULE AdminProofs -----------------------------
(***************************************************************************)
(* Proofs about four parts of the admin area, RoleSwitch, SourcePurge,     *)
(* Moderation and ResetConsole, for any number of users, operators,        *)
(* corpora, handlers, moderators, flags and requests, and any size of a    *)
(* batch or a page.                                                        *)
(***************************************************************************)
EXTENDS RoleSwitch, SourcePurge, Moderation, ResetConsole, Ranking

-----------------------------------------------------------------------------
(* Roles.  The inductive invariant adds to AloneIsExact that no operator's *)
(* own switch plans to remove their admin role: that is what the guard,    *)
(* taken from the same list the plan is made from, still means when the    *)
(* list is out of date.                                                    *)

\* What a request of one page does to the other pages: nothing, except that a
\* switch whose user's roles it changes no longer runs alone.
LEMMA OtherPages ==
    ASSUME RoleTypeOK, NEW a \in Operators, NEW held, NEW s, Apply(a, held, s),
           NEW b \in Operators, b # a
    PROVE  /\ switch'[b] \in Switch
           /\ switch'[b].st = switch[b].st /\ switch'[b].user = switch[b].user
           /\ switch'[b].target = switch[b].target /\ switch'[b].todo = switch[b].todo
           /\ switch'[b].alone =>
                 /\ switch[b].alone
                 /\ switch[b].user = switch[a].user => held = roles[switch[a].user]
<1> DEFINE kept == switch[b].alone
                   /\ ~ (switch[b].user = switch[a].user /\ held # roles[switch[a].user])
<1>1. switch'[b] = [switch[b] EXCEPT !.alone = kept]
  BY DEF Apply
<1>2. switch[b] \in Switch
  BY DEF RoleTypeOK
<1>3. kept \in BOOLEAN
  BY <1>2 DEF Switch
<1>. HIDE DEF kept
<1>4. /\ [switch[b] EXCEPT !.alone = kept] \in Switch
      /\ [switch[b] EXCEPT !.alone = kept].alone = kept
  BY <1>2, <1>3 DEF Switch
<1>5. /\ [switch[b] EXCEPT !.alone = kept].st = switch[b].st
      /\ [switch[b] EXCEPT !.alone = kept].user = switch[b].user
      /\ [switch[b] EXCEPT !.alone = kept].target = switch[b].target
      /\ [switch[b] EXCEPT !.alone = kept].todo = switch[b].todo
  BY <1>2 DEF Switch
<1>. QED
  BY <1>1, <1>4, <1>5 DEF kept

\* What it does to the user's roles and to the page itself.
LEMMA OwnPage ==
    ASSUME RoleTypeOK, NEW a \in Operators, NEW held \in SUBSET Roles, NEW s,
           Apply(a, held, s), switch[a].user \in Users
    PROVE  /\ roles' \in [Users -> SUBSET Roles]
           /\ roles'[switch[a].user] = held
           /\ \A u \in Users \ {switch[a].user} : roles'[u] = roles[u]
           /\ DOMAIN switch' = Operators /\ switch' = [b \in Operators |-> switch'[b]]
           /\ switch'[a] = s
           /\ listed' = listed
BY DEF Apply, RoleTypeOK

\* A request keeps the invariant if the page it leaves behind does.
LEMMA ApplyKeepsInv ==
    ASSUME RoleInv, NEW a \in Operators, NEW held \in SUBSET Roles, NEW s \in Switch,
           Apply(a, held, s), switch[a].user \in Users,
           s.st # "idle" => s.user = switch[a].user,
           s.user = a => Admin \notin s.todo,
           AloneInv(a)'
    PROVE  RoleInv'
<1> DEFINE u == switch[a].user
<1>0. RoleTypeOK /\ UserListed /\ OwnAdminKept /\ AloneIsExact
  BY DEF RoleInv
<1>1. ASSUME NEW b \in Operators, b # a
      PROVE  /\ switch'[b] \in Switch
             /\ switch'[b].st = switch[b].st /\ switch'[b].user = switch[b].user
             /\ switch'[b].target = switch[b].target /\ switch'[b].todo = switch[b].todo
             /\ switch'[b].alone =>
                   /\ switch[b].alone
                   /\ switch[b].user = u => held = roles[u]
  BY <1>0, <1>1, OtherPages
<1>2. /\ roles' \in [Users -> SUBSET Roles]
      /\ roles'[u] = held
      /\ \A v \in Users \ {u} : roles'[v] = roles[v]
      /\ switch' = [b \in Operators |-> switch'[b]]
      /\ switch'[a] = s
      /\ listed' = listed
  BY <1>0, OwnPage
<1>3. RoleTypeOK'
  <2>1. \A b \in Operators : switch'[b] \in Switch
    BY <1>1, <1>2
  <2>. QED
    BY <1>0, <1>2, <2>1 DEF RoleTypeOK
<1>4. UserListed'
  BY <1>0, <1>1, <1>2 DEF UserListed
<1>5. OwnAdminKept'
  BY <1>0, <1>1, <1>2 DEF OwnAdminKept
<1>6. ASSUME NEW b \in Operators, b # a
      PROVE  AloneInv(b)'
  <2>1. AloneInv(b)
    BY <1>0 DEF AloneIsExact
  <2>2. switch'[b].alone => roles'[switch[b].user] = roles[switch[b].user]
    <3>1. switch[b].alone => switch[b].user \in Users
      BY <2>1 DEF AloneInv
    <3>. QED
      BY <1>1, <1>2, <1>6, <3>1
  <2>. QED
    BY <1>1, <1>6, <2>1, <2>2 DEF AloneInv
<1>7. AloneIsExact'
  BY <1>6 DEF AloneIsExact
<1>. QED
  BY <1>3, <1>4, <1>5, <1>7 DEF RoleInv

LEMMA IdlePage ==
    ASSUME NEW a \in Operators
    PROVE  /\ Idle(a) \in Switch
           /\ Idle(a).st = "idle" /\ Idle(a).todo = {} /\ ~ Idle(a).alone
BY RolesAssumption DEF Idle, Switch

LEMMA RoleInitInv == RoleInit => RoleInv
BY IdlePage DEF RoleInit, RoleInv, RoleTypeOK, UserListed, OwnAdminKept, AloneIsExact, AloneInv

LEMMA ChooseKeepsInv ==
    ASSUME RoleInv, NEW a \in Operators, NEW u \in Users, NEW r \in Roles, Choose(a, u, r)
    PROVE  RoleInv'
<1>. USE DEF RoleInv
<1> DEFINE s == [st |-> IF r \in listed[a][u] THEN Continue(listed[a][u] \ {r}) ELSE "assigning",
                 user |-> u, target |-> r,
                 todo |-> listed[a][u] \ {r}, alone |-> listed[a][u] = roles[u]]
<1>1. listed[a][u] \in SUBSET Roles /\ roles[u] \in SUBSET Roles
  BY DEF RoleTypeOK
<1>2. s \in Switch
  BY <1>1 DEF Switch, Continue
<1>3. /\ switch' = [switch EXCEPT ![a] = s]
      /\ roles' = roles /\ listed' = listed
  BY DEF Choose
<1>4. switch'[a] = s /\ \A b \in Operators \ {a} : switch'[b] = switch[b]
  BY <1>3 DEF RoleTypeOK
<1>5. RoleTypeOK'
  BY <1>2, <1>3 DEF RoleTypeOK
<1>6. UserListed'
  BY <1>4 DEF UserListed
<1>7. OwnAdminKept'
  <2>1. u = a => Admin \notin listed[a][u] \ {r}
    BY DEF Choose, Guard
  <2>. QED
    BY <1>4, <2>1 DEF OwnAdminKept
<1>8. AloneInv(a)'
  <2>1. s.target \notin s.todo
    OBVIOUS
  <2>2. s.alone => /\ s.st # "idle" /\ s.user \in Users
                   /\ s.st = "assigning" => roles[s.user] = s.todo
                   /\ s.st = "removing" => roles[s.user] = s.todo \cup {s.target}
                   /\ s.st = "refetching" => roles[s.user] = {s.target}
    BY <1>1 DEF Continue
  <2>. HIDE DEF s
  <2>. QED
    BY <1>3, <1>4, <2>1, <2>2 DEF AloneInv
<1>9. \A b \in Operators \ {a} : AloneInv(b)'
  BY <1>3, <1>4 DEF AloneInv, AloneIsExact
<1>. QED
  BY <1>5, <1>6, <1>7, <1>8, <1>9 DEF AloneIsExact

LEMMA AssignedKeepsInv ==
    ASSUME RoleInv, NEW a \in Operators, Assigned(a)
    PROVE  RoleInv'
<1> DEFINE u == switch[a].user
           held == roles[u] \cup {switch[a].target}
           done == [switch[a] EXCEPT !.st = Continue(switch[a].todo)]
<1>1. RoleTypeOK /\ UserListed /\ OwnAdminKept /\ AloneInv(a)
  BY DEF RoleInv, AloneIsExact
<1>2. switch[a] \in Switch /\ switch[a].st = "assigning" /\ u \in Users
  BY <1>1 DEF Assigned, RoleTypeOK, UserListed
<1>3. held \in SUBSET Roles
  BY <1>1, <1>2 DEF RoleTypeOK, Switch
<1>4. PICK lost \in BOOLEAN : Apply(a, held, IF lost THEN Idle(a) ELSE done)
  BY DEF Assigned
<1>5. CASE lost
  <2>1. Apply(a, held, Idle(a))
    BY <1>4, <1>5
  <2>. HIDE DEF held
  <2>2. switch'[a] = Idle(a)
    BY <1>1, <1>2, <1>3, <2>1, OwnPage
  <2>3. AloneInv(a)'
    BY <2>2, IdlePage DEF AloneInv
  <2>. QED
    BY <1>2, <1>3, <2>1, <2>3, ApplyKeepsInv, IdlePage
<1>6. CASE ~ lost
  <2>1. Apply(a, held, done)
    BY <1>4, <1>6
  <2>2. /\ done \in Switch /\ done.user = u /\ done.target = switch[a].target
        /\ done.todo = switch[a].todo /\ done.alone = switch[a].alone
        /\ done.st = Continue(switch[a].todo)
    BY <1>2 DEF Switch, Continue
  <2>3. switch'[a] = done /\ roles'[u] = held
    BY <1>1, <1>2, <1>3, <2>1, OwnPage
  <2>. HIDE DEF done
  <2>4. AloneInv(a)'
    BY <1>1, <1>2, <2>2, <2>3 DEF AloneInv, Continue
  <2>5. done.user = a => Admin \notin done.todo
    BY <1>1, <2>2 DEF OwnAdminKept
  <2>. QED
    BY <1>2, <1>3, <2>1, <2>2, <2>4, <2>5, ApplyKeepsInv
<1>. QED
  BY <1>5, <1>6

LEMMA RemovedKeepsInv ==
    ASSUME RoleInv, NEW a \in Operators, Removed(a)
    PROVE  RoleInv'
<1> DEFINE u == switch[a].user
<1>1. RoleTypeOK /\ UserListed /\ OwnAdminKept /\ AloneInv(a)
  BY DEF RoleInv, AloneIsExact
<1>2. switch[a] \in Switch /\ switch[a].st = "removing" /\ u \in Users
  BY <1>1 DEF Removed, RoleTypeOK, UserListed
<1>3. PICK r \in switch[a].todo, lost \in BOOLEAN :
          Apply(a, roles[u] \ {r},
                IF lost THEN Idle(a)
                ELSE [switch[a] EXCEPT !.todo = @ \ {r}, !.st = Continue(switch[a].todo \ {r})])
  BY DEF Removed
<1> DEFINE held == roles[u] \ {r}
           done == [switch[a] EXCEPT !.todo = @ \ {r}, !.st = Continue(switch[a].todo \ {r})]
<1>4. held \in SUBSET Roles
  BY <1>1, <1>2 DEF RoleTypeOK
<1>5. CASE lost
  <2>1. Apply(a, held, Idle(a))
    BY <1>3, <1>5
  <2>. HIDE DEF held
  <2>2. switch'[a] = Idle(a)
    BY <1>1, <1>2, <1>4, <2>1, OwnPage
  <2>3. AloneInv(a)'
    BY <2>2, IdlePage DEF AloneInv
  <2>. QED
    BY <1>2, <1>4, <2>1, <2>3, ApplyKeepsInv, IdlePage
<1>6. CASE ~ lost
  <2>1. Apply(a, held, done)
    BY <1>3, <1>6
  <2>2. /\ done \in Switch /\ done.user = u /\ done.target = switch[a].target
        /\ done.todo = switch[a].todo \ {r} /\ done.alone = switch[a].alone
        /\ done.st = Continue(switch[a].todo \ {r})
    BY <1>2 DEF Switch, Continue
  <2>3. switch'[a] = done /\ roles'[u] = held
    BY <1>1, <1>2, <1>4, <2>1, OwnPage
  <2>. HIDE DEF done
  <2>4. AloneInv(a)'
    BY <1>1, <1>2, <2>2, <2>3 DEF AloneInv, Continue
  <2>5. done.user = a => Admin \notin done.todo
    BY <1>1, <2>2 DEF OwnAdminKept
  <2>. QED
    BY <1>2, <1>4, <2>1, <2>2, <2>4, <2>5, ApplyKeepsInv
<1>. QED
  BY <1>5, <1>6

\* The page gives up, or its list has been fetched again: it is idle, and what
\* the user-service holds is what it was.
LEMMA IdleKeepsInv ==
    ASSUME RoleInv, NEW a \in Operators, switch' = [switch EXCEPT ![a] = Idle(a)],
           roles' = roles, listed' \in [Operators -> [Users -> SUBSET Roles]]
    PROVE  RoleInv'
<1>1. switch'[a] = Idle(a) /\ \A b \in Operators \ {a} : switch'[b] = switch[b]
  BY DEF RoleInv, RoleTypeOK
<1>2. RoleTypeOK'
  BY IdlePage DEF RoleInv, RoleTypeOK
<1>3. UserListed' /\ OwnAdminKept'
  BY <1>1, IdlePage DEF RoleInv, UserListed, OwnAdminKept
<1>4. AloneInv(a)'
  BY <1>1, IdlePage DEF AloneInv
<1>5. \A b \in Operators \ {a} : AloneInv(b)'
  BY <1>1 DEF RoleInv, AloneIsExact, AloneInv
<1>. QED
  BY <1>2, <1>3, <1>4, <1>5 DEF RoleInv, AloneIsExact

LEMMA RoleStepInv == RoleInv /\ [RoleNext]_roleVars => RoleInv'
<1>. SUFFICES ASSUME RoleInv, [RoleNext]_roleVars PROVE RoleInv'
  OBVIOUS
<1>1. CASE UNCHANGED roleVars
  BY <1>1 DEF roleVars, RoleInv, RoleTypeOK, UserListed, OwnAdminKept, AloneIsExact, AloneInv
<1>2. ASSUME NEW a \in Operators, List(a) PROVE RoleInv'
  BY <1>2 DEF List, RoleInv, RoleTypeOK, UserListed, OwnAdminKept, AloneIsExact, AloneInv
<1>3. ASSUME NEW a \in Operators, Failed(a) PROVE RoleInv'
  BY <1>3, IdleKeepsInv DEF Failed, RoleInv, RoleTypeOK
<1>4. ASSUME NEW a \in Operators, Refetched(a) PROVE RoleInv'
  <2>1. [listed EXCEPT ![a] = roles] \in [Operators -> [Users -> SUBSET Roles]]
    BY DEF RoleInv, RoleTypeOK
  <2>2. listed \in [Operators -> [Users -> SUBSET Roles]]
    BY DEF RoleInv, RoleTypeOK
  <2>. QED
    BY <1>4, <2>1, <2>2, IdleKeepsInv DEF Refetched
<1>. QED
  BY <1>1, <1>2, <1>3, <1>4, ChooseKeepsInv, AssignedKeepsInv, RemovedKeepsInv DEF RoleNext

\* Types, and that no operator's page ever plans to remove their own admin role.
THEOREM RoleInvariant == RoleSpec => []RoleInv
BY RoleInitInv, RoleStepInv, PTL DEF RoleSpec

\* setUserRole run alone from an up-to-date list leaves exactly the chosen role
\* when it succeeds, whatever the catalog and the roles held.
THEOREM SwitchAloneIsExact == RoleSpec => []AloneIsExact
BY RoleInvariant, PTL DEF RoleInv

\* Only a request changes roles, and only those of its switch's user.
LEMMA RolesStep ==
    ASSUME RoleInv, [RoleNext]_roleVars, NEW u \in Users, roles'[u] # roles[u]
    PROVE  \E a \in Operators :
              /\ switch[a].user = u
              /\ \/ switch[a].st = "assigning" /\ roles'[u] = roles[u] \cup {switch[a].target}
                 \/ /\ switch[a].st = "removing"
                    /\ \E r \in switch[a].todo : roles'[u] = roles[u] \ {r}
<1>1. PICK a \in Operators : Assigned(a) \/ Removed(a)
  BY DEF RoleNext, roleVars, List, Choose, Failed, Refetched
<1>2. RoleTypeOK /\ switch[a].user \in Users
  BY <1>1 DEF RoleInv, UserListed, Assigned, Removed
<1>3. ASSUME NEW held, NEW s, Apply(a, held, s)
      PROVE  switch[a].user = u /\ roles'[u] = held
  BY <1>2, <1>3 DEF Apply, RoleTypeOK
<1>4. CASE Assigned(a)
  BY <1>3, <1>4 DEF Assigned
<1>5. CASE Removed(a)
  BY <1>3, <1>5 DEF Removed
<1>. QED
  BY <1>1, <1>4, <1>5

\* Failures never leave a user without a role: only overlapping switches can.
THEOREM SwitchKeepsARole == RoleSpec => NeverRoleless
<1>1. ASSUME RoleInv, [RoleNext]_roleVars, NEW u \in Users, roles[u] # {}, roles'[u] = {}
      PROVE  \E a \in Operators : switch[a].user = u /\ switch[a].st = "removing"
                                 /\ ~ switch[a].alone
  <2>1. PICK a \in Operators :
              /\ switch[a].user = u
              /\ \/ switch[a].st = "assigning" /\ roles'[u] = roles[u] \cup {switch[a].target}
                 \/ /\ switch[a].st = "removing"
                    /\ \E r \in switch[a].todo : roles'[u] = roles[u] \ {r}
    BY <1>1, RolesStep
  <2>2. switch[a].st = "removing" /\ \E r \in switch[a].todo : roles'[u] = roles[u] \ {r}
    BY <1>1, <2>1
  <2>3. switch[a].alone => switch[a].target \in roles[u] /\ switch[a].target \notin switch[a].todo
    BY <1>1, <2>1, <2>2 DEF RoleInv, AloneIsExact, AloneInv
  <2>4. ~ switch[a].alone
    BY <1>1, <2>2, <2>3
  <2>. QED
    BY <2>1, <2>2, <2>4
<1>2. RoleInv /\ [RoleNext]_roleVars =>
        [\A u \in Users : roles[u] # {} /\ roles'[u] = {} =>
            \E a \in Operators : switch[a].user = u /\ switch[a].st = "removing"
                                 /\ ~ switch[a].alone]_roleVars
  BY <1>1
<1>. QED
  BY <1>2, RoleInvariant, PTL DEF RoleSpec, NeverRoleless

\* The self-demotion guard holds on stale pages too.
THEOREM NoSelfDemotionEver == RoleSpec => NoSelfDemotion
<1>1. ASSUME RoleInv, [RoleNext]_roleVars, NEW u \in Users, Admin \in roles[u], Admin \notin roles'[u]
      PROVE  \E a \in Operators \ {u} : switch[a].st = "removing" /\ switch[a].user = u
  <2>1. PICK a \in Operators :
              /\ switch[a].user = u
              /\ \/ switch[a].st = "assigning" /\ roles'[u] = roles[u] \cup {switch[a].target}
                 \/ /\ switch[a].st = "removing"
                    /\ \E r \in switch[a].todo : roles'[u] = roles[u] \ {r}
    BY <1>1, RolesStep
  <2>2. switch[a].st = "removing" /\ Admin \in switch[a].todo
    BY <1>1, <2>1
  <2>3. a # u
    BY <1>1, <2>1, <2>2 DEF RoleInv, OwnAdminKept
  <2>. QED
    BY <2>1, <2>2, <2>3
<1>2. RoleInv /\ [RoleNext]_roleVars =>
        [\A u \in Users : Admin \in roles[u] /\ Admin \notin roles'[u] =>
            \E a \in Operators \ {u} : switch[a].st = "removing" /\ switch[a].user = u]_roleVars
  BY <1>1
<1>. QED
  BY <1>2, RoleInvariant, PTL DEF RoleSpec, NoSelfDemotion
-----------------------------------------------------------------------------
(* The purge. *)

LEMMA RequestTypes ==
    /\ \A name \in Names, c \in Names \cup {Nil} : Received(name, c) \in HandlerState
    /\ NoPurge \in HandlerState /\ NoPurge.st = "none"
    /\ \A name, c : Received(name, c).st = "received"
    /\ \A r \in HandlerState, st \in {"refused", "failed"} :
          Error(r, st) \in HandlerState /\ Error(r, st).st = st
<1>1. \A name \in Names, c \in Names \cup {Nil} : Received(name, c) \in HandlerState
  BY NamesAssumption DEF Received, HandlerState
<1>2. PICK n \in Names : n = CHOOSE m \in Names : TRUE
  BY NamesAssumption
<1>3. NoPurge \in HandlerState /\ NoPurge.st = "none"
  BY <1>1, <1>2 DEF NoPurge, Received, HandlerState
<1>4. ASSUME NEW r \in HandlerState, NEW st \in {"refused", "failed"}
      PROVE  Error(r, st) \in HandlerState /\ Error(r, st).st = st
  BY <1>4 DEF Error, HandlerState
<1>. QED
  BY <1>1, <1>3, <1>4 DEF Received

LEMMA LeastIs ==
    ASSUME NEW m \in Nat
    PROVE  /\ Least(m, PurgeBatch) \in Nat /\ m - Least(m, PurgeBatch) \in Nat
           /\ Least(m, PurgeBatch) < PurgeBatch => m - Least(m, PurgeBatch) = 0
BY BatchAssumption DEF Least

\* Disturbing keeps everything but `alone`, which it clears for the corpus.
LEMMA DisturbIs ==
    ASSUME PurgeTypeOK, NEW c
    PROVE  /\ Disturb(c, purges) \in [PurgeRequests -> HandlerState]
           /\ \A q \in PurgeRequests :
                 /\ Disturb(c, purges)[q].st = purges[q].st
                 /\ Disturb(c, purges)[q].corpus = purges[q].corpus
                 /\ Disturb(c, purges)[q].confirmation = purges[q].confirmation
                 /\ Disturb(c, purges)[q].counted = purges[q].counted
                 /\ Disturb(c, purges)[q].deleted = purges[q].deleted
                 /\ Disturb(c, purges)[q].alone => purges[q].alone /\ purges[q].corpus # c
<1>1. ASSUME NEW q \in PurgeRequests
      PROVE  /\ purges[q] \in HandlerState
             /\ Disturb(c, purges)[q] =
                   IF purges[q].corpus = c THEN [purges[q] EXCEPT !.alone = FALSE] ELSE purges[q]
  BY DEF Disturb, PurgeTypeOK
<1>2. ASSUME NEW q \in PurgeRequests
      PROVE  /\ Disturb(c, purges)[q] \in HandlerState
             /\ Disturb(c, purges)[q].st = purges[q].st
             /\ Disturb(c, purges)[q].corpus = purges[q].corpus
             /\ Disturb(c, purges)[q].confirmation = purges[q].confirmation
             /\ Disturb(c, purges)[q].counted = purges[q].counted
             /\ Disturb(c, purges)[q].deleted = purges[q].deleted
             /\ Disturb(c, purges)[q].alone => purges[q].alone /\ purges[q].corpus # c
  <2>1. CASE purges[q].corpus = c
    BY <1>1, <2>1 DEF HandlerState
  <2>2. CASE purges[q].corpus # c
    BY <1>1, <2>2 DEF HandlerState
  <2>. QED
    BY <2>1, <2>2
<1>3. Disturb(c, purges) = [q \in PurgeRequests |-> Disturb(c, purges)[q]]
  BY DEF Disturb
<1>. QED
  BY <1>2, <1>3

LEMMA PurgeInitInv == PurgeInit => PurgeInv
<1>. SUFFICES ASSUME PurgeInit PROVE PurgeInv
  OBVIOUS
<1>1. PurgeTypeOK
  <2>1. NewPanel \in PanelState
    BY DEF NewPanel, PanelState
  <2>. QED
    BY <2>1, RequestTypes, SizeAssumption DEF PurgeInit, PurgeTypeOK
<1>. QED
  BY <1>1, RequestTypes DEF PurgeInit, PurgeInv, GatePassed, InOrder, ReportTrueAlone

\* What ReportTrueAlone asks of one handler, when its corpus has n nodes.
Report(r, n) ==
    /\ r.alone /\ r.st = "deleting" => r.counted = r.deleted + n
    /\ r.alone /\ r.st = "done" => r.counted = r.deleted

\* A handler that changes no nodes.
LEMMA QuietStep ==
    ASSUME PurgeInv, NEW q \in PurgeRequests, NEW r \in HandlerState,
           purges' = [purges EXCEPT ![q] = r], count' = count, loads' = loads,
           panel' \in [Panels -> PanelState],
           InOrder(r),
           Report(r, count[r.corpus])
    PROVE  PurgeInv'
<1>1. PurgeTypeOK'
  BY DEF PurgeInv, PurgeTypeOK
<1>2. purges'[q] = r /\ \A o \in PurgeRequests \ {q} : purges'[o] = purges[o]
  BY DEF PurgeInv, PurgeTypeOK
<1>3. GatePassed'
  BY <1>2 DEF PurgeInv, GatePassed
<1>4. ReportTrueAlone'
  BY <1>2 DEF PurgeInv, ReportTrueAlone, Report
<1>. QED
  BY <1>1, <1>3, <1>4 DEF PurgeInv

\* The number of nodes of c becomes n: c is no longer anyone's alone.
LEMMA DisturbStep ==
    ASSUME PurgeInv, NEW c \in Names, NEW n \in Nat, NEW f,
           count' = [count EXCEPT ![c] = n], loads' \in Nat, panel' = panel,
           purges' \in [PurgeRequests -> HandlerState],
           \A q \in PurgeRequests :
               \/ purges'[q] = Disturb(c, purges)[q]
               \/ /\ InOrder(purges'[q])
                  /\ purges'[q].corpus = c /\ Report(purges'[q], n)
    PROVE  PurgeInv'
<1>0. PurgeTypeOK
  BY DEF PurgeInv
<1>1. PurgeTypeOK'
  BY <1>0 DEF PurgeTypeOK
<1>2. count'[c] = n /\ \A d \in Names \ {c} : count'[d] = count[d]
  BY <1>0 DEF PurgeTypeOK
<1>3. ASSUME NEW q \in PurgeRequests
      PROVE  /\ InOrder(purges'[q])
             /\ Report(purges'[q], count'[purges'[q].corpus])
  <2>1. CASE purges'[q] = Disturb(c, purges)[q]
    <3>1. InOrder(purges'[q])
      BY <1>0, <2>1, DisturbIs DEF PurgeInv, GatePassed, InOrder
    <3>2. Report(purges[q], count[purges[q].corpus])
      BY DEF PurgeInv, ReportTrueAlone, Report
    <3>3. purges[q].corpus \in Names
      BY <1>0 DEF PurgeTypeOK, HandlerState
    <3>4. /\ purges'[q].st = purges[q].st /\ purges'[q].corpus = purges[q].corpus
          /\ purges'[q].counted = purges[q].counted /\ purges'[q].deleted = purges[q].deleted
          /\ purges'[q].alone => purges[q].alone /\ purges[q].corpus # c
      BY <1>0, <2>1, DisturbIs
    <3>. QED
      BY <1>2, <3>1, <3>2, <3>3, <3>4 DEF Report
  <2>2. CASE /\ InOrder(purges'[q])
             /\ purges'[q].corpus = c /\ Report(purges'[q], n)
    BY <1>2, <2>2
  <2>. QED
    BY <2>1, <2>2
<1>4. GatePassed' /\ ReportTrueAlone'
  BY <1>3 DEF GatePassed, ReportTrueAlone, Report
<1>. QED
  BY <1>1, <1>4 DEF PurgeInv

LEMMA BeginInv ==
    ASSUME PurgeInv, NEW q \in PurgeRequests, Begin(q)
    PROVE  PurgeInv'
<1> DEFINE r == purges[q]
<1>1. /\ r \in HandlerState /\ count[r.corpus] \in Nat /\ InOrder(r)
      /\ panel \in [Panels -> PanelState]
  BY DEF PurgeInv, PurgeTypeOK, HandlerState, GatePassed
<1>2. PICK ok \in BOOLEAN :
          purges' = [purges EXCEPT ![q] =
                     IF Confirmed(r)
                     THEN [r EXCEPT !.st = "deleting", !.alone = ok,
                                    !.counted = Counted(r.corpus, ok)]
                     ELSE Error(r, "refused")]
  BY DEF Begin
<1>3. r.st = "received" /\ count' = count /\ panel' = panel /\ loads' = loads
  BY DEF Begin
<1>4. CASE Confirmed(r)
  <2> DEFINE s == [r EXCEPT !.st = "deleting", !.alone = ok,
                            !.counted = Counted(r.corpus, ok)]
  <2>0. Counted(r.corpus, ok) \in Nat
    BY <1>1 DEF Counted
  <2>1. purges' = [purges EXCEPT ![q] = s]
    BY <1>2, <1>4
  <2>2. /\ s \in HandlerState /\ s.st = "deleting" /\ s.corpus = r.corpus
        /\ s.confirmation = r.confirmation /\ s.deleted = r.deleted /\ s.alone = ok
        /\ s.counted = Counted(r.corpus, ok)
    BY <1>1, <2>0 DEF HandlerState
  <2>. HIDE DEF s
  <2>3. InOrder(s)
    BY <1>4, <2>2 DEF InOrder, Confirmed
  <2>4. Report(s, count[s.corpus])
    BY <1>1, <1>3, <2>2 DEF Report, InOrder, Counted
  <2>. QED
    BY <1>1, <1>3, <2>1, <2>2, <2>3, <2>4, QuietStep
<1>5. CASE ~ Confirmed(r)
  <2>1. purges' = [purges EXCEPT ![q] = Error(r, "refused")]
    BY <1>2, <1>5
  <2>. QED
    BY <1>1, <1>3, <2>1, QuietStep, RequestTypes DEF InOrder, Report
<1>. QED
  BY <1>4, <1>5

\* A handler that has deleted d more nodes.
Deleted(r, d, st) == [r EXCEPT !.deleted = @ + d, !.st = st]

LEMMA DeletedIs ==
    ASSUME NEW r \in HandlerState, NEW d \in Nat, NEW st \in {"done", "deleting"}
    PROVE  /\ Deleted(r, d, st) \in HandlerState /\ Deleted(r, d, st).corpus = r.corpus
           /\ Deleted(r, d, st).confirmation = r.confirmation
           /\ Deleted(r, d, st).counted = r.counted
           /\ Deleted(r, d, st).deleted = r.deleted + d
           /\ Deleted(r, d, st).alone = r.alone /\ Deleted(r, d, st).st = st
<1>1. r.deleted + d \in Nat
  BY DEF HandlerState
<1>. QED
  BY <1>1 DEF HandlerState, Deleted

LEMMA DeleteBatchInv ==
    ASSUME PurgeInv, NEW q \in PurgeRequests, DeleteBatch(q)
    PROVE  PurgeInv'
<1> DEFINE r == purges[q]
           deleted == Least(count[r.corpus], PurgeBatch)
           st == IF Exhausted(deleted) THEN "done" ELSE "deleting"
           s == Deleted(r, deleted, st)
<1>1. /\ PurgeTypeOK /\ r \in HandlerState /\ r.st = "deleting" /\ InOrder(r)
      /\ Report(r, count[r.corpus]) /\ r.corpus \in Names /\ count[r.corpus] \in Nat
  <2>1. PurgeTypeOK /\ GatePassed /\ ReportTrueAlone
    BY DEF PurgeInv
  <2>2. r \in HandlerState /\ r.st = "deleting"
    BY <2>1 DEF PurgeTypeOK, DeleteBatch
  <2>3. r.corpus \in Names /\ count[r.corpus] \in Nat
    BY <2>1, <2>2 DEF PurgeTypeOK, HandlerState
  <2>. QED
    BY <2>1, <2>2, <2>3 DEF GatePassed, ReportTrueAlone, Report
<1>2. /\ count' = [count EXCEPT ![r.corpus] = @ - deleted]
      /\ purges' = [Disturb(r.corpus, purges) EXCEPT ![q] = s]
      /\ panel' = panel /\ loads' = loads
  BY DEF DeleteBatch, Deleted
<1>3. /\ deleted \in Nat /\ count[r.corpus] - deleted \in Nat
      /\ Exhausted(deleted) => count[r.corpus] - deleted = 0
  BY <1>1, LeastIs DEF Exhausted
<1>31. st \in {"done", "deleting"} /\ (st = "done" => Exhausted(deleted))
  OBVIOUS
<1>. HIDE DEF deleted, st
<1>4. /\ s \in HandlerState /\ s.corpus = r.corpus /\ s.confirmation = r.confirmation
      /\ s.counted = r.counted /\ s.deleted = r.deleted + deleted /\ s.alone = r.alone
      /\ s.st = st
  BY <1>1, <1>3, <1>31, DeletedIs
<1>. HIDE DEF s
<1>5. /\ purges' \in [PurgeRequests -> HandlerState] /\ purges'[q] = s
      /\ \A o \in PurgeRequests \ {q} : purges'[o] = Disturb(r.corpus, purges)[o]
  BY <1>1, <1>2, <1>4, DisturbIs
<1>6. InOrder(s)
  BY <1>1, <1>4, <1>31 DEF InOrder
<1>7. Report(s, count[r.corpus] - deleted)
  <2>1. r.counted \in Nat /\ r.deleted \in Nat
    BY <1>1 DEF HandlerState
  <2>2. r.alone => r.counted = r.deleted + count[r.corpus]
    BY <1>1 DEF Report
  <2>. QED
    BY <1>1, <1>3, <1>31, <1>4, <2>1, <2>2 DEF Report
<1>8. count' = [count EXCEPT ![r.corpus] = count[r.corpus] - deleted] /\ loads' \in Nat
  BY <1>1, <1>2 DEF PurgeTypeOK
<1>9. \A o \in PurgeRequests :
          \/ purges'[o] = Disturb(r.corpus, purges)[o]
          \/ /\ InOrder(purges'[o])
             /\ purges'[o].corpus = r.corpus /\ Report(purges'[o], count[r.corpus] - deleted)
  BY <1>4, <1>5, <1>6, <1>7
<1>. QED
  BY <1>1, <1>2, <1>3, <1>5, <1>8, <1>9, DisturbStep

LEMMA BatchFailsInv ==
    ASSUME PurgeInv, NEW q \in PurgeRequests, BatchFails(q)
    PROVE  PurgeInv'
<1> DEFINE r == purges[q]
           s == Error(r, "failed")
<1>1. /\ PurgeTypeOK /\ r \in HandlerState /\ r.st = "deleting"
      /\ r.corpus \in Names /\ count[r.corpus] \in Nat
  BY DEF PurgeInv, PurgeTypeOK, HandlerState, BatchFails
<1>2. PICK deleted \in {0, Least(count[r.corpus], PurgeBatch)} :
          /\ count' = [count EXCEPT ![r.corpus] = @ - deleted]
          /\ purges' = [(IF deleted = 0 THEN purges ELSE Disturb(r.corpus, purges)) EXCEPT ![q] = s]
  BY DEF BatchFails
<1>3. panel' = panel /\ loads' = loads
  BY DEF BatchFails
<1>4. /\ s \in HandlerState /\ s.st = "failed" /\ s.corpus = r.corpus
      /\ InOrder(s) /\ \A n : Report(s, n)
  BY <1>1, RequestTypes DEF InOrder, Report, Error, HandlerState
<1>. HIDE DEF s
<1>5. count[r.corpus] - deleted \in Nat
  <2>1. CASE deleted = 0
    BY <1>1, <2>1
  <2>2. CASE deleted = Least(count[r.corpus], PurgeBatch)
    BY <1>1, <2>2, LeastIs
  <2>. QED
    BY <2>1, <2>2
<1>6. CASE deleted = 0
  <2>1. count' = count
    BY <1>1, <1>2, <1>6 DEF PurgeTypeOK
  <2>2. purges' = [purges EXCEPT ![q] = s]
    BY <1>2, <1>6
  <2>3. panel' \in [Panels -> PanelState]
    BY <1>1, <1>3 DEF PurgeTypeOK
  <2>. QED
    BY <1>3, <1>4, <2>1, <2>2, <2>3, QuietStep
<1>7. CASE deleted # 0
  <2>1. purges' = [Disturb(r.corpus, purges) EXCEPT ![q] = s]
    BY <1>2, <1>7
  <2>2. /\ purges' \in [PurgeRequests -> HandlerState] /\ purges'[q] = s
        /\ \A o \in PurgeRequests \ {q} : purges'[o] = Disturb(r.corpus, purges)[o]
    BY <1>1, <1>4, <2>1, DisturbIs
  <2>3. count' = [count EXCEPT ![r.corpus] = count[r.corpus] - deleted] /\ loads' \in Nat
    BY <1>1, <1>2, <1>3 DEF PurgeTypeOK
  <2>4. \A o \in PurgeRequests :
          \/ purges'[o] = Disturb(r.corpus, purges)[o]
          \/ /\ InOrder(purges'[o])
             /\ purges'[o].corpus = r.corpus /\ Report(purges'[o], count[r.corpus] - deleted)
    BY <1>4, <2>2
  <2>. QED
    BY <1>1, <1>3, <1>5, <2>2, <2>3, <2>4, DisturbStep
<1>. QED
  BY <1>6, <1>7

LEMMA LoadInv ==
    ASSUME PurgeInv, NEW c \in Corpora, LoadNode(c)
    PROVE  PurgeInv'
<1>1. PurgeTypeOK /\ c \in Names
  BY NamesAssumption DEF PurgeInv
<1>2. /\ count' = [count EXCEPT ![c] = count[c] + 1] /\ count[c] + 1 \in Nat
      /\ loads' \in Nat /\ panel' = panel
      /\ purges' = Disturb(c, purges)
  BY <1>1 DEF LoadNode, PurgeTypeOK
<1>3. purges' \in [PurgeRequests -> HandlerState] /\ \A q \in PurgeRequests : purges'[q] = Disturb(c, purges)[q]
  BY <1>1, <1>2, DisturbIs
<1>. QED
  BY <1>1, <1>2, <1>3, DisturbStep

\* A request arrives or is answered: its handler has no numbers.
LEMMA EnterOrLeaveInv ==
    ASSUME PurgeInv, NEW q \in PurgeRequests, NEW r \in HandlerState,
           r.st = "none" \/ (r.st = "received" /\ r.deleted = 0),
           purges' = [purges EXCEPT ![q] = r], count' = count, loads' = loads,
           panel' \in [Panels -> PanelState]
    PROVE  PurgeInv'
<1>1. InOrder(r) /\ Report(r, count[r.corpus])
  BY DEF InOrder, Report
<1>. QED
  BY <1>1, QuietStep

LEMMA PanelInv ==
    ASSUME PurgeInv, panel' \in [Panels -> PanelState], UNCHANGED <<count, purges, loads>>
    PROVE  PurgeInv'
BY DEF PurgeInv, PurgeTypeOK, GatePassed, ReportTrueAlone

LEMMA PurgeStepInv == PurgeInv /\ [PurgeNext]_purgeVars => PurgeInv'
<1>. SUFFICES ASSUME PurgeInv, [PurgeNext]_purgeVars PROVE PurgeInv'
  OBVIOUS
<1>1. panel \in [Panels -> PanelState]
  BY DEF PurgeInv, PurgeTypeOK
<1>2. CASE UNCHANGED purgeVars
  BY <1>1, <1>2, PanelInv DEF purgeVars
<1>3. ASSUME NEW p \in Panels, NEW c \in Corpora \cup {Nil}, Select(p, c) PROVE PurgeInv'
  BY <1>1, <1>3, PanelInv DEF Select, PanelState
<1>4. ASSUME NEW p \in Panels, NEW text \in Corpora \cup {Nil}, Type(p, text) PROVE PurgeInv'
  <2>1. panel' \in [Panels -> PanelState]
    BY <1>1, <1>4, NamesAssumption DEF Type, PanelState
  <2>. QED
    BY <1>4, <2>1, PanelInv DEF Type
<1>5. ASSUME NEW p \in Panels, Preview(p) PROVE PurgeInv'
  BY <1>1, <1>5, PanelInv DEF Preview, PanelState
<1>6. ASSUME NEW p \in Panels, PreviewSettles(p) PROVE PurgeInv'
  <2>1. panel' \in [Panels -> PanelState]
    <3>1. panel[p] \in PanelState
      BY <1>1
    <3>2. PICK shown \in {panel[p].previewing, panel[p].preview} :
              panel' = [panel EXCEPT ![p].previewing = Nil, ![p].preview = shown]
      BY <1>6 DEF PreviewSettles
    <3>. QED
      BY <1>1, <3>1, <3>2 DEF PanelState
  <2>. QED
    BY <1>6, <2>1, PanelInv DEF PreviewSettles
<1>7. ASSUME NEW p \in Panels, LeavePanel(p) PROVE PurgeInv'
  BY <1>1, <1>7, PanelInv DEF LeavePanel, NewPanel, PanelState
<1>8. ASSUME NEW p \in Panels, NEW q \in PurgeRequests, Purge(p, q) PROVE PurgeInv'
  <2> DEFINE r == Received(panel[p].selected, panel[p].confirm)
  <2>1. panel' \in [Panels -> PanelState]
    BY <1>1, <1>8 DEF Purge, PanelState
  <2>2. panel[p].selected \in Names /\ panel[p].confirm \in Names \cup {Nil}
    BY <1>1, <1>8, NamesAssumption DEF Purge, CanPurge, PanelState
  <2>3. r \in HandlerState /\ r.st = "received" /\ r.deleted = 0
    BY <2>2, RequestTypes DEF Received
  <2>. HIDE DEF r
  <2>4. purges' = [purges EXCEPT ![q] = r] /\ count' = count /\ loads' = loads
    BY <1>8 DEF Purge, r
  <2>. QED
    BY <2>1, <2>3, <2>4, EnterOrLeaveInv
<1>9. ASSUME NEW q \in PurgeRequests, NEW call \in ApiCalls, ApiPurge(q, call) PROVE PurgeInv'
  <2> DEFINE r == Received(call[1], call[2])
  <2>1. call[1] \in Names /\ call[2] \in Names \cup {Nil}
    BY NamesAssumption
  <2>2. r \in HandlerState /\ r.st = "received" /\ r.deleted = 0
    BY <2>1, RequestTypes DEF Received
  <2>. HIDE DEF r
  <2>3. purges' = [purges EXCEPT ![q] = r] /\ UNCHANGED <<count, panel, loads>>
    BY <1>9 DEF ApiPurge, r
  <2>. QED
    BY <1>1, <2>2, <2>3, EnterOrLeaveInv
<1>10. ASSUME NEW q \in PurgeRequests, AnswerPurge(q) PROVE PurgeInv'
  <2>1. PICK heard \in BOOLEAN :
            panel' = [p \in Panels |->
              IF panel[p].purging # q THEN panel[p]
              ELSE IF heard /\ purges[q].st = "done"
              THEN [panel[p] EXCEPT !.purging = Nil, !.confirm = Nil, !.preview = Nil]
              ELSE [panel[p] EXCEPT !.purging = Nil]]
    BY <1>10 DEF AnswerPurge
  <2>2. panel' \in [Panels -> PanelState]
    BY <1>1, <2>1 DEF PanelState
  <2>3. purges' = [purges EXCEPT ![q] = NoPurge] /\ count' = count /\ loads' = loads
    BY <1>10 DEF AnswerPurge
  <2>. QED
    BY <2>2, <2>3, RequestTypes, EnterOrLeaveInv
<1>. QED
  BY <1>2, <1>3, <1>4, <1>5, <1>6, <1>7, <1>8, <1>9, <1>10,
     BeginInv, DeleteBatchInv, BatchFailsInv, LoadInv DEF PurgeNext

\* The numbers and texts of every request and panel are what the code expects
\* them to be, and nothing is deleted on behalf of an unconfirmed request.
THEOREM PurgeInvariant == PurgeSpec => []PurgeInv
BY PurgeInitInv, PurgeStepInv, PTL DEF PurgeSpec

\* What a purge reports is what it removed, if nothing else touched the corpus.
THEOREM ReportIsTrueAlone == PurgeSpec => []ReportTrueAlone
BY PurgeInvariant, PTL DEF PurgeInv

\* The step of a handler that changes the number of nodes.
LEMMA ChangeStep ==
    ASSUME PurgeInv, [PurgeNext]_purgeVars, NEW c \in Names, count'[c] < count[c]
    PROVE  \E q \in PurgeRequests : purges[q].st = "deleting" /\ purges[q].corpus = c
<1>1. count \in [Names -> Nat]
  BY DEF PurgeInv, PurgeTypeOK
<1>2. count'[c] # count[c]
  BY <1>1
<1>3. CASE \E q \in PurgeRequests : DeleteBatch(q)
  <2>1. PICK q \in PurgeRequests : DeleteBatch(q)
    BY <1>3
  <2>2. purges[q].st = "deleting" /\ count' = [count EXCEPT ![purges[q].corpus] =
                                   @ - Least(count[purges[q].corpus], PurgeBatch)]
    BY <2>1 DEF DeleteBatch
  <2>. QED
    BY <1>1, <1>2, <2>2
<1>4. CASE \E q \in PurgeRequests : BatchFails(q)
  <2>1. PICK q \in PurgeRequests : BatchFails(q)
    BY <1>4
  <2>2. purges[q].st = "deleting" /\
        \E n : count' = [count EXCEPT ![purges[q].corpus] = @ - n]
    BY <2>1 DEF BatchFails
  <2>. QED
    BY <1>1, <1>2, <2>2
<1>5. CASE \E d \in Corpora : LoadNode(d)
  <2>1. PICK d \in Corpora : LoadNode(d)
    BY <1>5
  <2>2. d \in Names /\ count' = [count EXCEPT ![d] = @ + 1]
    BY <2>1, NamesAssumption DEF LoadNode
  <2>3. count[c] \in Nat
    BY <1>1
  <2>. QED
    BY <1>1, <2>2, <2>3
<1>. QED
  BY <1>2, <1>3, <1>4, <1>5 DEF PurgeNext, purgeVars, Select, Type, Preview, PreviewSettles, LeavePanel,
     Purge, ApiPurge, Begin, AnswerPurge

\* Nothing is removed from a corpus whose name was not confirmed.
THEOREM PurgeIsConfined == PurgeSpec => NoCollateral
<1>1. ASSUME PurgeInv, [PurgeNext]_purgeVars, NEW c \in Names, count'[c] < count[c]
      PROVE  \E q \in PurgeRequests : /\ purges[q].st = "deleting"
                                 /\ purges[q].corpus = c /\ purges[q].confirmation = c
  BY <1>1, ChangeStep DEF PurgeInv, GatePassed, InOrder
<1>2. PurgeInv /\ [PurgeNext]_purgeVars =>
        [\A c \in Names : count'[c] < count[c] =>
           \E q \in PurgeRequests : /\ purges[q].st = "deleting"
                               /\ purges[q].corpus = c /\ purges[q].confirmation = c]_purgeVars
  BY <1>1
<1>. QED
  BY <1>2, PurgeInvariant, PTL DEF PurgeSpec, NoCollateral

\* Only the handler itself takes a request from deleting to done.
LEMMA DoneStep ==
    ASSUME PurgeInv, [PurgeNext]_purgeVars, NEW q \in PurgeRequests,
           purges[q].st = "deleting", purges'[q].st = "done"
    PROVE  count'[purges[q].corpus] = 0
<1>1. PurgeTypeOK
  BY DEF PurgeInv
<1>2. purges'[q] # purges[q]
  OBVIOUS
<1>3. ASSUME NEW o \in PurgeRequests, DeleteBatch(o)
      PROVE  count'[purges[q].corpus] = 0
  <2> DEFINE deleted == Least(count[purges[o].corpus], PurgeBatch)
  <2>1. CASE o = q
    <3>1. purges[q] \in HandlerState
      BY <1>1 DEF PurgeTypeOK
    <3>2. purges[q].corpus \in Names /\ count[purges[q].corpus] \in Nat
      BY <1>1, <3>1 DEF PurgeTypeOK, HandlerState
    <3>3. Disturb(purges[q].corpus, purges) \in [PurgeRequests -> HandlerState]
      BY <1>1, DisturbIs
    <3>4. purges'[q] = [purges[q] EXCEPT !.deleted = @ + deleted,
                               !.st = IF Exhausted(deleted) THEN "done" ELSE "deleting"]
      BY <1>3, <2>1, <3>3 DEF DeleteBatch
    <3>. HIDE DEF deleted
    <3>5. purges'[q].st = IF Exhausted(deleted) THEN "done" ELSE "deleting"
      BY <3>1, <3>4 DEF HandlerState
    <3>6. Exhausted(deleted)
      BY <3>5
    <3>7. count[purges[q].corpus] - deleted = 0
      BY <2>1, <3>2, <3>6, LeastIs DEF Exhausted, deleted
    <3>8. count' = [count EXCEPT ![purges[q].corpus] = @ - deleted]
      BY <1>3, <2>1 DEF DeleteBatch, deleted
    <3>. QED
      BY <1>1, <3>2, <3>7, <3>8 DEF PurgeTypeOK
  <2>2. CASE o # q
    <3>1. purges'[q] = Disturb(purges[o].corpus, purges)[q]
      BY <1>1, <1>3, <2>2, DisturbIs DEF DeleteBatch
    <3>. QED
      BY <1>1, <3>1, DisturbIs
  <2>. QED
    BY <2>1, <2>2
<1>4. ASSUME NEW o \in PurgeRequests, BatchFails(o) PROVE FALSE
  <2>1. PICK f \in {purges, Disturb(purges[o].corpus, purges)} :
            purges' = [f EXCEPT ![o] = Error(purges[o], "failed")]
    BY <1>4 DEF BatchFails
  <2>2. f \in [PurgeRequests -> HandlerState] /\ f[q].st = "deleting"
    BY <1>1, DisturbIs DEF PurgeTypeOK
  <2>3. Error(purges[o], "failed").st = "failed"
    BY <1>1, RequestTypes DEF PurgeTypeOK
  <2>. QED
    BY <2>1, <2>2, <2>3
<1>5. ASSUME NEW d \in Corpora, LoadNode(d) PROVE FALSE
  BY <1>1, <1>5, DisturbIs DEF LoadNode
<1>6. ASSUME NEW o \in PurgeRequests, Begin(o) PROVE FALSE
  <2>1. q # o
    BY <1>6 DEF Begin
  <2>. QED
    BY <1>1, <1>2, <1>6, <2>1 DEF Begin, PurgeTypeOK
<1>7. ASSUME NEW o \in PurgeRequests, NEW r, purges' = [purges EXCEPT ![o] = r], purges[o].st # "deleting"
      PROVE  FALSE
  BY <1>1, <1>2, <1>7 DEF PurgeTypeOK
<1>8. ASSUME NEW o \in PurgeRequests, AnswerPurge(o) PROVE FALSE
  BY <1>7, <1>8 DEF AnswerPurge
<1>9. ASSUME NEW o \in PurgeRequests, NEW call \in ApiCalls, ApiPurge(o, call) PROVE FALSE
  BY <1>7, <1>9 DEF ApiPurge
<1>10. ASSUME NEW p \in Panels, NEW o \in PurgeRequests, Purge(p, o) PROVE FALSE
  BY <1>7, <1>10 DEF Purge
<1>. QED
  BY <1>2, <1>3, <1>4, <1>5, <1>6, <1>8, <1>9, <1>10
     DEF PurgeNext, purgeVars, Select, Type, Preview, PreviewSettles, LeavePanel

\* Success means that the corpus was empty when the last batch committed.
THEOREM PurgeIsComplete == PurgeSpec => DoneMeansGone
<1>1. PurgeInv /\ [PurgeNext]_purgeVars =>
        [\A q \in PurgeRequests : purges[q].st = "deleting" /\ purges'[q].st = "done" =>
            count'[purges[q].corpus] = 0]_purgeVars
  BY DoneStep
<1>. QED
  BY <1>1, PurgeInvariant, PTL DEF PurgeSpec, DoneMeansGone

-----------------------------------------------------------------------------
(* Flags.  A page of the list is a piece of the ranks of the flags that    *)
(* match; the piece is empty only if the flags end before it.  Pages are   *)
(* turned within the count of a list that was shown, so a page past the    *)
(* end means that the count has been greater.  A pending row of a list, or *)
(* a PATCH under way, is about a flag that is pending still, or that has   *)
(* changed since the row was read.                                         *)

Rows == UNION {[D -> Statuses] : D \in SUBSET (1..MaxFlags)}

Lists == [page : Nat, of : Statuses \cup {AnyStatus}, rows : Rows, total : 0..MaxFlags,
          raced : BOOLEAN, changed : SUBSET (1..MaxFlags)]

Desk == [page : Nat \ {0}, status : Statuses \cup {AnyStatus}, list : Lists, kept : Lists,
         count : [total : -1..MaxFlags, raced : BOOLEAN],
         patch : [flag : 0..MaxFlags, answer : Answers \cup {"none"}, raced : BOOLEAN],
         most : 0..MaxFlags]

\* What a list l and a desk d may be, the flags being fl.
FlagsIn(fl, status) == {f \in DOMAIN fl : status \in {AnyStatus, fl[f]}}

ListOf(l, fl) ==
    /\ DOMAIN l.rows \subseteq DOMAIN fl
    /\ \A f \in DOMAIN l.rows : l.rows[f] = "pending" /\ f \notin l.changed => fl[f] = "pending"
    /\ l.rows = <<>> /\ l.total > 0 => l.raced \/ l.total <= (l.page - 1) * FlagsPerPage

PatchOf(p, fl) ==
    /\ p \in [flag : DOMAIN fl, answer : Answers, raced : BOOLEAN] \cup {Nobodys}
    /\ p # Nobodys /\ ~p.raced => fl[p.flag] = "pending"

CountOf(c, status, fl) ==
    c # NoCount => /\ c.total \in 0..MaxFlags
                   /\ ~c.raced => c.total <= Cardinality(FlagsIn(fl, status))

DeskOf(d, fl) ==
    /\ d.page = 1 \/ d.page <= FlagPages(d.most)
    /\ d.list = Loading \/ (d.list.page = d.page /\ d.list.of = d.status)
    /\ d.list.total <= d.most
    /\ ListOf(d.list, fl) /\ ListOf(d.kept, fl)
    /\ PatchOf(d.patch, fl) /\ CountOf(d.count, d.status, fl)

FlagsTypeOK == \E n \in 0..MaxFlags : flags \in [1..n -> Statuses]

ModInd ==
    /\ FlagsTypeOK
    /\ desk \in [Moderators -> Desk]
    /\ \A m \in Moderators : DeskOf(desk[m], flags)

\* The flags of a status.
LEMMA FlagsAreFew ==
    ASSUME FlagsTypeOK, NEW status
    PROVE  /\ FlagsOf(status) = FlagsIn(flags, status) /\ FlagsOf(status) \subseteq 1..MaxFlags
           /\ FlagsOf(status) \subseteq DOMAIN flags /\ DOMAIN flags \subseteq 1..MaxFlags
           /\ IsFiniteSet(FlagsOf(status)) /\ Cardinality(FlagsOf(status)) \in 0..MaxFlags
<1>1. PICK n \in 0..MaxFlags : flags \in [1..n -> Statuses]
  BY DEF FlagsTypeOK
<1>2. FlagsOf(status) \subseteq 1..MaxFlags /\ DOMAIN flags \subseteq 1..MaxFlags
  BY <1>1, ModerationAssumption DEF FlagsOf
<1>3. IsFiniteSet(1..MaxFlags) /\ Cardinality(1..MaxFlags) = MaxFlags
  BY FS_Interval, ModerationAssumption
<1>4. IsFiniteSet(FlagsOf(status)) /\ Cardinality(FlagsOf(status)) \in 0..MaxFlags
  BY <1>2, <1>3, FS_Subset, FS_CardinalityType, ModerationAssumption
<1>. QED
  BY <1>2, <1>4 DEF FlagsOf, FlagsIn

\* What list_flagged_content lists.
LEMMA RowsAre ==
    ASSUME FlagsTypeOK, NEW status, NEW page \in Nat \ {0}, NEW rows, rows = RowsOf(status, page)
    PROVE  /\ rows \in Rows
           /\ DOMAIN rows \subseteq DOMAIN flags
           /\ \A f \in DOMAIN rows : rows[f] = flags[f]
           /\ rows = <<>> => Cardinality(FlagsOf(status)) <= (page - 1) * FlagsPerPage
<1> DEFINE all == FlagsOf(status)
           shown == {f \in all : Cardinality({g \in all : g >= f})
                                 \in (page - 1) * FlagsPerPage + 1 .. page * FlagsPerPage}
<1>1. PICK n \in 0..MaxFlags : flags \in [1..n -> Statuses]
  BY DEF FlagsTypeOK
<1>2. /\ all \subseteq 1..MaxFlags /\ all \subseteq DOMAIN flags
      /\ IsFiniteSet(all) /\ Cardinality(all) \in 0..MaxFlags
  BY FlagsAreFew
<1>3. rows = [f \in shown |-> flags[f]]
  BY DEF RowsOf
<1>4. shown \subseteq all
  OBVIOUS
<1>5. ASSUME Cardinality(all) > (page - 1) * FlagsPerPage PROVE shown # {}
  <2>. DEFINE k == (page - 1) * FlagsPerPage + 1
  <2>1. /\ k \in 1..Cardinality(all)
        /\ k \in (page - 1) * FlagsPerPage + 1 .. page * FlagsPerPage
    <3>1. /\ (page - 1) * FlagsPerPage \in Nat
          /\ page * FlagsPerPage = (page - 1) * FlagsPerPage + FlagsPerPage
      BY ModerationAssumption
    <3>2. Cardinality(all) \in Nat
      BY <1>2, ModerationAssumption
    <3>. QED
      BY <1>5, <3>1, <3>2, ModerationAssumption
  <2>. HIDE DEF k
  <2>2. AreNumbers(all)
    BY <1>2 DEF AreNumbers
  <2>3. PICK f \in all : Cardinality({g \in all : g >= f}) = k
    <3>. HIDE DEF all
    <3>. QED
      BY <1>2, <2>1, <2>2, PlacesFill
  <2>. QED
    BY <2>1, <2>3
<1>. HIDE DEF all, shown
<1>6. rows \in Rows
  <2>1. shown \in SUBSET (1..MaxFlags)
    BY <1>2, <1>4
  <2>2. \A f \in shown : flags[f] \in Statuses
    BY <1>1, <1>2, <1>4
  <2>3. rows \in [shown -> Statuses]
    BY <1>3, <2>2
  <2>. QED
    BY <2>1, <2>3 DEF Rows
<1>7. rows = <<>> => Cardinality(all) <= (page - 1) * FlagsPerPage
  <2>1. rows = <<>> => shown = {}
    BY <1>3
  <2>2. (page - 1) * FlagsPerPage \in Nat /\ Cardinality(all) \in Nat
    BY <1>2, ModerationAssumption
  <2>. QED
    BY <1>5, <2>1, <2>2
<1>. QED
  BY <1>2, <1>3, <1>4, <1>6, <1>7 DEF all

LEMMA LoadingIs ==
    /\ Loading \in Lists /\ Loading.total = 0
    /\ \A fl : ListOf(Loading, fl)
<1>1. <<>> \in [{} -> Statuses] /\ {} \in SUBSET (1..MaxFlags)
  OBVIOUS
<1>2. <<>> \in Rows
  BY <1>1 DEF Rows
<1>3. Loading = [page |-> 0, of |-> AnyStatus, rows |-> <<>>, total |-> 0, raced |-> FALSE,
                 changed |-> {}]
  BY DEF Loading, Listed
<1>4. Loading \in Lists
  BY <1>2, <1>3, ModerationAssumption DEF Lists
<1>5. ASSUME NEW fl PROVE ListOf(Loading, fl)
  <2>1. DOMAIN Loading.rows = {} /\ Loading.total = 0
    BY <1>3
  <2>. QED
    BY <2>1 DEF ListOf
<1>. QED
  BY <1>3, <1>4, <1>5

LEMMA NobodysIs ==
    /\ Nobodys \in [flag : 0..MaxFlags, answer : Answers \cup {"none"}, raced : BOOLEAN]
    /\ NoCount \in [total : -1..MaxFlags, raced : BOOLEAN]
    /\ Nobodys.flag = 0 /\ NoCount.raced = FALSE
    /\ \A fl : PatchOf(Nobodys, fl)
    /\ \A fl, status : CountOf(NoCount, status, fl)
BY ModerationAssumption DEF Nobodys, NoCount, PatchOf, CountOf

\* More to list are not fewer pages.
LEMMA PagesGrow ==
    ASSUME NEW a \in Nat, NEW b \in Nat, a <= b
    PROVE  FlagPages(a) \in Nat /\ FlagPages(a) <= FlagPages(b)
<1>. DEFINE p == FlagPages(a)
<1>1. p \in Nat /\ FlagPages(b) \in Nat
  BY PagesAre, ModerationAssumption, 1 \in Nat \ {0} DEF FlagPages
<1>2. CASE p \in Nat \ {0}
  <2>1. (p - 1) * FlagsPerPage < a
    BY <1>1, <1>2, PagesAre, ModerationAssumption DEF FlagPages
  <2>2. (p - 1) * FlagsPerPage \in Nat
    BY <1>2, ModerationAssumption
  <2>3. (p - 1) * FlagsPerPage < b
    BY <2>1, <2>2
  <2>. QED
    BY <1>1, <1>2, <2>3, PagesAre, ModerationAssumption DEF FlagPages
<1>. QED
  BY <1>1, <1>2

LEMMA GreaterOf ==
    ASSUME NEW a \in 0..MaxFlags, NEW b \in 0..MaxFlags
    PROVE  Max({a, b}) \in 0..MaxFlags /\ a <= Max({a, b}) /\ b <= Max({a, b})
<1>1. a \in Int /\ b \in Int
  OBVIOUS
<1>2. Max({a, b}) \in {a, b} /\ a <= Max({a, b}) /\ b <= Max({a, b})
  BY <1>1, OfTwo, Zenon
<1>. QED
  BY <1>2, ModerationAssumption

\* One desk d takes the place of m's, the others and the flags stay.
LEMMA DeskChanges ==
    ASSUME ModInd, NEW m \in Moderators, NEW d \in Desk, desk' = [desk EXCEPT ![m] = d],
           flags' = flags, DeskOf(d, flags)
    PROVE  ModInd'
<1>1. desk' \in [Moderators -> Desk] /\ \A b \in Moderators : desk'[b] = IF b = m THEN d ELSE desk[b]
  BY DEF ModInd
<1>2. \A b \in Moderators : DeskOf(desk'[b], flags')
  BY <1>1 DEF ModInd
<1>. QED
  BY <1>1, <1>2 DEF ModInd, FlagsTypeOK

\* Another page or status: its list is still to come, or cached.
LEMMA TurnStep ==
    ASSUME ModInd, NEW m \in Moderators, NEW page \in Nat \ {0}, NEW status \in Statuses \cup {AnyStatus},
           Turn(m, page, status),
           page = 1 \/ (status = desk[m].status /\ page <= FlagPages(desk[m].most))
    PROVE  ModInd'
<1>. DEFINE old == desk[m]
<1>1. old \in Desk /\ DeskOf(old, flags) /\ flags' = flags
  BY DEF ModInd, Turn
<1>2. PICK list \in {Loading, old.kept} :
          /\ list = Loading \/ (list.page = page /\ list.of = status)
          /\ desk' = [desk EXCEPT
                 ![m].page = page, ![m].status = status, ![m].list = list, ![m].count = NoCount,
                 ![m].kept = IF desk[m].list = Loading THEN @ ELSE desk[m].list,
                 ![m].most = Max({list.total, IF status = desk[m].status THEN @ ELSE 0})]
  BY DEF Turn
<1>. DEFINE kept == IF old.list = Loading THEN old.kept ELSE old.list
            top == IF status = old.status THEN old.most ELSE 0
            most == Max({list.total, top})
            d == [old EXCEPT !.page = page, !.status = status, !.list = list, !.count = NoCount,
                             !.kept = kept, !.most = most]
<1>3. desk' = [desk EXCEPT ![m] = d]
  BY <1>1, <1>2 DEF ModInd
<1>4. /\ list \in Lists /\ ListOf(list, flags) /\ kept \in Lists /\ ListOf(kept, flags)
      /\ list.total \in 0..MaxFlags
  <2>1. /\ Loading \in Lists /\ ListOf(Loading, flags)
        /\ old.kept \in Lists /\ ListOf(old.kept, flags)
        /\ old.list \in Lists /\ ListOf(old.list, flags)
    BY <1>1, LoadingIs DEF DeskOf, Desk
  <2>2. list \in Lists /\ ListOf(list, flags) /\ kept \in Lists /\ ListOf(kept, flags)
    BY <2>1
  <2>. QED
    BY <2>2 DEF Lists
<1>5. top \in 0..MaxFlags /\ (status = old.status => top = old.most)
  BY <1>1, ModerationAssumption DEF Desk
<1>. HIDE DEF top, kept
<1>6. most \in 0..MaxFlags /\ list.total <= most /\ top <= most
  BY <1>4, <1>5, GreaterOf
<1>. HIDE DEF most
<1>7. /\ d \in Desk /\ d.page = page /\ d.status = status /\ d.list = list /\ d.count = NoCount
      /\ d.kept = kept /\ d.most = most /\ d.patch = old.patch
  BY <1>1, <1>4, <1>6, NobodysIs DEF Desk
<1>. HIDE DEF d
<1>8. d.page = 1 \/ d.page <= FlagPages(d.most)
  <2>1. old.most \in Nat
    BY <1>1 DEF Desk
  <2>2. status = old.status =>
            FlagPages(old.most) <= FlagPages(most) /\ FlagPages(old.most) \in Nat /\ FlagPages(most) \in Nat
    BY <1>5, <1>6, <2>1, PagesGrow
  <2>. QED
    BY <1>7, <2>2
<1>9. DeskOf(d, flags)
  <2>1. PatchOf(d.patch, flags) /\ CountOf(d.count, d.status, flags)
    BY <1>1, <1>7, NobodysIs DEF DeskOf
  <2>2. d.list = Loading \/ (d.list.page = d.page /\ d.list.of = d.status)
    BY <1>2, <1>7
  <2>3. ListOf(d.list, flags) /\ ListOf(d.kept, flags) /\ d.list.total <= d.most
    BY <1>4, <1>6, <1>7
  <2>. QED
    BY <1>8, <2>1, <2>2, <2>3 DEF DeskOf
<1>. QED
  BY <1>1, <1>3, <1>7, <1>9, DeskChanges

LEMMA SetStatusInv ==
    ASSUME ModInd, NEW m \in Moderators, NEW status \in Statuses \cup {AnyStatus}, SetStatus(m, status)
    PROVE  ModInd'
BY TurnStep DEF SetStatus

LEMMA PreviousPageInv ==
    ASSUME ModInd, NEW m \in Moderators, PreviousPage(m)
    PROVE  ModInd'
<1>1. /\ desk[m] \in Desk /\ DeskOf(desk[m], flags) /\ desk[m].page > 1
      /\ Turn(m, desk[m].page - 1, desk[m].status)
  BY DEF ModInd, PreviousPage
<1>2. /\ desk[m].page \in Nat /\ desk[m].most \in Nat
      /\ desk[m].status \in Statuses \cup {AnyStatus}
  BY <1>1 DEF Desk
<1>3. FlagPages(desk[m].most) \in Nat /\ desk[m].page <= FlagPages(desk[m].most)
  BY <1>1, <1>2, PagesGrow DEF DeskOf
<1>. QED
  BY <1>1, <1>2, <1>3, TurnStep

LEMMA NextPageInv ==
    ASSUME ModInd, NEW m \in Moderators, NextPage(m)
    PROVE  ModInd'
<1>. DEFINE last == FlagPages(desk[m].list.total)
            next == Min({last, desk[m].page + 1})
<1>1. /\ desk[m] \in Desk /\ DeskOf(desk[m], flags) /\ last > 1
      /\ Turn(m, next, desk[m].status)
  BY DEF ModInd, NextPage
<1>2. /\ desk[m].page \in Nat \ {0} /\ desk[m].most \in Nat /\ desk[m].list.total \in Nat
      /\ desk[m].status \in Statuses \cup {AnyStatus}
  BY <1>1 DEF Desk, Lists
<1>3. desk[m].list.total <= desk[m].most
  BY <1>1 DEF DeskOf
<1>4. last \in Nat /\ last <= FlagPages(desk[m].most) /\ FlagPages(desk[m].most) \in Nat
  BY <1>2, <1>3, PagesGrow
<1>5. next \in {last, desk[m].page + 1} /\ next <= last
  <2>1. last \in Int /\ desk[m].page + 1 \in Int
    BY <1>2, <1>4
  <2>. QED
    BY <2>1, OfTwo, Zenon
<1>. HIDE DEF last, next
<1>6. next \in Nat \ {0} /\ next <= FlagPages(desk[m].most)
  BY <1>1, <1>2, <1>4, <1>5
<1>. QED
  BY <1>1, <1>2, <1>6, TurnStep

\* The count c takes the place of the one before.
LEMMA CountChanges ==
    ASSUME ModInd, NEW m \in Moderators, NEW c \in [total : -1..MaxFlags, raced : BOOLEAN],
           desk' = [desk EXCEPT ![m].count = c], flags' = flags, CountOf(c, desk[m].status, flags)
    PROVE  ModInd'
<1>. DEFINE d == [desk[m] EXCEPT !.count = c]
<1>1. desk[m] \in Desk /\ DeskOf(desk[m], flags) /\ desk' = [desk EXCEPT ![m] = d]
  BY DEF ModInd
<1>2. /\ d \in Desk /\ d.page = desk[m].page /\ d.status = desk[m].status /\ d.list = desk[m].list
      /\ d.kept = desk[m].kept /\ d.patch = desk[m].patch /\ d.most = desk[m].most /\ d.count = c
  BY <1>1 DEF Desk
<1>. HIDE DEF d
<1>3. DeskOf(d, flags)
  BY <1>1, <1>2 DEF DeskOf
<1>. QED
  BY <1>1, <1>2, <1>3, DeskChanges

LEMMA CountFlagsInv ==
    ASSUME ModInd, NEW m \in Moderators, CountFlags(m)
    PROVE  ModInd'
<1>. DEFINE n == Cardinality(FlagsOf(desk[m].status))
            c == [total |-> n, raced |-> FALSE]
<1>1. n \in 0..MaxFlags /\ n = Cardinality(FlagsIn(flags, desk[m].status))
  BY FlagsAreFew DEF ModInd
<1>2. desk' = [desk EXCEPT ![m].count = c] /\ flags' = flags
  BY DEF CountFlags
<1>. HIDE DEF n
<1>3. c \in [total : -1..MaxFlags, raced : BOOLEAN] /\ c.total = n
  BY <1>1, ModerationAssumption
<1>4. CountOf(c, desk[m].status, flags)
  BY <1>1, <1>3 DEF CountOf
<1>. HIDE DEF c
<1>. QED
  BY <1>2, <1>3, <1>4, CountChanges

LEMMA ListFailsInv ==
    ASSUME ModInd, NEW m \in Moderators, ListFails(m)
    PROVE  ModInd'
<1>1. desk' = [desk EXCEPT ![m].count = NoCount] /\ flags' = flags
  BY DEF ListFails
<1>. QED
  BY <1>1, NobodysIs, CountChanges

LEMMA ListFlagsInv ==
    ASSUME ModInd, NEW m \in Moderators, ListFlags(m)
    PROVE  ModInd'
<1>. DEFINE old == desk[m]
            rows == RowsOf(old.status, old.page)
            empty == old.count.raced /\ rows = <<>>
            l == [page |-> old.page, of |-> old.status, rows |-> rows, total |-> old.count.total,
                  raced |-> empty, changed |-> {}]
            most == Max({old.count.total, old.most})
            d == [old EXCEPT !.list = l, !.count = NoCount, !.most = most]
<1>1. /\ old \in Desk /\ DeskOf(old, flags) /\ flags' = flags /\ FlagsTypeOK
      /\ old.count # NoCount
  BY DEF ModInd, ListFlags
<1>2. desk' = [desk EXCEPT ![m] = d]
  BY <1>1 DEF ModInd, ListFlags, Listed
<1>3. /\ old.page \in Nat \ {0} /\ old.status \in Statuses \cup {AnyStatus}
      /\ old.count.raced \in BOOLEAN /\ old.most \in 0..MaxFlags
  BY <1>1 DEF Desk
<1>4. /\ old.count.total \in 0..MaxFlags
      /\ ~old.count.raced => old.count.total <= Cardinality(FlagsOf(old.status))
      /\ Cardinality(FlagsOf(old.status)) \in 0..MaxFlags
  BY <1>1, FlagsAreFew DEF DeskOf, CountOf
<1>5. /\ rows \in Rows /\ DOMAIN rows \subseteq DOMAIN flags
      /\ \A f \in DOMAIN rows : rows[f] = flags[f]
      /\ rows = <<>> => Cardinality(FlagsOf(old.status)) <= (old.page - 1) * FlagsPerPage
  BY <1>1, <1>3, RowsAre
<1>. HIDE DEF rows
<1>6. /\ l \in Lists /\ l.page = old.page /\ l.of = old.status /\ l.rows = rows
      /\ l.total = old.count.total /\ l.changed = {} /\ l.raced = empty
  BY <1>3, <1>4, <1>5 DEF Lists
<1>. HIDE DEF l
<1>7. l.rows = <<>> /\ l.total > 0 => l.raced \/ l.total <= (l.page - 1) * FlagsPerPage
  <2>1. /\ (old.page - 1) * FlagsPerPage \in Nat /\ old.count.total \in Nat
        /\ Cardinality(FlagsOf(old.status)) \in Nat
    BY <1>3, <1>4, ModerationAssumption
  <2>2. ASSUME rows = <<>>, ~old.count.raced PROVE old.count.total <= (old.page - 1) * FlagsPerPage
    BY <1>4, <1>5, <2>1, <2>2
  <2>3. rows = <<>> => (l.raced <=> old.count.raced)
    BY <1>3, <1>6
  <2>. QED
    BY <1>6, <2>2, <2>3
<1>8. ListOf(l, flags)
  BY <1>5, <1>6, <1>7 DEF ListOf
<1>9. most \in 0..MaxFlags /\ old.count.total <= most /\ old.most <= most
  BY <1>3, <1>4, GreaterOf
<1>. HIDE DEF most
<1>10. /\ d \in Desk /\ d.page = old.page /\ d.status = old.status /\ d.list = l /\ d.count = NoCount
       /\ d.kept = old.kept /\ d.most = most /\ d.patch = old.patch
  BY <1>1, <1>6, <1>9, NobodysIs DEF Desk
<1>. HIDE DEF d
<1>11. d.page = 1 \/ d.page <= FlagPages(d.most)
  <2>1. /\ FlagPages(old.most) \in Nat /\ FlagPages(most) \in Nat
        /\ FlagPages(old.most) <= FlagPages(most)
    BY <1>3, <1>9, PagesGrow, ModerationAssumption
  <2>. QED
    BY <1>1, <1>3, <1>10, <2>1 DEF DeskOf
<1>12. PatchOf(d.patch, flags) /\ CountOf(d.count, d.status, flags) /\ ListOf(d.kept, flags)
  BY <1>1, <1>10, NobodysIs DEF DeskOf
<1>13. DeskOf(d, flags)
  BY <1>6, <1>8, <1>9, <1>10, <1>11, <1>12 DEF DeskOf
<1>. QED
  BY <1>1, <1>2, <1>10, <1>13, DeskChanges

LEMMA PressInv ==
    ASSUME ModInd, NEW m \in Moderators, NEW f \in 1..MaxFlags, NEW answer \in Answers,
           Press(m, f, answer)
    PROVE  ModInd'
<1>. DEFINE late == f \in desk[m].list.changed
            p == [flag |-> f, answer |-> answer, raced |-> late]
            d == [desk[m] EXCEPT !.patch = p]
<1>1. /\ desk[m] \in Desk /\ DeskOf(desk[m], flags) /\ flags' = flags
      /\ f \in DOMAIN desk[m].list.rows /\ desk[m].list.rows[f] = "pending"
      /\ desk' = [desk EXCEPT ![m] = d]
  BY DEF ModInd, Press
<1>2. f \in DOMAIN flags /\ (~late => flags[f] = "pending")
  BY <1>1 DEF DeskOf, ListOf
<1>. HIDE DEF late
<1>3. late \in BOOLEAN
  BY DEF late
<1>4. PatchOf(p, flags) /\ p \in [flag : 0..MaxFlags, answer : Answers \cup {"none"}, raced : BOOLEAN]
  <2>1. p \in [flag : DOMAIN flags, answer : Answers, raced : BOOLEAN]
    BY <1>2, <1>3
  <2>2. p.flag = f /\ p.raced = late
    OBVIOUS
  <2>3. p \in [flag : 0..MaxFlags, answer : Answers \cup {"none"}, raced : BOOLEAN]
    BY <1>3, ModerationAssumption
  <2>. QED
    BY <1>2, <2>1, <2>2, <2>3 DEF PatchOf
<1>. HIDE DEF p
<1>5. /\ d \in Desk /\ d.page = desk[m].page /\ d.status = desk[m].status /\ d.list = desk[m].list
      /\ d.kept = desk[m].kept /\ d.count = desk[m].count /\ d.most = desk[m].most /\ d.patch = p
  BY <1>1, <1>4 DEF Desk
<1>. HIDE DEF d
<1>6. DeskOf(d, flags)
  BY <1>1, <1>4, <1>5 DEF DeskOf
<1>. QED
  BY <1>1, <1>5, <1>6, DeskChanges

\* The PATCH of a desk is over, answered or lost.
LEMMA PatchOver ==
    ASSUME NEW d \in Desk, NEW fl, DeskOf(d, fl)
    PROVE  [d EXCEPT !.patch = Nobodys] \in Desk /\ DeskOf([d EXCEPT !.patch = Nobodys], fl)
<1>. DEFINE e == [d EXCEPT !.patch = Nobodys]
<1>1. /\ e \in Desk /\ e.page = d.page /\ e.status = d.status /\ e.list = d.list
      /\ e.kept = d.kept /\ e.count = d.count /\ e.most = d.most /\ e.patch = Nobodys
  BY NobodysIs DEF Desk
<1>. HIDE DEF e
<1>2. DeskOf(e, fl)
  BY <1>1, NobodysIs DEF DeskOf
<1>. QED
  BY <1>1, <1>2 DEF e

LEMMA PatchLostInv ==
    ASSUME ModInd, NEW m \in Moderators, PatchLost(m)
    PROVE  ModInd'
<1>. DEFINE d == [desk[m] EXCEPT !.patch = Nobodys]
<1>1. /\ desk[m] \in Desk /\ DeskOf(desk[m], flags) /\ flags' = flags
      /\ desk' = [desk EXCEPT ![m] = d]
  BY DEF ModInd, PatchLost
<1>2. d \in Desk /\ DeskOf(d, flags)
  BY <1>1, PatchOver
<1>. HIDE DEF d
<1>. QED
  BY <1>1, <1>2, DeskChanges

\* A flag more: every list, count and PATCH stays good.
LEMMA FlagContentInv ==
    ASSUME ModInd, FlagContent
    PROVE  ModInd'
<1>1. PICK n \in 0..MaxFlags : flags \in [1..n -> Statuses]
  BY DEF ModInd, FlagsTypeOK
<1>2. Cardinality(DOMAIN flags) = n /\ n \in Nat
  <2>1. DOMAIN flags = 1..n /\ n \in Nat
    BY <1>1, ModerationAssumption
  <2>. QED
    BY <2>1, FS_Interval
<1>3. /\ n < MaxFlags /\ desk' = desk
      /\ flags' = [f \in 1..(n + 1) |-> IF f \in DOMAIN flags THEN flags[f] ELSE "pending"]
  BY <1>2 DEF FlagContent
<1>4. /\ FlagsTypeOK'
      /\ DOMAIN flags \subseteq DOMAIN flags'
      /\ \A f \in DOMAIN flags : flags'[f] = flags[f]
  <2>1. DOMAIN flags = 1..n /\ DOMAIN flags' = 1..(n + 1)
    BY <1>1, <1>3
  <2>2. DOMAIN flags \subseteq DOMAIN flags' /\ \A f \in DOMAIN flags : flags'[f] = flags[f]
    BY <1>2, <1>3, <2>1
  <2>3. flags' \in [1..(n + 1) -> Statuses] /\ n + 1 \in 0..MaxFlags
    BY <1>1, <1>2, <1>3, ModerationAssumption DEF Statuses
  <2>. QED
    BY <2>2, <2>3 DEF FlagsTypeOK
<1>5. ASSUME NEW m \in Moderators PROVE DeskOf(desk'[m], flags')
  <2>. DEFINE d == desk[m]
  <2>1. DeskOf(d, flags) /\ d \in Desk /\ desk'[m] = d
    BY <1>3 DEF ModInd
  <2>. HIDE DEF d
  <2>2. ListOf(d.list, flags') /\ ListOf(d.kept, flags')
    BY <1>4, <2>1 DEF DeskOf, ListOf
  <2>3. PatchOf(d.patch, flags')
    <3>1. CASE d.patch = Nobodys
      BY <3>1, NobodysIs
    <3>2. CASE d.patch \in [flag : DOMAIN flags, answer : Answers, raced : BOOLEAN]
      <4>1. d.patch \in [flag : DOMAIN flags', answer : Answers, raced : BOOLEAN]
        BY <1>4, <3>2
      <4>2. d.patch.flag \in DOMAIN flags
        BY <3>2
      <4>. QED
        BY <1>4, <2>1, <4>1, <4>2 DEF DeskOf, PatchOf
    <3>. QED
      BY <2>1, <3>1, <3>2 DEF DeskOf, PatchOf
  <2>4. CountOf(d.count, d.status, flags')
    <3>1. FlagsIn(flags, d.status) \subseteq FlagsIn(flags', d.status)
      BY <1>4 DEF FlagsIn
    <3>2. IsFiniteSet(DOMAIN flags')
      <4>1. DOMAIN flags' = 1..(n + 1)
        BY <1>3
      <4>. QED
        BY <1>2, <4>1, FS_Interval
    <3>3. IsFiniteSet(FlagsIn(flags', d.status))
      BY <3>2, FS_Subset DEF FlagsIn
    <3>4. /\ Cardinality(FlagsIn(flags, d.status)) <= Cardinality(FlagsIn(flags', d.status))
          /\ Cardinality(FlagsIn(flags, d.status)) \in Nat
          /\ Cardinality(FlagsIn(flags', d.status)) \in Nat
      BY <3>1, <3>3, FS_Subset, FS_CardinalityType
    <3>. QED
      BY <2>1, <3>4 DEF DeskOf, CountOf
  <2>. QED
    BY <2>1, <2>2, <2>3, <2>4 DEF DeskOf
<1>. QED
  BY <1>3, <1>4, <1>5 DEF ModInd

\* The status of f changes: each list, count and PATCH it matters to remembers.
PendingHere(l, f) == {f} \cap {g \in DOMAIN l.rows : l.rows[g] = "pending"}
Since(l, f) == [l EXCEPT !.changed = @ \cup PendingHere(l, f)]

LEMMA NothingNoticed ==
    /\ [NoCount EXCEPT !.raced = FALSE] = NoCount
    /\ [Nobodys EXCEPT !.raced = FALSE] = Nobodys
    /\ \A f : Since(Loading, f) = Loading
<1>1. /\ [NoCount EXCEPT !.raced = FALSE] = NoCount
      /\ [Nobodys EXCEPT !.raced = FALSE] = Nobodys
  <2>1. /\ NoCount = [total |-> -1, raced |-> FALSE]
        /\ Nobodys = [flag |-> 0, answer |-> "none", raced |-> FALSE]
    BY DEF NoCount, Nobodys
  <2>2. /\ NoCount.raced = FALSE /\ NoCount = [NoCount EXCEPT !.raced = NoCount.raced]
        /\ Nobodys.raced = FALSE /\ Nobodys = [Nobodys EXCEPT !.raced = Nobodys.raced]
    BY <2>1
  <2>. QED
    BY <2>2
<1>2. ASSUME NEW f PROVE Since(Loading, f) = Loading
  <2>1. Loading = [page |-> 0, of |-> AnyStatus, rows |-> <<>>, total |-> 0, raced |-> FALSE,
                   changed |-> {}]
    BY DEF Loading, Listed
  <2>2. PendingHere(Loading, f) = {}
    <3>1. DOMAIN Loading.rows = {}
      BY <2>1
    <3>. QED
      BY <3>1 DEF PendingHere
  <2>3. Loading.changed \cup PendingHere(Loading, f) = {}
    BY <2>1, <2>2
  <2>4. Since(Loading, f) = [Loading EXCEPT !.changed = {}]
    BY <2>3 DEF Since
  <2>. QED
    BY <2>1, <2>4
<1>. QED
  BY <1>1, <1>2

LEMMA NoticedIs ==
    ASSUME NEW d \in Desk, NEW f \in 1..MaxFlags
    PROVE  /\ Noticed(d, f) \in Desk
           /\ Noticed(d, f).page = d.page /\ Noticed(d, f).status = d.status
           /\ Noticed(d, f).most = d.most
           /\ Noticed(d, f).list = Since(d.list, f) /\ Noticed(d, f).kept = Since(d.kept, f)
           /\ Noticed(d, f).count = [d.count EXCEPT !.raced = d.count # NoCount]
           /\ Noticed(d, f).patch = [d.patch EXCEPT !.raced = @ \/ d.patch.flag = f]
<1>. DEFINE list == Since(d.list, f)
            kept == Since(d.kept, f)
            r == d.count # NoCount
            s == d.patch.raced \/ d.patch.flag = f
            counted == [d.count EXCEPT !.raced = r]
            patch == [d.patch EXCEPT !.raced = s]
            e == [d EXCEPT !.list = list, !.kept = kept, !.count = counted, !.patch = patch]
<1>1. Noticed(d, f) = e
  BY DEF Noticed, Desk, Since, PendingHere
<1>2. list \in Lists /\ kept \in Lists
  <2>1. d.list \in Lists /\ d.kept \in Lists
    BY DEF Desk
  <2>2. PendingHere(d.list, f) \in SUBSET (1..MaxFlags) /\ PendingHere(d.kept, f) \in SUBSET (1..MaxFlags)
    BY DEF PendingHere
  <2>. QED
    BY <2>1, <2>2 DEF Lists, Since
<1>3. r \in BOOLEAN /\ s \in BOOLEAN
  BY DEF Desk
<1>. HIDE DEF r, s
<1>4. /\ counted \in [total : -1..MaxFlags, raced : BOOLEAN]
      /\ patch \in [flag : 0..MaxFlags, answer : Answers \cup {"none"}, raced : BOOLEAN]
  BY <1>3 DEF Desk
<1>. HIDE DEF list, kept, counted, patch
<1>5. /\ e \in Desk /\ e.page = d.page /\ e.status = d.status /\ e.most = d.most /\ e.list = list
      /\ e.kept = kept /\ e.count = counted /\ e.patch = patch
  BY <1>2, <1>4 DEF Desk
<1>. HIDE DEF e
<1>. QED
  BY <1>1, <1>5 DEF list, kept, counted, patch, r, s

\* A list that remembers.
LEMMA ListNoticed ==
    ASSUME NEW l \in Lists, ListOf(l, flags), NEW f \in DOMAIN flags, NEW status,
           flags' = [flags EXCEPT ![f] = status], NEW k, k = Since(l, f)
    PROVE  ListOf(k, flags') /\ k.page = l.page /\ k.of = l.of /\ k.total = l.total
<1>1. /\ k.page = l.page /\ k.of = l.of /\ k.rows = l.rows /\ k.total = l.total /\ k.raced = l.raced
      /\ k.changed = l.changed \cup PendingHere(l, f)
  BY DEF Lists, Since
<1>2. DOMAIN flags' = DOMAIN flags /\ \A g \in DOMAIN flags \ {f} : flags'[g] = flags[g]
  OBVIOUS
<1>3. DOMAIN k.rows \subseteq DOMAIN flags'
  BY <1>1, <1>2 DEF ListOf
<1>4. \A g \in DOMAIN k.rows : k.rows[g] = "pending" /\ g \notin k.changed => flags'[g] = "pending"
  BY <1>1, <1>2 DEF ListOf, PendingHere
<1>5. k.rows = <<>> /\ k.total > 0 => k.raced \/ k.total <= (k.page - 1) * FlagsPerPage
  BY <1>1 DEF ListOf
<1>. QED
  BY <1>1, <1>3, <1>4, <1>5 DEF ListOf

LEMMA NoticedKeeps ==
    ASSUME NEW d \in Desk, DeskOf(d, flags), NEW f \in DOMAIN flags, NEW status,
           flags' = [flags EXCEPT ![f] = status], DOMAIN flags \subseteq 1..MaxFlags
    PROVE  Noticed(d, f) \in Desk /\ DeskOf(Noticed(d, f), flags')
<1>. DEFINE e == Noticed(d, f)
<1>1. /\ e \in Desk /\ e.page = d.page /\ e.status = d.status /\ e.most = d.most
      /\ e.list = Since(d.list, f) /\ e.kept = Since(d.kept, f)
      /\ e.count = [d.count EXCEPT !.raced = d.count # NoCount]
      /\ e.patch = [d.patch EXCEPT !.raced = @ \/ d.patch.flag = f]
  <2>1. f \in 1..MaxFlags
    OBVIOUS
  <2>. QED
    BY <2>1, NoticedIs
<1>. HIDE DEF e
<1>4. d.list \in Lists /\ d.kept \in Lists /\ ListOf(d.list, flags) /\ ListOf(d.kept, flags)
  BY DEF Desk, DeskOf
<1>5. ASSUME NEW l \in Lists, ListOf(l, flags)
      PROVE  /\ ListOf(Since(l, f), flags') /\ Since(l, f).page = l.page /\ Since(l, f).of = l.of
             /\ Since(l, f).total = l.total
  BY <1>5, ListNoticed
<1>6. /\ ListOf(e.list, flags') /\ e.list.page = d.list.page /\ e.list.of = d.list.of
      /\ e.list.total = d.list.total /\ (d.list = Loading => e.list = Loading)
  BY <1>1, <1>4, <1>5, NothingNoticed
<1>7. ListOf(e.kept, flags')
  BY <1>1, <1>4, <1>5
<1>8. PatchOf(e.patch, flags')
  <2>1. CASE d.patch = Nobodys
    <3>1. d.patch.flag = 0 /\ d.patch.raced = FALSE /\ f # 0
      BY <2>1 DEF Nobodys
    <3>2. e.patch = [d.patch EXCEPT !.raced = FALSE]
      BY <1>1, <3>1
    <3>3. e.patch = Nobodys
      BY <2>1, <3>2, NothingNoticed
    <3>. QED
      BY <3>3, NobodysIs
  <2>2. CASE d.patch \in [flag : DOMAIN flags, answer : Answers, raced : BOOLEAN]
    <3>1. /\ e.patch \in [flag : DOMAIN flags, answer : Answers, raced : BOOLEAN]
          /\ e.patch.flag = d.patch.flag /\ (e.patch.raced <=> d.patch.raced \/ d.patch.flag = f)
      <4>. DEFINE s == d.patch.raced \/ d.patch.flag = f
      <4>1. s \in BOOLEAN
        BY <2>2
      <4>2. e.patch = [d.patch EXCEPT !.raced = s]
        BY <1>1, <2>2
      <4>. HIDE DEF s
      <4>3. /\ e.patch \in [flag : DOMAIN flags, answer : Answers, raced : BOOLEAN]
            /\ e.patch.flag = d.patch.flag /\ e.patch.raced = s
        BY <2>2, <4>1, <4>2
      <4>. QED
        BY <4>3 DEF s
    <3>2. DOMAIN flags' = DOMAIN flags /\ \A g \in DOMAIN flags \ {f} : flags'[g] = flags[g]
      OBVIOUS
    <3>3. d.patch.flag \in DOMAIN flags /\ d.patch # Nobodys
      <4>1. d.patch.flag \in DOMAIN flags
        BY <2>2
      <4>2. d.patch.flag # 0
        BY <4>1
      <4>. QED
        BY <4>1, <4>2, NobodysIs
    <3>4. ~e.patch.raced => flags'[e.patch.flag] = "pending"
      BY <3>1, <3>2, <3>3 DEF DeskOf, PatchOf
    <3>5. e.patch \in [flag : DOMAIN flags', answer : Answers, raced : BOOLEAN]
      BY <3>1, <3>2
    <3>. QED
      BY <3>4, <3>5 DEF PatchOf
  <2>. QED
    BY <2>1, <2>2 DEF DeskOf, PatchOf
<1>9. CountOf(e.count, e.status, flags')
  <2>1. d.count \in [total : -1..MaxFlags, raced : BOOLEAN]
    BY DEF Desk
  <2>2. CASE d.count = NoCount
    <3>1. e.count = [d.count EXCEPT !.raced = FALSE]
      BY <1>1, <2>2
    <3>2. e.count = NoCount
      BY <2>2, <3>1, NothingNoticed
    <3>. QED
      BY <3>2, NobodysIs
  <2>3. CASE d.count # NoCount
    <3>1. e.count = [d.count EXCEPT !.raced = TRUE]
      BY <1>1, <2>3
    <3>2. e.count.raced = TRUE /\ e.count.total = d.count.total
      BY <2>1, <3>1
    <3>. QED
      BY <2>3, <3>2 DEF DeskOf, CountOf
  <2>. QED
    BY <2>2, <2>3
<1>10. e.list = Loading \/ (e.list.page = e.page /\ e.list.of = e.status)
  BY <1>1, <1>6 DEF DeskOf
<1>11. e.list.total <= e.most /\ (e.page = 1 \/ e.page <= FlagPages(e.most))
  BY <1>1, <1>6 DEF DeskOf
<1>12. DeskOf(e, flags')
  BY <1>6, <1>7, <1>8, <1>9, <1>10, <1>11 DEF DeskOf
<1>. QED
  BY <1>1, <1>12 DEF e

\* A status is set, and each desk is as it was or has noticed it.
LEMMA SetFlagInv ==
    ASSUME ModInd, NEW f \in DOMAIN flags, NEW status \in Statuses, SetFlag(f, status),
           NEW D, desk' = [b \in Moderators |-> D[b]],
           \A b \in Moderators :
               \E d \in {IF flags'[f] = flags[f] THEN desk[b] ELSE Noticed(desk[b], f)} :
                   D[b] = d \/ D[b] = [d EXCEPT !.patch = Nobodys]
    PROVE  ModInd'
<1>1. PICK n \in 0..MaxFlags : flags \in [1..n -> Statuses]
  BY DEF ModInd, FlagsTypeOK
<1>2. flags' = [flags EXCEPT ![f] = status] /\ DOMAIN flags \subseteq 1..MaxFlags
  BY <1>1, ModerationAssumption DEF SetFlag
<1>3. FlagsTypeOK'
  BY <1>1, <1>2 DEF FlagsTypeOK
<1>4. ASSUME NEW b \in Moderators PROVE D[b] \in Desk /\ DeskOf(D[b], flags')
  <2>. DEFINE d == IF flags'[f] = flags[f] THEN desk[b] ELSE Noticed(desk[b], f)
  <2>1. desk[b] \in Desk /\ DeskOf(desk[b], flags)
    BY DEF ModInd
  <2>2. d \in Desk /\ DeskOf(d, flags')
    <3>1. CASE flags'[f] = flags[f]
      <4>1. flags' = flags
        BY <1>1, <1>2, <3>1
      <4>. QED
        BY <2>1, <3>1, <4>1
    <3>2. CASE flags'[f] # flags[f]
      BY <1>2, <2>1, <3>2, NoticedKeeps
    <3>. QED
      BY <3>1, <3>2
  <2>3. D[b] = d \/ D[b] = [d EXCEPT !.patch = Nobodys]
    OBVIOUS
  <2>. HIDE DEF d
  <2>. QED
    BY <2>2, <2>3, PatchOver
<1>. QED
  BY <1>3, <1>4 DEF ModInd

LEMMA UpdateFlagInv ==
    ASSUME ModInd, NEW m \in Moderators, UpdateFlag(m)
    PROVE  ModInd'
<1>. DEFINE f == desk[m].patch.flag
            N(b) == IF flags'[f] = flags[f] THEN desk[b] ELSE Noticed(desk[b], f)
            D == [b \in Moderators |-> IF b = m THEN [N(b) EXCEPT !.patch = Nobodys] ELSE N(b)]
<1>1. desk[m].patch \in [flag : DOMAIN flags, answer : Answers, raced : BOOLEAN]
  BY DEF ModInd, DeskOf, PatchOf, UpdateFlag
<1>2. f \in DOMAIN flags /\ desk[m].patch.answer \in Statuses
  BY <1>1 DEF Statuses
<1>3. SetFlag(f, desk[m].patch.answer) /\ desk' = D
  BY DEF UpdateFlag
<1>4. \A b \in Moderators : D[b] = N(b) \/ D[b] = [N(b) EXCEPT !.patch = Nobodys]
  OBVIOUS
<1>5. desk' = [b \in Moderators |-> D[b]]
  BY <1>3
<1>. HIDE DEF D, f
<1>. QED
  BY <1>2, <1>3, <1>4, <1>5, SetFlagInv

LEMMA PatchElsewhereInv ==
    ASSUME ModInd, NEW f \in 1..MaxFlags, NEW status \in Statuses, PatchElsewhere(f, status)
    PROVE  ModInd'
<1>. DEFINE D == [b \in Moderators |-> Noticed(desk[b], f)]
<1>1. PICK n \in 0..MaxFlags : flags \in [1..n -> Statuses]
  BY DEF ModInd, FlagsTypeOK
<1>2. f \in DOMAIN flags /\ flags[f] # status /\ SetFlag(f, status) /\ desk' = D
  BY DEF PatchElsewhere
<1>3. flags'[f] # flags[f]
  BY <1>1, <1>2 DEF SetFlag
<1>4. \A b \in Moderators : D[b] = IF flags'[f] = flags[f] THEN desk[b] ELSE Noticed(desk[b], f)
  BY <1>3
<1>5. desk' = [b \in Moderators |-> D[b]]
  BY <1>2
<1>. HIDE DEF D
<1>. QED
  BY <1>2, <1>4, <1>5, SetFlagInv

LEMMA ModInitInv == ModerationInit => ModInd
<1>. SUFFICES ASSUME ModerationInit PROVE ModInd
  OBVIOUS
<1>1. FlagsTypeOK
  <2>1. flags \in [1..0 -> Statuses]
    BY DEF ModerationInit
  <2>. QED
    BY <2>1, ModerationAssumption DEF FlagsTypeOK
<1>. DEFINE d == [page |-> 1, status |-> AnyStatus, list |-> Loading, kept |-> Loading,
                  count |-> NoCount, patch |-> Nobodys, most |-> 0]
<1>2. d \in Desk
  BY LoadingIs, NobodysIs, ModerationAssumption DEF Desk
<1>3. DeskOf(d, flags)
  BY LoadingIs, NobodysIs DEF DeskOf
<1>4. desk = [m \in Moderators |-> d]
  BY DEF ModerationInit
<1>. HIDE DEF d
<1>. QED
  BY <1>1, <1>2, <1>3, <1>4 DEF ModInd

LEMMA ModStepInv == ModInd /\ [ModerationNext]_moderationVars => ModInd'
<1>. SUFFICES ASSUME ModInd, [ModerationNext]_moderationVars PROVE ModInd'
  OBVIOUS
<1>1. CASE UNCHANGED moderationVars
  BY <1>1 DEF moderationVars, ModInd, FlagsTypeOK
<1>2. CASE FlagContent
  BY <1>2, FlagContentInv
<1>3. ASSUME NEW f \in 1..MaxFlags, NEW status \in Statuses, PatchElsewhere(f, status)
      PROVE  ModInd'
  BY <1>3, PatchElsewhereInv
<1>4. ASSUME NEW m \in Moderators, NEW status \in Statuses \cup {AnyStatus}, SetStatus(m, status)
      PROVE  ModInd'
  BY <1>4, SetStatusInv
<1>5. ASSUME NEW m \in Moderators, PreviousPage(m) \/ NextPage(m)
      PROVE  ModInd'
  BY <1>5, PreviousPageInv, NextPageInv
<1>6. ASSUME NEW m \in Moderators, CountFlags(m) \/ ListFlags(m) \/ ListFails(m)
      PROVE  ModInd'
  BY <1>6, CountFlagsInv, ListFlagsInv, ListFailsInv
<1>7. ASSUME NEW m \in Moderators, NEW f \in 1..MaxFlags, NEW answer \in Answers, Press(m, f, answer)
      PROVE  ModInd'
  BY <1>7, PressInv
<1>8. ASSUME NEW m \in Moderators, UpdateFlag(m) \/ PatchLost(m) PROVE ModInd'
  BY <1>8, UpdateFlagInv, PatchLostInv
<1>. QED
  BY <1>1, <1>2, <1>3, <1>4, <1>5, <1>6, <1>7, <1>8 DEF ModerationNext

\* What a desk shows follows from the invariant: the pages turned to were there
\* by a count that was shown, so an empty page is one the list has shrunk from.
LEMMA ModIndGives == ModInd => ModerationInv
<1>. SUFFICES ASSUME ModInd PROVE ModerationInv
  OBVIOUS
<1>1. ASSUME NEW m \in Moderators
      PROVE  /\ desk[m].page \in 1 .. Max({1, FlagPages(MaxFlags)})
             /\ desk[m].list.rows = <<>> /\ desk[m].list.total > 0 =>
                   desk[m].list.raced \/ (desk[m].page > 1 /\ desk[m].most > desk[m].list.total)
  <2>. DEFINE d == desk[m]
  <2>1. DeskOf(d, flags) /\ d \in Desk
    BY DEF ModInd
  <2>. HIDE DEF d
  <2>2. d.page \in Nat \ {0} /\ d.most \in 0..MaxFlags /\ d.list.total \in Nat
    BY <2>1 DEF Desk, Lists
  <2>3. /\ FlagPages(d.most) \in Nat /\ FlagPages(MaxFlags) \in Nat
        /\ FlagPages(d.most) <= FlagPages(MaxFlags)
    BY <2>2, PagesGrow, ModerationAssumption
  <2>4. /\ Max({1, FlagPages(MaxFlags)}) \in {1, FlagPages(MaxFlags)}
        /\ 1 <= Max({1, FlagPages(MaxFlags)})
        /\ FlagPages(MaxFlags) <= Max({1, FlagPages(MaxFlags)})
    BY <2>3, OfTwo
  <2>5. d.page = 1 \/ d.page <= FlagPages(d.most)
    BY <2>1 DEF DeskOf
  <2>6. d.page \in 1 .. Max({1, FlagPages(MaxFlags)})
    BY <2>2, <2>3, <2>4, <2>5
  <2>7. ASSUME d.list.rows = <<>>, d.list.total > 0, ~d.list.raced
        PROVE  d.page > 1 /\ d.most > d.list.total
    <3>1. d.list.page = d.page
      BY <2>1, <2>7, LoadingIs DEF DeskOf
    <3>2. d.list.total <= (d.page - 1) * FlagsPerPage
      BY <2>1, <2>7, <3>1 DEF DeskOf, ListOf
    <3>3. d.page # 1
      <4>. SUFFICES ASSUME d.page = 1 PROVE FALSE
        OBVIOUS
      <4>1. d.page - 1 = 0
        OBVIOUS
      <4>2. (d.page - 1) * FlagsPerPage = 0
        BY <4>1, ModerationAssumption
      <4>. QED
        BY <2>2, <2>7, <3>2, <4>2
    <3>4. (d.page - 1) * FlagsPerPage < d.most
      <4>. DEFINE p == d.page
                  n == d.most
      <4>1. p \in Nat \ {0} /\ n \in Nat /\ p <= (n + FlagsPerPage - 1) \div FlagsPerPage
        BY <2>2, <2>5, <3>3 DEF FlagPages
      <4>2. FlagsPerPage \in Nat \ {0}
        BY ModerationAssumption
      <4>. HIDE DEF p, n
      <4>3. (p - 1) * FlagsPerPage < n
        BY <4>1, <4>2, PagesAre
      <4>. QED
        BY <4>3 DEF p, n
    <3>5. (d.page - 1) * FlagsPerPage \in Nat
      BY <2>2, ModerationAssumption
    <3>. QED
      BY <2>2, <3>2, <3>3, <3>4, <3>5
  <2>. QED
    BY <2>6, <2>7 DEF d
<1>2. ReplacedByRace
  <2>1. ASSUME NEW m \in Moderators, desk[m].patch # Nobodys, flags[desk[m].patch.flag] \in Answers
        PROVE  desk[m].patch.raced
    <3>1. "pending" \notin Answers
      BY DEF Answers
    <3>. QED
      BY <2>1, <3>1 DEF ModInd, DeskOf, PatchOf
  <2>. QED
    BY <2>1 DEF ReplacedByRace
<1>3. EmptyOnlyByShrink
  BY <1>1 DEF EmptyOnlyByShrink
<1>4. ModerationTypeOK
  <2>1. ASSUME NEW m \in Moderators
        PROVE  /\ desk[m].status \in Statuses \cup {AnyStatus}
               /\ DOMAIN desk[m].list.rows \subseteq DOMAIN flags
               /\ desk[m].patch \in [flag : DOMAIN flags, answer : Answers, raced : BOOLEAN]
                                       \cup {Nobodys}
    <3>1. DeskOf(desk[m], flags) /\ desk[m] \in Desk
      BY DEF ModInd
    <3>. QED
      BY <3>1 DEF DeskOf, ListOf, PatchOf, Desk
  <2>. QED
    BY <1>1, <2>1 DEF ModerationTypeOK, ModInd, FlagsTypeOK
<1>. QED
  BY <1>2, <1>3, <1>4 DEF ModerationInv

\* In every reachable state, an answer that a PATCH of the page would replace is
\* one given after the pressed row was read, and an empty page of flags is one
\* that the list shrank from, under the two queries or since the page was turned.
THEOREM ModerationInvariant == ModerationSpec => []ModerationInv
<1>1. ModerationSpec => []ModInd
  BY ModInitInv, ModStepInv, PTL DEF ModerationSpec
<1>. QED
  BY <1>1, ModIndGives, PTL

-----------------------------------------------------------------------------
(* ResetConsole: what the request that a modal waits for may be.            *)

\* A request that may still run has not; the one waited for is the modal's own,
\* its click is not used up, and once done it has wiped the modal's target.
WaitIsOwn ==
    modal # Shut /\ modal.waits # Shut =>
        LET p == posts[modal.waits] IN
        /\ p.st # "idle" /\ p.target = modal.target
        /\ ~p.dry /\ p.st \in {"sent", "expired"} /\ modal.clicks < 2 => modal.ran < modal.clicks
        /\ ~p.dry /\ p.st = "done" => modal.ran > 0 /\ wiped[modal.target] > 0

RunsOnce == \A p \in Posts : posts[p].st \in {"sent", "expired"} => posts[p].ran = 0

ResetIInv == ResetInv /\ WaitIsOwn /\ RunsOnce

\* A request changes in what is known of it, but not in what it asks.
LEMMA PostStep ==
    ASSUME ResetIInv, NEW p \in Posts, NEW x \in Post, posts' = [posts EXCEPT ![p] = x],
           UNCHANGED <<modal, wiped>>,
           x.dry = posts[p].dry, x.target = posts[p].target, x.seen = posts[p].seen,
           x.ran = posts[p].ran, x.st # "idle", x.st = "done" => posts[p].st = "done",
           x.st \in {"sent", "expired"} => posts[p].st \in {"sent", "expired"}
    PROVE  ResetIInv'
<1>1. posts \in [Posts -> Post] /\ \A q \in Posts : posts'[q] = IF q = p THEN x ELSE posts[q]
  BY DEF ResetIInv, ResetInv, ResetTypeOK
<1>2. ResetTypeOK' /\ WipeWasPreviewed' /\ RunsOnce'
  BY <1>1 DEF ResetIInv, ResetInv, ResetTypeOK, WipeWasPreviewed, RunsOnce
<1>3. ASSUME modal # Shut PROVE modal \in Modal /\ (modal.waits # Shut => modal.waits \in Posts)
  BY <1>3 DEF ResetIInv, ResetInv, ResetTypeOK, Modal
<1>4. OncePerClick'
  BY <1>1 DEF ResetIInv, ResetInv, OncePerClick
<1>5. ResultIsOwn'
  BY <1>1, <1>3 DEF ResetIInv, ResetInv, ResultIsOwn
<1>6. WaitIsOwn'
  BY <1>1, <1>3 DEF ResetIInv, WaitIsOwn
<1>. QED
  BY <1>2, <1>4, <1>5, <1>6 DEF ResetIInv, ResetInv

LEMMA PostsKeep ==
    ASSUME ResetIInv, NEW p \in Posts, PlatformRefuses(p) \/ PlatformRejects(p) \/ Retry(p) \/ Lost(p)
    PROVE  ResetIInv'
<1>1. posts \in [Posts -> Post] /\ posts[p] \in Post
  BY DEF ResetIInv, ResetInv, ResetTypeOK
<1>2. ASSUME NEW st \in {"sent", "expired"} \cup Outcomes, NEW again \in BOOLEAN,
             posts' = [posts EXCEPT ![p] = [posts[p] EXCEPT !.st = st, !.again = again]],
             UNCHANGED <<modal, wiped>>, st # "done",
             st \in {"sent", "expired"} => posts[p].st \in {"sent", "expired"}
      PROVE  ResetIInv'
  <2>. DEFINE x == [posts[p] EXCEPT !.st = st, !.again = again]
  <2>1. /\ x \in Post /\ x.dry = posts[p].dry /\ x.target = posts[p].target /\ x.seen = posts[p].seen
        /\ x.ran = posts[p].ran /\ x.st = st /\ st # "idle"
    BY <1>1, <1>2 DEF Post, Outcomes
  <2>2. posts' = [posts EXCEPT ![p] = x]
    BY <1>2
  <2>. HIDE DEF x
  <2>. QED
    BY <1>2, <2>1, <2>2, PostStep
<1>3. posts[p] = [posts[p] EXCEPT !.again = posts[p].again] /\ posts[p].again \in BOOLEAN
  BY <1>1 DEF Post
<1>4. ASSUME NEW st, posts' = [posts EXCEPT ![p].st = st]
      PROVE  posts' = [posts EXCEPT ![p] = [posts[p] EXCEPT !.st = st, !.again = posts[p].again]]
  BY <1>1, <1>4 DEF Post
<1>5. CASE PlatformRefuses(p)
  BY <1>2, <1>3, <1>4, <1>5 DEF PlatformRefuses, Outcomes
<1>6. CASE PlatformRejects(p)
  BY <1>2, <1>3, <1>4, <1>6 DEF PlatformRejects, Outcomes
<1>7. CASE Lost(p)
  BY <1>2, <1>3, <1>4, <1>7 DEF Lost, Outcomes
<1>8. CASE Retry(p)
  <2>1. CASE posts' = [posts EXCEPT ![p].st = "sent", ![p].again = TRUE]
    <3>1. posts' = [posts EXCEPT ![p] = [posts[p] EXCEPT !.st = "sent", !.again = TRUE]]
      BY <1>1, <2>1 DEF Post
    <3>. QED
      BY <1>2, <1>8, <3>1 DEF Retry
  <2>2. CASE posts' = [posts EXCEPT ![p].st = "refused"]
    BY <1>2, <1>3, <1>4, <1>8, <2>2 DEF Retry, Outcomes
  <2>. QED
    BY <1>8, <2>1, <2>2 DEF Retry
<1>. QED
  BY <1>5, <1>6, <1>7, <1>8

LEMMA PlatformRunKeeps ==
    ASSUME ResetIInv, NEW p \in Posts, PlatformRuns(p)
    PROVE  ResetIInv'
<1>. DEFINE n == IF posts[p].dry THEN 0 ELSE 1
            x == [posts[p] EXCEPT !.st = "done", !.ran = n]
            t == posts[p].target
            mine == modal # Shut /\ modal.waits = p /\ n = 1
            m == [modal EXCEPT !.ran = More(@)]
<1>1. /\ posts \in [Posts -> Post] /\ posts[p] \in Post /\ wiped \in [Targets -> 0..2] /\ t \in Targets
      /\ modal # Shut => modal \in Modal
  BY DEF ResetIInv, ResetInv, ResetTypeOK, Post
<1>2. posts[p].ran = 0 /\ posts[p].st = "sent"
  BY DEF PlatformRuns, ResetIInv, RunsOnce
<1>6. n \in 0..1 /\ (n = 1 <=> ~posts[p].dry)
  BY <1>1 DEF Post
<1>4. /\ posts' = [posts EXCEPT ![p].st = "done", ![p].ran = @ + n]
      /\ wiped' = [wiped EXCEPT ![t] = IF n = 1 THEN More(@) ELSE @]
      /\ modal' = IF mine THEN m ELSE modal
  BY DEF PlatformRuns
<1>. HIDE DEF n
<1>17. posts[p] \in Post /\ n \in 0..2 /\ posts[p].ran + n = n
  BY <1>1, <1>2, <1>6
<1>3. posts' = [posts EXCEPT ![p] = x]
  <2>1. posts' = [posts EXCEPT ![p] = [posts[p] EXCEPT !.st = "done", !.ran = posts[p].ran + n]]
    BY <1>4, <1>17 DEF Post
  <2>. QED
    BY <2>1, <1>17
<1>5. /\ x \in Post /\ x.st = "done" /\ x.ran = n /\ x.dry = posts[p].dry
      /\ x.target = posts[p].target /\ posts[p].target = t /\ x.seen = posts[p].seen
  BY <1>17 DEF Post, Outcomes
<1>7. mine => /\ m \in Modal /\ m.target = modal.target /\ m.preview = modal.preview
              /\ m.executed = modal.executed /\ m.waits = p /\ m.clicks = modal.clicks
              /\ m.ran = More(modal.ran)
  BY <1>1 DEF Modal, More
<1>8. /\ wiped' \in [Targets -> 0..2] /\ \A u \in Targets : wiped'[u] >= wiped[u]
      /\ n = 1 => wiped'[t] > 0
  BY <1>1, <1>4, <1>6 DEF More
<1>9. mine => modal.target = t /\ (modal.clicks < 2 => modal.ran < modal.clicks)
  BY <1>2, <1>6, ResetAssumption DEF ResetIInv, WaitIsOwn
<1>10. modal # Shut => modal.ran \in 0..2 /\ modal.clicks \in 0..2 /\ modal.waits \in Posts \cup {Shut}
                       /\ modal.target \in Targets
  BY <1>1 DEF Modal
<1>. HIDE DEF x, t, m
<1>11. \A q \in Posts : posts'[q] = IF q = p THEN x ELSE posts[q]
  BY <1>1, <1>3
<1>12. ResetTypeOK'
  BY <1>1, <1>3, <1>4, <1>5, <1>7, <1>8 DEF ResetTypeOK
<1>13. WipeWasPreviewed' /\ RunsOnce'
  BY <1>5, <1>11 DEF ResetIInv, ResetInv, WipeWasPreviewed, RunsOnce
<1>14. \A q \in Posts : posts'[q].ran <= 1
  BY <1>5, <1>6, <1>11 DEF ResetIInv, ResetInv, OncePerClick
<1>15. CASE mine
  <2>1. modal' = m /\ modal # Shut /\ modal.waits = p /\ n = 1
    BY <1>4, <1>15
  <2>2. modal'.clicks < 2 => modal'.ran <= modal'.clicks
    BY <1>7, <1>9, <1>10, <1>15, <2>1 DEF More
  <2>3. modal'.ran > 0 /\ wiped'[modal'.target] > 0 /\ posts'[modal'.waits] = x
    BY <1>7, <1>8, <1>9, <1>10, <1>11, <1>15, <2>1 DEF More
  <2>4. ResultIsOwn'
    BY <1>5, <1>7, <1>9, <1>15, <2>1, <2>3 DEF ResetIInv, ResetInv, ResultIsOwn
  <2>5. WaitIsOwn'
    BY <1>5, <1>7, <1>9, <1>15, <2>1, <2>3 DEF WaitIsOwn
  <2>. QED
    BY <1>12, <1>13, <1>14, <2>2, <2>4, <2>5 DEF ResetIInv, ResetInv, OncePerClick
<1>16. CASE ~mine
  <2>1. modal' = modal
    BY <1>4, <1>16
  <2>2. OncePerClick'
    BY <1>14, <2>1 DEF ResetIInv, ResetInv, OncePerClick
  <2>3. ResultIsOwn'
    BY <1>5, <1>8, <1>10, <1>11, <1>1, <2>1 DEF ResetIInv, ResetInv, ResultIsOwn
  <2>4. WaitIsOwn'
    BY <1>5, <1>6, <1>8, <1>10, <1>11, <1>1, <1>16, <2>1 DEF ResetIInv, WaitIsOwn
  <2>. QED
    BY <1>12, <1>13, <2>2, <2>3, <2>4 DEF ResetIInv, ResetInv
<1>. QED
  BY <1>15, <1>16

\* A step of the modal alone that keeps its target, its results and what it waits for.
LEMMA ModalStep ==
    ASSUME ResetIInv, UNCHANGED <<posts, wiped>>, modal # Shut, modal' \in Modal,
           modal'.target = modal.target, modal'.preview = modal.preview,
           modal'.executed = modal.executed, modal'.waits = modal.waits,
           modal'.ran = modal.ran, modal'.clicks = modal.clicks
    PROVE  ResetIInv'
<1>1. ResetTypeOK' /\ WipeWasPreviewed' /\ RunsOnce' /\ OncePerClick'
  BY DEF ResetIInv, ResetInv, ResetTypeOK, WipeWasPreviewed, RunsOnce, OncePerClick
<1>2. ResultIsOwn'
  BY DEF ResetIInv, ResetInv, ResultIsOwn
<1>3. WaitIsOwn'
  BY DEF ResetIInv, WaitIsOwn
<1>. QED
  BY <1>1, <1>2, <1>3 DEF ResetIInv, ResetInv

\* A modal that waits for nothing, on requests that keep to the invariants.
LEMMA IdleModal ==
    ASSUME ResetIInv, UNCHANGED wiped, posts' \in [Posts -> Post], modal' \in Modal \cup {Shut},
           \A q \in Posts : posts'[q] = posts[q] \/ posts'[q] = NoPost,
           modal' # Shut =>
               /\ modal'.waits = Shut /\ (modal'.clicks < 2 => modal'.ran <= modal'.clicks)
               /\ modal'.preview \in {modal'.target, Shut} /\ modal'.executed \in {modal'.target, Shut}
               /\ modal'.executed # Shut => modal'.ran > 0 /\ wiped[modal'.target] > 0
    PROVE  ResetIInv'
<1>1. NoPost.st = "idle" /\ NoPost.dry /\ NoPost.ran = 0
  BY DEF NoPost
<1>2. ResetTypeOK' /\ WipeWasPreviewed' /\ RunsOnce'
  BY <1>1 DEF ResetIInv, ResetInv, ResetTypeOK, WipeWasPreviewed, RunsOnce
<1>3. OncePerClick'
  BY <1>1 DEF ResetIInv, ResetInv, OncePerClick
<1>4. ResultIsOwn' /\ WaitIsOwn'
  BY DEF ResultIsOwn, WaitIsOwn
<1>. QED
  BY <1>2, <1>3, <1>4 DEF ResetIInv, ResetInv

LEMMA ModalKeeps ==
    ASSUME ResetIInv, TypeToken \/ CloseReset \/ \E t \in Targets : OpenReset(t)
    PROVE  ResetIInv'
<1>1. posts \in [Posts -> Post] /\ (modal # Shut => modal \in Modal)
  BY DEF ResetIInv, ResetInv, ResetTypeOK
<1>2. CASE TypeToken
  BY <1>1, <1>2, ModalStep DEF TypeToken, Modal
<1>3. CASE CloseReset
  BY <1>3 DEF CloseReset, ResetIInv, ResetInv, ResetTypeOK, WipeWasPreviewed, RunsOnce,
              OncePerClick, ResultIsOwn, WaitIsOwn
<1>4. ASSUME NEW t \in Targets, OpenReset(t) PROVE ResetIInv'
  <2>. DEFINE m == [target |-> t, preview |-> Shut, executed |-> Shut, typed |-> FALSE,
                    waits |-> Shut, error |-> FALSE, ran |-> 0, clicks |-> 0]
  <2>1. /\ m \in Modal /\ m.waits = Shut /\ m.preview = Shut /\ m.executed = Shut
        /\ m.ran = 0 /\ m.clicks = 0
    BY DEF Modal
  <2>2. modal' = m /\ UNCHANGED <<posts, wiped>>
    BY <1>4 DEF OpenReset
  <2>. HIDE DEF m
  <2>. QED
    BY <2>1, <2>2 DEF ResetIInv, ResetInv, ResetTypeOK, WipeWasPreviewed, RunsOnce,
                      OncePerClick, ResultIsOwn, WaitIsOwn
<1>. QED
  BY <1>2, <1>3, <1>4

LEMMA SendKeeps ==
    ASSUME ResetIInv, NEW p \in Posts, RunDryRun(p) \/ RunConfirm(p)
    PROVE  ResetIInv'
<1>1. /\ posts \in [Posts -> Post] /\ modal # Shut /\ modal \in Modal /\ modal.target \in Targets
      /\ modal.ran \in 0..2 /\ modal.clicks \in 0..2 /\ modal.waits = Shut
  BY DEF ResetIInv, ResetInv, ResetTypeOK, Modal, RunDryRun, RunConfirm, Send
<1>2. PICK dry \in BOOLEAN, seen \in BOOLEAN : Send(p, dry, seen) /\ (~dry => seen)
  <2>1. CASE RunDryRun(p)
    BY <2>1 DEF RunDryRun
  <2>2. CASE RunConfirm(p)
    BY <2>2 DEF RunConfirm, ResetIInv, ResetInv, ResultIsOwn
  <2>. QED
    BY <2>1, <2>2
<1>. DEFINE x == [st |-> "sent", target |-> modal.target, dry |-> dry, again |-> FALSE,
                  seen |-> seen, ran |-> 0]
            c == IF dry THEN modal.clicks ELSE More(modal.clicks)
            m == [modal EXCEPT !.waits = p, !.error = FALSE, !.clicks = c]
<1>3. posts' = [posts EXCEPT ![p] = x] /\ modal' = m /\ wiped' = wiped
  BY <1>2 DEF Send
<1>4. c \in 0..2 /\ c >= modal.clicks /\ (~dry /\ c < 2 => modal.clicks = 0 /\ c = 1)
  BY <1>1 DEF More
<1>5. x \in Post /\ x.st = "sent" /\ x.target = modal.target /\ x.dry = dry /\ x.seen = seen /\ x.ran = 0
  BY <1>1 DEF Post
<1>. HIDE DEF x, c
<1>6. /\ m \in Modal /\ m.target = modal.target /\ m.preview = modal.preview
      /\ m.executed = modal.executed /\ m.waits = p /\ m.ran = modal.ran /\ m.clicks = c
  BY <1>1, <1>4 DEF Modal
<1>. HIDE DEF m
<1>7. \A q \in Posts : posts'[q] = IF q = p THEN x ELSE posts[q]
  BY <1>1, <1>3
<1>8. modal.clicks < 2 => modal.ran <= modal.clicks
  BY <1>1 DEF ResetIInv, ResetInv, OncePerClick
<1>9. ResetTypeOK' /\ RunsOnce'
  BY <1>3, <1>5, <1>6, <1>7 DEF ResetIInv, ResetInv, ResetTypeOK, RunsOnce
<1>10. WipeWasPreviewed'
  BY <1>2, <1>5, <1>7 DEF ResetIInv, ResetInv, WipeWasPreviewed
<1>11. OncePerClick'
  BY <1>1, <1>3, <1>4, <1>5, <1>6, <1>7, <1>8 DEF ResetIInv, ResetInv, OncePerClick
<1>12. posts'[modal'.waits] = x
  BY <1>3, <1>6, <1>7
<1>13. ResultIsOwn'
  BY <1>1, <1>3, <1>5, <1>6, <1>12 DEF ResetIInv, ResetInv, ResultIsOwn
<1>14. WaitIsOwn'
  BY <1>1, <1>3, <1>4, <1>5, <1>6, <1>8, <1>12 DEF WaitIsOwn
<1>. QED
  BY <1>9, <1>10, <1>11, <1>13, <1>14 DEF ResetIInv, ResetInv

LEMMA AnsweredKeeps ==
    ASSUME ResetIInv, NEW p \in Posts, Answered(p)
    PROVE  ResetIInv'
<1>1. /\ posts \in [Posts -> Post] /\ (modal # Shut => modal \in Modal)
      /\ posts[p] \in Post /\ posts[p].target \in Targets
  BY DEF ResetIInv, ResetInv, ResetTypeOK, Post
<1>2. NoPost \in Post
  BY ResetAssumption DEF NoPost, Post
<1>3. /\ posts' \in [Posts -> Post] /\ posts'[p] = NoPost /\ wiped' = wiped
      /\ \A q \in Posts \ {p} : posts'[q] = posts[q]
  BY <1>1, <1>2 DEF Answered
<1>4. CASE modal = Shut \/ modal.waits # p
  <2>1. modal' = modal
    BY <1>4 DEF Answered
  <2>2. modal # Shut /\ modal.waits # Shut => modal.waits \in Posts \ {p}
    BY <1>1, <1>4 DEF Modal
  <2>3. NoPost.st = "idle" /\ NoPost.dry /\ NoPost.ran = 0
    BY DEF NoPost
  <2>4. ResetTypeOK' /\ WipeWasPreviewed' /\ RunsOnce'
    BY <1>3, <2>1, <2>3 DEF ResetIInv, ResetInv, ResetTypeOK, WipeWasPreviewed, RunsOnce
  <2>5. OncePerClick'
    BY <1>3, <2>1, <2>3 DEF ResetIInv, ResetInv, OncePerClick
  <2>6. ResultIsOwn'
    BY <1>3, <2>1, <2>2 DEF ResetIInv, ResetInv, ResultIsOwn
  <2>7. WaitIsOwn'
    BY <1>3, <2>1, <2>2 DEF ResetIInv, WaitIsOwn
  <2>. QED
    BY <2>4, <2>5, <2>6, <2>7 DEF ResetIInv, ResetInv
<1>5. CASE modal # Shut /\ modal.waits = p
  <2>1. modal \in Modal /\ modal.waits # Shut
    BY <1>1, <1>5, ResetAssumption
  <2>2. posts[p].target = modal.target
    BY <1>5, <2>1 DEF ResetIInv, WaitIsOwn
  <2>3. ~posts[p].dry /\ posts[p].st = "done" => modal.ran > 0 /\ wiped[modal.target] > 0
    BY <1>5, <2>1 DEF ResetIInv, WaitIsOwn
  <2>4. /\ modal.preview \in {modal.target, Shut} /\ modal.executed \in {modal.target, Shut}
        /\ modal.executed # Shut => modal.ran > 0 /\ wiped[modal.target] > 0
    BY <1>5 DEF ResetIInv, ResetInv, ResultIsOwn
  <2>5. modal.clicks < 2 => modal.ran <= modal.clicks
    BY <1>5 DEF ResetIInv, ResetInv, OncePerClick
  <2>6. \/ posts[p].st # "done" /\ modal' = [modal EXCEPT !.waits = Shut, !.error = TRUE]
        \/ posts[p].dry /\ modal' = [modal EXCEPT !.waits = Shut, !.preview = posts[p].target]
        \/ /\ posts[p].st = "done" /\ ~posts[p].dry
           /\ modal' = [modal EXCEPT !.waits = Shut, !.executed = posts[p].target]
    BY <1>5 DEF Answered
  <2>7. /\ modal' \in Modal /\ modal'.waits = Shut /\ modal'.target = modal.target
        /\ modal'.ran = modal.ran /\ modal'.clicks = modal.clicks
    BY <1>1, <2>1, <2>6 DEF Modal
  <2>8. /\ modal'.preview \in {modal.target, Shut} /\ modal'.executed \in {modal.target, Shut}
        /\ modal'.executed # Shut => modal.ran > 0 /\ wiped[modal.target] > 0
    <3>1. CASE posts[p].st # "done" /\ modal' = [modal EXCEPT !.waits = Shut, !.error = TRUE]
      BY <2>1, <2>4, <3>1 DEF Modal
    <3>2. CASE posts[p].dry /\ modal' = [modal EXCEPT !.waits = Shut, !.preview = posts[p].target]
      BY <2>1, <2>2, <2>4, <3>2 DEF Modal
    <3>3. CASE /\ posts[p].st = "done" /\ ~posts[p].dry
               /\ modal' = [modal EXCEPT !.waits = Shut, !.executed = posts[p].target]
      BY <2>1, <2>2, <2>3, <2>4, <3>3 DEF Modal
    <3>. QED
      BY <2>6, <3>1, <3>2, <3>3
  <2>. QED
    BY <1>3, <2>5, <2>7, <2>8, IdleModal
<1>. QED
  BY <1>4, <1>5

\* For any set of targets and requests: no wipe without its preview, one run per
\* click, and each modal's results its own.
THEOREM ResetHolds == ResetSpec => []ResetInv
<1>1. ResetInit => ResetIInv
  BY ResetAssumption DEF ResetInit, ResetIInv, ResetInv, ResetTypeOK, WipeWasPreviewed, RunsOnce,
     OncePerClick, ResultIsOwn, WaitIsOwn, NoPost, Post
<1>2. ResetIInv /\ [ResetNext]_resetVars => ResetIInv'
  <2>. SUFFICES ASSUME ResetIInv, [ResetNext]_resetVars PROVE ResetIInv'
    OBVIOUS
  <2>1. CASE UNCHANGED resetVars
    BY <2>1 DEF resetVars, ResetIInv, ResetInv, ResetTypeOK, WipeWasPreviewed, RunsOnce,
       OncePerClick, ResultIsOwn, WaitIsOwn
  <2>2. CASE ResetNext
    BY <2>2, ModalKeeps, SendKeeps, PlatformRunKeeps, PostsKeep, AnsweredKeeps DEF ResetNext
  <2>. QED
    BY <2>1, <2>2
<1>3. ResetIInv => ResetInv
  BY DEF ResetIInv
<1>. QED
  BY <1>1, <1>2, <1>3, PTL DEF ResetSpec
=============================================================================
