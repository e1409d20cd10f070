----------------------------- MODULE AppRoutes ------------------------------
(***************************************************************************)
(* The application shell of one tab: the routes of App.tsx and what guards *)
(* them, the links each page offers, and the ways in and out of the pages  *)
(* that need an account (sign-in, e-mail verification, the end of a trial, *)
(* the session-expired modal).  A guard redirects by what the tab knows of *)
(* the account, which the user-service may know better: AuthProvider       *)
(* fetches it when the page loads and the check-email page polls for it.   *)
(* How a session is refreshed and lost is BrowserSession's; here it is     *)
(* live, stale (the access token is gone, the cookie is good) or none.     *)
(***************************************************************************)
EXTENDS Integers, FiniteSetsExt

CONSTANTS Entered,   \* bound: the pages loaded by their URL
          Followed,  \* bound: the links followed
          RoleSets   \* bound: the roles an account may have

ASSUME RoutesAssumption == "provider" \notin Entered \cup Followed

VARIABLES visitor,   \* the account whose session the browser holds
          shell      \* the tab

shellVars == <<visitor, shell>>

\* App.tsx: inside Layout, under admin, and without an account.
ReadingPages == {"narrators", "narrators/:id", "hadiths", "hadiths/:id", "collections",
                 "collections/:id", "search", "timeline", "compare", "graph", "profile"}
LayoutPages == ReadingPages \cup {"home"}
AdminPages == {"dashboard", "users", "health", "stats", "data", "analytics",
               "moderation", "reports", "config", "audit", "reset"}
PublicPages == {"login", "callback", "pricing", "checkout", "trial-expired",
                "check-email", "verify"}
Protected == LayoutPages \cup AdminPages \cup {"admin"}
Routes == Protected \cup PublicPages

Plans == {"none", "trial", "active", "expired"}
NoUrl == "none"
AuthLoading == [st |-> "loading", verified |-> FALSE, roles |-> {}]
AuthOut == [AuthLoading EXCEPT !.st = "out"]
Known == [st |-> "in", verified |-> visitor.verified, roles |-> visitor.roles]

-----------------------------------------------------------------------------
(* What the tab makes of the account. *)

ROLE_HIERARCHY == [trial |-> 0, reader |-> 1, researcher |-> 2, admin |-> 3]

\* deriveHighestRole: a role it does not know is ignored.
HighestRank(roles) ==
    Max({0} \cup {ROLE_HIERARCHY[r] : r \in roles \cap DOMAIN ROLE_HIERARCHY})
HasRole(role) == HighestRank(shell.auth.roles) >= ROLE_HIERARCHY[role]
IsAdmin == "admin" \in shell.auth.roles

CheckEmailPage(p) == IF shell.auth.st = "in" /\ shell.auth.verified THEN "home" ELSE p

\* Not reached unless AdminRoute and this page disagree on who is an admin.
AdminLayout(p) == IF ~ IsAdmin THEN "narrators" ELSE IF p = "admin" THEN "dashboard" ELSE p

AdminRoute(p) == IF HasRole("admin") THEN AdminLayout(p) ELSE "home"

ProtectedRoute(p) ==
    CASE shell.auth.st = "loading" -> p
      [] shell.auth.st = "out" -> "login"
      [] shell.auth.st = "in" /\ shell.plan = "expired" -> "trial-expired"
      [] shell.auth.st = "in" /\ shell.plan # "expired" /\ ~ shell.auth.verified -> "check-email"
      [] OTHER -> IF p \in LayoutPages THEN p ELSE AdminRoute(p)

\* Where a page sends the tab on, itself if it stays.
Onward(p) == IF p \in Protected THEN ProtectedRoute(p)
             ELSE IF p = "check-email" THEN CheckEmailPage(p) ELSE p

-----------------------------------------------------------------------------
(* The links of each page. *)

SidebarLinks ==
    {"narrators", "hadiths", "collections", "search", "timeline", "compare", "graph"}
        \cup (IF IsAdmin THEN {"admin"} ELSE {})
HasPlan == shell.plan \in Plans \ {"none"}
MenuLinks == {"profile"} \cup (IF HasPlan THEN {"pricing"} ELSE {})
BannerLinks == IF shell.plan = "trial" THEN {"pricing"} ELSE {}
LayoutLinks == {"home"} \cup SidebarLinks \cup MenuLinks \cup BannerLinks
HomeLinks == {"graph", "search", "compare", "timeline", "collections", "narrators", "hadiths"}
AdminLinks == {"home", "dashboard", "users", "health", "stats", "data", "analytics",
               "audit", "reset"}
PricingLinks == {"home", "checkout"}
CheckoutLinks == {"pricing", "home"}
TrialExpiredLinks == {"pricing"}
NotFoundLinks == {"home"}

Links(p) ==
    CASE p = "home" -> LayoutLinks \cup HomeLinks
      [] p \in ReadingPages -> LayoutLinks
      [] p \in AdminPages -> AdminLinks
      [] p = "pricing" -> PricingLinks
      [] p = "checkout" -> CheckoutLinks
      [] p = "trial-expired" -> TrialExpiredLinks
      [] p \notin Routes \cup {"provider"} -> NotFoundLinks
      [] OTHER -> {}

\* useSubscription's first answer is waited for under an overlay, except by an
\* admin, who has no subscription to ask for.
Covered == shell.at \in Protected /\ shell.plan = "unknown" /\ ~ IsAdmin

\* The page that is shown, and can be used.
Shown ==
    /\ shell.at # "provider" /\ Onward(shell.at) = shell.at
    /\ shell.at \in Protected => shell.auth.st = "in"

Usable == Shown /\ ~ shell.modal /\ ~ Covered

-----------------------------------------------------------------------------
\* The page that is left unmounts; the one entered starts afresh.
Mount(p) == [shell EXCEPT !.at = p, !.code = "partial", !.hops = 0]

\* A page loaded by its URL: React's state is gone, sessionStorage is not.
Loaded(p) ==
    [Mount(p) EXCEPT !.from = "home", !.auth = AuthLoading, !.plan = "unknown",
                    !.modal = FALSE, !.wanted = IF p \in Protected THEN p ELSE "home"]

ShellInit ==
    /\ visitor \in [session : {"none", "live"}, verified : BOOLEAN, roles : RoleSets,
                    plan : {"trial"}]
    /\ \E p \in Entered :
          shell = [at |-> p, from |-> "home", auth |-> AuthLoading, plan |-> "unknown",
                   modal |-> FALSE, returnUrl |-> NoUrl, code |-> "partial", hops |-> 0,
                   wanted |-> IF p \in Protected THEN p ELSE "home"]

OpenApp(p) == shell' = Loaded(p) /\ UNCHANGED visitor

\* The browser keeps location.state with the history entry.
ReloadPage ==
    /\ Usable
    /\ shell' = [Loaded(shell.at) EXCEPT
                    !.from = shell.from,
                    !.wanted = IF shell.at \in Protected THEN @ ELSE shell.wanted]
    /\ UNCHANGED visitor

\* loadUser: a session that is good may still go unanswered, which counts as out.
UserLoads ==
    /\ shell.at # "provider" /\ shell.auth.st = "loading"
    /\ \/ /\ visitor.session # "none"
          /\ shell' = [shell EXCEPT !.auth = Known]
          /\ visitor' = [visitor EXCEPT !.session = "live"]
       \/ /\ shell' = [shell EXCEPT !.auth = AuthOut]
          /\ UNCHANGED visitor

\* useSubscription, when the page loads and every five minutes.  404 is no plan;
\* of a failure only the first leaves the page without one.
PlanArrives ==
    /\ shell.at # "provider" /\ shell.auth.st = "in" /\ ~ IsAdmin
    /\ \/ /\ visitor.session # "none"
          /\ shell' = [shell EXCEPT !.plan = visitor.plan]
          /\ visitor' = [visitor EXCEPT !.session = "live"]
       \/ /\ shell.plan = "unknown" /\ shell' = [shell EXCEPT !.plan = "none"]
          /\ UNCHANGED visitor

\* <Navigate replace>.  The way to the sign-in page takes the path along.
Redirect ==
    /\ Onward(shell.at) # shell.at
    /\ shell' = [Mount(Onward(shell.at)) EXCEPT
                    !.hops = shell.hops + 1,
                    !.from = IF Onward(shell.at) = "login" THEN shell.at ELSE "home"]
    /\ UNCHANGED visitor

Follow(p) ==
    /\ Usable /\ p \in Links(shell.at)
    /\ shell' = [Mount(p) EXCEPT !.from = "home",
                                !.wanted = IF p \in Protected THEN p ELSE "home"]
    /\ UNCHANGED visitor

-----------------------------------------------------------------------------
(* Signing in: LoginPage and AuthCallbackPage. *)

MutKeepStoredUrl ==
    /\ shell.at = "login"
    /\ shell' = [shell EXCEPT !.at = "provider",
                              !.returnUrl = IF @ = NoUrl THEN shell.from ELSE @]
    /\ UNCHANGED visitor

\* handleOAuth, once the user-service names the provider's page.
HandleOAuth ==
    /\ shell.at = "login"
    /\ shell' = [shell EXCEPT !.at = "provider", !.returnUrl = shell.from]
    /\ UNCHANGED visitor

\* The provider sends the browser back, by way of the user-service, to the
\* callback page; its effect stores the token before AuthProvider's reads it.
AuthCallback ==
    /\ shell.at = "provider"
    /\ \/ /\ visitor' = [visitor EXCEPT !.session = "live"]
          /\ shell' = [Loaded(IF ~ visitor.verified THEN "check-email"
                              ELSE IF shell.returnUrl = NoUrl THEN "home" ELSE shell.returnUrl)
                         EXCEPT !.returnUrl = NoUrl]
       \/ /\ shell' = Loaded("callback")  \* ?error=..
          /\ UNCHANGED visitor

BackToSignIn == shell.at = "callback" /\ OpenApp("login")

\* The token is stored and the router navigates; AuthProvider is not told.
SignInByEmail ==
    /\ shell.at = "login"
    /\ visitor' = [visitor EXCEPT !.session = "live"]
    /\ shell' = [Mount(shell.from) EXCEPT !.from = "home"]

HandleRegister ==
    /\ shell.at = "login"
    /\ \E roles \in RoleSets :
          visitor' = [session |-> "live", verified |-> FALSE, roles |-> roles, plan |-> "trial"]
    /\ shell' = [Mount(shell.from) EXCEPT !.from = "home"]

-----------------------------------------------------------------------------
(* Verification: CheckEmailPage and VerifyEmailPage. *)

MutAnswerNotShown ==
    /\ shell.at = "check-email" /\ shell.auth.st = "in" /\ ~ shell.auth.verified
    /\ UNCHANGED shellVars

\* Every 30 s while the account shown is unverified; silent without a token the
\* user-service accepts: refreshUser does not refresh it.
PollVerification ==
    /\ shell.at = "check-email" /\ shell.auth.st = "in" /\ ~ shell.auth.verified
    /\ visitor.session = "live"
    /\ shell' = [shell EXCEPT !.auth = Known]
    /\ UNCHANGED visitor

\* ProfilePage fetches the account again after it saved a name.
ProfileSaved ==
    /\ shell.at = "profile" /\ Usable /\ visitor.session = "live"
    /\ shell' = [shell EXCEPT !.auth = Known]
    /\ UNCHANGED visitor

\* handleChange and handlePaste; disabled while a code is sent.
EnterCode ==
    /\ shell.at = "verify" /\ shell.code \in {"partial", "complete"}
    /\ \E c \in {"partial", "complete"} : shell' = [shell EXCEPT !.code = c]
    /\ UNCHANGED visitor

\* handleSubmit: all six digits; the answer; two seconds later, home.
HandleSubmit ==
    /\ shell.at = "verify"
    /\ \/ /\ shell.code = "complete" /\ shell' = [shell EXCEPT !.code = "sent"]
          /\ UNCHANGED visitor
       \/ /\ shell.code = "sent" /\ shell' = [shell EXCEPT !.code = "complete"]
          /\ UNCHANGED visitor
       \/ /\ shell.code = "sent" /\ shell' = [shell EXCEPT !.code = "done"]
          /\ visitor' = [visitor EXCEPT !.verified = TRUE]
       \/ /\ shell.code = "done"
          /\ shell' = [Mount("home") EXCEPT !.from = "home", !.wanted = "home"]
          /\ UNCHANGED visitor

-----------------------------------------------------------------------------
(* Leaving. *)

Forgotten == [visitor EXCEPT !.session = IF @ = "none" THEN @ ELSE "stale"]

\* Sidebar, UserMenu (logout, signOut, signOutAll), CheckEmailPage and
\* TrialExpiredPage: revoked if that gets through, and to /login in any case.
LeaveApp ==
    /\ Usable
    /\ \/ shell.at \in LayoutPages
       \/ shell.at \in {"check-email", "trial-expired"} /\ shell.auth.st # "loading"
    /\ visitor' \in {Forgotten, [visitor EXCEPT !.session = "none"]}
    /\ shell' = Loaded("login")

\* An API call of the page was refused and could not be retried.
ModalOpens ==
    /\ Shown /\ shell.at \in Protected /\ ~ shell.modal
    /\ shell' = [shell EXCEPT !.modal = TRUE]
    /\ UNCHANGED visitor

\* The URL it stores is not used: the sign-in page it loads has no location.state.
DismissModal ==
    /\ shell.modal
    /\ visitor' = Forgotten
    /\ shell' = [Loaded("login") EXCEPT !.returnUrl = shell.at]

\* The account changes by other hands, or time passes.
AccountChanges ==
    /\ \/ visitor' = [visitor EXCEPT !.verified = TRUE]
       \/ \E plan \in {"active", "expired"} : visitor' = [visitor EXCEPT !.plan = plan]
       \/ \E roles \in RoleSets : visitor' = [visitor EXCEPT !.roles = roles]
       \/ visitor.session = "live" /\ visitor' = Forgotten
       \/ visitor' = [visitor EXCEPT !.session = "none"]
    /\ UNCHANGED shell

ShellNext ==
    \/ \E p \in Entered : OpenApp(p)
    \/ \E p \in Followed : Follow(p)
    \/ ReloadPage \/ UserLoads \/ PlanArrives \/ Redirect
    \/ HandleOAuth \/ AuthCallback \/ BackToSignIn \/ SignInByEmail \/ HandleRegister
    \/ PollVerification \/ ProfileSaved \/ EnterCode \/ HandleSubmit
    \/ LeaveApp \/ ModalOpens \/ DismissModal \/ AccountChanges

\* React runs an effect it has scheduled; one poll in time is answered.
ShellFairness == WF_shellVars(Redirect) /\ WF_shellVars(PollVerification)

ShellSpec == ShellInit /\ [][ShellNext]_shellVars /\ ShellFairness

-----------------------------------------------------------------------------
ShellTypeOK ==
    /\ visitor \in [session : {"none", "stale", "live"}, verified : BOOLEAN, roles : RoleSets,
                    plan : Plans]
    /\ shell \in [at : Routes \cup Entered \cup Followed \cup {"provider"}, from : Protected,
                  auth : [st : {"loading", "out", "in"}, verified : BOOLEAN,
                          roles : RoleSets \cup {{}}],
                  plan : Plans \cup {"unknown"}, modal : BOOLEAN,
                  returnUrl : Routes \cup {NoUrl},
                  code : {"partial", "complete", "sent", "done"},
                  hops : Nat, wanted : Protected]

\* However the account and what is known of it change, the guards of the pages do
\* not send a tab in a circle: three redirects settle it, the longest way being from
\* a page by check-email and home to trial-expired.
RedirectsSettle == shell.hops <= 3

\* No page offers its user a link that sends him elsewhere, but for the admin
\* index, which opens on the dashboard: the sidebar (isAdmin), AdminRoute
\* (hasRole, by rank) and AdminLayout (isAdmin) agree on who is an admin, and
\* every link is a route.
LinksOpen ==
    Shown /\ shell.at \in Protected =>
        \A p \in Links(shell.at) :
            p \in Routes /\ Onward(p) = IF p = "admin" THEN "dashboard" ELSE p

\* The page that was asked for is where a sign-in leads: through the redirect to
\* the sign-in page, its reload and, in sessionStorage, the provider's site.
DeepLinkKept ==
    /\ shell.at = "login" => shell.from = shell.wanted
    /\ shell.at = "provider" => shell.returnUrl = shell.wanted

ShellInv == ShellTypeOK /\ RedirectsSettle /\ LinksOpen /\ DeepLinkKept

\* A visitor whose address is verified, on whatever device, gets past the page that
\* asks him to, while it stays open and its access token lives.
VerifiedGetsIn ==
    (shell.at = "check-email" /\ shell.auth.st = "in" /\ visitor.verified
        /\ visitor.session = "live")
    ~> (shell.at # "check-email" \/ shell.auth.st # "in" \/ visitor.session # "live")
=============================================================================
