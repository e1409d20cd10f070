# isnad-graph in TLA+

Specifications of the parts of isnad-graph (the FastAPI backend under `src/`, the React
frontend under `frontend/src/`) whose correctness depends on the order in which things
happen: the jobs and handlers that change stored state in several steps, the pages that act on
state they read earlier, and the pure code those pages rely on. Each module is translated from
the source it names; `PROJECT.json` maps every definition to its lines.

## 1. The system

| Component | State it keeps | Operations | Correct when |
|---|---|---|---|
| Semantic index rebuild (`enrich/embeddings.py`, `cli.py`, `utils/pg_client.py`) | two named ivfflat indexes in Postgres | `ensure_embedding_schema`, drop `_new`, build `_new` concurrently, swap names in one transaction | queries never lose the index; a build's leftover is never promoted |
| Embedding load and recall gate (`embeddings.py`, `semantic_smoke.py`) | `hadiths`, `hadith_embeddings` | read the graph, skip the embedded, two upserts per chunk, `verify_recall` | a lone job leaves all it had to read; vectors belong to their text; one width |
| Historical overlay and dating (`enrich/historical.py`, and `hadiths.py`, `timeline.py`, `validate.py`) | events, narrators' resolved dates, ACTIVE_DURING edges | four MERGE batches, chunk by chunk; four copies of the active window | a finished run links everything, whatever earlier ones left; the copies that read the resolved bounds agree |
| Search (`routes/search.py`, `SearchPage`) | the page: query, mode, filters, sort, place | full text and semantic search; debounce, typeahead, facets, pager | walking the pager shows each match once; a deep page never outlives its query |
| Browsing and facets (`routes/hadiths.py`, `HadithsPage`, `grades.py`, `topics.py`) | facets in Redis for a TTL; the page's filters | list, facets, cache; filter, page | pages tile; a filtered row has the badge asked for; facets outlive a reload by the TTL at most |
| Graph explorer (`routes/graph.py`, `GraphExplorerPage`, `ForceGraph`, `tabaqa.ts`) | the canvas | network of a narrator, cut at a limit; merge, seed, reset, bands | no edge without its nodes; a reset canvas stays blank |
| Timeline (`routes/timeline.py`, `TimelinePage`) | the range and what is drawn of it | range, events, lanes | what is drawn belongs to the range shown; typed years stay |
| Ingest validation (`routes/validate.py`) | none | chains whose narrators cannot have met, of at most `_MAX_SCAN` candidates | only the certain is called impossible; what it counts and flags is true of the rows it scanned |
| Browser session (`token-refresh.ts`, `client.ts`, `useAuth.ts`, `LoginPage`, `AuthCallbackPage`) | localStorage token and refresh cookie (all tabs), React state (one tab), the refresh in flight (one tab) | loadUser, refreshUser, API call with 401-refresh-retry, sign-in, sign-out, reload, expiry | one refresh per tab at a time; the modal has a cause; signing out holds |
| Profile and preferences (`ProfilePage`, `profile-client.ts`, `useProfilePreferenceSync`, `useTheme`) | one blob per account; the app's live theme and locale | read-modify-PUT of the whole blob, hydrate once per user | a change costs no other preference; no answer undoes a choice |
| Role administration (`admin-client.ts`, `UserManagementPage`) | the user-service's role sets; each page's list | list, `setUserRole` (assign, then remove the others) | a switch alone leaves exactly the chosen role; nobody is locked out |
| Source purge (`admin/data.py`, `DataManagementPage`) | the graph per source corpus; the panel's form | preview, typed confirmation, batched delete, report | only the confirmed corpus disappears, and all of it; the report is true |
| Admin configuration (`admin/config.py`, `loki_retention.py`) | `system_config`, `config_audit`, Loki's overrides file | PATCH: load, then per key upsert and audit; rewrite the file | the log tells what is stored; the file follows the database |
| Moderation (`admin/moderation.py`, `ModerationPage`) | flags; each moderator's list | flag, list by status and page (two reads), set any status | an answer is replaced only by a race; an empty table means none or a shrunk list |
| Pipeline reset console (`ResetPage`, `admin-client.ts`) | the modal; requests to the ingest platform | dry run, typed word, reset, retry after 401 | no reset without its own dry run; one run per click |
| Application routes (`App.tsx`, `LoginPage`, `AuthCallbackPage`, `CheckEmailPage`, `VerifyEmailPage`, `useSubscription`) | one tab: its page, what it knows of the account, the URL to return to | guard, redirect, link, sign-in, verify, poll, sign-out | redirects settle; links open for whom they are shown to; a sign-in leads to the page asked for |
| Rate limiter (`api/middleware.py`) | a sorted set per client in Redis, a window per process | admit or 429; fall back to memory | no client over its limit; a quiet one is admitted |
| Token verification (`api/auth.py`, `api/middleware.py`) | JWKS cache per process | fetch, verify, retry once after key rotation | a good token is accepted; a retired key dies |
| Read-only routes, health, reports, retired endpoints, shell, presentation | none of their own | | |

They interact through the databases and services around them. Pages call the API and the
user-service; every call of theirs passes the session's refresh-and-retry on its way out and
the backend's rate limiter and token verification on its way in. The admin panels act on
lists and previews fetched earlier. Command-line jobs share Postgres and Neo4j with the
handlers and take no lock against each other. What the jobs write, the dates and the vectors,
is what search, timeline, dating and validation read; the ingest platform replaces the
graph under all of them.

What is hard here: statements and requests that commit one by one under a single user action
(rebuild, load, overlay, role switch, purge, settings); panels that decide on data another
operator may have changed; two stores that follow each other best-effort; tabs that
share a cookie and a token but no refresh; answers that arrive late, for another query, account,
modal or canvas; failures whose effect happened anyway. `PROJECT.json` lists each such hazard at
its line with the property that covers it.

## 2. Modules

A `X` module is the specification, `MCX` its instance for TLC, `XProofs` its theorems.

**EmbeddingIndex.** `canonical` and `fresh` are the indexes of the two names, known by who
built them and by whether Postgres marks them valid; `pc` is each run's next statement. One
action per SQL statement: `EnsureSchema`, `DropLeftover`, `StartBuild` / `FinishBuild` (CREATE
INDEX CONCURRENTLY enters the catalog before it is usable), `Swap` (one transaction). Postgres
is modelled by the table lock its DDL conflicts on, by INVALID leftovers, and by the backend
that goes on building when its client died (`OrphanEnds`). Any statement may fail, any run
may die, and runs may overlap, because nothing in `cli.py` prevents it. **ServedIndex** is what
all this promises the queries: an index from the first schema on, only ever replaced, in one
step, and by a complete one if the run was not disturbed. `ServesIndex` is the refinement:
`served` is `canonical`, `sure` whether the run that put it there was undisturbed.

**BrowserSession.** One action is one JavaScript continuation: what runs between two awaits.
`AwaitRefresh` / `RefreshAnswered` / `RefreshLost` / `RefreshSettles` are `refreshAccessToken`
and `doRefresh`; `LoadUser`, `SendCall`, `Accepted`, `Refused`, `RefusedAgain`, `RequestLost`
are the callers, `PollUser` / `PollAnswered` / `PollFails` is `refreshUser`, whose answer sets the
user whatever has happened meanwhile; then sign-out, reload, sign-in, expiry, revocation elsewhere. A token is what a
server would say of it, a cookie only whether it is the current one. The user-service is external: it rotates the
cookie on use.

**AppRoutes.** `visitor` is the account whose session the browser holds, `shell` the tab: its
page (`at`), React Router's `location.state.from`, what `AuthProvider` and `useSubscription` know
of the account, the modal, `oauth_return_url` in sessionStorage. `Onward` is where a page sends
the tab, `ProtectedRoute`, `AdminRoute` and `AdminLayout` one after the other; `Redirect` is one
`<Navigate replace>`, so a walk through guards is several steps, between which the account or
what is known of it may change. `Links` is what each page offers. `HandleOAuth` and
`AuthCallback` leave for the provider's site and come back; `SignInByEmail` navigates without
telling `AuthProvider`; `PollVerification` is `CheckEmailPage`'s interval. `hops` counts the
redirects since the page was entered, `wanted` is the page its user asked for; only properties
read them.

**RoleSwitch.** `roles` is the user-service's truth, `listed` each operator's page, `switch`
each page's mutation. `Choose` is `handleRoleChange` with its guard and `setUserRole`'s plan;
`Assigned` and `Removed` are one request each, whose answer may be lost after it was applied.

**SourcePurge.** `count` is the number of nodes per corpus. `Select`, `Type`, `Preview`,
`PreviewSettles`, `Purge` are `PurgeSection`; `ApiPurge` is any other client; `Begin`,
`DeleteBatch`, `BatchFails`, `Answer` are `purge_source`, each batch a transaction of its own;
`Load` is ingestion at work meanwhile. A node is taken to have one label, so the per-label
counts are one number. `execute_write` does not retry an incomplete commit: `BatchFails`
covers a batch that commits without the handler learning of it.

**AdminConfig.** `config`, `audited` (the latest audit row of each key) and `file` are what is
stored; each handler loads the old values once, then per key `Upsert` and `Audit`, two commits,
then `ReadOverrides`, `Truncate`, `WriteOverrides`. `Fail` is a failing statement, a lost
connection or a dying process, with or without the effect of the statement under way.
Because the file is truncated and written through a file position of each handler, two writers
may leave bytes of both texts (`mixed`).

**ApiGate** composes **RateLimiter** and **JwksAuth**, which share the clock and the worker
processes of **ApiWorkers**. Time is discrete; everything is measured in it.

* `RateLimiter`: `zset` is Redis's sorted set per client, `window` each worker's fallback,
  `link` what a worker knows of Redis (`_redis_checked`, `_redis`), `req` the request it is
  deciding. `dispatch` is `Stamp` (it reads the clock), then `Ping` if Redis was not checked yet,
  then `ByRedis`, `RedisLost` or `ByMemory`, then `Finish`. The pipeline is one transaction and
  so one step; it takes at most `Slip` after the stamp, which is how stamps of two workers reach
  Redis out of order. A sorted set keeps one entry per stamp: requests of two workers in the
  same instant collapse in the model as in the code. Redis may stop, start again with its data
  or without, or lose an answer after the pipeline ran.
* `JwksAuth`: `cache` is each worker's `_jwks_cache` with its date, `call` the verification it
  is at, `status` the life of each signing key in the user-service. `Begin` is `require_auth` up
  to the network, `Serve` the moment the user-service answers, `Receive`, `ReceiveGarbled`,
  `FetchFails` the three ways the call goes on; `Decode` is what both calls of `jwt.decode` do,
  the emptied cache and the second fetch included. `httpx.get` blocks the worker's event loop,
  so a worker verifies one token at a time.
* `ApiGate`: `Arrive`, `Admit`, `Forward`, `Verify`, `Respond` take a request through both.

**EmbeddingLoad.** `graph`, `mirror` and `vectors` are what Neo4j, `hadiths` and
`hadith_embeddings` hold of each hadith; a vector is known by the text and the embedder it was
made of. `EmbedHadiths` launches a job with its scope, `EnsureSchema` creates a column of its
embedder's width, `Fetch` reads the graph and skips what is embedded, `UpsertHadiths` and
`UpsertEmbeddings` are the two commits of each chunk; `LoadFails` may come between any two, jobs
may overlap, and `IngestHadith` changes the graph meanwhile. `verify_recall` is two operators
over the tables (`StructuralOk`, `Embeddable`, which disagree with `EmbeddingText` about blanks
as the SQL does with the Python) and a free choice of the smoke queries' hits.

**Overlay** and **Chronology.** `Overlay` is `run_historical_overlay`: `MergeEvents`,
`MergeDates`, `LinkNarrators` (the read), `MergeEdges`, each of the writes chunk by chunk with
failures in between, while narrators are loaded, dated and removed. `Chronology` has no state: the
year arithmetic that four files each have a copy of (the overlay's `ActiveWindow`, the hadith's
dating, the chain validation's window, the timeline's Cypher), and the scan of chains: `Scans` is
any `MaxScan` of the candidates, as the query has a LIMIT and no ORDER BY, with the `truncated`
flag; then the tally, filter, order and limit of what was scanned.

**Search** and **SearchPage.** `Search` is what the two routes answer, as functions of the
ranked rows each query finds: saturation, fair interleaving (a recursive function over the
places), paging, the result window, the fallback without indexes. `SearchPage` is the mounted
component: the input and its timer, the URL's mode, facet filters and sort, the typeahead
and its keys, batches fetched from the server and cut into display pages, the pager.

**HadithBrowse** and **Vocabulary.** `Vocabulary` is `grades.py` and `topics.py` over keyword
groups. `HadithBrowse` is the facets handler (cache read, two graph reads, cache write, with Redis
up or down), the list handler (count and page, two reads) and `HadithsPage`, while `Reload` replaces
the graph. Time is a cached entry's age and the ticks since the last reload.

**GraphExplorer.** `Networks` is the route: the neighbours up to a depth, any `Cap` of them,
and the links among them. `explore` is the page: who is selected, depth, layout, what is drawn,
what is pending. `Drawings` is the render that follows a state change: another narrator or depth is
another query, answered later, or at once when cached. `Seeded` is the effect that picks the first
narrator; `Bands` and `TabaqaRank` are `tabaqa.ts`.

**TimelinePage.** The three routes as operators over a graph: its events, its narrators' dates and
the ACTIVE_DURING edges that are stored. The overlay never removes an edge, so a graph may have
some that the dates no longer give, and `narrator_count` counts them (`Counted`). The page asks for
the range, then for what lies in it. The query client keeps an answer fresh for five minutes
(`App.tsx:46`) and the graph may be loaded again at any time, so every answer, cached or fetched, is
of any one of the graphs; it carries which (`of`), and range, events and lanes may be of three.

**Moderation.** `flags` is the graph's; `desk` each moderator's page: its status filter and page
number, the list it shows and the one the query client still keeps, the list request with its two
reads (`CountFlags`, `ListFlags`), the PATCH under way. Requests and answers may be lost.
`PatchElsewhere` is any other client of the PATCH, which takes every status, "pending" included.
`changed` and `raced` record which pending rows have changed since they were read.

**ResetConsole.** `modal` is the confirmation that is open, `posts` the requests under way, which
outlive it; `wiped` counts what the ingest platform ran. The platform is external: it runs,
refuses, or finds the token expired (`Retry` is `fetchWithRefresh`).

**Preferences.** `blob` is the user-service's, one per account, replaced whole by a PUT.
`page` is the tab: its account, what it shows, the cached profile; `puts` the writes under way,
which may be stored and answered in any order. `Deliver` is a new value of the profile query
and the hydration that goes with it, once per account. Another tab may sign in to another
account, another device may write.

The components of one area share no state, so an MC module puts them side by side as scenes: a
behaviour is that of one scene, chosen at the start. **MCReader** is the session and the
preferences; **MCReading** the two jobs and the reading pages; **MCAdminPanel** the five admin
pages with their handlers; **MCEndings** whatever must end, the routes among it; **MCApiGate** the gate;
**MCBrowserSession** the tabs alone.

## 3. Runs

Every property's history variables (`disturbed`, `alone`, `late`, `shared`, `torn`, `own`, ...)
only record what happened; no guard reads them.

| Run | Instance | Shows |
|---|---|---|
| `browser_session` | MCReader: two tabs, one with two API calls at a time; two accounts with one write at a time; one account with two | `SessionInv` (`SingleFlight`, `NoSelfRace`), `ModalHasCause`, `SignOutHolds` (also against a late `refreshUser`); `PrefInv` (`TrueWritesOneKey`, `CachedIsTrue`), `NeverClobbered` |
| `endings` | MCEndings, four scenes: one tab with two calls; three index runs; two purges; one tab's routes | under fairness `EveryWaitEnds`, `EveryRunEnds`, `PurgeEnds`, `VerifiedGetsIn`; `IndexInv`, `SuccessMeansOwnIndex`, and the refinement `ServesIndex`; `ShellInv` (`RedirectsSettle`, `LinksOpen`, `DeepLinkKept`) |
| `admin_panel` | MCAdminPanel: two operators, one of them the user; two settings handlers; a purge panel and two handlers; a moderator and other clients; a reset modal and two requests | `RoleInv`, `NeverRoleless`, `NoSelfDemotion`; `ConfigInv` (`TrailIsTrue`, `LokiFollows`, ...), `NeverInvented`; `PurgeInv`, `NoCollateral`, `DoneMeansGone`; `ModerationInv` (`ReplacedByRace`, `EmptyOnlyByShrink`); `ResetInv` |
| `reading` | MCReading, eight scenes: one load after another, overlapping loads, overlay, search, facets, browsing, explorer, timeline | `LoadInv`, `LoadIsComplete`; `OverlayInv`, `DerivedDates`; `SearchInv`, `EveryMatchReachable`; `BrowseInv`, `FacetsInv`; `ExplorerInv`, `SeedsOnlyUntouched`; `TimelineInv` |
| `api_gate` | two clients, two workers, two keys; limit 2 in a window of 3, TTL 2 | `GateInv`, `GrantsBounded`, `RefusedOnlyWhenBusy`, `RetiredKeyDies`, `GenuineNeverRefused`, `CacheCarriesOutage` |
| `email_login` | one tab | **violated**: after a successful e-mail login the page stays without a user |
| `only_revoked` | one tab | **violated**: a lost refresh request forces the session-expired modal |
| `exactly_one_role` | two operators | **violated**: a second choice from a list without the assignment whose answer was lost leaves two roles |
| `purge_reviewed` | one panel, two handlers | **violated**: a late preview enables the purge of another corpus |
| `redis_when_available` | as `api_gate` | **violated**: a worker whose first ping failed never uses Redis |
| `partial_load_gate` | two hadiths, one job | **violated**: the recall gate passes a load that stopped after its first chunk |
| `preferences_dropped` | one account | **violated**: a preference chosen before the profile arrives drops the others |

The invariants named after a module are its type invariant and its safety properties, each a
definition of its own with a comment.

Some properties name a cause as their exception, by a history variable. They show that nothing
else goes wrong, and say nothing of the case itself, which the code has: `TrailIsTrue`, `RowsChain`
and `LokiFollows` except handlers that met and failures between two commits; `StaleOnlyByOverlap`
facets whose computation a reload overlapped; `CacheCarriesOutage` a worker that has seen a token
fail; `TrueWritesOneKey` writes made from a copy that was not the account's (that such a write drops
other keys is the violated run `preferences_dropped`); the purge's report is that of one which
nothing disturbed; `ReplacedByRace` a flag that changed after the row was read. The notes of
`PROJECT.json`'s hazards name what no property covers, with the reason.

*Why the bounds are enough.* All interactions modelled are between two actors (a run and the
one it overlaps, an operator and the other, two handlers); the third index run adds the
leftover of an earlier one. What counts upwards is bounded by name: `MaxLoads`, `MaxPuts`,
`MaxFlags`, the gate's `MaxTime`, `MaxRequests`, `MaxFaults`, `MaxPages`; actors repeat their
operations without limit otherwise, and the theorems below hold for all sizes.

* Purge: 3 and 1 nodes in batches of 2 give a full batch, a short one and an empty one; a padded
  name exercises `strip()`. Settings: one key is the retention and one is not, so that the loop
  has a first and a last pass, and one value is longer than the other.
* Loads: two hadiths in chunks of one, with texts that the SQL and the Python judge differently,
  and embedders of two widths. Overlapping jobs are followed over one hadith, since chunks of
  different hadiths touch different rows; a job after the other over two.
* Overlay: two narrators, five kinds of dates (none, one end, both, with bounds), a file of two
  events and a later one of one event, chunks of one. The scan keeps two candidates, fewer than two
  dated narrators make.
* Search: a query that finds both types, one that finds more by meaning than by words, and one
  without results; batches of 2 and 1, pages of 1, so that a page is in the middle, at the
  seam and at the end of a batch. The indexes and the vectors are both there or both missing: a
  mode reads only its own. Browsing: three states of the graph, pages of 1 and 2. Facets:
  a time to live of 2 ticks against 3 that are told apart.
* Explorer: three narrators, two transmissions and one link that is none, a cap of one
  neighbour, which cuts a network and lets two of them overlap; the filter panel, which touches
  nothing else, is opened over a bare canvas only. Timeline: three graphs
  (one without events, one with a left-over edge), any of them behind each answer, limits of 2 events and 1 lane,
  typed years that overlap the events in part or not at all.
* Routes: an account of either kind of role set (an admin; a researcher with a role the frontend
  does not know), a tab entered at an open page or at no route, links to one page of each kind; the
  guards tell only the kinds of pages apart. The theorem is about all routes and links.
* Preferences: one key that drives the app and one that only the blob knows; two accounts with one
  write, or one with two: what a write does depends on its account's blob alone.
* Moderation: two flags on pages of one, one moderator and the other clients, who may do to a flag
  whatever a second moderator could; the theorem is about any number of both. Reset: a stage and the full reset, two
  requests, so that an old modal's request meets the next modal.
* Gate: four requests against a limit of two in a time longer than the window reach refusal,
  expiry and the fallback; a lifetime of four against a TTL of two lets a key be cached,
  retired and outlived. `Slip` and `Patience` are assumptions about the environment (sockets time
  out after `REDIS_SOCKET_TIMEOUT_SECONDS`, httpx after 10 s, against a window of 60 s and a TTL
  of an hour). Either both workers serve open routes while Redis and the workers fail, or one
  worker serves one client's protected requests while the keys change; the theorems need no such
  division, since no verifier step touches the limiter's state or the reverse (`GateImplements`).
  That Redis came back empty forgives what it had admitted: `granted` starts again there.

*Symmetry* (`browser_session`, `admin_panel`, `reading`, `api_gate`) permutes the calls of a tab, handlers,
moderators, requests, hadiths, narrators and the like, which are compared for equality only. The one `CHOOSE`
among them, of the flight a caller joins, is from a set of one (`SingleFlight`). These runs have no liveness.

*Deadlock* is checked wherever actors can always act again; time or the purge's end stops
the runs whose cfg says otherwise.

*Fairness.* `EmbeddingIndex`: strong fairness of each run's progress, because Postgres's lock
queue is first come, first served and a waiter's lock comes and goes; no fairness for
launching. `BrowserSession`: weak fairness of each caller's progress, since requests
are answered or rejected and the browser runs the continuations; none for users, expiry or
lost requests. `SourcePurge`: weak fairness of the batches of a handler that runs; ingestion is
bounded, so "the purge ends" is under the assumption that loading stops now and then.
`AppRoutes`: weak fairness of `Redirect`, an effect React has scheduled, and of
`PollVerification`, which assumes that one poll in time is answered; none for the visitor. The
other modules state no liveness: their requests may be lost and their jobs may fail at any step,
and nobody has to run them again. The violated run with a liveness property uses the same
fairness.

### What the violated runs mean

Each one checks a sentence of the code's own comments, docs or tests, quoted in `PROJECT.json`
under `findings`. They are statements the code makes about itself which hold only without the
behaviour shown: `handleEmailLogin` never tells `AuthProvider`; `fetchJson` cannot tell a
lost refresh from a refused one; `setUserRole` plans from a list that may be stale, also by an assignment of its own
whose answer was lost; `previewMutation.onSuccess` does not look at what is selected by then; `_get_redis` keeps a
failed first ping, where the limiter's documentation says Redis is used when available; `structural_ok` compares two
tables that a load fills together, so a load that stopped early looks whole; `persistPrefs` spreads an empty blob
while the profile is on its way.

Smaller disagreements met on the way, without a run of their own:

* `SearchPage.tsx:224-240` picks the suggestion by its index in the answer, while the dropdown
  (`:331-337`) numbers the entries group by group: with both groups present, Enter may open
  another entry than the one highlighted. `SearchPage` models the code.
* `hadiths.py:127-128` bounds the facets' staleness by their TTL. That holds for facets whose
  computation began after the reload (`StaleOnlyByOverlap`); others live one TTL from when
  they were stored.
* `topics.py:16` says the counts sum to the whole corpus: a hadith with two topics counts twice.
  `FacetsCountHadiths` states what does hold.
* `useAuth.ts:279-280` says that a dismissed session-expired modal brings the reader back to the
  page it lay over. The URL is stored, but the sign-in page it loads has no `location.state`, and
  `LoginPage.tsx:134` overwrites the stored URL with its default. `DismissModal` and
  `HandleOAuth` model both; `DeepLinkKept` holds because it is about the page asked for by URL or
  link.
* After a sign-in of an account that has to verify its address, `AuthCallbackPage` goes to the
  check-email page and drops the page asked for; the check-email page's poll is silent once the
  access token has expired, since `refreshUser` does not refresh it. `VerifiedGetsIn` is about
  a live token.
* `HistoricalEvent` does not demand that an event ends after it starts; the timeline opens on
  everything (`OpensOnEverything`) where events do.
* `run_historical_overlay`'s docstring speaks of reconciling: events, dates and edges that
  a later file no longer has are never removed. `OverlayComplete` is about what is there.

## 4. Theorems

TLAPS checks the theorems for every value of the constants under the `ASSUME`s named in the
modules (distinct markers, batch sizes of at least one that fit together, fields totally
ordered, rows found once). TLC evaluates the assumptions in each run. All safety and action
properties of the passing runs are theorems.

* `JobProofs`, about `EmbeddingIndex`: `IndexInvariant`, `PromotionIsSafe`, `SoloSuccessIsOwn`, and
  `JobServesIndex`, the refinement of `ServedIndex`. The invariant says that whoever builds owns
  the INVALID `_new` index, so there is one builder; an undisturbed run is the only live one and
  finds its own valid index between build and swap. Without it, "valid unless disturbed" is not
  inductive: a swap promotes whatever `_new` is.
* `JobProofs`, about `Overlay` and `EmbeddingLoad`: `OverlayHolds`, `LoadHolds`, `LoadIsWhole`,
  `DatesDerived`. Overlay: while a job is undisturbed, what is linkable is linked or still to be
  linked (`LinksLeft`). Load: a vector implies a mirrored row (`MirroredFirst`), a chunk under way
  is what was fetched, and whatever a lone job has taken off its list is copied
  (`LeftOrCopied`); that equal counts decide completeness follows from the cardinalities of the two
  sets. Dates: in every state of the overlay the copies of the active window that read the resolved
  bounds agree, and the scan's, which does not, agrees with them where there are none; what is called
  impossible is, for chains of any length; whichever rows the scan is given, it is marked truncated
  exactly when it leaves a candidate out (`ScanIs`), its tally, a sum over the findings, counts each
  row once, and its limit drops no worse row for a lesser one (`ScanHolds`). What an unscanned
  candidate would have been nobody knows.
* `SearchProofs`: `SearchInvariant`, `MatchesReachable`. The fair merge is a recursive function of
  the place; that after n places half of n, rounded up, are from the leading list until one of the
  lists runs out (`Turns`) is proved by the least place that would differ. So the batch the
  server cuts after merging only as much as it needs is the batch of the whole merged list
  (`MergedIs`, `CutOf`), whose keys are the matches, each once (`Enumerates`). A sort permutes a
  batch (`Permutes`), a batch is a whole number of display pages and the pages a whole number of
  batches (`Fits`), so each place of the merged list is at one place of one page (`LiesSomewhere`,
  `LiesOnce`). The page's invariant, `SearchInd`: once no timer is left, the query is the
  input, and a page past the first was chosen for it and reaches a hit (`Reaches`); an answer that
  is shown was given; a filtered page is of batch one. "No results" is then never a page past
  the end.
* `ReadingProofs`: `BrowseInvariant`, `FacetsInvariant`, `TimelineInvariant`, `ExplorerInvariant`,
  `ExplorerSeedsOnce`. Browsing: a list that no reload disturbed counts and holds what the graph does
  (`Undisturbed`), and pages cut the ranks of the matching hadiths (`Ranking`). Facets: a
  computation that is not late read the graph that is there; what is kept is the graph's, or
  is older than the last reload (`FacetsInd`). Timeline: an answer that is shown is one
  to the range shown, of the graph it carries (`AnswersOf`), and a range nobody typed is the one of
  the graph it was taken over from (`RangeOf`). Explorer: a network is closed and holds who was asked for, so merging
  keeps the canvas closed, and nothing is asked for where nobody is selected, so a reset canvas has no answer to wait
  for (`CanvasKept`); bands are sorted by a rank that is total.
* `BrowserSessionProofs`: `SingleFlightHolds`, `ModalIsExplained`, `SignOutStays`; `ShellInvariant`;
  `PreferencesHold`, `ChoicesAreKept`. Session: the invariant ties each refresh to the cookie it
  took: one that was sent carries a cookie its own tab has not rotated (`FlightIsClean`), since
  only the tab's one refresh could have; a call that is sent again carries the token of a
  refresh, so its refusal has a cause. Signing out: a page with a user has nothing left of its
  loading (`UsersLoaded`), so when it signs out no token is stored and its loader has none, and
  only a refresh that is answered afterwards can store another (`NothingLeft`); a `refreshUser` that
  is under way in a page without a user is that of a page being left (`PollsLeave`). Routes: a redirect into a
  protected page comes from a verified account that is signed in, which leaves it two hops at most (`HopsBounded`),
  and where the account is not known yet the page shown is the one asked for (`WantedKept`). Preferences: `PrefInv` is
  inductive, because whatever changes a blob withdraws `true` from every copy it outdates (`StoreKeeps`); a hydrated
  page takes nothing live from an answer (`DeliverIs`).
* `AdminProofs`, about `RoleSwitch`: `RoleInvariant`, `SwitchAloneIsExact`, `SwitchKeepsARole`,
  `NoSelfDemotionEver`. `AloneInv` relates the roles left to remove to the user's roles at each
  stage of an undisturbed switch; that the target is never among those to remove is what leaves
  a role whichever request fails.
* `AdminProofs`, about `SourcePurge`: `PurgeInvariant`, `ReportIsTrueAlone`, `PurgeIsConfined`,
  `PurgeIsComplete`. Strengthening: whoever deletes has passed the gate, whoever has not begun has
  deleted nothing; then counted = deleted + remaining is kept by every batch.
* `AdminProofs`, about `Moderation` and `ResetConsole`: `ModerationInvariant`, `ResetHolds`.
  Moderation: a row that a list shows as pending, shown or cached, is of a pending flag or of one
  that has changed since (`ListOf`), and what was pressed was such a row; a page is turned only within
  the count of a list that was shown, so an empty page past the first means that the count has been
  greater (`DeskOf`; `most` records it). Reset: the request a modal waits for is its own and
  its click is not used up (`WaitIsOwn`), and one that may still run has run nothing (`RunsOnce`),
  which is why the retry is harmless.
* `AdminConfigProofs`: `ConfigInvariant`, `TrailAlwaysTrue`, `RowsAlwaysChain`,
  `LokiAlwaysFollows`, `GarbledOnlyByOverlap`, `LineNeverInvented`. Strengthening: a key of two
  busy handlers is marked shared by both (`Exclusive`), so an unshared key has the loaded value
  until its upsert and the new one after it (`KnowsOwn`), and a lone writer finds the file as it
  truncated it (`SoloFile`).
* `ApiGateProofs`: `LimiterInvariant`, `LimitHolds`, `RefusalsEarned`; `VerifierInvariant`,
  `RetiredKeysDie`, `GenuineTokensPass`, `OutagesAreCarried`; `GateImplements`, `GateInvariant`
  and `GateCorrect` carry them over to the composition. Limiter: no backend prunes an admission
  that is still recent (`GrantsKept`), because a request prunes by its own stamp, at most `Slip`
  old; so a count below the limit counts all recent admissions. Refusals: every live stamp a
  backend holds was asked for by somebody else (`StampsAsked`). Verifier: whoever fetched keys at
  an instant holds none retired before it (`KeysDated`), a pending call's token key is in
  the answer if it is still published (`CallsSound`), and a cache that differs from what was
  last fetched has seen a failure (`CacheKept`). Assumed: `Slip < Window`, `Patience < TTL`.

`Ranking` holds what several of these need: the ranks of n elements are 1 to n, each taken once, so
what cuts the ranks into pages cuts the set; sums over finite sets; the number of pages.

Only model-checked: all liveness (`EveryRunEnds`, `EveryWaitEnds`, `PurgeEnds`,
`VerifiedGetsIn`), since fairness and ENABLED are beyond the proof system. No module
uses a RECURSIVE operator. The library's induction theorems take an operator as a parameter,
which the installed provers cannot instantiate; where a proof needs induction over numbers it
takes the least counterexample instead, as for the merge and the sums. The one recursive
definition left unproved is a network of more than one step of depth, whose closure under
transmission the explorer's properties do not use.

## 5. Not modelled, and what is left

`PROJECT.json` gives the reason for each component left out. In the modules themselves:
`EmbeddingIndex` leaves out the data being indexed; `BrowserSession` leaves out
the onboarding flag, and `AppRoutes` the onboarding banner, the resend button's minute and
what the pricing pages show, which nothing keeps; `RoleSwitch`
leaves out paging and deactivation; `SourcePurge` leaves out relationships (reported as nodes are)
and the audit entry (best-effort, only on success); `AdminConfig` leaves out the order in which
the log is displayed (`changed_at` is the transaction's start); `RateLimiter` leaves out the
sorted set's own expiry (it removes only stamps no request counts) and how the client's address
is found (the connection's peer; the documentation also names `X-Forwarded-For`, which
the code does not read); `JwksAuth` leaves out what the claims of an accepted token become, and
takes an answer that is JSON to be the key set. `ConfigPage` sends its requests
with plain `fetch` and no Authorization header, which `require_admin` refuses; the module is
about the handler, whoever calls it. Of the settings only the log retention has an
effect on the running system: rate limits and origins are read from the environment.
`EmbeddingLoad` takes the ranking of the smoke queries as given; `SearchPage` takes what the query
cache holds under a key to be what the API answers for it; `HadithBrowse` leaves out
`GET /hadiths/{id}`; `GraphExplorer` leaves out the detail panel's own reads and the force
layout; `TimelinePage` leaves out the drawing; `Preferences` leaves out the display name and
the list of sessions; `ResetConsole` leaves out what a reset does, which is the ingest platform's.

What is left, in this order:

1. Abstract specifications of a role switch and of a purge, implemented by the modules above
   and proved to be. Neither is atomic: others see the roles and the corpus between two requests
   or batches, and a failure leaves them there, so the abstract steps are those between (roles
   from the old ones towards the target, a corpus that shrinks until it is reported gone).
2. The read-only routes: comparison and parallels pages, narrators' communities, hadith detail.
