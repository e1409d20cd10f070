----------------------------- MODULE Moderation -----------------------------
(***************************************************************************)
(* The flags on hadiths and narrators: the API (api/routes/admin/          *)
(* moderation.py) writes a status over whatever is there, and the page     *)
(* (pages/admin/ModerationPage.tsx) offers two answers on each flag that   *)
(* its list shows as pending.  A list is one page of the flags of one      *)
(* status, the latest first, counted and read in two transactions.  Other  *)
(* clients of the API may give a flag any status, "pending" included.      *)
(***************************************************************************)
EXTENDS Integers, FiniteSetsExt

CONSTANTS Moderators,
          MaxFlags,    \* bound: flags are numbered in the order they were raised
          FlagsPerPage

ASSUME ModerationAssumption == MaxFlags \in Nat /\ FlagsPerPage \in Nat \ {0}

VARIABLES flags,  \* the status of each flag that is there
          desk    \* what each moderator's page shows, asks for and has sent

moderationVars == <<flags, desk>>

Answers == {"approved", "rejected"}         \* what the page's buttons send
Statuses == {"pending"} \cup Answers        \* what the PATCH takes
AnyStatus == "all"
Nobodys == [flag |-> 0, answer |-> "none", raced |-> FALSE]  \* no PATCH under way
NoCount == [total |-> -1, raced |-> FALSE]                   \* no list under way

FlagsOf(status) == {f \in DOMAIN flags : status \in {AnyStatus, flags[f]}}

\* list_flagged_content's second query: ORDER BY flagged_at DESC SKIP .. LIMIT ..
RowsOf(status, page) ==
    LET all == FlagsOf(status)
        Place(f) == Cardinality({g \in all : g >= f})
    IN [f \in {g \in all : Place(g) \in (page - 1) * FlagsPerPage + 1 .. page * FlagsPerPage}
           |-> flags[f]]

\* A list: of which page and status, its rows, what was counted, whether it is
\* empty after a flag changed between the two queries, and which of its pending
\* rows have changed since (history).
Listed(page, status, rows, count) ==
    [page |-> page, of |-> status, rows |-> rows, total |-> count.total,
     raced |-> count.raced /\ rows = <<>>, changed |-> {}]
Loading == Listed(0, AnyStatus, <<>>, [total |-> 0, raced |-> FALSE])  \* none to show

FlagPages(total) == (total + FlagsPerPage - 1) \div FlagsPerPage

-----------------------------------------------------------------------------
ModerationInit ==
    /\ flags = <<>>
    /\ desk = [m \in Moderators |-> [page |-> 1, status |-> AnyStatus, list |-> Loading,
                                     kept |-> Loading, count |-> NoCount,
                                     patch |-> Nobodys, most |-> 0]]

\* Another page or status is another query, which may still be cached.  (Bound:
\* of the lists left, the cache keeps the last one; an answer to one that was
\* left reaches only the cache, and is dropped here.)
Turn(m, page, status) ==
    /\ \E list \in {Loading, desk[m].kept} :
          /\ list = Loading \/ (list.page = page /\ list.of = status)
          /\ desk' = [desk EXCEPT
                 ![m].page = page, ![m].status = status, ![m].list = list, ![m].count = NoCount,
                 ![m].kept = IF desk[m].list = Loading THEN @ ELSE desk[m].list,
                 ![m].most = Max({list.total, IF status = desk[m].status THEN @ ELSE 0})]
    /\ UNCHANGED flags

MutSetStatus(m, status) == status # desk[m].status /\ Turn(m, desk[m].page, status)

SetStatus(m, status) == status # desk[m].status /\ Turn(m, 1, status)

PreviousPage(m) ==
    /\ desk[m].list # Loading /\ FlagPages(desk[m].list.total) > 1 /\ desk[m].page > 1
    /\ Turn(m, desk[m].page - 1, desk[m].status)

\* Disabled on the last page exactly: past it, Math.min goes back to the last one.
NextPage(m) ==
    LET last == FlagPages(desk[m].list.total) IN
    /\ desk[m].list # Loading /\ last > 1 /\ desk[m].page # last
    /\ Turn(m, Min({last, desk[m].page + 1}), desk[m].status)

\* The list is asked for, also again: after a mutation and on focus.
CountFlags(m) ==
    /\ desk[m].count = NoCount
    /\ desk' = [desk EXCEPT ![m].count = [total |-> Cardinality(FlagsOf(desk[m].status)),
                                         raced |-> FALSE]]
    /\ UNCHANGED flags

ListFlags(m) ==
    /\ desk[m].count # NoCount
    /\ desk' = [desk EXCEPT
          ![m].list = Listed(desk[m].page, desk[m].status,
                             RowsOf(desk[m].status, desk[m].page), desk[m].count),
          ![m].count = NoCount, ![m].most = Max({desk[m].count.total, @})]
    /\ UNCHANGED flags

\* A query fails.  The list that is shown stays.
ListFails(m) ==
    /\ desk[m].count # NoCount
    /\ desk' = [desk EXCEPT ![m].count = NoCount]
    /\ UNCHANGED flags

\* POST /moderation/flag, from this page or another: an id of its own.
FlagContent ==
    /\ Cardinality(DOMAIN flags) < MaxFlags
    /\ flags' = [f \in 1 .. (Cardinality(DOMAIN flags) + 1) |->
                    IF f \in DOMAIN flags THEN flags[f] ELSE "pending"]
    /\ UNCHANGED desk

\* The buttons of a row, disabled while this page's PATCH is under way.
Press(m, f, answer) ==
    /\ desk[m].patch = Nobodys
    /\ f \in DOMAIN desk[m].list.rows /\ desk[m].list.rows[f] = "pending"
    /\ desk' = [desk EXCEPT ![m].patch = [flag |-> f, answer |-> answer,
                                         raced |-> f \in desk[m].list.changed]]
    /\ UNCHANGED flags

\* PATCH /moderation/{id}: SET, whatever the status is.
SetFlag(f, status) == flags' = [flags EXCEPT ![f] = status]

\* What d remembers of it when the status of f changes (history).
Noticed(d, f) ==
    LET Pending(list) == {g \in DOMAIN list.rows : list.rows[g] = "pending"}
        Since(list) == [list EXCEPT !.changed = @ \cup ({f} \cap Pending(list))]
    IN [d EXCEPT !.list = Since(@), !.kept = Since(@),
                 !.count.raced = d.count # NoCount,
                 !.patch.raced = @ \/ d.patch.flag = f]

\* The page's PATCH.  The list that is shown stays until it is fetched again.
UpdateFlag(m) ==
    LET f == desk[m].patch.flag IN
    /\ desk[m].patch # Nobodys
    /\ SetFlag(f, desk[m].patch.answer)
    /\ desk' = [b \in Moderators |->
                   LET d == IF flags'[f] = flags[f] THEN desk[b] ELSE Noticed(desk[b], f)
                   IN IF b = m THEN [d EXCEPT !.patch = Nobodys] ELSE d]

PatchLost(m) ==
    /\ desk[m].patch # Nobodys
    /\ desk' = [desk EXCEPT ![m].patch = Nobodys]
    /\ UNCHANGED flags

\* A PATCH of another client, which may also put an answered flag back.
PatchElsewhere(f, status) ==
    /\ f \in DOMAIN flags /\ flags[f] # status
    /\ SetFlag(f, status)
    /\ desk' = [b \in Moderators |-> Noticed(desk[b], f)]

ModerationNext ==
    \/ FlagContent
    \/ \E f \in 1..MaxFlags, status \in Statuses : PatchElsewhere(f, status)
    \/ \E m \in Moderators :
          \/ \E status \in Statuses \cup {AnyStatus} : SetStatus(m, status)
          \/ PreviousPage(m) \/ NextPage(m)
          \/ CountFlags(m) \/ ListFlags(m) \/ ListFails(m)
          \/ \E f \in 1..MaxFlags, answer \in Answers : Press(m, f, answer)
          \/ UpdateFlag(m) \/ PatchLost(m)

ModerationSpec == ModerationInit /\ [][ModerationNext]_moderationVars

-----------------------------------------------------------------------------
ModerationTypeOK ==
    /\ \E n \in 0..MaxFlags : flags \in [1..n -> Statuses]
    /\ \A m \in Moderators :
          /\ desk[m].page \in 1 .. Max({1, FlagPages(MaxFlags)})
          /\ desk[m].status \in Statuses \cup {AnyStatus}
          /\ DOMAIN desk[m].list.rows \subseteq DOMAIN flags
          /\ desk[m].patch \in [flag : DOMAIN flags, answer : Answers, raced : BOOLEAN]
                                  \cup {Nobodys}

\* The page's PATCH replaces an answer only if the flag got it after the row that
\* was pressed had been read: whichever list of whichever page and status that
\* was, however long it was cached, and whatever the reader turned to since.
ReplacedByRace ==
    \A m \in Moderators :
        desk[m].patch # Nobodys /\ flags[desk[m].patch.flag] \in Answers => desk[m].patch.raced

\* A moderator looks at an empty table that claims to have flags only if a flag
\* changed between the count and the list, or the list had more flags when this
\* page was turned to.
EmptyOnlyByShrink ==
    \A m \in Moderators :
        LET list == desk[m].list
        IN list.rows = <<>> /\ list.total > 0 =>
               list.raced \/ (desk[m].page > 1 /\ desk[m].most > list.total)

ModerationInv == ModerationTypeOK /\ ReplacedByRace /\ EmptyOnlyByShrink
=============================================================================
