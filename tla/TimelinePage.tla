---------------------------- MODULE TimelinePage ----------------------------
(***************************************************************************)
(* The timeline: GET /timeline, /timeline/range and /timeline/narrators    *)
(* (api/routes/timeline.py) and the page that draws them                   *)
(* (pages/TimelinePage.tsx).  The page asks for the range of the events,   *)
(* then for the events and the narrators' lanes of the range; the reader   *)
(* may type another range as soon as any event is drawn, also before the   *)
(* first answer.  The graph may be loaded again at any time and the query  *)
(* client keeps an answer for minutes, so each answer is of one of the     *)
(* graphs there have been.                                                 *)
(***************************************************************************)
EXTENDS Chronology

CONSTANTS Histories,    \* the graphs: [events: by id, people: NarratorDates by id,
                        \*              edges: the ACTIVE_DURING ones, <<person, event>>]
          TypedYears,   \* what the reader types into the two inputs
          DefaultRange, \* DEFAULT_RANGE
          EventLimit, LaneLimit,
          Gone

ASSUME TimelineAssumption ==
    /\ EventLimit \in Nat \ {0} /\ LaneLimit \in Nat \ {0}
    /\ DefaultRange \in Int \X Int /\ TypedYears \subseteq Int
    /\ None \notin Histories

ASSUME HistoriesAssumption ==
    \A g \in Histories :
        /\ IsFiniteSet(DOMAIN g.events) /\ IsFiniteSet(DOMAIN g.people)
        /\ \A e \in DOMAIN g.events : g.events[e] \in [start : Int, end : Year]
        /\ \A n \in DOMAIN g.people : g.people[n] \in NarratorDates
        /\ g.edges \subseteq (DOMAIN g.people) \X (DOMAIN g.events)

VARIABLE timeline   \* the page's state, Gone when another page is shown

timelineVars == <<timeline>>

-----------------------------------------------------------------------------
(* timeline.py *)

Starts(g) == {g.events[e].start : e \in DOMAIN g.events}
Ends(g) == {EventSpan(g.events[e])[2] : e \in DOMAIN g.events}

TimelineRange(g) ==
    IF DOMAIN g.events = {} THEN <<0, 300>> ELSE <<Min(Starts(g)), Max(Ends(g))>>

Within(year, range) == range[1] <= year /\ year <= range[2]

\* GET /timeline filters on the start years and orders by them; the page asks for
\* one page only.
EventAnswers(g, range) ==
    LET Start(e) == g.events[e].start
        all == {e \in DOMAIN g.events : Within(Start(e), range)}
    IN {[of |-> g, shown |-> T] :
           T \in {C \in Some(EventLimit, all) : \A e \in C, f \in all \ C : Start(e) <= Start(f)}}

\* narrator_count: the narrators that an ACTIVE_DURING edge leads to an event from,
\* also one that an earlier overlay has left and their dates no longer give.
Counted(g, e) == {n \in DOMAIN g.people : <<n, e>> \in g.edges}

\* GET /timeline/narrators: LIMIT comes after the viewport's predicate.  Which
\* lanes it leaves out is not told apart.
LaneAnswers(g, range) ==
    LET met == {n \in DOMAIN g.people : InView(g.people[n], range[1], range[2])}
    IN {[of |-> g, entries |-> T, truncated |-> Cardinality(met) > LaneLimit] :
           T \in Some(LaneLimit, met)}

RangeAnswer(g) == [of |-> g, range |-> TimelineRange(g)]

-----------------------------------------------------------------------------
(* The page *)

\* effectiveRange
Effective(s) == CASE s.range # None -> s.range
                  [] s.range = None /\ s.known # None -> s.known.range
                  [] OTHER -> DefaultRange

Drawn(s) == IF s.events = None THEN {} ELSE s.events.shown

Ranges == Int \X Int
TimelineEvents == UNION {DOMAIN g.events : g \in Histories}
People == UNION {DOMAIN g.people : g \in Histories}
\* The answers, each with the graph it was read from (history).
RangeData == [of : Histories, range : Ranges]
EventData == [of : Histories, shown : SUBSET TimelineEvents]
LaneData == [of : Histories, entries : SUBSET People, truncated : BOOLEAN]

Timeline ==
    [range : Ranges \cup {None}, known : RangeData \cup {None}, events : EventData \cup {None},
     lanes : LaneData \cup {None}, lost : BOOLEAN, selected : TimelineEvents \cup {None},
     typed : Ranges \cup {None},       \* the range as the reader last typed it (history)
     opened : Histories \cup {None}]   \* the graph whose range the page took over (history)

\* Another range is another pair of queries, whose answers are there at once when
\* they are cached.
Redraw(t) ==
    IF timeline # Gone /\ Effective(t) = Effective(timeline) THEN timeline' = t
    ELSE \E g, h \in Histories :
         \E e \in {None} \cup EventAnswers(g, Effective(t)), l \in {None} \cup LaneAnswers(h, Effective(t)) :
            timeline' = [t EXCEPT !.events = e, !.lanes = l]

TakeOver(t) == [t EXCEPT !.range = t.known.range, !.opened = t.known.of]

MutAdopt(t) == IF t.known # None THEN TakeOver(t) ELSE t

\* The effect that takes the range over, once.
Adopt(t) == IF t.range = None /\ t.known # None THEN TakeOver(t) ELSE t

TimelineInit == timeline = Gone

\* The range is there at once when it is cached.
MountTimeline ==
    /\ timeline = Gone
    /\ \E known \in {None} \cup {RangeAnswer(g) : g \in Histories} :
          Redraw(Adopt([range |-> None, known |-> known, events |-> None, lanes |-> None,
                        lost |-> FALSE, selected |-> None, typed |-> None, opened |-> None]))

LeaveTimeline == timeline # Gone /\ timeline' = Gone

\* Also a range that is fetched again.
RangeArrives == \E g \in Histories : Redraw(Adopt([timeline EXCEPT !.known = RangeAnswer(g)]))

EventsArrive ==
    \E g \in Histories : \E e \in EventAnswers(g, Effective(timeline)) :
        Redraw([timeline EXCEPT !.events = e, !.lost = FALSE])

EventsLost == Redraw([timeline EXCEPT !.lost = TRUE])

LanesArrive ==
    \E g \in Histories : \E l \in LaneAnswers(g, Effective(timeline)) :
        Redraw([timeline EXCEPT !.lanes = l])

\* An input: shown while an event is, and it sets both ends.
TypeYear(field, year) ==
    /\ Drawn(timeline) # {} /\ year # Effective(timeline)[field]
    /\ LET range == IF field = 1 THEN <<year, Effective(timeline)[2]>>
                                 ELSE <<Effective(timeline)[1], year>>
       IN Redraw([timeline EXCEPT !.range = range, !.typed = range])

\* handleEventClick
ClickEvent(e) ==
    /\ e \in Drawn(timeline)
    /\ Redraw([timeline EXCEPT !.selected = IF @ = e THEN None ELSE e])

TimelineNext ==
    \/ MountTimeline
    \/ /\ timeline # Gone
       /\ \/ RangeArrives \/ EventsArrive \/ EventsLost \/ LanesArrive \/ LeaveTimeline
          \/ \E field \in {1, 2}, year \in TypedYears : TypeYear(field, year)
          \/ \E e \in Drawn(timeline) : ClickEvent(e)

TimelineSpec == TimelineInit /\ [][TimelineNext]_timelineVars

-----------------------------------------------------------------------------
TimelineTypeOK == timeline \in Timeline \cup {Gone}

\* What the reader has typed stays, however late the range of the events arrives or
\* is fetched again.
TypedStays == timeline # Gone /\ timeline.typed # None => Effective(timeline) = timeline.typed

\* The range that the page opens with leaves out no event of the graph it is of, up
\* to the limit of a page: it is made of the years that the events are filtered by.
\* That an event ends before it starts nothing rejects; it may then lie outside of
\* its own range.
OpensOnEverything ==
    timeline # Gone /\ timeline.typed = None /\ timeline.events # None
    /\ timeline.events.of = timeline.opened =>
        LET g == timeline.opened IN
        /\ \A e \in DOMAIN g.events : g.events[e].start <= EventSpan(g.events[e])[2]
        /\ Cardinality(DOMAIN g.events) <= EventLimit
        => timeline.events.shown = DOMAIN g.events

\* What is drawn belongs to the range that the inputs show, whatever answers came
\* in between and of whichever graph they are: an event by its start, a lane by its
\* window (as the overlay job computes it, though the query has its own copy), and
\* none of that graph that belongs there is missing unless its list is full.
DrawnInRange ==
    timeline # Gone =>
        LET range == Effective(timeline)
            Meets(d) == LET w == ActiveWindow(d) IN w # None /\ Overlap(w, range)
            EventsOf(g) == {e \in DOMAIN g.events : Within(g.events[e].start, range)}
            PeopleOf(g) == {n \in DOMAIN g.people : Meets(g.people[n])}
        IN /\ timeline.events # None =>
                 /\ timeline.events.shown \subseteq EventsOf(timeline.events.of)
                 /\ timeline.events.shown # EventsOf(timeline.events.of) =>
                        Cardinality(timeline.events.shown) = EventLimit
           /\ timeline.lanes # None =>
                 /\ timeline.lanes.entries \subseteq PeopleOf(timeline.lanes.of)
                 /\ timeline.lanes.truncated <=> timeline.lanes.entries # PeopleOf(timeline.lanes.of)

\* A narrator whom an event without an end counts has a lane beside it, when both
\* answers are of the same graph and the lanes are not cut: their life lies in the
\* range that shows the event.  Not so one whom only a left-over edge counts, whose
\* dates the overlay would no longer link.
CountedHaveLanes ==
    timeline # Gone /\ timeline.events # None /\ timeline.lanes # None
    /\ timeline.events.of = timeline.lanes.of /\ ~timeline.lanes.truncated =>
        LET g == timeline.events.of IN
        \A e \in timeline.events.shown : g.events[e].end = None =>
            {n \in Counted(g, e) : Linked(g.people[n], g.events[e])} \subseteq timeline.lanes.entries

\* The page's range, its answers and what it draws of them.
TimelineInv ==
    TimelineTypeOK /\ TypedStays /\ OpensOnEverything /\ DrawnInRange /\ CountedHaveLanes
=============================================================================
