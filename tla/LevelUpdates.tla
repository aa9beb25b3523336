---------------------------- MODULE LevelUpdates ----------------------------
(***************************************************************************)
(* How the dashboard turns a batch of level events into its snapshot:      *)
(* update_level and the three strategies of src/ui/message_queue.hpp.      *)
(* An event is [side, price, quantity, count]; a side of the snapshot is   *)
(* the vector of its levels [price, size, count], as the code keeps it.    *)
(***************************************************************************)
EXTENDS Integers, Sequences, SequencesExt

CONSTANTS
    LevelUpdate,  \* the strategies' template argument: "Default" or "Gemini"
    RoundsDown    \* raw Gemini quantities that lose a unit as a double

ASSUME LevelUpdateAssumption == LevelUpdate \in {"Default", "Gemini"}

EmptySnapshot == [BID |-> <<>>, ASK |-> <<>>]

\* Mutant: std::upper_bound.
UpperBound(levels, p) ==
    1 + Cardinality({i \in DOMAIN levels : levels[i].price <= p})

\* std::lower_bound on the prices of a vector: the first not below p.
LowerBound(levels, p) ==
    1 + Cardinality({i \in DOMAIN levels : levels[i].price < p})

\* A Gemini quantity, a FixedPoint<4>, is shown in units of 10^-5, cut off
\* after a product of doubles: 0.0003 * 100000.0 comes out below 30.
SizeShown(q) ==
    IF LevelUpdate = "Default" THEN q
    ELSE IF q \in RoundsDown THEN 10 * q - 1
    ELSE 10 * q

CountShown(evt) == IF LevelUpdate = "Default" THEN evt.count ELSE 1

\* Mutant: a level that is there already keeps its size.
UpdateLevelOnce(levels, evt) ==
    LET it == LowerBound(levels, evt.price)
        newLevel == it > Len(levels) \/ levels[it].price # evt.price
    IN  IF newLevel
        THEN IF evt.quantity = 0 THEN levels
             ELSE InsertAt(levels, it, [price |-> evt.price,
                                        size |-> SizeShown(evt.quantity),
                                        count |-> CountShown(evt)])
        ELSE IF evt.quantity = 0 THEN RemoveAt(levels, it) ELSE levels

\* update_level of DefaultLevelUpdate and GeminiLevelUpdate.  The order count
\* of a level is set when the level appears and never again.
UpdateLevel(levels, evt) ==
    LET it == LowerBound(levels, evt.price)
        newLevel == it > Len(levels) \/ levels[it].price # evt.price
    IN  IF newLevel
        THEN IF evt.quantity = 0 THEN levels
             ELSE InsertAt(levels, it, [price |-> evt.price,
                                        size |-> SizeShown(evt.quantity),
                                        count |-> CountShown(evt)])
        ELSE IF evt.quantity = 0 THEN RemoveAt(levels, it)
             ELSE [levels EXCEPT ![it].size = SizeShown(evt.quantity)]

ApplyAll(levels, events) == FoldLeft(UpdateLevel, levels, events)

\* A finite set of numbers in ascending order.
Ascending(S) ==
    CHOOSE q \in [1 .. Cardinality(S) -> S] :
        \A i, j \in DOMAIN q : i < j => q[i] < q[j]

\* The events of one side, in their order (std::stable_partition).
OfSide(events, s) ==
    LET places == Ascending({i \in DOMAIN events : events[i].side = s})
    IN  [k \in DOMAIN places |-> events[places[k]]]

\* FullySequential: event after event, each on its side.
ApplyEvent(snapshot, e) == [snapshot EXCEPT ![e.side] = UpdateLevel(@, e)]
FullySequential(snapshot, events) == FoldLeft(ApplyEvent, snapshot, events)

\* SideSequential: all of the asks, then all of the bids.
SideSequential(snapshot, events) ==
    [s \in {"BID", "ASK"} |-> ApplyAll(snapshot[s], OfSide(events, s))]

\* Mutant: keep the first event of each price.
FirstPerPrice(events) ==
    LET prices == {events[i].price : i \in DOMAIN events}
        first(p) == SelectInSeq(events, LAMBDA e : e.price = p)
        sorted == Ascending(prices)
    IN  [k \in DOMAIN sorted |-> events[first(sorted[k])]]

\* MergeEvents::process_side: sort by price, keep the last event of each.
LastPerPrice(events) ==
    LET prices == {events[i].price : i \in DOMAIN events}
        last(p) == SelectLastInSeq(events, LAMBDA e : e.price = p)
        sorted == Ascending(prices)
    IN  [k \in DOMAIN sorted |-> events[last(sorted[k])]]

MergeEvents(snapshot, events) ==
    [s \in {"BID", "ASK"} |->
        ApplyAll(snapshot[s], LastPerPrice(OfSide(events, s)))]

-----------------------------------------------------------------------------
(* Reading a snapshot.                                                     *)

\* A snapshot without its order counts.
Sizes(snapshot) ==
    [s \in {"BID", "ASK"} |->
        [i \in DOMAIN snapshot[s] |->
            <<snapshot[s][i].price, snapshot[s][i].size>>]]

\* dashboard.cpp: BestBid reads the back of the bids, BestAsk the front of
\* the asks.
BestBid(snapshot) == snapshot["BID"][Len(snapshot["BID"])].price
BestAsk(snapshot) == snapshot["ASK"][1].price

=============================================================================
