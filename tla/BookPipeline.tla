---------------------------- MODULE BookPipeline ----------------------------
(***************************************************************************)
(* The order book of the feed thread and the dashboard of the UI thread,   *)
(* joined by ui::MessageQueue as in src/apps/bloomberg.cpp: the feed       *)
(* thread pushes every LevelQuantityEvent from inside the book's call, the *)
(* UI thread drains a bounded batch per frame and applies it.              *)
(***************************************************************************)
EXTENDS OrderBook, LevelUpdates

CONSTANTS
    Strategy,     \* "FullySequential", "SideSequential" or "MergeEvents"
    BatchLimit,   \* events one frame may take (1024 in the code)
    MaxRequests   \* bound: messages in the file the feed thread replays

ASSUME PipelineAssumption ==
    /\ Strategy \in {"FullySequential", "SideSequential", "MergeEvents"}
    /\ BatchLimit \in Nat \ {0}
    /\ MaxRequests \in Nat

VARIABLES
    uiQueue,    \* m_ui_queue: events pushed and not yet taken
    workload,   \* the batch of the current frame
    snapshot,   \* what the dashboard renders
    requests    \* messages the feed thread has replayed

uiVars == <<workload, snapshot>>
pipelineVars == <<orders, listed, queue, total, pc, call, remaining, level,
                  event, result, uiQueue, workload, snapshot, requests>>

PipelineInit ==
    /\ Init
    /\ uiQueue = <<>>
    /\ workload = <<>>
    /\ snapshot = EmptySnapshot
    /\ requests = 0

\* Mutant: try_enqueue into a bounded queue, its answer ignored.
PushIfRoom ==
    uiQueue' = IF /\ event' # event
                  /\ event'.type = "LevelQuantity"
                  /\ Len(uiQueue) < BatchLimit
               THEN Append(uiQueue, event')
               ELSE uiQueue

\* EventHandler::update(LevelQuantityEvent) pushes; it ignores other events.
Push ==
    uiQueue' = IF event' # event /\ event'.type = "LevelQuantity"
               THEN Append(uiQueue, event')
               ELSE uiQueue

\* The feed thread takes the next message, or goes on with the running call.
FeedRequest ==
    /\ requests < MaxRequests
    /\ Request
    /\ requests' = requests + 1
    /\ UNCHANGED <<uiQueue, workload, snapshot>>

FeedStep == Step /\ Push /\ UNCHANGED <<workload, snapshot, requests>>

\* try_dequeue while the batch has room.
Dequeue ==
    /\ Len(workload) < BatchLimit
    /\ uiQueue # <<>>
    /\ workload' = Append(workload, Head(uiQueue))
    /\ uiQueue' = Tail(uiQueue)
    /\ UNCHANGED <<orders, listed, queue, total, pc, call, remaining, level,
                   event, result, snapshot, requests>>

ApplyBatch(snap, events) ==
    CASE Strategy = "FullySequential" -> FullySequential(snap, events)
      [] Strategy = "SideSequential"  -> SideSequential(snap, events)
      [] Strategy = "MergeEvents"     -> MergeEvents(snap, events)

\* The batch is full, or the queue was found empty: the frame is applied.
Frame ==
    /\ Len(workload) = BatchLimit \/ uiQueue = <<>>
    /\ workload # <<>>
    /\ snapshot' = ApplyBatch(snapshot, workload)
    /\ workload' = <<>>
    /\ UNCHANGED <<orders, listed, queue, total, pc, call, remaining, level,
                   event, result, uiQueue, requests>>

\* The file has been replayed and shown.
Finished ==
    /\ requests = MaxRequests
    /\ pc = "idle"
    /\ uiQueue = <<>>
    /\ workload = <<>>
    /\ UNCHANGED pipelineVars

PipelineNext == FeedRequest \/ FeedStep \/ Dequeue \/ Frame \/ Finished

\* Both threads keep running; the file may end at any time.
PipelineSpec ==
    /\ PipelineInit
    /\ [][PipelineNext]_pipelineVars
    /\ WF_pipelineVars(FeedStep)
    /\ WF_pipelineVars(Dequeue)
    /\ WF_pipelineVars(Frame)

-----------------------------------------------------------------------------

\* The dashboard's view of a book: the prices with a total, ascending.
LevelsShown ==
    [s \in Side |->
        LET prices == Ascending({p \in Prices : total[s][p] # 0})
        IN  [k \in DOMAIN prices |-> <<prices[k], total[s][prices[k]]>>]]

\* No event is lost, reordered or applied twice between the two threads:
\* applying what is still under way, one event at a time, to what is on the
\* screen gives the levels of the book, except while matchAgainst has begun
\* on a level that it has not reported yet.
SnapshotPlusPendingIsBook ==
    pc \notin {"fill", "filled"} =>
        Sizes(FullySequential(snapshot, workload \o uiQueue)) = LevelsShown

\* The screen never shows a crossed market, although it changes one level at
\* a time and a frame may end in the middle of a call that moves an order
\* across the spread.
ScreenNeverCrossed ==
    snapshot["BID"] # <<>> /\ snapshot["ASK"] # <<>> =>
        BestBid(snapshot) < BestAsk(snapshot)

\* Once the feed ends or pauses, the screen becomes the book and stays so.
ScreenConverges ==
    <>[](pc = "idle" /\ Sizes(snapshot) = LevelsShown)

=============================================================================
