--------------------------- MODULE GeminiPipeline ---------------------------
(***************************************************************************)
(* src/apps/gemini_gui.cpp: the websocket thread hands each change of a    *)
(* Gemini message to the L2 adapter, whose book pushes its level events to *)
(* the queue of the UI thread, which shows them with GeminiLevelUpdate.    *)
(* The adapter's default aggregator, EmptySignals, pushes nothing: then    *)
(* there is no screen, and the changes are not bounded.                    *)
(* Quantities are raw FixedPoint<4> values, as parse leaves them.          *)
(***************************************************************************)
EXTENDS BookPipeline, L2Adapter

VARIABLE aggregator  \* the adapter's SignalAggregator

geminiVars == <<pipelineVars, success, feed, sane, aggregator>>

GeminiInit ==
    /\ PipelineInit
    /\ AdapterInit
    /\ aggregator \in {"EventHandler", "EmptySignals"}

\* on_ws_message and update_book, up to the first callback of the book.
OnChange ==
    /\ aggregator = "EventHandler" => requests < MaxRequests
    /\ SetPriceLevel
    /\ requests' = IF aggregator = "EventHandler" THEN requests + 1 ELSE requests
    /\ UNCHANGED <<uiQueue, workload, snapshot, aggregator>>

\* The book goes on, and tells its aggregator.
BookStep ==
    /\ Serve
    /\ IF aggregator = "EventHandler" THEN Push ELSE UNCHANGED uiQueue
    /\ UNCHANGED <<workload, snapshot, requests, aggregator>>

\* process_update_queue on the UI thread.
UIStep ==
    /\ Dequeue \/ Frame
    /\ UNCHANGED <<success, feed, sane, aggregator>>

AllShown ==
    /\ Finished
    /\ UNCHANGED <<success, feed, sane, aggregator>>

GeminiNext == OnChange \/ BookStep \/ UIStep \/ AllShown

GeminiSpec == GeminiInit /\ [][GeminiNext]_geminiVars

-----------------------------------------------------------------------------

\* With everything that is under way applied, the screen has on each side
\* the levels that the exchange reported, in ascending order, with a size
\* within one of its units of the exchange's and never zero: no level is lost
\* between the message and the screen or stays there when the exchange has
\* removed it, whatever the UI thread had taken when.
ScreenIsTheExchange ==
    aggregator = "EventHandler" /\ sane /\ pc = "idle" =>
        LET shown == FullySequential(snapshot, workload \o uiQueue)
            prices(s) == Ascending({p \in Prices : feed[s][p] > 0})
        IN  \A s \in Side :
                /\ Len(shown[s]) = Len(prices(s))
                /\ \A i \in DOMAIN shown[s] :
                    LET l == shown[s][i]
                        q == feed[s][l.price]
                    IN  /\ l.price = prices(s)[i]
                        /\ l.size > 0
                        /\ 10 * q - 1 <= l.size /\ l.size <= 10 * q
                        /\ l.count = 1

=============================================================================
