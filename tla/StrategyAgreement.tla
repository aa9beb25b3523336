------------------------- MODULE StrategyAgreement -------------------------
(***************************************************************************)
(* The three batch strategies of src/ui/message_queue.hpp on the same      *)
(* batches: any events, in any order, on any snapshot that earlier batches *)
(* can have left.  An application picks one of them at compile time.       *)
(***************************************************************************)
EXTENDS LevelUpdates

CONSTANTS EventPrices, EventQuantities, EventCounts, MaxBatch

ASSUME PricesAreNumbers == EventPrices \subseteq Int

VARIABLES
    display,    \* the snapshot, as FullySequential keeps it
    collected   \* the events of the batch being collected

agreementVars == <<display, collected>>

Events == [side : {"BID", "ASK"}, price : EventPrices,
           quantity : EventQuantities, count : EventCounts]

AgreementInit == display = EmptySnapshot /\ collected = <<>>

Collect ==
    /\ Len(collected) < MaxBatch
    /\ \E e \in Events : collected' = Append(collected, e)
    /\ UNCHANGED display

Show ==
    /\ collected # <<>>
    /\ display' = FullySequential(display, collected)
    /\ collected' = <<>>

AgreementNext == Collect \/ Show

AgreementSpec == AgreementInit /\ [][AgreementNext]_agreementVars

\* Reordering a batch by side, or keeping one event per price, changes no
\* level and no size: the snapshot is the one the events give in sequence.
StrategiesAgree ==
    LET sequential == Sizes(FullySequential(display, collected))
    IN  /\ Sizes(SideSequential(display, collected)) = sequential
        /\ Sizes(MergeEvents(display, collected)) = sequential

\* Every side stays strictly ascending, the precondition of lower_bound: an
\* insertion, a removal or a merged batch never breaks the search of the next.
SidesAscending ==
    \A s \in {"BID", "ASK"} : \A i, j \in DOMAIN display[s] :
        i < j => display[s][i].price < display[s][j].price

=============================================================================
