------------------------------ MODULE FeedCells ------------------------------
(***************************************************************************)
(* The cells of the feed: UICollectionView hands the same FeedCell objects *)
(* out again and again, and each time FeedController binds the cell's user *)
(* name button to viewModel.didTapProfileButton.                           *)
(***************************************************************************)
EXTENDS Naturals, Sequences

CONSTANTS Cells,    \* FeedCell objects
          Items,    \* indexPath.item of the feeds
          None      \* nil

ASSUME NoneAssumption == None \notin Items

VARIABLES
  place,            \* "new": not made; "pool": in the reuse queue;
                    \* "bound": handed out; "shown": on the screen
  item,             \* collectionView.indexPath(for: cell)
  subscriptions,    \* the tap subscriptions that the cell's disposeBag holds
  events            \* what the last tap sent to didTapProfileButton

cellVars == <<place, item, subscriptions, events>>

CellsInit ==
  /\ place = [cell \in Cells |-> "new"]
  /\ item = [cell \in Cells |-> None]
  /\ subscriptions = [cell \in Cells |-> 0]
  /\ events = <<>>

\* Mutant: prepareForReuse keeps the old disposeBag.
prepareForReuseKeepsBag(n) == n

\* prepareForReuse: a new disposeBag disposes of what the old one held.
prepareForReuse(n) == 0

\* dequeueReusableCell makes a cell or takes one from the queue, and then
\* cellForItemAt binds it.
cellForItemAt(cell, i) ==
  /\ place[cell] \in {"new", "pool"}
  /\ \A other \in Cells : item[other] # i
  /\ place' = [place EXCEPT ![cell] = "bound"]
  /\ item' = [item EXCEPT ![cell] = i]
  /\ LET kept == IF place[cell] = "pool" THEN prepareForReuse(subscriptions[cell])
                                         ELSE subscriptions[cell]
     IN  subscriptions' = [subscriptions EXCEPT ![cell] = kept + 1]
  /\ UNCHANGED events

\* The collection view puts the cell on the screen ...
Display(cell) ==
  /\ place[cell] = "bound"
  /\ place' = [place EXCEPT ![cell] = "shown"]
  /\ UNCHANGED <<item, subscriptions, events>>

\* ... and takes it back, shown or only prefetched, its bag still full.
Reclaim(cell) ==
  /\ place[cell] \in {"bound", "shown"}
  /\ place' = [place EXCEPT ![cell] = "pool"]
  /\ item' = [item EXCEPT ![cell] = None]
  /\ UNCHANGED <<subscriptions, events>>

\* userNameButton.rx.tap: every subscription maps the tap to the index path
\* that the cell has now.
TapUserName(cell) ==
  /\ place[cell] = "shown"
  /\ events' = [n \in 1 .. subscriptions[cell] |-> item[cell]]
  /\ UNCHANGED <<place, item, subscriptions>>

CellsNext ==
  \E cell \in Cells :
    \/ \E i \in Items : cellForItemAt(cell, i)
    \/ Display(cell) \/ Reclaim(cell) \/ TapUserName(cell)

CellsSpec == CellsInit /\ [][CellsNext]_cellVars
-----------------------------------------------------------------------------
(***************************************************************************)
(* A tap on a user name sends one event, for the feed under the finger,    *)
(* however often the cell has been reused, prefetched or reclaimed before. *)
(***************************************************************************)
OneTapOneEvent ==
  [][events' # events =>
       \E cell \in Cells : place[cell] = "shown" /\ events' = <<item[cell]>>]_cellVars
=============================================================================
