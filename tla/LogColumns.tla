----------------------------- MODULE LogColumns -----------------------------
(***************************************************************************)
(* The columns of the log: which are shown and how wide they were dragged  *)
(* (frontend/src/pages/LogPage.tsx, hooks/useColumnWidths.ts, and the      *)
(* handles of components/QueryTable.tsx).  Both are kept in the browser's  *)
(* storage.  React draws a new width some time after it was set.  A handle  *)
(* is pressed and pulled by one pointer, which lets go before it presses    *)
(* again, and leaving the page ends the pull.                               *)
(*                                                                         *)
(* A width is counted in steps of an arrow key; 0 is none, the column has  *)
(* the width the layout gives it.                                          *)
(***************************************************************************)
EXTENDS Integers, FiniteSets

CONSTANTS
  ALL_COLUMNS, DEFAULT_COLUMNS,
  MinWidth, LayoutWidth,  \* of a column that may be dragged, of one that was not
  MaxWidth,               \* bound on widths
  StorageWorks            \* FALSE in a private window: reading and writing throw

ASSUME ColumnsAssumption ==
  DEFAULT_COLUMNS \subseteq ALL_COLUMNS /\ MinWidth \in Nat \ {0} /\ LayoutWidth \in Nat

VARIABLES
  columns, widths,
  drawn,          \* the widths on screen
  pending,        \* [column -> the width its handle asked for last, 0 if none]
  grips,          \* the handle being pulled: its column, and whether it is still shown
  storedColumns, storedWidths, \* the storage; {} and all 0 also when nothing is there
  behind          \* history: columns whose handle missed their last width

storage == <<storedColumns, storedWidths>>
columnVars == <<columns, widths, drawn, pending, grips, storage, behind>>

None0 == [c \in ALL_COLUMNS |-> 0]
Wider(a, b) == IF a > b THEN a ELSE b
measure(c) == IF drawn[c] = 0 THEN LayoutWidth ELSE drawn[c]

-----------------------------------------------------------------------------
(* An empty or unreadable list means the defaults.                          *)
loadedColumns == IF storedColumns = {} THEN DEFAULT_COLUMNS ELSE storedColumns
loadedWidths == storedWidths

persistColumns(next) ==
  /\ columns' = next
  /\ storedColumns' = IF StorageWorks THEN next ELSE storedColumns

persist(next) ==
  /\ widths' = next
  /\ storedWidths' = IF StorageWorks THEN next ELSE storedWidths

(* The page is opened: both effects read the storage and the table is drawn *)
MountColumns ==
  /\ columns' = loadedColumns /\ widths' = loadedWidths
  /\ drawn' = loadedWidths /\ pending' = None0 /\ grips' = {} /\ behind' = {}
  /\ UNCHANGED storage

(* The listeners of a pull are the window's: they outlive their handle.     *)
GripsWithout(handles) == {[g EXCEPT !.shown = @ /\ g.column \notin handles] : g \in grips}

(* A handle comes and goes with its column, drawn as wide as it is.         *)
toggleColumn(c) ==
  /\ persistColumns(IF c \in columns THEN columns \ {c} ELSE columns \cup {c})
  /\ pending' = [pending EXCEPT ![c] = 0] /\ drawn' = widths
  /\ grips' = GripsWithout({c}) /\ behind' = behind \ {c}
  /\ UNCHANGED <<widths, storedWidths>>

(* "Reset columns": the handles that stay shown are not told.               *)
resetColumns ==
  /\ persistColumns(DEFAULT_COLUMNS)
  /\ persist(None0)
  /\ pending' = [c \in ALL_COLUMNS |-> IF c \in columns \cap DEFAULT_COLUMNS THEN pending[c] ELSE 0]
  /\ grips' = GripsWithout(ALL_COLUMNS \ (columns \cap DEFAULT_COLUMNS)) /\ behind' = {}
  /\ UNCHANGED drawn

apply(c, width) ==
  LET value == Wider(MinWidth, width) IN
  /\ pending' = [pending EXCEPT ![c] = value]
  /\ persist([widths EXCEPT ![c] = value])
  /\ behind' = behind \ {c}
  /\ UNCHANGED <<columns, drawn, grips, storedColumns>>

(* A handle is pressed: what it goes on from is the width on screen, be that*)
(* the last one or not.                                                     *)
begin(c) ==
  /\ grips = {}
  /\ grips' = {[column |-> c, shown |-> TRUE]}
  /\ pending' = [pending EXCEPT ![c] = measure(c)]
  /\ behind' = IF drawn[c] = widths[c] THEN behind \ {c} ELSE behind \cup {c}
  /\ UNCHANGED <<columns, widths, drawn, storage>>

(* The pointer moves, by as much as it likes: any width.  A handle that is  *)
(* gone still gives its column the width, and the new handle is not told.   *)
move(g) ==
  \E width \in 1 .. MaxWidth :
    \/ g.shown /\ apply(g.column, width)
    \/ /\ ~g.shown
       /\ persist([widths EXCEPT ![g.column] = Wider(MinWidth, width)])
       /\ behind' = behind \cup {g.column}
       /\ UNCHANGED <<columns, drawn, pending, grips, storedColumns>>

end ==
  /\ grips # {} /\ grips' = {}
  /\ UNCHANGED <<columns, widths, drawn, pending, storage, behind>>

\* As if an arrow key started from the cell on screen.
fromMeasured(c) == measure(c)

from(c) == IF pending[c] # 0 THEN pending[c] ELSE measure(c)

onKeyDown(c, step) == from(c) + step <= MaxWidth /\ apply(c, from(c) + step)

\* As if a column put back to its default width were only forgotten on screen.
clearWidthShown(c) ==
  /\ widths' = [widths EXCEPT ![c] = 0]
  /\ UNCHANGED storedWidths

clearWidth(c) == persist([widths EXCEPT ![c] = 0])

(* Double click, Enter or Backspace on a handle                             *)
reset(c) ==
  /\ pending' = [pending EXCEPT ![c] = 0]
  /\ clearWidth(c) /\ behind' = behind \ {c}
  /\ UNCHANGED <<columns, drawn, grips, storedColumns>>

(* A handle that has not asked for a width reads the one that is drawn.     *)
Draw ==
  /\ drawn # widths
  /\ drawn' = widths /\ behind' = {c \in behind : pending[c] # 0}
  /\ UNCHANGED <<columns, widths, pending, grips, storage>>

ColumnsInit ==
  /\ storedColumns = {} /\ storedWidths = None0
  /\ columns = DEFAULT_COLUMNS /\ widths = None0 /\ drawn = None0 /\ pending = None0
  /\ grips = {} /\ behind = {}

ColumnsNext ==
  \/ MountColumns \/ Draw \/ resetColumns
  \/ \E c \in ALL_COLUMNS : toggleColumn(c)
  \/ end \/ \E g \in grips : move(g)
  \/ \E c \in columns : \/ begin(c) \/ reset(c)
                        \/ \E step \in {-1, 1} : onKeyDown(c, step)

-----------------------------------------------------------------------------
(* What the user arranged is what the next visit shows, whenever the page   *)
(* is left, as long as the storage works and a column is shown              *)
(* (useColumnWidths.ts, LogPage.tsx persistColumns).                        *)
ArrangementSurvives ==
  StorageWorks =>
    /\ loadedWidths = widths
    /\ columns # {} => loadedColumns = columns

(* An arrow key that is held down moves the column on with every step,      *)
(* whenever the table is drawn and whatever is pulled, shown or reset       *)
(* meanwhile (QueryTable.tsx, ResizeHandle's pending) -- unless its handle  *)
(* was pressed before the column's last width was drawn, or a handle that   *)
(* is gone pulled the column, and nothing has told the handle since: then   *)
(* the first step starts from an older width.                               *)
HeldKeyMovesOn ==
  [][\A c \in columns \ behind, step \in {-1, 1} :
       widths[c] # 0 /\ onKeyDown(c, step) => widths'[c] = Wider(MinWidth, widths[c] + step)]_columnVars
=============================================================================
