---------------------------------- MODULE Tui ----------------------------------
(***************************************************************************)
(* TuiMixin: its windows, the keys, and which rows of a list each frame    *)
(* shows.  Entries of the journal and units are numbered from 0, as in the *)
(* code; colours and texts are left out.                                   *)
(***************************************************************************)
EXTENDS Integers, FiniteSets, FiniteSetsExt

CONSTANTS
  units,        \* the number of units loaded
  Height,       \* the heights a terminal may have
  MaxEntries,   \* bound on the journal
  MaxScroll     \* bound on scroll_offset_, which the code does not limit

VARIABLES
  tui_active_, current_tab_, selected_row_, svc_scroll_, scroll_offset_,
  height,       \* lines of stdscr
  windows,      \* header, main and status window: "none", "live" or "deleted"
  curses,       \* the terminal is in curses mode
  misused,      \* a window that was not there has been drawn on or deleted
  entries,      \* the number of entries in the journal
  frame         \* the last frame drawn since the last key, or NoFrame

tui == <<tui_active_, current_tab_, selected_row_, svc_scroll_, scroll_offset_,
         height, windows, curses, misused, entries, frame>>

NoFrame == [tab |-> "none", rows |-> {}, room |-> 0]

Larger(a, b)  == IF a > b THEN a ELSE b
Smaller(a, b) == IF a < b THEN a ELSE b

TuiInit(logged, lines) ==
  /\ tui_active_ = FALSE /\ current_tab_ = "Overview"
  /\ selected_row_ = 0 /\ svc_scroll_ = 0 /\ scroll_offset_ = 0
  /\ height \in lines
  /\ windows = "none" /\ curses = FALSE /\ misused = FALSE
  /\ entries \in logged
  /\ frame = NoFrame

\* JournalMixin::log of something at or above min_level_.
Log ==
  /\ entries < MaxEntries
  /\ entries' = entries + 1
  /\ UNCHANGED <<tui_active_, current_tab_, selected_row_, svc_scroll_,
                 scroll_offset_, height, windows, curses, misused, frame>>

init_tui ==
  /\ curses' = TRUE /\ tui_active_' = TRUE
  /\ windows' = "live"
  /\ UNCHANGED <<current_tab_, selected_row_, svc_scroll_, scroll_offset_,
                 height, misused, entries, frame>>

-------------------------------------------------------------------------------
(* render; h is the height of the main window                              *)

h == height - 6

\* The rows of a loop over first .. last - 1 that draws from line y while the
\* line is below bottom.
Drawn(first, last, y, bottom) ==
  { row \in first .. (last - 1) : y + (row - first) < bottom }

\* The list of recent entries starts below the ten lines above it.
RecentLog ==
  LET y == 10 IN Drawn(Larger(0, entries - (h - y - 1)), entries, y, h - 1)

visible_rows == h - 3

\* The list follows the selection.
\* (mutant: one row too late)
FollowSelectionLate(scroll) ==
  IF selected_row_ > scroll + visible_rows THEN selected_row_ - visible_rows + 1
  ELSE scroll
FollowSelection(scroll) ==
  IF selected_row_ >= scroll + visible_rows THEN selected_row_ - visible_rows + 1
  ELSE scroll

ScrollServices == FollowSelection(Smaller(svc_scroll_, selected_row_))

ServiceRows(scroll) == Drawn(Larger(0, scroll), units, 2, h - 1)

\* The page of the journal ends scroll_offset_ entries before the newest.
\* (mutant: the offset is subtracted from both ends)
JournalEndOffset(start, visible) == Smaller(entries - scroll_offset_, start + visible)
JournalEnd(start, visible) == Smaller(entries, start + visible)

JournalRows ==
  LET visible == h - 2
      start   == Larger(0, entries - visible - scroll_offset_)
  IN start .. (JournalEnd(start, visible) - 1)

render ==
  /\ tui_active_
  /\ svc_scroll_' = IF current_tab_ = "Services" THEN ScrollServices ELSE svc_scroll_
  /\ frame' =
       CASE current_tab_ = "Overview" ->
              [tab |-> "Overview", rows |-> RecentLog, room |-> h - 11]
         [] current_tab_ = "Services" ->
              [tab |-> "Services", rows |-> ServiceRows(ScrollServices), room |-> h - 3]
         [] current_tab_ = "Journal" ->
              [tab |-> "Journal", rows |-> JournalRows, room |-> h - 2]
  /\ misused' = (misused \/ windows # "live")
  /\ UNCHANGED <<tui_active_, current_tab_, selected_row_, scroll_offset_,
                 height, windows, curses, entries>>

-------------------------------------------------------------------------------
(* handle_input                                                            *)

Tabs == [key \in {"1", "2", "3"} |->
           CASE key = "1" -> "Overview" [] key = "2" -> "Services" [] OTHER -> "Journal"]

SelectTab(key) ==
  /\ current_tab_' = Tabs[key]
  /\ UNCHANGED <<tui_active_, selected_row_, svc_scroll_, scroll_offset_, height,
                 windows, curses, misused, entries>>

\* j and k, or the arrows: on the overview, too, they move the selection.
MoveDown ==
  /\ \/ /\ current_tab_ = "Journal"
        /\ scroll_offset_' = Larger(0, scroll_offset_ - 1)
        /\ UNCHANGED selected_row_
     \/ /\ current_tab_ # "Journal"
        /\ selected_row_' = Smaller(selected_row_ + 1, Larger(0, units - 1))
        /\ UNCHANGED scroll_offset_
  /\ UNCHANGED <<tui_active_, current_tab_, svc_scroll_, height, windows, curses,
                 misused, entries>>

MoveUp ==
  /\ \/ /\ current_tab_ = "Journal"
        /\ scroll_offset_ < MaxScroll
        /\ scroll_offset_' = scroll_offset_ + 1
        /\ UNCHANGED selected_row_
     \/ /\ current_tab_ # "Journal"
        /\ selected_row_' = Larger(0, selected_row_ - 1)
        /\ UNCHANGED scroll_offset_
  /\ UNCHANGED <<tui_active_, current_tab_, svc_scroll_, height, windows, curses,
                 misused, entries>>

\* KEY_RESIZE, which ncurses delivers once its handler of SIGWINCH has run.
Resize(lines) ==
  /\ height' = lines
  /\ misused' = (misused \/ windows # "live")
  /\ windows' = "live"   \* deleted and created
  /\ UNCHANGED <<tui_active_, current_tab_, selected_row_, svc_scroll_,
                 scroll_offset_, curses, entries>>

\* No key, or one that means nothing; 's', 'x' and 'r' are such keys.
OtherKey ==
  UNCHANGED <<tui_active_, current_tab_, selected_row_, svc_scroll_,
              scroll_offset_, height, windows, curses, misused, entries>>

\* handle_input returns true.
handle_input(resizes) ==
  /\ frame' = NoFrame
  /\ \/ \E key \in {"1", "2", "3"} : SelectTab(key)
     \/ MoveDown \/ MoveUp \/ OtherKey
     \/ resizes /\ \E lines \in Height : Resize(lines)

\* What shutdown_tui does to tui_active_.
\* (mutant: left as it is)
ActiveAfterShutdownKept == tui_active_
ActiveAfterShutdown == FALSE

shutdown_tui ==
  /\ IF tui_active_
     THEN /\ misused' = (misused \/ windows # "live")
          /\ windows' = "deleted" /\ curses' = FALSE
          /\ tui_active_' = ActiveAfterShutdown
     ELSE UNCHANGED <<misused, windows, curses, tui_active_>>
  /\ frame' = NoFrame
  /\ UNCHANGED <<current_tab_, selected_row_, svc_scroll_, scroll_offset_,
                 height, entries>>
===============================================================================
