----------------------------- MODULE ProgramProofs -----------------------------
(***************************************************************************)
(* Proofs about Program: the screen, the way out and the files of sockets, *)
(* for every number of units, every size of the terminal and every set of  *)
(* socket units; and the mounts, for every table that the system may start *)
(* with and every sequence of mount units, those that bind or move mounts  *)
(* included.                                                               *)
(*                                                                         *)
(* What a path leads to is the result of two recursions over the table.    *)
(* In a table that was built by mounts, it is the newest mount on the way  *)
(* (LookupIsNewest); everything about mounts rests on that.                *)
(***************************************************************************)
EXTENDS Program, SequenceLemmas, FiniteSetTheorems

-------------------------------------------------------------------------------
(* The terminal                                                            *)

\* The windows are there exactly while the TUI is active, and only the loop
\* draws on them.
TerminalInv ==
  /\ mode \in Modes
  /\ tui_active_ \in BOOLEAN /\ curses = tui_active_ /\ misused = FALSE
  /\ tui_active_ = (windows = "live")
  /\ tui_active_ => mode # "init"
  /\ pc \in {"render", "input"} => tui_active_
  /\ pc = "gone" => ~tui_active_ /\ open_fds = {}

\* Selection and scroll positions stay where they make sense.
CursorInv ==
  /\ selected_row_ \in Nat /\ (units > 0 => selected_row_ < units)
  /\ svc_scroll_ \in Nat /\ scroll_offset_ \in Nat
  /\ entries \in Nat /\ height \in Nat
  /\ current_tab_ \in {"Overview", "Services", "Journal"}

\* A frame lasts until a key is read or the TUI is left, and is right until
\* then.
FrameInv ==
  \/ frame = Tui!NoFrame
  \/ pc \in {"input", "stop"} /\ SelectionVisible /\ NewestEntriesShown

ScreenInv == TerminalInv /\ CursorInv /\ FrameInv

\* Nothing is claimed of no frame.
LEMMA NoFrameIsRight ==
  ASSUME frame = Tui!NoFrame
  PROVE  SelectionVisible /\ NewestEntriesShown
BY DEF Tui!NoFrame, SelectionVisible, NewestEntriesShown

\* The list follows the selection, however it has been scrolled before.
LEMMA SelectionDrawn ==
  ASSUME CursorInv, Tui!h - 3 > 0, units > 0
  PROVE  selected_row_ \in Tui!ServiceRows(Tui!ScrollServices)
<1> USE ProgramAssumption DEF CursorInv
<1> DEFINE room == Tui!h - 3
           scroll == Tui!ScrollServices
<1>1. room \in Int
  BY DEF Tui!h
<1>2. /\ scroll \in Nat /\ scroll <= selected_row_
      /\ selected_row_ - scroll < room
  BY <1>1 DEF Tui!ScrollServices, Tui!FollowSelection, Tui!Smaller, Tui!visible_rows
<1>3. Tui!Larger(0, scroll) = scroll
  BY <1>2 DEF Tui!Larger
<1>4. Tui!h \in Int
  BY DEF Tui!h
<1> HIDE DEF scroll
<1>5. selected_row_ \in scroll .. (units - 1)
  BY <1>2
<1>6. 2 + (selected_row_ - scroll) < Tui!h - 1
  BY <1>2, <1>4
<1> QED
  BY <1>3, <1>5, <1>6 DEF Tui!ServiceRows, Tui!Drawn, scroll

\* A scroll position is never negative.
LEMMA ScrollIsNat ==
  ASSUME CursorInv
  PROVE  Tui!ScrollServices \in Nat
<1>1. Tui!visible_rows \in Int
  BY DEF CursorInv, Tui!visible_rows, Tui!h
<1> QED
  BY <1>1 DEF CursorInv, Tui!ScrollServices, Tui!FollowSelection, Tui!Smaller

\* The overview has the newest entries that fit.
LEMMA RecentDrawn ==
  ASSUME CursorInv, NEW room, room = Tui!h - 11, room > 0
  PROVE  Tui!RecentLog =
           (entries - Tui!Smaller(entries, room)) .. (entries - 1)
<1>1. room \in Nat /\ entries \in Nat /\ Tui!h = room + 11
  BY DEF CursorInv, Tui!h
<1> DEFINE first == Tui!Larger(0, entries - (Tui!h - 10 - 1))
<1>2. first = entries - Tui!Smaller(entries, room) /\ first \in Nat
  BY <1>1 DEF Tui!Larger, Tui!Smaller
<1>3. Tui!RecentLog = { row \in first .. (entries - 1) : 10 + (row - first) < Tui!h - 1 }
  BY DEF Tui!RecentLog, Tui!Drawn
<1>4. entries - first <= room
  BY <1>1, <1>2 DEF Tui!Smaller
<1> HIDE DEF first
<1>5. \A row \in first .. (entries - 1) : 10 + (row - first) < Tui!h - 1
  BY <1>1, <1>2, <1>4
<1>6. Tui!RecentLog = first .. (entries - 1)
  BY <1>3, <1>5
<1> QED
  BY <1>2, <1>6

\* The page of the journal is as far back as it is scrolled, or begins with
\* the oldest entry.
LEMMA PageDrawn ==
  ASSUME CursorInv, NEW room, room = Tui!h - 2, room > 0
  PROVE  LET newest == (entries - Tui!Smaller(entries, room)) .. (entries - 1)
         IN \E back \in 0..scroll_offset_ :
              /\ Tui!JournalRows = { row - back : row \in newest }
              /\ back < scroll_offset_ => 0 \in Tui!JournalRows \/ entries = 0
<1>1. room \in Nat /\ entries \in Nat /\ scroll_offset_ \in Nat
  BY DEF CursorInv, Tui!h
<1> DEFINE fit == Tui!Smaller(entries, room)
           start == Tui!Larger(0, entries - room - scroll_offset_)
           back == entries - fit - start
<1>2. /\ fit \in Nat /\ start \in Nat /\ back \in 0..scroll_offset_
      /\ back < scroll_offset_ => start = 0
      /\ entries > 0 => fit > 0
  BY <1>1 DEF Tui!Smaller, Tui!Larger
<1>3. Tui!Smaller(entries, start + room) = start + fit
  BY <1>1 DEF Tui!Smaller, Tui!Larger
<1>4. Tui!JournalRows = start .. (start + fit - 1)
  <2>1. Tui!JournalRows = start .. (Tui!Smaller(entries, start + room) - 1)
    BY DEF Tui!JournalRows, Tui!JournalEnd
  <2> HIDE DEF fit, start
  <2> QED
    BY <1>2, <1>3, <2>1
<1> HIDE DEF fit, start
<1>5. ASSUME NEW x
      PROVE  x \in start .. (start + fit - 1) <=>
               x \in { row - back : row \in (entries - fit) .. (entries - 1) }
  <2>1. ASSUME x \in start .. (start + fit - 1)
        PROVE  x + back \in (entries - fit) .. (entries - 1) /\ x = (x + back) - back
    BY <2>1, <1>1, <1>2
  <2>2. ASSUME NEW row \in (entries - fit) .. (entries - 1), x = row - back
        PROVE  x \in start .. (start + fit - 1)
    BY <2>2, <1>1, <1>2
  <2> QED
    BY <2>1, <2>2
<1>6. Tui!JournalRows = { row - back : row \in (entries - fit) .. (entries - 1) }
  BY <1>4, <1>5
<1>7. back < scroll_offset_ => 0 \in Tui!JournalRows \/ entries = 0
  BY <1>1, <1>2, <1>4
<1> HIDE DEF back
<1> QED
  BY <1>2, <1>6, <1>7 DEF fit

\* What is drawn is right.
LEMMA RenderedFrame ==
  ASSUME ScreenInv, Tui!render, pc' = "input"
  PROVE  FrameInv'
<1>1. /\ UNCHANGED <<selected_row_, entries, scroll_offset_>>
      /\ CursorInv
  BY DEF Tui!render, ScreenInv
<1>2. CASE current_tab_ = "Overview"
  <2>1. frame' = [tab |-> "Overview", rows |-> Tui!RecentLog, room |-> Tui!h - 11]
    BY <1>2 DEF Tui!render
  <2>2. frame'.tab = "Overview" /\ frame'.rows = Tui!RecentLog /\ frame'.room = Tui!h - 11
    BY <2>1
  <2>3. frame'.room > 0 =>
          frame'.rows = (entries - Tui!Smaller(entries, frame'.room)) .. (entries - 1)
    BY <2>2, <1>1, RecentDrawn
  <2>4. SelectionVisible'
    BY <2>2 DEF SelectionVisible
  <2>5. NewestEntriesShown'
    BY <2>2, <2>3, <1>1 DEF NewestEntriesShown, Tui!Smaller
  <2> QED
    BY <2>4, <2>5 DEF FrameInv
<1>3. CASE current_tab_ = "Services"
  <2>1. frame' = [tab |-> "Services", rows |-> Tui!ServiceRows(Tui!ScrollServices),
                  room |-> Tui!h - 3]
    BY <1>3 DEF Tui!render
  <2>2. /\ frame'.tab = "Services" /\ frame'.room = Tui!h - 3
        /\ frame'.rows = Tui!ServiceRows(Tui!ScrollServices)
    BY <2>1
  <2>3. frame'.room > 0 /\ units > 0 => selected_row_ \in frame'.rows
    BY <2>2, <1>1, SelectionDrawn
  <2>4. SelectionVisible'
    BY <2>3, <1>1 DEF SelectionVisible
  <2>5. NewestEntriesShown'
    BY <2>2 DEF NewestEntriesShown
  <2> QED
    BY <2>4, <2>5 DEF FrameInv
<1>4. CASE current_tab_ = "Journal"
  <2>1. frame' = [tab |-> "Journal", rows |-> Tui!JournalRows, room |-> Tui!h - 2]
    BY <1>4 DEF Tui!render
  <2>2. frame'.tab = "Journal" /\ frame'.rows = Tui!JournalRows /\ frame'.room = Tui!h - 2
    BY <2>1
  <2> DEFINE newest(room) == (entries - Tui!Smaller(entries, room)) .. (entries - 1)
  <2>3. frame'.room > 0 =>
          \E back \in 0..scroll_offset_ :
            /\ frame'.rows = { row - back : row \in newest(frame'.room) }
            /\ back < scroll_offset_ => 0 \in frame'.rows \/ entries = 0
    BY <2>2, <1>1, PageDrawn
  <2>4. SelectionVisible'
    BY <2>2 DEF SelectionVisible
  <2>5. NewestEntriesShown'
    BY <2>2, <2>3, <1>1 DEF NewestEntriesShown, Tui!Smaller
  <2> QED
    BY <2>4, <2>5 DEF FrameInv
<1> QED
  BY <1>1, <1>2, <1>3, <1>4 DEF CursorInv

\* The steps that leave the screen alone.
LEMMA QuietScreen ==
  ASSUME ScreenInv, UNCHANGED <<tui, mode>>,
         pc' \in {"render", "input"} => tui_active_,
         pc' # "gone" \/ (pc = "gone" /\ UNCHANGED open_fds),
         pc \in {"input", "stop"} => pc' \in {"input", "stop"}
  PROVE  ScreenInv'
<1>1. /\ UNCHANGED <<tui_active_, current_tab_, selected_row_, svc_scroll_>>
      /\ UNCHANGED <<scroll_offset_, height, windows, curses, misused, entries, frame>>
      /\ mode' = mode
  BY DEF tui
<1>2. TerminalInv'
  BY <1>1 DEF ScreenInv, TerminalInv
<1>3. CursorInv'
  BY <1>1 DEF ScreenInv, CursorInv
<1>4. FrameInv'
  BY <1>1 DEF ScreenInv, FrameInv, Tui!NoFrame, SelectionVisible, NewestEntriesShown,
              Tui!Smaller
<1> QED
  BY <1>2, <1>3, <1>4 DEF ScreenInv

\* Leaving the TUI, for the first time or once more.
LEMMA LeaveTui ==
  ASSUME ScreenInv, Tui!shutdown_tui, mode' = mode, pc' \notin {"render", "input"},
         pc' = "gone" => open_fds' = {}
  PROVE  ScreenInv'
<1>1. /\ tui_active_' = FALSE /\ misused' = FALSE /\ curses' = FALSE /\ windows' # "live"
      /\ frame' = Tui!NoFrame
      /\ UNCHANGED <<current_tab_, selected_row_, svc_scroll_, scroll_offset_,
                     height, entries>>
  BY DEF Tui!shutdown_tui, Tui!ActiveAfterShutdown, ScreenInv, TerminalInv
<1>2. TerminalInv'
  BY <1>1 DEF ScreenInv, TerminalInv
<1>3. CursorInv'
  BY <1>1 DEF ScreenInv, CursorInv
<1>4. FrameInv'
  BY <1>1 DEF FrameInv, Tui!NoFrame
<1> QED
  BY <1>2, <1>3, <1>4 DEF ScreenInv

\* A key.
LEMMA KeyStep ==
  ASSUME ScreenInv, NEW resizes, Tui!handle_input(resizes), tui_active_,
         mode' = mode, pc' = "test"
  PROVE  ScreenInv'
<1> USE ProgramAssumption
<1>1. frame' = Tui!NoFrame
  BY DEF Tui!handle_input
<1>2. FrameInv'
  BY <1>1 DEF FrameInv, Tui!NoFrame
<1>3. TerminalInv /\ CursorInv /\ windows = "live" /\ misused = FALSE
  BY DEF ScreenInv, TerminalInv
<1>4. /\ UNCHANGED <<tui_active_, curses, svc_scroll_, entries>>
      /\ windows' = "live" /\ misused' = FALSE
  BY <1>3 DEF Tui!handle_input, Tui!SelectTab, Tui!MoveDown, Tui!MoveUp, Tui!OtherKey,
             Tui!Resize
<1>5. TerminalInv'
  BY <1>3, <1>4 DEF TerminalInv
<1>6. CursorInv'
  <2>1. ASSUME NEW key \in {"1", "2", "3"}, Tui!SelectTab(key) PROVE CursorInv'
    <3>1. current_tab_' \in {"Overview", "Services", "Journal"}
      BY <2>1 DEF Tui!SelectTab, Tui!Tabs
    <3> QED
      BY <1>3, <2>1, <3>1 DEF CursorInv, Tui!SelectTab
  <2>2. CASE Tui!MoveDown
    BY <1>3, <2>2 DEF CursorInv, Tui!MoveDown, Tui!Larger, Tui!Smaller
  <2>3. CASE Tui!MoveUp
    BY <1>3, <2>3 DEF CursorInv, Tui!MoveUp, Tui!Larger
  <2>4. CASE Tui!OtherKey
    BY <1>3, <2>4 DEF CursorInv, Tui!OtherKey
  <2>5. ASSUME NEW lines \in Height, Tui!Resize(lines) PROVE CursorInv'
    BY <1>3, <2>5 DEF CursorInv, Tui!Resize
  <2> QED
    BY <2>1, <2>2, <2>3, <2>4, <2>5 DEF Tui!handle_input
<1> QED
  BY <1>2, <1>5, <1>6 DEF ScreenInv

\* Every step keeps the invariant.
LEMMA ScreenStep ==
  ASSUME ScreenInv, [Next]_vars
  PROVE  ScreenInv'
<1>a. TerminalInv /\ CursorInv /\ FrameInv
  BY DEF ScreenInv
<1>1. CASE EarlyMountPhase
  BY <1>1, QuietScreen DEF EarlyMountPhase
<1>2. CASE EarlyMountReturns
  <2>1. pc = "early" /\ pc' \in {"exit", "signals"} /\ UNCHANGED <<tui, mode>>
    BY <1>2 DEF EarlyMountReturns
  <2> QED
    BY <2>1, QuietScreen
<1>3. CASE SignalSetup
  <2>1. pc = "signals" /\ pc' \in {"exit", "sockets"} /\ UNCHANGED <<tui, mode>>
    BY <1>3 DEF SignalSetup
  <2> QED
    BY <2>1, QuietScreen
<1>4. CASE SocketBind
  <2>1. pc = "sockets" /\ pc' = pc /\ UNCHANGED <<tui, mode>>
    BY <1>4 DEF SocketBind
  <2> QED
    BY <2>1, QuietScreen
<1>5. CASE SocketsBound
  <2>1. pc = "sockets" /\ pc' = "units" /\ UNCHANGED <<tui, mode>>
    BY <1>5 DEF SocketsBound
  <2> QED
    BY <2>1, QuietScreen
<1>6. CASE ExecuteMountUnit
  <2>1. pc = "units" /\ pc' = pc /\ UNCHANGED <<tui, mode>>
    BY <1>6 DEF ExecuteMountUnit
  <2> QED
    BY <2>1, QuietScreen
<1>7. CASE TuiStart
  <2>1. pc \in {"units", "tui"} /\ pc' = "poll" /\ mode' = mode
    BY <1>7 DEF TuiStart
  <2>2. CASE mode = "init"
    <3>1. UNCHANGED tui
      BY <1>7, <2>2 DEF TuiStart
    <3> QED
      BY <2>1, <3>1, QuietScreen
  <2>3. CASE mode # "init"
    <3>1. Tui!init_tui
      BY <1>7, <2>3 DEF TuiStart
    <3>2. TerminalInv'
      BY <1>a, <2>1, <2>3, <3>1 DEF TerminalInv, Tui!init_tui
    <3>3. CursorInv'
      BY <1>a, <3>1 DEF CursorInv, Tui!init_tui
    <3>4. FrameInv'
      BY <1>a, <2>1, <3>1 DEF FrameInv, Tui!init_tui, Tui!NoFrame
    <3> QED
      BY <3>2, <3>3, <3>4 DEF ScreenInv
  <2> QED
    BY <2>2, <2>3
<1>8. CASE PollOnce
  <2>1. /\ pc = "poll" /\ mode' = mode /\ pc' \in {"render", "test"}
        /\ pc' = "render" => tui_active_
    BY <1>8 DEF PollOnce
  <2>2. CASE UNCHANGED tui
    BY <2>1, <2>2, QuietScreen
  <2>3. CASE Tui!Log
    <3>1. TerminalInv'
      BY <1>a, <2>1, <2>3 DEF TerminalInv, Tui!Log
    <3>2. CursorInv'
      BY <1>a, <2>3 DEF CursorInv, Tui!Log
    <3>3. FrameInv'
      BY <1>a, <2>1, <2>3 DEF FrameInv, Tui!Log, Tui!NoFrame
    <3> QED
      BY <3>1, <3>2, <3>3 DEF ScreenInv
  <2> QED
    BY <1>8, <2>2, <2>3 DEF PollOnce
<1>9. CASE FixRuntimeDirs
  <2>1. pc \in {"render", "test"} /\ pc' = pc /\ UNCHANGED <<tui, mode>>
    BY <1>9 DEF FixRuntimeDirs
  <2>2. pc' \in {"render", "input"} => tui_active_
    BY <1>a, <2>1 DEF TerminalInv
  <2> QED
    BY <2>1, <2>2, QuietScreen
<1>10. CASE Render
  <2>1. pc = "render" /\ pc' = "input" /\ mode' = mode /\ Tui!render
    BY <1>10 DEF Render
  <2>2. FrameInv'
    BY <2>1, RenderedFrame
  <2>3. TerminalInv'
    BY <1>a, <2>1 DEF TerminalInv, Tui!render
  <2>4. svc_scroll_' \in Nat
    BY <1>a, <2>1, ScrollIsNat DEF Tui!render, CursorInv
  <2>5. CursorInv'
    BY <1>a, <2>1, <2>4 DEF CursorInv, Tui!render
  <2> QED
    BY <2>2, <2>3, <2>5 DEF ScreenInv
<1>11. CASE HandleInput
  <2>1. pc = "input" /\ pc' = "test" /\ mode' = mode /\ Tui!handle_input(~blocked)
    BY <1>11 DEF HandleInput
  <2>2. tui_active_
    BY <1>a, <2>1 DEF TerminalInv
  <2> QED
    BY <2>1, <2>2, KeyStep
<1>12. CASE Quit
  <2>1. mode # "init" /\ pc' = "stop" /\ UNCHANGED <<tui, mode>>
    BY <1>a, <1>12 DEF Quit, TerminalInv
  <2> QED
    BY <2>1, QuietScreen
<1>13. CASE LoopTest
  <2>1. pc = "test" /\ pc' \in {"poll", "stop"} /\ UNCHANGED <<tui, mode>>
    BY <1>13 DEF LoopTest
  <2> QED
    BY <2>1, QuietScreen
<1>14. CASE Stop
  <2>1. Tui!shutdown_tui /\ mode' = mode /\ pc' \in {"exit", "close"}
    BY <1>14 DEF Stop
  <2> QED
    BY <2>1, LeaveTui
<1>15. CASE CloseSockets
  <2>1. pc = "close" /\ pc' = "unmount" /\ UNCHANGED <<tui, mode>>
    BY <1>15 DEF CloseSockets
  <2> QED
    BY <2>1, QuietScreen
<1>16. CASE UnmountOne
  <2>1. pc = "unmount" /\ pc' = pc /\ UNCHANGED <<tui, mode>>
    BY <1>16 DEF UnmountOne
  <2> QED
    BY <2>1, QuietScreen
<1>17. CASE Unmounted
  <2>1. pc = "unmount" /\ pc' = "exit" /\ UNCHANGED <<tui, mode>>
    BY <1>17 DEF Unmounted
  <2> QED
    BY <2>1, QuietScreen
<1>18. CASE Destructors
  <2>1. Tui!shutdown_tui /\ mode' = mode /\ pc' = "gone" /\ open_fds' = {}
    BY <1>18 DEF Destructors
  <2> QED
    BY <2>1, LeaveTui
<1>19. CASE UNCHANGED vars
  <2>1. pc' = pc /\ UNCHANGED <<tui, mode>> /\ UNCHANGED open_fds
    BY <1>19 DEF vars, signals
  <2>2. pc' \in {"render", "input"} => tui_active_
    BY <1>a, <2>1 DEF TerminalInv
  <2> QED
    BY <2>1, <2>2, QuietScreen
<1> QED
  BY <1>1, <1>2, <1>3, <1>4, <1>5, <1>6, <1>7, <1>8, <1>9, <1>10, <1>11, <1>12, <1>13,
     <1>14, <1>15, <1>16, <1>17, <1>18, <1>19 DEF Next, Gone

\* The screen is right in every state.
LEMMA ScreenInvariant == Spec => []ScreenInv
<1>1. Init => ScreenInv
  <2> SUFFICES ASSUME Init PROVE ScreenInv
    OBVIOUS
  <2>1. /\ mode \in Modes /\ pc \in {"tui", "early"}
        /\ Tui!TuiInit(IF mode = "monitor" THEN 0..MaxEntries ELSE {0}, Terminal[mode])
    BY DEF Init
  <2>2. entries \in Nat /\ height \in Nat
    BY <2>1, ProgramAssumption DEF Tui!TuiInit
  <2>3. TerminalInv
    BY <2>1 DEF TerminalInv, Tui!TuiInit
  <2>4. CursorInv
    BY <2>1, <2>2, ProgramAssumption DEF CursorInv, Tui!TuiInit
  <2>5. FrameInv
    BY <2>1 DEF FrameInv, Tui!TuiInit
  <2> QED
    BY <2>3, <2>4, <2>5 DEF ScreenInv
<1>2. ScreenInv /\ [Next]_vars => ScreenInv'
  BY ScreenStep
<1> QED
  BY <1>1, <1>2, PTL DEF Spec

\* The selected unit is on every page of services that has room for one.
THEOREM SelectionStaysVisible == Spec => []SelectionVisible
<1>1. ScreenInv => SelectionVisible
  BY NoFrameIsRight DEF ScreenInv, FrameInv
<1> QED
  BY <1>1, ScreenInvariant, PTL

\* The overview and the journal show the newest entries that fit, or those
\* as far back as the page is scrolled.
THEOREM NewestEntriesStayShown == Spec => []NewestEntriesShown
<1>1. ScreenInv => NewestEntriesShown
  BY NoFrameIsRight DEF ScreenInv, FrameInv
<1> QED
  BY <1>1, ScreenInvariant, PTL

\* On every way out the terminal, the windows and the descriptors are given
\* back, once.
THEOREM ExitIsClean == Spec => []CleanExit
<1>1. ScreenInv => CleanExit
  BY DEF ScreenInv, TerminalInv, CleanExit
<1> QED
  BY <1>1, ScreenInvariant, PTL

-------------------------------------------------------------------------------
(* The files of sockets                                                    *)

NodeMakers == {"Stream", "Datagram", "SequentialPacket", "FIFO"}

\* What close_all_sockets leaves at an address.
MayStay(a) ==
  nodes[a] = "file" \/ a \in leftover \/ (nodes[a] = "fifo" /\ ~Sock!IsPath(a))

\* Every other node has an open entry to its name, and an open entry that
\* makes nodes has made one there.
NodeInv ==
  /\ \A a \in DOMAIN nodes :
       MayStay(a) \/ (Sock!IsPath(a) /\ \E e \in bound : e.address = a)
  /\ \A e \in bound :
       e.type \in NodeMakers /\ Sock!IsPath(e.address) /\ e.address \in DOMAIN nodes =>
         nodes[e.address] # "file"

\* trivialctl has no phases.
MonitorStates == {"tui", "poll", "render", "input", "test", "stop", "exit", "gone"}

SocketInv ==
  /\ NodeInv
  /\ lost \cap NodeMakers = {}
  /\ mode = "monitor" => /\ \A a \in DOMAIN nodes : nodes[a] = "file"
                         /\ pc \in MonitorStates
  /\ pc = "unmount" => \A a \in DOMAIN nodes : MayStay(a)
  /\ pc \in {"exit", "gone"} /\ rc = 0 => \A a \in DOMAIN nodes : MayStay(a)

\* The node that an entry makes: where it is left is its address or noted.
LEMMA MadeNode ==
  ASSUME NodeInv, NEW e, e = Sock!Entry, Sock!MakesNode, nodes' = Sock!WithNode,
         NEW kept, kept \in SUBSET {Sock!Node},
         leftover' = leftover \cup kept, Sock!Node \notin kept => Sock!Node = e.address,
         bound' \in {bound, bound \cup {e}},
         Sock!Node \notin kept => e \in bound'
  PROVE  NodeInv'
<1> USE DEF NodeMakers
<1> DEFINE n == Sock!Node
<1>1. /\ DOMAIN nodes' = (DOMAIN nodes \ {e.address}) \cup {n}
      /\ nodes'[n] = Sock!Kind
      /\ \A a \in DOMAIN nodes \ {e.address} : a # n => nodes'[a] = nodes[a]
  <2> DEFINE D == DOMAIN nodes \ {e.address}
  <2>1. Sock!Cleared = [a \in D |-> nodes[a]]
    BY DEF Sock!Cleared
  <2>2. nodes' = [a \in D \cup {n} |-> IF a = n THEN Sock!Kind ELSE Sock!Cleared[a]]
    BY <2>1 DEF Sock!WithNode
  <2> HIDE DEF n
  <2> QED
    BY <2>1, <2>2
<1>2. /\ Sock!Kind \in {"fifo", "socket"}
      /\ Sock!Kind = "socket" => Sock!IsPath(e.address)
  BY DEF Sock!Kind, Sock!MakesNode
<1> HIDE DEF n
<1>3. ASSUME NEW a \in DOMAIN nodes'
      PROVE  MayStay(a)' \/ (Sock!IsPath(a) /\ \E x \in bound' : x.address = a)
  <2>1. CASE a = n
    BY <2>1, <1>1, <1>2 DEF MayStay, n
  <2>2. CASE a # n
    BY <2>2, <1>1 DEF NodeInv, MayStay
  <2> QED
    BY <2>1, <2>2
<1>4. ASSUME NEW x \in bound', x.type \in NodeMakers, Sock!IsPath(x.address),
             x.address \in DOMAIN nodes'
      PROVE  nodes'[x.address] # "file"
  <2>1. CASE x.address = n
    BY <2>1, <1>1, <1>2
  <2>2. CASE x.address # n
    BY <2>2, <1>1, <1>4 DEF NodeInv
  <2> QED
    BY <2>1, <2>2
<1> QED
  BY <1>3, <1>4 DEF NodeInv, Sock!IsPath

\* A node that a bind has made, or has removed.
LEMMA BindNodes ==
  ASSUME NodeInv, Sock!SkipEntry \/ Sock!BindEntry \/ Sock!BindFails \/ Sock!BindFailsLate
  PROVE  NodeInv' /\ lost' = lost
<1> USE DEF NodeMakers
<1> DEFINE e == Sock!Entry
<1>1. CASE Sock!SkipEntry
  BY <1>1 DEF NodeInv, MayStay, Sock!SkipEntry, Sock!IsPath
<1>2. CASE Sock!BindEntry
  <2>1. bound' = bound \cup {e} /\ lost' = lost
    BY <1>2 DEF Sock!BindEntry
  <2>2. CASE Sock!MakesNode
    <3>1. nodes' = Sock!WithNode /\ leftover' = leftover \cup ({Sock!Node} \ {e.address})
      BY <1>2, <2>2 DEF Sock!BindEntry
    <3> HIDE DEF e
    <3>2. NodeInv'
      BY <3>1, <2>1, <2>2, MadeNode DEF e
    <3> QED
      BY <3>2, <2>1
  <2>3. CASE ~Sock!MakesNode
    <3>1. nodes' = nodes /\ leftover' = leftover
      BY <1>2, <2>3 DEF Sock!BindEntry
    <3>2. ~(e.type \in NodeMakers /\ Sock!IsPath(e.address))
      BY <2>3 DEF Sock!MakesNode
    <3> HIDE DEF e
    <3> QED
      BY <3>1, <3>2, <2>1 DEF NodeInv, MayStay, Sock!IsPath
  <2> QED
    BY <2>2, <2>3
<1>3. CASE Sock!BindFails
  <2>1. UNCHANGED <<bound, lost, leftover>>
    BY <1>3 DEF Sock!BindFails
  <2>2. \/ nodes' = nodes
        \/ nodes' = [a \in DOMAIN nodes \ {e.address} |-> nodes[a]]
    BY <1>3 DEF Sock!BindFails, Sock!Cleared
  <2> HIDE DEF e
  <2>3. DOMAIN nodes' \subseteq DOMAIN nodes /\ \A a \in DOMAIN nodes' : nodes'[a] = nodes[a]
    BY <2>2
  <2> QED
    BY <2>1, <2>3 DEF NodeInv, MayStay, Sock!IsPath
<1>4. CASE Sock!BindFailsLate
  <2>1. /\ nodes' = Sock!WithNode /\ leftover' = leftover \cup {Sock!Node}
        /\ UNCHANGED <<bound, lost>> /\ Sock!MakesNode
    BY <1>4 DEF Sock!BindFailsLate
  <2> HIDE DEF e
  <2>2. NodeInv'
    BY <2>1, MadeNode DEF e
  <2> QED
    BY <2>1, <2>2
<1> QED
  BY <1>1, <1>2, <1>3, <1>4

\* close_all_sockets.
LEMMA CloseNodes ==
  ASSUME NodeInv, Sock!close_all_sockets
  PROVE  /\ NodeInv' /\ lost' \cap NodeMakers = {}
         /\ \A a \in DOMAIN nodes' : MayStay(a)'
<1>1. /\ nodes' = [a \in DOMAIN nodes \ Sock!Unlinked |-> nodes[a]]
      /\ bound' = {} /\ leftover' = leftover
  BY DEF Sock!close_all_sockets
<1>2. \A a \in DOMAIN nodes' : MayStay(a)'
  BY <1>1 DEF NodeInv, MayStay, Sock!Unlinked
<1>3. ASSUME NEW t \in lost' PROVE t \notin NodeMakers
  <2>1. PICK e \in bound : /\ t = e.type /\ e.address \in Sock!Unlinked
                           /\ e.address \in DOMAIN nodes /\ nodes[e.address] = "file"
    BY <1>3 DEF Sock!close_all_sockets
  <2> QED
    BY <2>1 DEF NodeInv, Sock!Unlinked
<1> QED
  BY <1>1, <1>2, <1>3 DEF NodeInv

\* The steps that leave the files of sockets alone.
LEMMA QuietSockets ==
  ASSUME SocketInv, UNCHANGED <<sockfiles, mode>>,
         mode = "monitor" => pc' \in MonitorStates,
         pc' = "unmount" => pc = "unmount",
         pc' \in {"exit", "gone"} /\ rc' = 0 =>
           \/ mode = "monitor"
           \/ pc = "unmount"
           \/ pc \in {"exit", "gone"} /\ rc = 0
  PROVE  SocketInv'
<1>1. UNCHANGED <<nodes, bound, lost, leftover, mode>>
  BY DEF sockfiles
<1>2. NodeInv'
  BY <1>1 DEF SocketInv, NodeInv, MayStay, Sock!IsPath, NodeMakers
<1>3. \A a : MayStay(a)' <=> MayStay(a)
  BY <1>1 DEF MayStay, Sock!IsPath
<1>4. mode = "monitor" => \A a \in DOMAIN nodes : MayStay(a)
  BY DEF SocketInv, MayStay
<1> QED
  BY <1>1, <1>2, <1>3, <1>4 DEF SocketInv, NodeMakers

\* Every step keeps the invariant.
LEMMA SocketStep ==
  ASSUME SocketInv, [Next]_vars
  PROVE  SocketInv'
<1>a. mode = "monitor" => pc \in MonitorStates
  BY DEF SocketInv
<1>1. CASE EarlyMountPhase
  <2>1. pc = "early" /\ pc' = pc /\ UNCHANGED <<sockfiles, mode>>
    BY <1>1 DEF EarlyMountPhase
  <2> QED
    BY <1>a, <2>1, QuietSockets DEF MonitorStates
<1>2. CASE EarlyMountReturns
  <2>1. /\ pc = "early" /\ pc' \in {"signals", "exit"}
        /\ pc' = "exit" => rc' = 1
        /\ UNCHANGED <<sockfiles, mode>>
    BY <1>2 DEF EarlyMountReturns
  <2> QED
    BY <1>a, <2>1, QuietSockets DEF MonitorStates
<1>3. CASE SignalSetup
  <2>1. /\ pc = "signals" /\ pc' \in {"sockets", "exit"}
        /\ pc' = "exit" => rc' = 1
        /\ UNCHANGED <<sockfiles, mode>>
    BY <1>3 DEF SignalSetup
  <2> QED
    BY <1>a, <2>1, QuietSockets DEF MonitorStates
<1>4. CASE SocketBind
  <2>1. /\ pc = "sockets" /\ pc' = pc /\ mode' = mode
        /\ Sock!SkipEntry \/ Sock!BindEntry \/ Sock!BindFails \/ Sock!BindFailsLate
    BY <1>4 DEF SocketBind
  <2>2. NodeInv' /\ lost' = lost
    BY <2>1, BindNodes DEF SocketInv
  <2>3. mode # "monitor"
    BY <1>a, <2>1 DEF MonitorStates
  <2> QED
    BY <2>1, <2>2, <2>3 DEF SocketInv, NodeMakers
<1>5. CASE SocketsBound
  <2>1. pc = "sockets" /\ pc' = "units" /\ UNCHANGED <<sockfiles, mode>>
    BY <1>5 DEF SocketsBound
  <2> QED
    BY <1>a, <2>1, QuietSockets DEF MonitorStates
<1>6. CASE ExecuteMountUnit
  <2>1. pc = "units" /\ pc' = pc /\ UNCHANGED <<sockfiles, mode>>
    BY <1>6 DEF ExecuteMountUnit
  <2> QED
    BY <1>a, <2>1, QuietSockets DEF MonitorStates
<1>7. CASE TuiStart
  <2>1. pc' = "poll" /\ UNCHANGED <<sockfiles, mode>>
    BY <1>7 DEF TuiStart
  <2> QED
    BY <1>a, <2>1, QuietSockets DEF MonitorStates
<1>8. CASE PollOnce
  <2>1. pc' \in {"render", "test"} /\ UNCHANGED <<sockfiles, mode>>
    BY <1>8 DEF PollOnce
  <2> QED
    BY <1>a, <2>1, QuietSockets DEF MonitorStates
<1>9. CASE FixRuntimeDirs
  <2>1. pc \in {"render", "test"} /\ pc' = pc /\ UNCHANGED <<sockfiles, mode>>
    BY <1>9 DEF FixRuntimeDirs
  <2> QED
    BY <1>a, <2>1, QuietSockets DEF MonitorStates
<1>10. CASE Render
  <2>1. pc' = "input" /\ UNCHANGED <<sockfiles, mode>>
    BY <1>10 DEF Render
  <2> QED
    BY <1>a, <2>1, QuietSockets DEF MonitorStates
<1>11. CASE HandleInput
  <2>1. pc' = "test" /\ UNCHANGED <<sockfiles, mode>>
    BY <1>11 DEF HandleInput
  <2> QED
    BY <1>a, <2>1, QuietSockets DEF MonitorStates
<1>12. CASE Quit
  <2>1. pc' \in {"test", "stop"} /\ UNCHANGED <<sockfiles, mode>>
    BY <1>12 DEF Quit
  <2> QED
    BY <1>a, <2>1, QuietSockets DEF MonitorStates
<1>13. CASE LoopTest
  <2>1. pc' \in {"poll", "stop"} /\ UNCHANGED <<sockfiles, mode>>
    BY <1>13 DEF LoopTest
  <2> QED
    BY <1>a, <2>1, QuietSockets DEF MonitorStates
<1>14. CASE Stop
  <2>1. /\ pc' = (IF mode = "monitor" THEN "exit" ELSE "close")
        /\ UNCHANGED <<sockfiles, mode>>
    BY <1>14 DEF Stop
  <2> QED
    BY <1>a, <2>1, QuietSockets DEF MonitorStates
<1>15. CASE CloseSockets
  <2>1. pc = "close" /\ pc' = "unmount" /\ mode' = mode /\ Sock!close_all_sockets
    BY <1>15 DEF CloseSockets
  <2>2. /\ NodeInv' /\ lost' \cap NodeMakers = {}
        /\ \A a \in DOMAIN nodes' : MayStay(a)'
    BY <2>1, CloseNodes DEF SocketInv
  <2>3. mode # "monitor"
    BY <1>a, <2>1 DEF MonitorStates
  <2> QED
    BY <2>1, <2>2, <2>3 DEF SocketInv, NodeMakers
<1>16. CASE UnmountOne
  <2>1. pc = "unmount" /\ pc' = pc /\ UNCHANGED <<sockfiles, mode>>
    BY <1>16 DEF UnmountOne
  <2> QED
    BY <1>a, <2>1, QuietSockets DEF MonitorStates
<1>17. CASE Unmounted
  <2>1. pc = "unmount" /\ pc' = "exit" /\ UNCHANGED <<sockfiles, mode>>
    BY <1>17 DEF Unmounted
  <2> QED
    BY <1>a, <2>1, QuietSockets DEF MonitorStates
<1>18. CASE Destructors
  <2>1. pc = "exit" /\ pc' = "gone" /\ rc' = rc /\ UNCHANGED <<sockfiles, mode>>
    BY <1>18 DEF Destructors
  <2> QED
    BY <1>a, <2>1, QuietSockets DEF MonitorStates
<1>19. CASE UNCHANGED vars
  <2>1. pc' = pc /\ rc' = rc /\ UNCHANGED <<sockfiles, mode>>
    BY <1>19 DEF vars
  <2> QED
    BY <1>a, <2>1, QuietSockets
<1> QED
  BY <1>1, <1>2, <1>3, <1>4, <1>5, <1>6, <1>7, <1>8, <1>9, <1>10, <1>11, <1>12, <1>13,
     <1>14, <1>15, <1>16, <1>17, <1>18, <1>19 DEF Next, Gone

\* The files of sockets are accounted for in every state.
LEMMA SocketInvariant == Spec => []SocketInv
<1>1. Init => SocketInv
  <2> SUFFICES ASSUME Init PROVE SocketInv
    OBVIOUS
  <2>1. /\ nodes = [a \in Present |-> "file"] /\ bound = {} /\ lost = {}
        /\ pc = (IF mode = "monitor" THEN "tui" ELSE "early")
    BY DEF Init, Sock!SocketsInit
  <2>2. \A a \in DOMAIN nodes : nodes[a] = "file"
    BY <2>1
  <2>3. NodeInv
    BY <2>1, <2>2 DEF NodeInv, MayStay
  <2> QED
    BY <2>1, <2>2, <2>3 DEF SocketInv, MonitorStates
<1>2. SocketInv /\ [Next]_vars => SocketInv'
  BY SocketStep
<1> QED
  BY <1>1, <1>2, PTL DEF Spec

\* After shutdown no node is left that an open entry made under its whole path,
\* and no file of others was removed under the name of a socket or fifo, for
\* every set of socket units and every failure of a bind.
THEOREM SocketFilesRemoved == Spec => []SocketNodesRemoved
<1>1. SocketInv => SocketNodesRemoved
  BY DEF SocketInv, SocketNodesRemoved, MayStay, NodeMakers
<1> QED
  BY <1>1, SocketInvariant, PTL

-------------------------------------------------------------------------------
(* Paths                                                                   *)

\* A prefix has the same components.
LEMMA PrefixComponents ==
  ASSUME NEW a \in Fs!Path, NEW b \in Fs!Path
  PROVE  Fs!IsPrefix(a, b) <=> Len(a) <= Len(b) /\ \A i \in 1..Len(a) : a[i] = b[i]
<1>1. SubSeq(a, 1, Len(a)) = a
  BY DEF Fs!Path
<1>2. Len(a) <= Len(b) => (a = SubSeq(b, 1, Len(a)) <=> \A i \in 1..Len(a) : a[i] = b[i])
  <2>1. SUFFICES ASSUME Len(a) <= Len(b)
                 PROVE  a = SubSeq(b, 1, Len(a)) <=> \A i \in 1..Len(a) : a[i] = b[i]
    OBVIOUS
  <2>2. /\ SubSeq(b, 1, Len(a)) \in Seq(Name \cup {"/"}) /\ Len(SubSeq(b, 1, Len(a))) = Len(a)
        /\ \A i \in 1..Len(a) : SubSeq(b, 1, Len(a))[i] = b[i]
    BY <2>1 DEF Fs!Path
  <2> QED
    BY <2>2 DEF Fs!Path
<1> QED
  BY <1>1, <1>2 DEF Fs!IsPrefix

\* Prefixes are ordered.
LEMMA PrefixOrder ==
  ASSUME NEW a \in Fs!Path, NEW b \in Fs!Path, NEW c \in Fs!Path
  PROVE  /\ Fs!IsPrefix(a, a) /\ Fs!IsPrefix(<<>>, a)
         /\ Fs!IsPrefix(a, b) /\ Fs!IsPrefix(b, c) => Fs!IsPrefix(a, c)
         /\ Fs!IsPrefix(a, b) /\ Fs!IsPrefix(b, a) => a = b
         /\ Fs!IsPrefix(a, c) /\ Fs!IsPrefix(b, c) => Fs!IsPrefix(a, b) \/ Fs!IsPrefix(b, a)
<1>1. /\ Len(a) \in Nat /\ Len(b) \in Nat /\ Len(c) \in Nat
      /\ <<>> \in Fs!Path /\ Len(<<>>) = 0
  BY DEF Fs!Path
<1>2. Fs!IsPrefix(a, a) /\ Fs!IsPrefix(<<>>, a)
  BY <1>1, PrefixComponents
<1>3. Fs!IsPrefix(a, b) /\ Fs!IsPrefix(b, c) => Fs!IsPrefix(a, c)
  BY <1>1, PrefixComponents
<1>4. Fs!IsPrefix(a, b) /\ Fs!IsPrefix(b, a) => a = b
  BY <1>1, PrefixComponents DEF Fs!Path
<1>5. Fs!IsPrefix(a, c) /\ Fs!IsPrefix(b, c) => Fs!IsPrefix(a, b) \/ Fs!IsPrefix(b, a)
  BY <1>1, PrefixComponents
<1> QED
  BY <1>2, <1>3, <1>4, <1>5

\* One component more.
LEMMA PrefixStep ==
  ASSUME NEW q \in Fs!Path, NEW k \in 1..Len(q), NEW a \in Fs!Path
  PROVE  /\ SubSeq(q, 1, k) \in Fs!Path /\ SubSeq(q, 1, k - 1) \in Fs!Path
         /\ Fs!IsPrefix(a, SubSeq(q, 1, k)) <=>
              Fs!IsPrefix(a, SubSeq(q, 1, k - 1)) \/ a = SubSeq(q, 1, k)
         /\ ~Fs!IsPrefix(SubSeq(q, 1, k), SubSeq(q, 1, k - 1))
<1> DEFINE p == SubSeq(q, 1, k)
           p1 == SubSeq(q, 1, k - 1)
<1>1. /\ p \in Fs!Path /\ Len(p) = k /\ \A i \in 1..k : p[i] = q[i]
      /\ p1 \in Fs!Path /\ Len(p1) = k - 1 /\ \A i \in 1..(k - 1) : p1[i] = q[i]
      /\ Len(a) \in Nat /\ k \in Nat
  BY DEF Fs!Path
<1> HIDE DEF p, p1
<1>2. Fs!IsPrefix(a, p1) => Fs!IsPrefix(a, p)
  BY <1>1, PrefixComponents
<1>3. a = p => Fs!IsPrefix(a, p)
  BY <1>1, PrefixOrder
<1>4. ASSUME Fs!IsPrefix(a, p), a # p
      PROVE  Fs!IsPrefix(a, p1)
  <2>1. Len(a) <= k /\ \A i \in 1..Len(a) : a[i] = p[i]
    BY <1>1, <1>4, PrefixComponents
  <2>2. Len(a) # k
    BY <2>1, <1>1, <1>4 DEF Fs!Path
  <2>3. Len(a) <= k - 1
    BY <2>1, <2>2, <1>1
  <2> QED
    BY <2>1, <2>3, <1>1, PrefixComponents
<1>5. ~Fs!IsPrefix(p, p1)
  BY <1>1, PrefixComponents
<1> QED
  BY <1>1, <1>2, <1>3, <1>4, <1>5 DEF p, p1

\* A path continued by another one.
LEMMA PathConcat ==
  ASSUME NEW p \in Fs!Path, NEW a \in Fs!Path, NEW b \in Fs!Path
  PROVE  /\ p \o a \in Fs!Path /\ Fs!IsPrefix(p, p \o a) /\ p \o <<>> = p
         /\ Fs!IsPrefix(p \o a, p \o b) <=> Fs!IsPrefix(a, b)
         /\ Fs!IsPrefix(p \o a, p) => a = <<>>
<1> DEFINE pa == p \o a
           pb == p \o b
<1>1. /\ Len(p) \in Nat /\ Len(a) \in Nat /\ Len(b) \in Nat
      /\ pa \in Fs!Path /\ Len(pa) = Len(p) + Len(a) /\ pb \in Fs!Path
      /\ Len(pb) = Len(p) + Len(b) /\ p \o <<>> = p
      /\ \A k \in 1..Len(p) : pa[k] = p[k] /\ pb[k] = p[k]
      /\ \A k \in 1..Len(a) : pa[Len(p) + k] = a[k]
      /\ \A k \in 1..Len(b) : pb[Len(p) + k] = b[k]
  BY ConcatProperties DEF Fs!Path
<1> HIDE DEF pa, pb
<1>2. Fs!IsPrefix(p, pa)
  BY <1>1, PrefixComponents
<1>3. ASSUME Fs!IsPrefix(pa, pb)
      PROVE  Fs!IsPrefix(a, b)
  <2>1. Len(pa) <= Len(pb) /\ \A i \in 1..Len(pa) : pa[i] = pb[i]
    BY <1>1, <1>3, PrefixComponents
  <2>2. ASSUME NEW k \in 1..Len(a)
        PROVE  a[k] = b[k]
    <3>1. k \in 1..Len(b) /\ Len(p) + k \in 1..Len(pa)
      BY <2>1, <1>1
    <3> QED
      BY <3>1, <2>1, <1>1
  <2> QED
    BY <2>1, <2>2, <1>1, PrefixComponents
<1>4. ASSUME Fs!IsPrefix(a, b)
      PROVE  Fs!IsPrefix(pa, pb)
  <2>1. Len(a) <= Len(b) /\ \A i \in 1..Len(a) : a[i] = b[i]
    BY <1>4, PrefixComponents
  <2>2. ASSUME NEW i \in 1..Len(pa)
        PROVE  pa[i] = pb[i]
    <3>1. CASE i <= Len(p)
      BY <3>1, <1>1
    <3>2. CASE i > Len(p)
      <4> DEFINE k == i - Len(p)
      <4>1. k \in 1..Len(a) /\ k \in 1..Len(b) /\ i = Len(p) + k
        BY <3>2, <2>1, <1>1
      <4> HIDE DEF k
      <4> QED
        BY <4>1, <2>1, <1>1
    <3> QED
      BY <3>1, <3>2, <1>1
  <2>3. Len(pa) <= Len(pb)
    BY <2>1, <1>1
  <2> QED
    BY <2>2, <2>3, <1>1, PrefixComponents
<1>5. Fs!IsPrefix(pa, p) => a = <<>>
  <2>1. Fs!IsPrefix(pa, p) => Len(a) = 0
    BY <1>1, PrefixComponents
  <2> QED
    BY <2>1 DEF Fs!Path
<1> QED
  BY <1>1, <1>2, <1>3, <1>4, <1>5 DEF pa, pb

\* A path below another one continues it.
LEMMA PathRest ==
  ASSUME NEW p \in Fs!Path, NEW a \in Fs!Path, Fs!IsPrefix(p, a)
  PROVE  LET r == SubSeq(a, Len(p) + 1, Len(a)) IN r \in Fs!Path /\ a = p \o r
<1> DEFINE r == SubSeq(a, Len(p) + 1, Len(a))
           pr == p \o r
<1>1. /\ Len(p) \in Nat /\ Len(a) \in Nat /\ Len(p) <= Len(a)
      /\ \A i \in 1..Len(p) : a[i] = p[i]
  BY PrefixComponents DEF Fs!Path
<1>2. /\ r \in Fs!Path /\ Len(r) = Len(a) - Len(p)
      /\ \A k \in 1..Len(r) : r[k] = a[Len(p) + k]
  <2>1. r \in Fs!Path
    BY <1>1 DEF Fs!Path
  <2>2. Len(r) = Len(a) - Len(p)
    BY <1>1
  <2>3. \A k \in 1..(Len(a) - Len(p)) : r[k] = a[Len(p) + 1 + k - 1]
    BY <1>1
  <2> QED
    BY <2>1, <2>2, <2>3, <1>1
<1> HIDE DEF r
<1>3. /\ pr \in Fs!Path /\ Len(pr) = Len(a)
      /\ \A k \in 1..Len(p) : pr[k] = p[k]
      /\ \A k \in 1..Len(r) : pr[Len(p) + k] = r[k]
  <2>1. pr \in Fs!Path /\ Len(pr) = Len(p) + Len(r)
    BY <1>2, ConcatProperties DEF Fs!Path
  <2>2. /\ \A k \in 1..Len(p) : pr[k] = p[k]
        /\ \A k \in 1..Len(r) : pr[Len(p) + k] = r[k]
    BY <1>2, ConcatProperties DEF Fs!Path
  <2> QED
    BY <2>1, <2>2, <1>1, <1>2
<1> HIDE DEF pr
<1>4. ASSUME NEW i \in 1..Len(a)
      PROVE  pr[i] = a[i]
  <2>1. CASE i <= Len(p)
    BY <2>1, <1>1, <1>3
  <2>2. CASE i > Len(p)
    <3> DEFINE k == i - Len(p)
    <3>1. k \in 1..Len(r) /\ i = Len(p) + k
      BY <2>2, <1>1, <1>2
    <3> HIDE DEF k
    <3> QED
      BY <3>1, <1>2, <1>3
  <2> QED
    BY <2>1, <2>2, <1>1
<1>5. pr = a
  BY <1>3, <1>4 DEF Fs!Path
<1> QED
  BY <1>2, <1>5 DEF pr, r

\* The names of files are no names of the root directory.
LEMMA NamePaths ==
  /\ Fs!OverRoot \in Fs!Path /\ Fs!OverRoot # <<>> /\ <<>> \in Seq(Name)
  /\ \A a \in Seq(Name) : a \in Fs!Path /\ a # Fs!OverRoot
  /\ \A a \in Fs!Path : Fs!IsPrefix(a, Fs!OverRoot) => a = <<>> \/ a = Fs!OverRoot
<1> DEFINE root == Fs!OverRoot
<1>1. root \in Fs!Path /\ Len(root) = 1 /\ root[1] = "/" /\ root # <<>>
  BY DEF Fs!Path, Fs!OverRoot
<1> HIDE DEF root
<1>2. ASSUME NEW a \in Fs!Path, Fs!IsPrefix(a, root)
      PROVE  a = <<>> \/ a = root
  <2>1. Len(a) <= 1 /\ \A i \in 1..Len(a) : a[i] = root[i]
    BY <1>1, <1>2, PrefixComponents
  <2>2. Len(a) \in Nat /\ Len(root) = 1
    BY <1>1 DEF Fs!Path
  <2>3. Len(a) = 0 \/ Len(a) = 1
    <3> DEFINE n == Len(a)
    <3>1. n \in Nat /\ n <= 1
      BY <2>1, <2>2
    <3> HIDE DEF n
    <3>2. n = 0 \/ n = 1
      BY <3>1
    <3> QED
      BY <3>2 DEF n
  <2>4. CASE Len(a) = 0
    BY <2>4 DEF Fs!Path
  <2>5. CASE Len(a) = 1
    <3>1. a[1] = root[1]
      BY <2>1, <2>5
    <3> QED
      BY <3>1, <2>5, <1>1 DEF Fs!Path
  <2> QED
    BY <2>3, <2>4, <2>5
<1>3. ASSUME NEW a \in Seq(Name)
      PROVE  a \in Fs!Path /\ a # root
  <2>1. a \in Fs!Path
    BY DEF Fs!Path
  <2>2. a = root => a[1] = "/" /\ 1 \in 1..Len(a)
    BY <1>1
  <2>3. \A k \in 1..Len(a) : a[k] \in Name
    OBVIOUS
  <2>4. "/" \notin Name
    BY MountAssumption
  <2> QED
    BY <2>1, <2>2, <2>3, <2>4
<1> QED
  BY <1>1, <1>2, <1>3 DEF root

\* The places of mount units.
Place == (Seq(Name) \ {<<>>}) \cup {Fs!OverRoot}

\* Where the directory above a path leads: what is above the path, or over /.
LEMMA DirectoryAbove ==
  ASSUME NEW p \in Place
  PROVE  /\ p \in Fs!Path /\ p # <<>> /\ Fs!DirAbove(p) \in Fs!Path
         /\ \A a \in Fs!Path : Fs!IsPrefix(a, Fs!DirAbove(p)) =>
              Fs!IsStrictPrefix(a, p) \/ a = Fs!OverRoot
         /\ \A a \in Seq(Name) \ {<<>>} : Fs!IsPrefix(a, Fs!DirAbove(p)) =>
              Fs!IsStrictPrefix(a, p)
<1>1. p \in Fs!Path /\ p # <<>>
  BY NamePaths DEF Place
<1>2. CASE Fs!DirAbove(p) = Fs!OverRoot
  <2>1. Fs!IsPrefix(<<>>, p)
    BY <1>1, PrefixOrder
  <2> QED
    BY <1>1, <1>2, <2>1, NamePaths DEF Fs!IsStrictPrefix
<1>3. CASE Fs!DirAbove(p) = Fs!Front(p)
  <2> DEFINE n == Len(p)
             q == SubSeq(p, 1, n)
             f == SubSeq(p, 1, n - 1)
  <2>1. n \in 1..Len(p) /\ q = p
    <3>1. Len(p) \in Nat /\ Len(p) # 0
      BY <1>1 DEF Fs!Path
    <3> QED
      BY <3>1, <1>1 DEF Fs!Path
  <2>2. Fs!Front(p) = f
    BY DEF Fs!Front
  <2>3. f \in Fs!Path /\ ~Fs!IsPrefix(q, f)
    BY <2>1, <1>1, PrefixStep
  <2>4. \A a \in Fs!Path : Fs!IsPrefix(a, f) => Fs!IsPrefix(a, q)
    BY <2>1, <1>1, PrefixStep
  <2> HIDE DEF q, f
  <2>5. /\ Fs!Front(p) \in Fs!Path /\ ~Fs!IsPrefix(p, Fs!Front(p))
        /\ \A a \in Fs!Path : Fs!IsPrefix(a, Fs!Front(p)) => Fs!IsPrefix(a, p)
    BY <2>1, <2>2, <2>3, <2>4
  <2> QED
    BY <2>5, <1>1, <1>3, NamePaths DEF Fs!IsStrictPrefix
<1> QED
  BY <1>2, <1>3 DEF Fs!DirAbove

\* What is strictly above a path is above those below it.
LEMMA StrictlyAbove ==
  ASSUME NEW a \in Fs!Path, NEW p \in Fs!Path, NEW q \in Fs!Path,
         Fs!IsStrictPrefix(a, p), Fs!IsPrefix(p, q)
  PROVE  Fs!IsStrictPrefix(a, q) /\ ~Fs!IsPrefix(p, a)
<1>1. Fs!IsPrefix(a, p) /\ a # p
  BY DEF Fs!IsStrictPrefix
<1>2. Fs!IsPrefix(a, q)
  BY <1>1, PrefixOrder
<1>3. ~Fs!IsPrefix(p, a)
  BY <1>1, PrefixOrder
<1> QED
  BY <1>2, <1>3 DEF Fs!IsStrictPrefix

-------------------------------------------------------------------------------
(* What a path leads to                                                    *)

\* A table that was built by mounts, some of which may be detached by now.
Tree(t) ==
  /\ \E n \in Nat : DOMAIN t \subseteq 0..n
  /\ Fs!RootMount \in DOMAIN t
  /\ t[Fs!RootMount].at = <<>> /\ t[Fs!RootMount].on = Fs!Nowhere
  /\ \A n \in DOMAIN t : t[n].at \in Fs!Path
  /\ \A n \in DOMAIN t \ {Fs!RootMount} : Fs!Hangs(t, n)

\* The newest mount on the way to q.
Newest(t, q, m) ==
  /\ m \in DOMAIN t /\ Fs!IsPrefix(t[m].at, q)
  /\ \A o \in DOMAIN t : Fs!IsPrefix(t[o].at, q) => o <= m

\* Ids are numbers, and a mount is newer than the one it hangs on.
LEMMA TreeOrder ==
  ASSUME NEW t, Tree(t)
  PROVE  /\ DOMAIN t \subseteq Nat /\ 0 \in DOMAIN t
         /\ \A n \in DOMAIN t : t[n].on \in DOMAIN t =>
              n # 0 /\ t[n].on < n /\ Fs!IsPrefix(t[t[n].on].at, t[n].at)
         /\ \A n \in DOMAIN t \ {0} : t[n].on \in DOMAIN t
BY DEF Tree, Fs!Hangs, Fs!RootMount, Fs!Nowhere

Over(t, n, p) == { o \in DOMAIN t : t[o].on = n /\ t[o].at = p }

\* The equation that defines Topmost has a solution: whatever lies on a mount
\* is newer.
LEMMA TopmostEquation ==
  ASSUME NEW t, Tree(t), NEW p
  PROVE  \E top :
           /\ top = [n \in DOMAIN t |-> IF Over(t, n, p) = {} THEN n
                                       ELSE top[CHOOSE o \in Over(t, n, p) : TRUE]]
           /\ \A m : Fs!Topmost(t, m, p) = top[m]
<1> DEFINE next(n) == CHOOSE o \in Over(t, n, p) : TRUE
           IsTop(f, D) == f = [n \in D |-> IF Over(t, n, p) = {} THEN n ELSE f[next(n)]]
<1>1. PICK N \in Nat : DOMAIN t \subseteq 0..N
  BY DEF Tree
<1>2. ASSUME NEW n \in DOMAIN t, Over(t, n, p) # {}
      PROVE  next(n) \in DOMAIN t /\ next(n) > n
  <2>1. next(n) \in Over(t, n, p)
    BY <1>2
  <2> HIDE DEF next
  <2> QED
    BY <2>1, TreeOrder DEF Over
<1> DEFINE G(j) == { n \in DOMAIN t : n > N - j }
           S == { j \in Nat : \E f : IsTop(f, G(j)) }
<1>3. 0 \in S
  <2>1. G(0) = {}
    BY <1>1
  <2> HIDE DEF G
  <2>2. IsTop([n \in G(0) |-> n], G(0))
    BY <2>1
  <2> HIDE DEF IsTop
  <2> QED
    BY <2>2
<1>4. ASSUME NEW j \in Nat, j \in S
      PROVE  j + 1 \in S
  <2>1. PICK f : IsTop(f, G(j))
    BY <1>4
  <2> DEFINE g == [n \in G(j + 1) |->
                     IF n \in G(j) THEN f[n]
                     ELSE IF Over(t, n, p) = {} THEN n ELSE f[next(n)]]
  <2>2. /\ G(j) \subseteq G(j + 1)
        /\ \A n \in G(j + 1) : Over(t, n, p) # {} => next(n) \in G(j)
    <3>1. G(j) \subseteq G(j + 1)
      BY <1>1
    <3>2. ASSUME NEW n \in G(j + 1), Over(t, n, p) # {}
          PROVE  next(n) \in G(j)
      <4>1. next(n) \in DOMAIN t /\ next(n) > n /\ n > N - (j + 1) /\ n \in DOMAIN t
        BY <1>2, <3>2
      <4> HIDE DEF next
      <4> QED
        BY <4>1, <1>1
    <3> QED
      BY <3>1, <3>2
  <2> HIDE DEF G, next
  <2>3. ASSUME NEW n \in G(j + 1)
        PROVE  g[n] = IF Over(t, n, p) = {} THEN n ELSE g[next(n)]
    <3>1. n \in G(j) => f[n] = IF Over(t, n, p) = {} THEN n ELSE f[next(n)]
      BY <2>1
    <3>2. Over(t, n, p) # {} => g[next(n)] = f[next(n)]
      BY <2>2
    <3> QED
      BY <3>1, <3>2
  <2>4. IsTop(g, G(j + 1))
    BY <2>3
  <2> HIDE DEF IsTop
  <2> QED
    BY <2>4
<1> HIDE DEF S
<1>5. N + 1 \in S
  BY <1>3, <1>4, Induction
<1>6. G(N + 1) = DOMAIN t
  BY <1>1
<1>7. PICK f : IsTop(f, DOMAIN t)
  BY <1>5, <1>6 DEF S
<1> HIDE DEF IsTop
<1> DEFINE top == CHOOSE f0 : IsTop(f0, DOMAIN t)
<1>8. IsTop(top, DOMAIN t)
  BY <1>7
<1>9. \A m : Fs!Topmost(t, m, p) = top[m]
  BY DEF Fs!Topmost, IsTop, next, Over
<1> HIDE DEF top
<1> QED
  BY <1>8, <1>9 DEF IsTop, next
\* A mount on the way to p above which only p itself is mounted: Topmost
\* climbs to the newest.
LEMMA TopmostIsNewest ==
  ASSUME NEW t, Tree(t), NEW p \in Fs!Path, NEW x \in DOMAIN t,
         Fs!IsPrefix(t[x].at, p),
         \A o \in DOMAIN t : o > x /\ Fs!IsPrefix(t[o].at, p) => t[o].at = p
  PROVE  Newest(t, p, Fs!Topmost(t, x, p))
<1>1. PICK top :
        /\ top = [n \in DOMAIN t |-> IF Over(t, n, p) = {} THEN n
                                    ELSE top[CHOOSE o \in Over(t, n, p) : TRUE]]
        /\ \A m : Fs!Topmost(t, m, p) = top[m]
  BY TopmostEquation
<1>2. PICK N \in Nat : DOMAIN t \subseteq 0..N
  BY DEF Tree
<1> DEFINE P(n) == /\ Fs!IsPrefix(t[n].at, p)
                   /\ \A o \in DOMAIN t : o > n /\ Fs!IsPrefix(t[o].at, p) => t[o].at = p
           bad == { n \in DOMAIN t : P(n) /\ ~Newest(t, p, top[n]) }
           B == { N - n : n \in bad }
<1>3. SUFFICES ASSUME x \in bad
               PROVE  FALSE
  BY <1>1
<1>4. B \subseteq Nat /\ B # {}
  BY <1>2, <1>3
<1> HIDE DEF B
<1>5. PICK b \in B : \A k \in B : b <= k
  BY <1>4, LeastNumber
<1>6. PICK n \in bad : b = N - n
  BY DEF B
<1>7. n \in DOMAIN t /\ P(n) /\ ~Newest(t, p, top[n]) /\ n \in Nat
  BY <1>2
<1>8. ASSUME NEW m \in DOMAIN t, m > n, P(m)
      PROVE  Newest(t, p, top[m])
  <2>1. SUFFICES ASSUME m \in bad
                 PROVE  FALSE
    BY <1>8
  <2>2. N - m \in B
    BY <2>1 DEF B
  <2> QED
    BY <2>2, <1>2, <1>5, <1>6, <1>7, <1>8
<1> HIDE DEF bad
<1> DEFINE later == { o \in DOMAIN t : o > n /\ Fs!IsPrefix(t[o].at, p) }
<1>9. \A o \in Over(t, n, p) : o \in later
  <2> TAKE o \in Over(t, n, p)
  <2>1. o \in DOMAIN t /\ t[o].on = n /\ t[o].at = p
    BY DEF Over
  <2> QED
    BY <2>1, <1>7, TreeOrder, PrefixOrder
<1>10. CASE later = {}
  <2>1. Over(t, n, p) = {}
    BY <1>9, <1>10
  <2>2. top[n] = n
    BY <2>1, <1>1, <1>7
  <2>3. \A o \in DOMAIN t : Fs!IsPrefix(t[o].at, p) => o <= n
    BY <1>10, <1>2, <1>7
  <2> QED
    BY <2>2, <2>3, <1>7 DEF Newest
<1>11. CASE later # {}
  <2>1. later \subseteq Nat
    BY <1>2
  <2>2. PICK y \in later : \A k \in later : y <= k
    BY <2>1, <1>11, LeastNumber
  <2>3. /\ y \in DOMAIN t /\ y > n /\ t[y].at = p /\ y \in Nat /\ y # 0
        /\ Fs!IsPrefix(t[y].at, p)
    BY <2>2, <1>2, <1>7
  <2>4. t[y].on = n
    <3>1. Fs!Hangs(t, y)
      BY <2>3 DEF Tree, Fs!RootMount
    <3>2. /\ t[y].on \in DOMAIN t /\ t[y].on < y /\ Fs!IsPrefix(t[t[y].on].at, p)
          /\ n <= t[y].on
      BY <3>1, <2>3, <1>7 DEF Fs!Hangs
    <3>3. t[y].on \notin later
      BY <3>2, <2>2, <2>3, <1>2
    <3> QED
      BY <3>2, <3>3, <1>2, <1>7
  <2>5. ASSUME NEW o \in Over(t, n, p)
        PROVE  o = y
    <3>1. o \in later /\ t[o].on = n /\ t[o].at = p /\ o >= y /\ o \in DOMAIN t
      BY <1>9, <2>2, <1>2 DEF Over
    <3>2. o # 0 /\ o \in Nat
      BY <3>1, <2>3, <1>2
    <3>3. Fs!Hangs(t, o)
      BY <3>1, <3>2 DEF Tree, Fs!RootMount
    <3>4. y < o => y <= n
      BY <3>1, <3>3, <2>3 DEF Fs!Hangs
    <3> QED
      BY <3>1, <3>2, <3>4, <2>3, <1>7
  <2>6. Over(t, n, p) = {y}
    BY <2>3, <2>4, <2>5 DEF Over
  <2>7. top[n] = top[y]
    <3>1. (CHOOSE o \in {y} : TRUE) = y
      OBVIOUS
    <3> QED
      BY <3>1, <2>6, <1>1, <1>7
  <2>8. P(y)
    BY <2>3, <1>7, <1>2
  <2>9. Newest(t, p, top[y])
    BY <2>3, <2>8, <1>8
  <2> QED
    BY <2>7, <2>9, <1>7
<1> QED
  BY <1>10, <1>11
\* The equation that defines Lookup has a solution.
LEMMA LookupEquation ==
  ASSUME NEW t, NEW q \in Fs!Path
  PROVE  \E into :
           /\ into = [k \in 0..Len(q) |->
                        IF k = 0 THEN Fs!Topmost(t, Fs!RootMount, <<>>)
                        ELSE Fs!Topmost(t, into[k - 1], SubSeq(q, 1, k))]
           /\ Fs!Lookup(t, q) = into[Len(q)]
<1> DEFINE first == Fs!Topmost(t, Fs!RootMount, <<>>)
           step(m, k) == Fs!Topmost(t, m, SubSeq(q, 1, k))
           IsInto(f, j) == f = [k \in 0..j |-> IF k = 0 THEN first ELSE step(f[k - 1], k)]
           S == { j \in Nat : \E f : IsInto(f, j) }
<1>1. Fs!Lookup(t, q) = (CHOOSE f : IsInto(f, Len(q)))[Len(q)]
  BY DEF Fs!Lookup
<1> HIDE DEF first, step
<1>2. 0 \in S
  <2>1. IsInto([k \in 0..0 |-> first], 0)
    OBVIOUS
  <2> HIDE DEF IsInto
  <2> QED
    BY <2>1
<1>3. ASSUME NEW j \in Nat, j \in S
      PROVE  j + 1 \in S
  <2>1. PICK f : IsInto(f, j)
    BY <1>3
  <2> DEFINE g == [k \in 0..(j + 1) |-> IF k <= j THEN f[k] ELSE step(f[j], k)]
  <2>2. ASSUME NEW k \in 0..(j + 1)
        PROVE  g[k] = IF k = 0 THEN first ELSE step(g[k - 1], k)
    <3>1. CASE k = 0
      BY <3>1, <2>1
    <3>2. CASE k \in 1..j
      <4>1. k \in 0..j /\ k - 1 \in 0..j /\ k <= j /\ k - 1 <= j /\ k # 0
            /\ k - 1 \in 0..(j + 1)
        BY <3>2
      <4>2. g[k] = f[k] /\ g[k - 1] = f[k - 1]
        BY <4>1
      <4>3. f[k] = step(f[k - 1], k)
        BY <4>1, <2>1
      <4> QED
        BY <4>1, <4>2, <4>3
    <3>3. CASE k = j + 1
      <4>1. g[k] = step(f[j], k) /\ g[j] = f[j] /\ k - 1 = j /\ k # 0
        BY <3>3
      <4> HIDE DEF g
      <4> QED
        BY <4>1
    <3> QED
      BY <3>1, <3>2, <3>3
  <2>3. IsInto(g, j + 1)
    BY <2>2
  <2> HIDE DEF IsInto
  <2> QED
    BY <2>3
<1> HIDE DEF S
<1>4. Len(q) \in Nat
  BY DEF Fs!Path
<1>5. Len(q) \in S
  BY <1>2, <1>3, <1>4, Induction
<1>6. PICK f : IsInto(f, Len(q))
  BY <1>5 DEF S
<1> HIDE DEF IsInto
<1>7. IsInto(CHOOSE g : IsInto(g, Len(q)), Len(q))
  BY <1>6
<1> QED
  BY <1>1, <1>7 DEF IsInto, first, step

\* A path leads into the newest mount on its way.
LEMMA LookupIsNewest ==
  ASSUME NEW t, Tree(t), NEW q \in Fs!Path
  PROVE  Newest(t, q, Fs!Lookup(t, q))
<1>1. PICK into :
        /\ into = [k \in 0..Len(q) |->
                     IF k = 0 THEN Fs!Topmost(t, Fs!RootMount, <<>>)
                     ELSE Fs!Topmost(t, into[k - 1], SubSeq(q, 1, k))]
        /\ Fs!Lookup(t, q) = into[Len(q)]
  BY LookupEquation
<1>2. /\ Len(q) \in Nat /\ <<>> \in Fs!Path
      /\ SubSeq(q, 1, 0) = <<>> /\ SubSeq(q, 1, Len(q)) = q
  BY DEF Fs!Path
<1>3. \A n \in DOMAIN t : t[n].at \in Fs!Path /\ n \in Nat
  BY TreeOrder DEF Tree
<1> DEFINE S == { k \in Nat : k <= Len(q) => Newest(t, SubSeq(q, 1, k), into[k]) }
<1>4. 0 \in S
  <2>1. Fs!RootMount \in DOMAIN t /\ t[Fs!RootMount].at = <<>>
    BY DEF Tree
  <2>2. \A o \in DOMAIN t : Fs!IsPrefix(t[o].at, <<>>) => t[o].at = <<>>
    BY <1>2, <1>3, PrefixOrder
  <2>3. Fs!IsPrefix(t[Fs!RootMount].at, <<>>)
    BY <1>2, <2>1, PrefixOrder
  <2>4. Newest(t, <<>>, Fs!Topmost(t, Fs!RootMount, <<>>))
    BY <1>2, <2>1, <2>2, <2>3, TopmostIsNewest
  <2>5. into[0] = Fs!Topmost(t, Fs!RootMount, <<>>)
    BY <1>1, <1>2
  <2> QED
    BY <1>2, <2>4, <2>5
<1>5. ASSUME NEW j \in Nat, j \in S
      PROVE  j + 1 \in S
  <2>1. SUFFICES ASSUME j + 1 <= Len(q)
                 PROVE  Newest(t, SubSeq(q, 1, j + 1), into[j + 1])
    OBVIOUS
  <2> DEFINE k == j + 1
             p == SubSeq(q, 1, k)
  <2>2. k \in 1..Len(q) /\ k - 1 = j /\ k \in 0..Len(q) /\ k # 0
    BY <2>1, <1>2
  <2>3. Newest(t, SubSeq(q, 1, j), into[j])
    BY <1>5, <2>1, <1>2
  <2>4. into[k] = Fs!Topmost(t, into[j], p)
    BY <1>1, <2>2
  <2> HIDE DEF k
  <2>5. p \in Fs!Path
    BY <2>2, <1>2, PrefixStep
  <2>6. \A a \in Fs!Path : Fs!IsPrefix(a, p) <=> Fs!IsPrefix(a, SubSeq(q, 1, j)) \/ a = p
    BY <2>2, PrefixStep
  <2> HIDE DEF p
  <2>7. into[j] \in DOMAIN t /\ Fs!IsPrefix(t[into[j]].at, p)
    BY <2>3, <2>6, <1>3 DEF Newest
  <2>8. ASSUME NEW o \in DOMAIN t, o > into[j], Fs!IsPrefix(t[o].at, p)
        PROVE  t[o].at = p
    <3>1. Fs!IsPrefix(t[o].at, SubSeq(q, 1, j)) => o <= into[j]
      BY <2>3 DEF Newest
    <3> QED
      BY <3>1, <2>6, <2>7, <2>8, <1>3
  <2>9. Newest(t, p, Fs!Topmost(t, into[j], p))
    BY <2>5, <2>7, <2>8, TopmostIsNewest
  <2> QED
    BY <2>4, <2>9 DEF k, p
<1> HIDE DEF S
<1>6. Len(q) \in S
  BY <1>2, <1>4, <1>5, Induction
<1>7. Newest(t, SubSeq(q, 1, Len(q)), into[Len(q)])
  BY <1>2, <1>6 DEF S
<1> QED
  BY <1>1, <1>2, <1>7

\* There is only one newest mount.
LEMMA NewestUnique ==
  ASSUME NEW t, Tree(t), NEW q, NEW m, Newest(t, q, m), NEW n, Newest(t, q, n)
  PROVE  m = n
<1>1. m \in Nat /\ n \in Nat /\ m <= n /\ n <= m
  BY TreeOrder DEF Newest
<1> QED
  BY <1>1

\* Where a path leads to is determined by that.
LEMMA LookupDetermined ==
  ASSUME NEW t, Tree(t), NEW q \in Fs!Path, NEW m, Newest(t, q, m)
  PROVE  Fs!Lookup(t, q) = m
BY LookupIsNewest, NewestUnique

-------------------------------------------------------------------------------
(* Mounts and unmounts                                                     *)

\* u is t with one more mount, x, at p.
Attached(t, x, p, dev, by, u) ==
  /\ DOMAIN u = DOMAIN t \cup {x}
  /\ \A k \in DOMAIN t : u[k] = t[k]
  /\ u[x] = [at |-> p, on |-> Fs!Lookup(t, p), dev |-> dev, by |-> by]
  /\ Tree(u)
  /\ \A q \in Fs!Path :
       Fs!Lookup(u, q) = IF Fs!IsPrefix(p, q) THEN x ELSE Fs!Lookup(t, q)

\* The next id is a number, and later than all others.
LEMMA FreshId ==
  ASSUME NEW t, Tree(t)
  PROVE  /\ Fs!Fresh(t) \in Nat /\ Fs!Fresh(t) # 0 /\ Fs!Fresh(t) \notin DOMAIN t
         /\ \A n \in DOMAIN t : n \in Nat /\ n < Fs!Fresh(t)
<1>1. PICK N \in Nat : DOMAIN t \subseteq 0..N
  BY DEF Tree
<1>2. DOMAIN t # {}
  BY DEF Tree
<1>3. \E m \in DOMAIN t : \A n \in DOMAIN t : m >= n
  <2>1. PICK m \in DOMAIN t : \A n \in DOMAIN t : n <= m
    BY <1>1, <1>2, GreatestNumber
  <2> QED
    BY <2>1, <1>1
<1>4. Fs!Max(DOMAIN t) \in DOMAIN t /\ \A n \in DOMAIN t : Fs!Max(DOMAIN t) >= n
  BY <1>3 DEF Fs!Max
<1> QED
  BY <1>1, <1>4 DEF Fs!Fresh

\* A mount keeps the others as they are and catches the paths below it.
LEMMA AttachedTable ==
  ASSUME NEW t, Tree(t), NEW x, x = Fs!Fresh(t),
         NEW p \in Fs!Path, NEW dev, NEW by, NEW u, u = Fs!Attach(t, p, dev, by)
  PROVE  Attached(t, x, p, dev, by, u)
<1> DEFINE m == [at |-> p, on |-> Fs!Lookup(t, p), dev |-> dev, by |-> by]
<1>1. x \in Nat /\ x # 0 /\ x \notin DOMAIN t /\ \A n \in DOMAIN t : n \in Nat /\ n < x
  BY FreshId
<1>2. u = [k \in DOMAIN t \cup {x} |-> IF k = x THEN m ELSE t[k]]
  BY DEF Fs!Attach
<1>3. /\ DOMAIN u = DOMAIN t \cup {x}
      /\ \A k \in DOMAIN t : u[k] = t[k]
      /\ u[x] = m
  BY <1>1, <1>2
<1>4. m.at = p /\ m.on = Fs!Lookup(t, p)
  OBVIOUS
<1> HIDE DEF m
<1>5. Newest(t, p, m.on)
  BY <1>4, LookupIsNewest
<1>6. Tree(u)
  <2>1. \E j \in Nat : DOMAIN u \subseteq 0..j
    <3>1. \A n \in DOMAIN u : n \in 0..x
      BY <1>1, <1>3
    <3> QED
      BY <3>1, <1>1
  <2>2. /\ Fs!RootMount \in DOMAIN u
        /\ u[Fs!RootMount].at = <<>> /\ u[Fs!RootMount].on = Fs!Nowhere
        /\ \A j \in DOMAIN u : u[j].at \in Fs!Path
    BY <1>3, <1>4 DEF Tree
  <2>3. ASSUME NEW j \in DOMAIN u \ {Fs!RootMount}
        PROVE  Fs!Hangs(u, j)
    <3>1. CASE j = x
      <4>1. u[j].at = p /\ u[j].on = m.on /\ m.on \in DOMAIN t /\ m.on < j
            /\ Fs!IsPrefix(t[m.on].at, p)
        BY <3>1, <1>1, <1>3, <1>4, <1>5 DEF Newest
      <4>2. \A o \in DOMAIN u : o < j /\ Fs!IsPrefix(u[o].at, p) => o <= m.on
        BY <3>1, <1>1, <1>3, <1>5 DEF Newest
      <4> QED
        BY <4>1, <4>2, <1>3 DEF Fs!Hangs
    <3>2. CASE j # x
      <4>1. j \in DOMAIN t \ {Fs!RootMount} /\ u[j] = t[j] /\ j < x
        BY <3>2, <1>1, <1>3
      <4>2. Fs!Hangs(t, j)
        BY <4>1 DEF Tree
      <4>3. \A o \in DOMAIN u : o < j => o \in DOMAIN t /\ u[o] = t[o]
        BY <4>1, <1>1, <1>3
      <4> QED
        BY <4>1, <4>2, <4>3, <1>3 DEF Fs!Hangs
    <3> QED
      BY <3>1, <3>2
  <2> QED
    BY <2>1, <2>2, <2>3 DEF Tree
<1>7. ASSUME NEW q \in Fs!Path
      PROVE  Fs!Lookup(u, q) = IF Fs!IsPrefix(p, q) THEN x ELSE Fs!Lookup(t, q)
  <2>1. CASE Fs!IsPrefix(p, q)
    <3>1. Newest(u, q, x)
      BY <2>1, <1>1, <1>3, <1>4 DEF Newest
    <3> QED
      BY <3>1, <2>1, <1>6, LookupDetermined
  <2>2. CASE ~Fs!IsPrefix(p, q)
    <3>1. Newest(t, q, Fs!Lookup(t, q))
      BY LookupIsNewest
    <3>2. Newest(u, q, Fs!Lookup(t, q))
      BY <3>1, <2>2, <1>3, <1>4 DEF Newest
    <3> QED
      BY <3>2, <2>2, <1>6, LookupDetermined
  <2> QED
    BY <2>1, <2>2
<1> QED
  BY <1>1, <1>3, <1>6, <1>7 DEF m, Attached

\* What can be mounted: one mount and those below it, with their paths from it.
WellBranch(br, top) ==
  /\ \E n \in Nat : DOMAIN br \subseteq 0..n
  /\ top \in DOMAIN br /\ br[top].at = <<>> /\ \A k \in DOMAIN br : top <= k
  /\ \A k \in DOMAIN br \ {top} :
       /\ br[k].at \in Fs!Path /\ br[k].at # <<>>
       /\ br[k].on \in DOMAIN br /\ br[k].on < k /\ Fs!IsPrefix(br[br[k].on].at, br[k].at)
       /\ \A j \in DOMAIN br : j < k /\ Fs!IsPrefix(br[j].at, br[k].at) => j <= br[k].on

\* u is t with a branch at p, whose own mount is x.
Grafted(t, x, p, u) ==
  /\ DOMAIN t \subseteq DOMAIN u /\ \A k \in DOMAIN t : u[k] = t[k]
  /\ Tree(u)
  /\ x \in DOMAIN u \ DOMAIN t
  /\ u[x].at = p /\ u[x].on = Fs!Lookup(t, p) /\ u[x].by = "unit"
  /\ \A n \in DOMAIN u \ DOMAIN t :
       /\ n >= x /\ \A k \in DOMAIN t : k < n
       /\ n # x => u[n].by = "copy" /\ Fs!IsStrictPrefix(p, u[n].at)
  /\ \A q \in Fs!Path :
       IF Fs!IsPrefix(p, q) THEN Fs!Lookup(u, q) \in DOMAIN u \ DOMAIN t
       ELSE Fs!Lookup(u, q) = Fs!Lookup(t, q)
  /\ Fs!Lookup(u, p) = x

\* A mount unit's mounts keep the others as they are and catch the paths below.
LEMMA GraftedTable ==
  ASSUME NEW t, Tree(t), NEW br, NEW top, WellBranch(br, top),
         NEW p \in Fs!Path, NEW u, u = Fs!Graft(t, br, p)
  PROVE  Grafted(t, Fs!Fresh(t) + top, p, u)
<1> DEFINE F == Fs!Fresh(t)
           N == { F + k : k \in DOMAIN br }
           m(k) == [ at  |-> p \o br[k].at,
                     on  |-> IF k = top THEN Fs!Lookup(t, p) ELSE F + br[k].on,
                     dev |-> br[k].dev,
                     by  |-> IF k = top THEN "unit" ELSE "copy" ]
<1>1. F \in Nat /\ F # 0 /\ \A n \in DOMAIN t : n \in Nat /\ n < F
  BY FreshId
<1>2. /\ top \in DOMAIN br /\ br[top].at = <<>> /\ <<>> \in Fs!Path
      /\ \A k \in DOMAIN br : k \in Nat /\ top <= k
  BY DEF WellBranch, Fs!Path
<1>3. Fs!Min(DOMAIN br) = top
  <2>1. \A k \in DOMAIN br : (\A j \in DOMAIN br : k <= j) => k = top
    BY <1>2
  <2> QED
    BY <2>1, <1>2 DEF Fs!Min
<1>4. u = [n \in DOMAIN t \cup N |-> IF n \in DOMAIN t THEN t[n] ELSE m(n - F)]
  BY <1>3 DEF Fs!Graft
<1> HIDE DEF F
<1>5. \A k \in DOMAIN br : F + k \in N /\ F + k \in Nat /\ F + k >= F /\ (F + k) - F = k
  BY <1>1, <1>2
<1>6. ASSUME NEW n \in N
      PROVE  \E k \in DOMAIN br : n = F + k
  OBVIOUS
<1> HIDE DEF N
<1>7. /\ DOMAIN u = DOMAIN t \cup N
      /\ \A n \in DOMAIN t : u[n] = t[n]
      /\ \A k \in DOMAIN br : u[F + k] = m(k)
  <2>1. DOMAIN u = DOMAIN t \cup N /\ \A n \in DOMAIN t : u[n] = t[n]
    BY <1>4
  <2>2. ASSUME NEW k \in DOMAIN br
        PROVE  u[F + k] = m(k)
    <3>1. F + k \in N /\ F + k \notin DOMAIN t /\ (F + k) - F = k
      BY <1>1, <1>5
    <3> HIDE DEF m
    <3> QED
      BY <3>1, <1>4
  <2> QED
    BY <2>1, <2>2
<1>8. ASSUME NEW k \in DOMAIN br
      PROVE  /\ u[F + k].at = p \o br[k].at /\ br[k].at \in Fs!Path
             /\ u[F + k].on = IF k = top THEN Fs!Lookup(t, p) ELSE F + br[k].on
             /\ u[F + k].by = IF k = top THEN "unit" ELSE "copy"
  <2>1. br[k].at \in Fs!Path
    <3>1. k # top => br[k].at \in Fs!Path
      BY DEF WellBranch
    <3> QED
      BY <3>1, <1>2
  <2>2. u[F + k] = m(k)
    BY <1>7
  <2> QED
    BY <2>1, <2>2
<1> HIDE DEF m
<1>9. ASSUME NEW k \in DOMAIN br
      PROVE  /\ u[F + k].at \in Fs!Path /\ Fs!IsPrefix(p, u[F + k].at)
             /\ k # top => Fs!IsStrictPrefix(p, u[F + k].at) /\ ~Fs!IsPrefix(u[F + k].at, p)
  <2>1. br[k].at \in Fs!Path /\ u[F + k].at = p \o br[k].at
    BY <1>8
  <2>2. k # top => br[k].at # <<>>
    BY DEF WellBranch
  <2>3. /\ p \o br[k].at \in Fs!Path /\ Fs!IsPrefix(p, p \o br[k].at)
        /\ Fs!IsPrefix(p \o br[k].at, p) => br[k].at = <<>>
    BY <2>1, PathConcat
  <2>4. Fs!IsPrefix(p, p)
    BY PrefixOrder
  <2> QED
    BY <2>1, <2>2, <2>3, <2>4 DEF Fs!IsStrictPrefix
<1>10. u[F + top].at = p
  BY <1>2, <1>8, PathConcat
<1>11. Newest(t, p, Fs!Lookup(t, p))
  BY LookupIsNewest
<1>12. ASSUME NEW j \in DOMAIN br, NEW k \in DOMAIN br
       PROVE  Fs!IsPrefix(u[F + j].at, u[F + k].at) <=> Fs!IsPrefix(br[j].at, br[k].at)
  <2>1. br[j].at \in Fs!Path /\ br[k].at \in Fs!Path
    BY <1>8
  <2>2. Fs!IsPrefix(p \o br[j].at, p \o br[k].at) <=> Fs!IsPrefix(br[j].at, br[k].at)
    BY <2>1, PathConcat
  <2> QED
    BY <2>2, <1>8
<1>13. Tree(u)
  <2>1. \E j \in Nat : DOMAIN u \subseteq 0..j
    <3>1. PICK b \in Nat : DOMAIN br \subseteq 0..b
      BY DEF WellBranch
    <3>2. \A n \in DOMAIN u : n \in 0..(F + b)
      BY <3>1, <1>1, <1>6, <1>7
    <3>3. F + b \in Nat
      BY <1>1
    <3> QED
      BY <3>2, <3>3
  <2>2. /\ Fs!RootMount \in DOMAIN u
        /\ u[Fs!RootMount].at = <<>> /\ u[Fs!RootMount].on = Fs!Nowhere
    BY <1>7 DEF Tree
  <2>3. \A n \in DOMAIN u : u[n].at \in Fs!Path
    BY <1>6, <1>7, <1>9 DEF Tree
  <2>4. ASSUME NEW n \in DOMAIN u \ {Fs!RootMount}
        PROVE  Fs!Hangs(u, n)
    <3>1. CASE n \in DOMAIN t
      <4>1. Fs!Hangs(t, n) /\ u[n] = t[n]
        BY <3>1, <1>7 DEF Tree
      <4>2. \A o \in DOMAIN u : o < n => o \in DOMAIN t /\ u[o] = t[o]
        BY <3>1, <1>1, <1>5, <1>6, <1>7
      <4> QED
        BY <4>1, <4>2, <1>7 DEF Fs!Hangs
    <3>2. CASE n = F + top
      <4>1. /\ u[n].on = Fs!Lookup(t, p) /\ u[n].at = p
            /\ Fs!Lookup(t, p) \in DOMAIN t /\ Fs!Lookup(t, p) < n
            /\ Fs!IsPrefix(t[Fs!Lookup(t, p)].at, p)
        BY <3>2, <1>1, <1>2, <1>8, <1>10, <1>11 DEF Newest
      <4>2. ASSUME NEW o \in DOMAIN u, o < n, Fs!IsPrefix(u[o].at, p)
            PROVE  o <= Fs!Lookup(t, p)
        <5>1. o \notin N
          BY <4>2, <3>2, <1>1, <1>2, <1>6
        <5> QED
          BY <5>1, <4>2, <1>7, <1>11 DEF Newest
      <4> QED
        BY <4>1, <4>2, <1>7 DEF Fs!Hangs
    <3>3. CASE n \in N /\ n # F + top
      <4>1. PICK k \in DOMAIN br : n = F + k /\ k # top
        BY <3>3, <1>6
      <4>2. /\ br[k].on \in DOMAIN br /\ br[k].on < k
            /\ Fs!IsPrefix(br[br[k].on].at, br[k].at)
            /\ \A j \in DOMAIN br : j < k /\ Fs!IsPrefix(br[j].at, br[k].at) => j <= br[k].on
        BY <4>1 DEF WellBranch
      <4> DEFINE o == br[k].on
      <4>3. u[n].on = F + o /\ F + o \in DOMAIN u /\ F + o < n
        BY <4>1, <4>2, <1>1, <1>2, <1>5, <1>7, <1>8
      <4>4. Fs!IsPrefix(u[F + o].at, u[n].at)
        BY <4>1, <4>2, <1>12
      <4>5. ASSUME NEW j \in DOMAIN u, j < n, Fs!IsPrefix(u[j].at, u[n].at)
            PROVE  j <= F + o
        <5>1. CASE j \in DOMAIN t
          BY <5>1, <4>2, <1>1, <1>2
        <5>2. CASE j \in N
          <6>1. PICK i \in DOMAIN br : j = F + i
            BY <5>2, <1>6
          <6>2. i < k
            BY <6>1, <4>1, <4>5, <1>1, <1>2
          <6>3. Fs!IsPrefix(br[i].at, br[k].at)
            BY <6>1, <4>1, <4>5, <1>12
          <6>4. i <= o
            BY <6>2, <6>3, <4>2
          <6> QED
            BY <6>1, <6>4, <4>2, <1>1, <1>2
        <5> QED
          BY <5>1, <5>2, <1>7
      <4> QED
        BY <4>3, <4>4, <4>5 DEF Fs!Hangs
    <3> QED
      BY <3>1, <3>2, <3>3, <1>7
  <2> QED
    BY <2>1, <2>2, <2>3, <2>4 DEF Tree
<1>14. /\ F + top \in DOMAIN u \ DOMAIN t
       /\ u[F + top].at = p /\ u[F + top].on = Fs!Lookup(t, p) /\ u[F + top].by = "unit"
  BY <1>1, <1>2, <1>5, <1>7, <1>8, <1>10
<1>15. ASSUME NEW n \in DOMAIN u \ DOMAIN t
       PROVE  /\ n >= F + top /\ \A k \in DOMAIN t : k < n
              /\ n # F + top => u[n].by = "copy" /\ Fs!IsStrictPrefix(p, u[n].at)
              /\ Fs!IsPrefix(p, u[n].at) /\ u[n].at \in Fs!Path
              /\ n # F + top => ~Fs!IsPrefix(u[n].at, p)
  <2>1. PICK k \in DOMAIN br : n = F + k
    BY <1>6, <1>7
  <2>2. k \in Nat /\ top \in Nat /\ top <= k
    BY <1>2
  <2>3. n >= F + top /\ \A j \in DOMAIN t : j < n
    BY <2>1, <2>2, <1>1
  <2>4. n # F + top => k # top
    BY <2>1
  <2> QED
    BY <2>1, <2>3, <2>4, <1>8, <1>9
<1>16. ASSUME NEW q \in Fs!Path
       PROVE  IF Fs!IsPrefix(p, q) THEN Fs!Lookup(u, q) \in DOMAIN u \ DOMAIN t
              ELSE Fs!Lookup(u, q) = Fs!Lookup(t, q)
  <2>1. CASE Fs!IsPrefix(p, q)
    <3>1. Newest(u, q, Fs!Lookup(u, q))
      BY <1>13, LookupIsNewest
    <3>2. Fs!Lookup(u, q) \in DOMAIN u /\ F + top <= Fs!Lookup(u, q)
      BY <3>1, <2>1, <1>14 DEF Newest
    <3>3. Fs!Lookup(u, q) \notin DOMAIN t
      BY <3>2, <1>1, <1>2
    <3> QED
      BY <3>2, <3>3, <2>1
  <2>2. CASE ~Fs!IsPrefix(p, q)
    <3>1. Newest(t, q, Fs!Lookup(t, q))
      BY LookupIsNewest
    <3>2. ASSUME NEW n \in DOMAIN u, Fs!IsPrefix(u[n].at, q)
          PROVE  n \in DOMAIN t
      BY <3>2, <2>2, <1>15, PrefixOrder
    <3>3. Newest(u, q, Fs!Lookup(t, q))
      BY <3>1, <3>2, <1>7 DEF Newest
    <3> QED
      BY <3>3, <2>2, <1>13, LookupDetermined
  <2> QED
    BY <2>1, <2>2
<1>17. Fs!Lookup(u, p) = F + top
  <2>1. ASSUME NEW n \in DOMAIN u, Fs!IsPrefix(u[n].at, p)
        PROVE  n <= F + top
    <3>1. CASE n \in DOMAIN t
      BY <3>1, <1>1, <1>2
    <3>2. CASE n \notin DOMAIN t
      <4>1. n = F + top
        BY <3>2, <2>1, <1>15
      <4> QED
        BY <4>1, <1>1, <1>2
    <3> QED
      BY <3>1, <3>2
  <2>2. Fs!IsPrefix(p, p)
    BY PrefixOrder
  <2>3. Newest(u, p, F + top)
    BY <2>1, <2>2, <1>14 DEF Newest
  <2> QED
    BY <2>3, <1>13, LookupDetermined
<1> QED
  BY <1>7, <1>13, <1>14, <1>15, <1>16, <1>17 DEF F, Grafted

\* A file system of its own is such a branch,
LEMMA SingleBranch ==
  ASSUME NEW dev
  PROVE  WellBranch(Fs!Single(dev), Fs!RootMount)
<1>1. /\ DOMAIN Fs!Single(dev) = {0} /\ Fs!RootMount = 0
      /\ Fs!Single(dev)[0].at = <<>>
  BY DEF Fs!Single, Fs!RootMount
<1>2. {0} \subseteq 0..0
  OBVIOUS
<1> QED
  BY <1>1, <1>2 DEF WellBranch

\* and so are what a path leads into and the mounts below it.
LEMMA PathBranch ==
  ASSUME NEW t, Tree(t), NEW p \in Fs!Path, NEW ns, ns = {} \/ ns = Fs!Below(t, p)
  PROVE  WellBranch(Fs!Branch(t, p, ns), Fs!Lookup(t, p))
<1> DEFINE m == Fs!Lookup(t, p)
           br == Fs!Branch(t, p, ns)
           rest(n) == SubSeq(t[n].at, Len(p) + 1, Len(t[n].at))
           entry(n) == [ at |-> IF n \in ns THEN rest(n) ELSE <<>>,
                         on |-> t[n].on, dev |-> t[n].dev ]
<1>1. br = [n \in {m} \cup ns |-> entry(n)]
  BY DEF Fs!Branch
<1> HIDE DEF br
<1>2. /\ DOMAIN br = {m} \cup ns
      /\ \A n \in DOMAIN br : br[n].on = t[n].on
      /\ \A n \in DOMAIN br : br[n].at = IF n \in ns THEN rest(n) ELSE <<>>
  BY <1>1
<1>3. Newest(t, p, m)
  BY LookupIsNewest
<1>4. \A n \in ns : n \in DOMAIN t /\ n > m /\ Fs!IsPrefix(p, t[n].at)
  BY DEF Fs!Below
<1>5. ns # {} => ns = Fs!Below(t, p)
  OBVIOUS
<1> HIDE DEF m
<1>6. m \in DOMAIN t /\ m \notin ns /\ \A n \in DOMAIN t : n \in Nat /\ t[n].at \in Fs!Path
  BY <1>3, <1>4, TreeOrder DEF Newest, Tree
<1>7. ASSUME NEW n \in ns
      PROVE  rest(n) \in Fs!Path /\ t[n].at = p \o rest(n) /\ t[n].at # p
  <2>1. t[n].at \in Fs!Path /\ Fs!IsPrefix(p, t[n].at)
    BY <1>4, <1>6
  <2>2. rest(n) \in Fs!Path /\ t[n].at = p \o rest(n)
    BY <2>1, PathRest
  <2>3. t[n].at # p
    <3> SUFFICES ASSUME t[n].at = p
                 PROVE  FALSE
      OBVIOUS
    <3>1. n <= m
      BY <2>1, <1>3, <1>4 DEF Newest
    <3> QED
      BY <3>1, <1>4, <1>6
  <2> QED
    BY <2>2, <2>3
<1> HIDE DEF rest, entry
<1>8. <<>> \in Fs!Path /\ \A n \in DOMAIN br : br[n].at \in Fs!Path
  <2>1. <<>> \in Fs!Path
    BY DEF Fs!Path
  <2> QED
    BY <2>1, <1>2, <1>7
<1>9. ASSUME NEW k \in ns
      PROVE  /\ br[k].at \in Fs!Path /\ br[k].at # <<>>
             /\ br[k].on \in DOMAIN br /\ br[k].on < k
             /\ Fs!IsPrefix(br[br[k].on].at, br[k].at)
             /\ \A j \in DOMAIN br : j < k /\ Fs!IsPrefix(br[j].at, br[k].at) => j <= br[k].on
  <2> DEFINE o == t[k].on
  <2>1. br[k].at = rest(k) /\ br[k].on = o /\ k \in DOMAIN t /\ k > m /\ k # 0
    BY <1>2, <1>4, <1>6
  <2>2. br[k].at # <<>>
    BY <2>1, <1>7, PathConcat
  <2>3. Fs!Hangs(t, k)
    BY <2>1 DEF Tree, Fs!RootMount
  <2>4. /\ o \in DOMAIN t /\ o < k /\ Fs!IsPrefix(t[o].at, t[k].at)
        /\ \A j \in DOMAIN t : j < k /\ Fs!IsPrefix(t[j].at, t[k].at) => j <= o
    BY <2>3 DEF Fs!Hangs
  <2> HIDE DEF o
  <2>5. Fs!IsPrefix(t[m].at, p) /\ Fs!IsPrefix(p, t[k].at)
    BY <1>3, <1>4 DEF Newest
  <2>6. Fs!IsPrefix(t[m].at, t[k].at)
    BY <2>1, <2>5, <1>6, PrefixOrder
  <2>7. m <= o
    BY <2>1, <2>4, <2>6, <1>6
  <2>8. o # m => o \in ns
    <3> SUFFICES ASSUME o # m
                 PROVE  o \in ns
      OBVIOUS
    <3>1. o > m
      BY <2>4, <2>7, <1>6
    <3>2. ~Fs!IsPrefix(t[o].at, p)
      BY <3>1, <2>4, <1>3, <1>6 DEF Newest
    <3>3. Fs!IsPrefix(p, t[o].at)
      BY <3>2, <2>1, <2>4, <2>5, <1>6, PrefixOrder
    <3> QED
      BY <3>1, <3>3, <2>4, <1>5 DEF Fs!Below, m
  <2>9. o \in DOMAIN br
    BY <2>8, <1>2
  <2>10. Fs!IsPrefix(br[o].at, br[k].at)
    <3>1. CASE o = m
      <4>1. br[o].at = <<>>
        BY <3>1, <1>2, <1>6
      <4> QED
        BY <4>1, <2>1, <1>7, PrefixOrder
    <3>2. CASE o \in ns
      <4>1. br[o].at = rest(o) /\ rest(o) \in Fs!Path /\ rest(k) \in Fs!Path
        BY <3>2, <1>2, <1>7
      <4>2. Fs!IsPrefix(p \o rest(o), p \o rest(k))
        BY <3>2, <2>4, <1>7
      <4>3. Fs!IsPrefix(rest(o), rest(k))
        BY <4>1, <4>2, PathConcat
      <4> QED
        BY <4>1, <4>3, <2>1
    <3> QED
      BY <3>1, <3>2, <2>8
  <2>11. ASSUME NEW j \in DOMAIN br, j < k, Fs!IsPrefix(br[j].at, br[k].at)
         PROVE  j <= o
    <3>1. CASE j = m
      BY <3>1, <2>7
    <3>2. CASE j \in ns
      <4>1. br[j].at = rest(j) /\ rest(j) \in Fs!Path /\ rest(k) \in Fs!Path
        BY <3>2, <1>2, <1>7
      <4>2. Fs!IsPrefix(p \o rest(j), p \o rest(k))
        BY <4>1, <2>1, <2>11, PathConcat
      <4>3. Fs!IsPrefix(t[j].at, t[k].at)
        BY <4>2, <3>2, <1>7
      <4> QED
        BY <4>3, <3>2, <2>4, <2>11, <1>4
    <3> QED
      BY <3>1, <3>2, <1>2
  <2> QED
    BY <2>1, <2>2, <2>4, <2>9, <2>10, <2>11, <1>7
<1>10. br[m].at = <<>>
  BY <1>2, <1>6
<1>11. \A k \in DOMAIN br : m <= k
  BY <1>2, <1>4, <1>6
<1>12. \E b \in Nat : DOMAIN br \subseteq 0..b
  BY <1>2, <1>4, <1>6 DEF Tree
<1> QED
  BY <1>2, <1>9, <1>10, <1>11, <1>12 DEF WellBranch, br, m

\* u is t without the mount at p and the newer ones below p.
Detached(t, p, u) ==
  /\ DOMAIN u = { n \in DOMAIN t : ~(n >= Fs!Lookup(t, p) /\ Fs!IsPrefix(p, t[n].at)) }
  /\ \A n \in DOMAIN u : u[n] = t[n]
  /\ Tree(u)
  /\ \A q \in Fs!Path : ~Fs!IsPrefix(p, q) => Fs!Lookup(u, q) = Fs!Lookup(t, q)

\* Detaching the mount at p takes the newer mounts below p along: those are
\* the ones that hang on it.
LEMMA DetachedTable ==
  ASSUME NEW t, Tree(t), NEW p \in Fs!Path, p # <<>>, Fs!IsMountPoint(t, p),
         NEW u, u = Fs!Detach(t, Fs!Lookup(t, p))
  PROVE  Detached(t, p, u)
<1> DEFINE m == Fs!Lookup(t, p)
           D == DOMAIN t \cup {Fs!Nowhere}
           Below(n) == n \in DOMAIN t /\ n >= m /\ Fs!IsPrefix(p, t[n].at)
           IsOn(f) == f = [n \in D |-> n = m \/ (n > Fs!RootMount /\ f[t[n].on])]
           on == CHOOSE f : IsOn(f)
<1>1. u = [n \in { n \in DOMAIN t : ~on[n] } |-> t[n]]
  BY DEF Fs!Detach
<1>2. Newest(t, p, m) /\ t[m].at = p
  BY LookupIsNewest DEF Fs!IsMountPoint
<1> HIDE DEF m
<1>3. /\ m \in DOMAIN t /\ m \in Nat /\ m # 0 /\ Fs!RootMount = 0 /\ Fs!Nowhere = -1
      /\ \A n \in DOMAIN t : n \in Nat /\ t[n].at \in Fs!Path
  BY <1>2, TreeOrder DEF Newest, Tree, Fs!RootMount, Fs!Nowhere
\* Below is what the equation asks for.
<1>4. ASSUME NEW n \in DOMAIN t, n # 0
      PROVE  t[n].on \in DOMAIN t /\ t[n].on < n /\ (Below(n) <=> n = m \/ Below(t[n].on))
  <2> DEFINE o == t[n].on
  <2>1. Fs!Hangs(t, n)
    BY <1>4 DEF Tree, Fs!RootMount
  <2>2. /\ o \in DOMAIN t /\ o < n /\ Fs!IsPrefix(t[o].at, t[n].at)
        /\ \A k \in DOMAIN t : k < n /\ Fs!IsPrefix(t[k].at, t[n].at) => k <= o
    BY <2>1 DEF Fs!Hangs
  <2> HIDE DEF o
  <2>3. Fs!IsPrefix(p, p)
    BY PrefixOrder
  <2>4. n = m => Below(n)
    BY <2>3, <1>2, <1>3
  <2>5. Below(o) => Below(n)
    BY <2>2, <1>3, PrefixOrder
  <2>6. ASSUME Below(n), n # m
        PROVE  Below(o)
    <3>1. m < n /\ Fs!IsPrefix(p, t[n].at) /\ m <= o
      BY <2>6, <2>2, <1>2, <1>3
    <3>2. CASE Fs!IsPrefix(p, t[o].at)
      BY <3>1, <3>2, <2>2, <1>3
    <3>3. CASE Fs!IsPrefix(t[o].at, p)
      <4>1. o = m
        BY <3>1, <3>3, <2>2, <1>2, <1>3 DEF Newest
      <4> QED
        BY <4>1, <2>3, <1>2, <1>3
    <3> QED
      BY <3>1, <3>2, <3>3, <2>2, <1>3, PrefixOrder
  <2> QED
    BY <2>2, <2>4, <2>5, <2>6 DEF o
<1>5. \E f : IsOn(f)
  <2> DEFINE g == [n \in D |-> Below(n)]
  <2>1. ASSUME NEW n \in D
        PROVE  g[n] = (n = m \/ (n > Fs!RootMount /\ g[t[n].on]))
    <3>1. CASE n \in DOMAIN t /\ n # 0
      <4>1. t[n].on \in D /\ n > 0
        BY <3>1, <1>3, <1>4
      <4>2. g[t[n].on] = Below(t[n].on) /\ g[n] = Below(n)
        BY <4>1
      <4>3. Below(n) <=> n = m \/ Below(t[n].on)
        BY <3>1, <1>4
      <4>4. n > Fs!RootMount
        BY <4>1, <1>3
      <4>5. Below(n) = (n = m \/ Below(t[n].on))
        BY <4>3
      <4> HIDE DEF Below, g
      <4>6. (n > Fs!RootMount /\ Below(t[n].on)) = Below(t[n].on)
        BY <4>4 DEF Below
      <4> QED
        BY <4>2, <4>5, <4>6
    <3>2. CASE n = 0
      BY <3>2, <1>3
    <3>3. CASE n = -1
      BY <3>3, <1>3
    <3> QED
      BY <3>1, <3>2, <3>3, <1>3
  <2> HIDE DEF Below
  <2>2. IsOn(g)
    BY <2>1
  <2> HIDE DEF IsOn, g
  <2> QED
    BY <2>2
<1> HIDE DEF IsOn
<1>6. IsOn(on)
  BY <1>5
<1> HIDE DEF on
\* No other function does.
<1>7. ASSUME NEW n \in DOMAIN t
      PROVE  on[n] <=> Below(n)
  <2> DEFINE bad == { k \in DOMAIN t : ~(on[k] <=> Below(k)) }
  <2> SUFFICES ASSUME bad # {}
               PROVE  FALSE
    OBVIOUS
  <2>1. PICK k \in bad : \A j \in bad : k <= j
    BY <1>3, LeastNumber
  <2>2. k \in DOMAIN t /\ ~(on[k] <=> Below(k)) /\ k \in Nat
    BY <1>3
  <2>3. on[k] <=> k = m \/ (k > 0 /\ on[t[k].on])
    BY <2>2, <1>3, <1>6 DEF IsOn
  <2>4. k # 0
    BY <2>2, <2>3, <1>3
  <2>5. t[k].on \in DOMAIN t /\ t[k].on < k /\ (Below(k) <=> k = m \/ Below(t[k].on))
    BY <2>2, <2>4, <1>4
  <2> HIDE DEF Below
  <2>6. t[k].on \notin bad
    BY <2>1, <2>2, <2>5, <1>3
  <2>7. on[t[k].on] <=> Below(t[k].on)
    BY <2>5, <2>6
  <2> QED
    BY <2>2, <2>3, <2>4, <2>5, <2>7
<1>8. /\ DOMAIN u = { n \in DOMAIN t : ~(n >= m /\ Fs!IsPrefix(p, t[n].at)) }
      /\ \A n \in DOMAIN u : u[n] = t[n]
  BY <1>1, <1>7
<1>9. Tree(u)
  <2>1. 0 \in DOMAIN u
    BY <1>3, <1>8 DEF Tree
  <2>2. \E j \in Nat : DOMAIN u \subseteq 0..j
    BY <1>8 DEF Tree
  <2>3. ASSUME NEW n \in DOMAIN u \ {Fs!RootMount}
        PROVE  Fs!Hangs(u, n)
    <3>1. n \in DOMAIN t /\ n # 0 /\ ~Below(n) /\ Fs!Hangs(t, n) /\ u[n] = t[n]
      BY <1>3, <1>8 DEF Tree
    <3>2. t[n].on \in DOMAIN t /\ ~Below(t[n].on)
      BY <3>1, <1>4
    <3>3. t[n].on \in DOMAIN u /\ u[t[n].on] = t[t[n].on]
      BY <3>2, <1>8
    <3>4. \A k \in DOMAIN u : k \in DOMAIN t /\ u[k] = t[k]
      BY <1>8
    <3> HIDE DEF Below
    <3> QED
      BY <3>1, <3>2, <3>3, <3>4 DEF Fs!Hangs
  <2>4. \A n \in DOMAIN u : u[n].at \in Fs!Path
    BY <1>3, <1>8
  <2>5. u[Fs!RootMount].at = <<>> /\ u[Fs!RootMount].on = Fs!Nowhere
    BY <2>1, <1>3, <1>8 DEF Tree
  <2> QED
    BY <2>1, <2>2, <2>3, <2>4, <2>5, <1>3 DEF Tree
<1>10. ASSUME NEW q \in Fs!Path, ~Fs!IsPrefix(p, q)
       PROVE  Fs!Lookup(u, q) = Fs!Lookup(t, q)
  <2>1. Newest(t, q, Fs!Lookup(t, q))
    BY LookupIsNewest
  <2>2. ASSUME NEW n \in DOMAIN t, Fs!IsPrefix(t[n].at, q)
        PROVE  n \in DOMAIN u
    BY <2>2, <1>3, <1>8, <1>10, PrefixOrder
  <2>3. Newest(u, q, Fs!Lookup(t, q))
    BY <2>1, <2>2, <1>8 DEF Newest
  <2> QED
    BY <2>3, <1>9, LookupDetermined
<1> QED
  BY <1>8, <1>9, <1>10 DEF m, Detached

-------------------------------------------------------------------------------
(* The table of the early mounts                                           *)

Entries == 1..Len(Fs!kEarlyMounts)
Target(k) == Fs!kEarlyMounts[k].target
Device(k) == Fs!DeviceOf(Fs!kEarlyMounts[k].fstype, Target(k), "early")

\* A directory is mounted before the ones below it, which are on other file
\* systems.
LEMMA EarlyTargets ==
  /\ Entries = 1..8
  /\ \A k \in Entries : Target(k) \in Seq(Name) \ {<<>>} /\ Target(k) \in Fs!Path
  /\ \A j, k \in Entries :
       /\ j < k => ~Fs!IsPrefix(Target(k), Target(j))
       /\ Fs!IsStrictPrefix(Target(j), Target(k)) => Device(j) # Device(k)
<1> DEFINE type(k) == Fs!kEarlyMounts[k].fstype
<1>1. Entries = 1..8
  BY DEF Entries, Fs!kEarlyMounts
<1>0. \A k \in Entries : Target(k) \in Seq(Name) /\ Target(k) \in Fs!Path
  BY MountAssumption, NamePaths DEF Entries, Target
<1>2. /\ Len(Target(1)) = 1 /\ type(1) = "proc" /\ Target(1)[1] = "proc"
      /\ Len(Target(2)) = 1 /\ type(2) = "sysfs" /\ Target(2)[1] = "sys"
      /\ Len(Target(3)) = 1 /\ type(3) = "devtmpfs" /\ Target(3)[1] = "dev"
      /\ Len(Target(4)) = 2 /\ type(4) = "tmpfs" /\ Target(4)[1] = "dev" /\ Target(4)[2] = "shm"
      /\ Len(Target(5)) = 2 /\ type(5) = "devpts" /\ Target(5)[1] = "dev" /\ Target(5)[2] = "pts"
      /\ Len(Target(6)) = 1 /\ type(6) = "tmpfs" /\ Target(6)[1] = "run"
      /\ Len(Target(7)) = 3 /\ type(7) = "cgroup2" /\ Target(7)[1] = "sys" /\ Target(7)[2] = "fs"
      /\ Len(Target(8)) = 1 /\ type(8) = "tmpfs" /\ Target(8)[1] = "tmp"
  <2>1. Target(1) = <<"proc">> /\ type(1) = "proc"
    BY DEF Target, Fs!kEarlyMounts
  <2>2. Target(2) = <<"sys">> /\ type(2) = "sysfs"
    BY DEF Target, Fs!kEarlyMounts
  <2>3. Target(3) = <<"dev">> /\ type(3) = "devtmpfs"
    BY DEF Target, Fs!kEarlyMounts
  <2>4. Target(4) = <<"dev", "shm">> /\ type(4) = "tmpfs"
    BY DEF Target, Fs!kEarlyMounts
  <2>5. Target(5) = <<"dev", "pts">> /\ type(5) = "devpts"
    BY DEF Target, Fs!kEarlyMounts
  <2>6. Target(6) = <<"run">> /\ type(6) = "tmpfs"
    BY DEF Target, Fs!kEarlyMounts
  <2>7. Target(7) = <<"sys", "fs", "cgroup">> /\ type(7) = "cgroup2"
    BY DEF Target, Fs!kEarlyMounts
  <2>8. Target(8) = <<"tmp">> /\ type(8) = "tmpfs"
    BY DEF Target, Fs!kEarlyMounts
  <2> HIDE DEF type
  <2>9. Len(Target(1)) = 1 /\ Target(1)[1] = "proc"
    BY <2>1
  <2>10. Len(Target(2)) = 1 /\ Target(2)[1] = "sys"
    BY <2>2
  <2>11. Len(Target(3)) = 1 /\ Target(3)[1] = "dev"
    BY <2>3
  <2>12. Len(Target(4)) = 2 /\ Target(4)[1] = "dev" /\ Target(4)[2] = "shm"
    BY <2>4
  <2>13. Len(Target(5)) = 2 /\ Target(5)[1] = "dev" /\ Target(5)[2] = "pts"
    BY <2>5
  <2>14. Len(Target(6)) = 1 /\ Target(6)[1] = "run"
    BY <2>6
  <2>15. Len(Target(7)) = 3 /\ Target(7)[1] = "sys" /\ Target(7)[2] = "fs"
    BY <2>7
  <2>16. Len(Target(8)) = 1 /\ Target(8)[1] = "tmp"
    BY <2>8
  <2> QED
    BY <2>1, <2>2, <2>3, <2>4, <2>5, <2>6, <2>7, <2>8, <2>9, <2>10, <2>11, <2>12, <2>13, <2>14, <2>15, <2>16, <1>1
<1> HIDE DEF type
<1>3. ASSUME NEW j \in Entries, NEW k \in Entries, Fs!IsPrefix(Target(j), Target(k))
      PROVE  /\ Len(Target(j)) <= Len(Target(k)) /\ Target(j)[1] = Target(k)[1]
             /\ Len(Target(j)) > 1 => Target(j)[2] = Target(k)[2]
  <2>1. /\ Len(Target(j)) <= Len(Target(k))
        /\ \A i \in 1..Len(Target(j)) : Target(j)[i] = Target(k)[i]
    BY <1>0, <1>3, PrefixComponents
  <2>2. Len(Target(j)) \in Nat /\ Len(Target(j)) >= 1
    BY <1>1, <1>2
  <2>3. 1 \in 1..Len(Target(j)) /\ (Len(Target(j)) > 1 => 2 \in 1..Len(Target(j)))
    BY <2>2
  <2> QED
    BY <2>1, <2>3
<1>4. ASSUME NEW k \in Entries
      PROVE  Device(k)[1] = type(k)
  BY DEF Device, Fs!DeviceOf, type
<1>5. ASSUME NEW j \in Entries, NEW k \in Entries, j < k
      PROVE  ~Fs!IsPrefix(Target(k), Target(j))
  BY <1>1, <1>2, <1>3, <1>5, SMTT(40)
<1>6. ASSUME NEW j \in Entries, NEW k \in Entries,
             Fs!IsStrictPrefix(Target(j), Target(k))
      PROVE  Device(j) # Device(k)
  <2>1. Fs!IsPrefix(Target(j), Target(k)) /\ j # k
    BY <1>6 DEF Fs!IsStrictPrefix
  <2>2. type(j) # type(k)
    BY <2>1, <1>1, <1>2, <1>3
  <2> QED
    BY <2>2, <1>4
<1>7. ASSUME NEW k \in Entries
      PROVE  Target(k) \in Seq(Name) \ {<<>>} /\ Target(k) \in Fs!Path
  <2>1. Len(Target(k)) >= 1
    BY <1>1, <1>2
  <2>2. Len(<<>>) = 0
    OBVIOUS
  <2> QED
    BY <2>1, <2>2, <1>0
<1> QED
  BY <1>1, <1>5, <1>6, <1>7

-------------------------------------------------------------------------------
(* The invariant: what a table, the recorded targets S and the paths W     *)
(* that mounts were moved away from have in common                         *)

\* CoveredByUnit and MovedAway.
Covered(t, p) ==
  \E n \in DOMAIN t :
    t[n].by = "unit" /\ (Fs!IsStrictPrefix(t[n].at, p) \/ t[n].at = Fs!OverRoot)
Away(W, p) == \E q \in W : Fs!IsPrefix(q, p)

\* InDirAbove and NoMountOverMount, of a table.
InDirOf(t, k, n) ==
  LET OnTheWay(m) == m < n /\ Fs!IsPrefix(t[m].at, Fs!DirAbove(t[n].at))
  IN OnTheWay(k) /\ \A m \in DOMAIN t : OnTheWay(m) => m <= k
Unstacked(t) ==
  \A n, k \in DOMAIN t :
    t[n].by = "unit" /\ t[t[n].on].at = t[n].at /\ InDirOf(t, k, n) =>
      t[t[n].on].dev = t[k].dev

\* The program mounts on what it found, and a directory before those below;
\* a copy lies below a unit's own mount.
Ages(t) ==
  /\ \A n \in DOMAIN t :
       /\ \/ t[n].by \in {"host", "early"} /\ t[n].at \in Seq(Name)
          \/ t[n].by = "unit" /\ t[n].at \in Place
          \/ t[n].by = "copy"
       /\ t[n].by = "copy" =>
            \E m \in DOMAIN t : m < n /\ t[m].by = "unit" /\ Fs!IsStrictPrefix(t[m].at, t[n].at)
  /\ \A m, n \in DOMAIN t : t[m].by = "host" /\ t[n].by = "early" => m < n
  /\ \A m, n \in DOMAIN t :
       t[m].by = "early" /\ t[n].by = "early" /\ Fs!IsPrefix(t[m].at, t[n].at) => m <= n

\* A recorded target is a mount point, and no mount unit's, unless mount units
\* have covered it or moved it away; an early mount that they have not is
\* recorded.
Undoable(t, S, W) ==
  /\ \A p \in S :
       /\ p \in Seq(Name) \ {<<>>}
       /\ t[Fs!Lookup(t, p)].at = p \/ Covered(t, p) \/ Away(W, p)
       /\ \A n \in DOMAIN t : t[n].by = "unit" /\ t[n].at = p => Covered(t, p) \/ Away(W, p)
  /\ \A n \in DOMAIN t :
       t[n].by = "early" => t[n].at \in S \/ Covered(t, t[n].at) \/ Away(W, t[n].at)

\* While nothing is unmounted yet: j is the next entry of kEarlyMounts.
Booting(t, j) ==
  /\ \A n \in DOMAIN t : t[n].by = "host" =>
       \A k \in Entries : Fs!IsStrictPrefix(t[n].at, Target(k)) => t[n].dev # Device(k)
  /\ \A n \in DOMAIN t : t[n].by = "early" =>
       \E k \in Entries : k < j /\ t[n].at = Target(k) /\ t[n].dev = Device(k)

\* What leads to a recorded target is the file system that belongs there.
Recorded(t, S, W, j) ==
  \A p \in S : \E k \in Entries :
    /\ k < j /\ p = Target(k)
    /\ /\ t[Fs!Lookup(t, p)].by \in {"host", "early"} /\ t[Fs!Lookup(t, p)].at = p
       /\ ~Away(W, p)
       => t[Fs!Lookup(t, p)].dev = Device(k)

NoUnits(t) == \A n \in DOMAIN t : t[n].by \in {"host", "early"}

\* What the program finds.
LEMMA HostMounts ==
  ASSUME NEW t, Fs!HostTable(t), NEW W
  PROVE  /\ Tree(t) /\ Unstacked(t) /\ Ages(t) /\ NoUnits(t)
         /\ \A n \in DOMAIN t : t[n].by = "host"
         /\ Booting(t, 1) /\ Undoable(t, {}, W) /\ Recorded(t, {}, W, 1)
<1>1. \A n \in DOMAIN t : t[n].at \in Seq(Name) /\ t[n].at \in Fs!Path /\ t[n].by = "host"
  BY NamePaths DEF Fs!HostTable
<1>2. PICK N \in Nat : DOMAIN t = 0..N
  <2> DEFINE c == Cardinality(DOMAIN t)
  <2>1. DOMAIN t = 0..(c - 1) /\ 0 \in DOMAIN t
    BY DEF Fs!HostTable, Fs!Cardinality, Cardinality, Fs!RootMount
  <2>2. IsFiniteSet(DOMAIN t)
    BY DEF Fs!HostTable, Fs!IsFiniteSet, IsFiniteSet
  <2>3. c \in Nat
    BY <2>2, FS_CardinalityType
  <2> HIDE DEF c
  <2>4. c - 1 \in Nat
    BY <2>1, <2>3
  <2> QED
    BY <2>1, <2>4
<1>3. Tree(t)
  BY <1>1, <1>2 DEF Fs!HostTable, Tree
<1>4. Unstacked(t) /\ Ages(t) /\ NoUnits(t) /\ Undoable(t, {}, W) /\ Recorded(t, {}, W, 1)
  BY <1>1 DEF Unstacked, Ages, NoUnits, Undoable, Recorded
<1>5. \A n \in DOMAIN t : \A k \in Entries :
        Fs!IsStrictPrefix(t[n].at, Target(k)) => t[n].dev # Device(k)
  BY DEF Fs!HostTable, Entries, Target, Device
<1>6. Booting(t, 1)
  BY <1>1, <1>5 DEF Booting
<1> QED
  BY <1>1, <1>3, <1>4, <1>6

\* What is mounted above an entry of kEarlyMounts, but by mount units, is not
\* on the device of that entry.
LEMMA EarlyDevices ==
  ASSUME NEW t, NEW j, Booting(t, j), NEW n \in DOMAIN t, t[n].by \in {"host", "early"},
         NEW k \in Entries, Fs!IsStrictPrefix(t[n].at, Target(k))
  PROVE  t[n].dev # Device(k)
<1>1. CASE t[n].by = "host"
  BY <1>1 DEF Booting
<1>2. CASE t[n].by = "early"
  <2>1. PICK i \in Entries : t[n].at = Target(i) /\ t[n].dev = Device(i)
    BY <1>2 DEF Booting
  <2> QED
    BY <2>1, EarlyTargets
<1> QED
  BY <1>1, <1>2

\* What holds while the early mounts are made, and what is known of one
\* more: the table.
LEMMA EarlyMountTable ==
  ASSUME NEW t, NEW j \in Entries, Tree(t), Ages(t), Booting(t, j), NoUnits(t),
         NEW x, x = Fs!Fresh(t), NEW u, Attached(t, x, Target(j), Device(j), "early", u)
  PROVE  Unstacked(u) /\ Ages(u) /\ Booting(u, j + 1) /\ NoUnits(u)
<1> DEFINE T == Target(j)
<1>1. x \in Nat /\ \A n \in DOMAIN t : n \in Nat /\ n < x
  BY FreshId
<1>2. T \in Seq(Name) /\ j \in Nat /\ \A k \in Entries : k \in Nat
  BY EarlyTargets
<1> HIDE DEF T
<1>3. /\ DOMAIN u = DOMAIN t \cup {x} /\ \A k \in DOMAIN t : u[k] = t[k]
      /\ u[x].at = T /\ u[x].dev = Device(j) /\ u[x].by = "early"
  <2>1. u[x] = [at |-> T, on |-> Fs!Lookup(t, T), dev |-> Device(j), by |-> "early"]
    BY DEF Attached, T
  <2> QED
    BY <2>1 DEF Attached
<1>4. NoUnits(u)
  BY <1>3 DEF NoUnits
<1>5. Unstacked(u)
  BY <1>4 DEF NoUnits, Unstacked
<1>6. Ages(u)
  <2>1. ASSUME NEW n \in DOMAIN u
        PROVE  u[n].by \in {"host", "early"} /\ u[n].at \in Seq(Name)
    BY <1>2, <1>3 DEF Ages, NoUnits
  <2>2. ASSUME NEW m \in DOMAIN u, NEW n \in DOMAIN u, u[m].by = "host", u[n].by = "early"
        PROVE  m < n
    BY <2>2, <1>1, <1>3 DEF Ages
  <2>3. ASSUME NEW m \in DOMAIN u, NEW n \in DOMAIN u, u[m].by = "early", u[n].by = "early",
               Fs!IsPrefix(u[m].at, u[n].at)
        PROVE  m <= n
    <3>1. CASE n = x
      BY <3>1, <1>1, <1>3
    <3>2. CASE m = x /\ n # x
      <4>1. n \in DOMAIN t /\ u[n] = t[n] /\ t[n].by = "early"
        BY <3>2, <2>3, <1>3
      <4>2. PICK k \in Entries : k < j /\ t[n].at = Target(k)
        BY <4>1 DEF Booting
      <4>3. Fs!IsPrefix(Target(j), Target(k))
        BY <4>1, <4>2, <3>2, <2>3, <1>3 DEF T
      <4> QED
        BY <4>2, <4>3, EarlyTargets
    <3>3. CASE m # x /\ n # x
      BY <3>3, <2>3, <1>3 DEF Ages
    <3> QED
      BY <3>1, <3>2, <3>3
  <2> QED
    BY <2>1, <2>2, <2>3 DEF Ages
<1>7. Booting(u, j + 1)
  <2>1. \A n \in DOMAIN u : u[n].by = "host" =>
          \A k \in Entries : Fs!IsStrictPrefix(u[n].at, Target(k)) => u[n].dev # Device(k)
    BY <1>3 DEF Booting
  <2>2. ASSUME NEW n \in DOMAIN u, u[n].by = "early"
        PROVE  \E k \in Entries : k < j + 1 /\ u[n].at = Target(k) /\ u[n].dev = Device(k)
    <3>1. CASE n = x
      BY <3>1, <1>2, <1>3 DEF T
    <3>2. CASE n # x
      <4>1. PICK k \in Entries : k < j /\ t[n].at = Target(k) /\ t[n].dev = Device(k)
        BY <3>2, <2>2, <1>3 DEF Booting
      <4> QED
        BY <4>1, <3>2, <1>2, <1>3
    <3> QED
      BY <3>1, <3>2
  <2> QED
    BY <2>1, <2>2 DEF Booting
<1> QED
  BY <1>4, <1>5, <1>6, <1>7

\* An entry more may be looked at.
LEMMA NextEntry ==
  ASSUME NEW t, NEW S, NEW W, NEW j \in Nat, Booting(t, j), Recorded(t, S, W, j)
  PROVE  Booting(t, j + 1) /\ Recorded(t, S, W, j + 1)
<1>1. \A k \in Entries : k < j => k < j + 1
  BY EarlyTargets
<1>2. Booting(t, j + 1)
  BY <1>1 DEF Booting
<1>3. Recorded(t, S, W, j + 1)
  BY <1>1 DEF Recorded
<1> QED
  BY <1>2, <1>3

\* An entry of kEarlyMounts, mounted or found.
LEMMA EarlyMountStep ==
  ASSUME NEW t, NEW S, NEW W, NEW j \in Entries,
         Tree(t), Unstacked(t), Ages(t), Booting(t, j), NoUnits(t),
         Undoable(t, S, W), Recorded(t, S, W, j),
         NEW u, u = IF Fs!Busy(t, Target(j), Device(j)) THEN t
                    ELSE Fs!Attach(t, Target(j), Device(j), "early")
  PROVE  /\ Tree(u) /\ Unstacked(u) /\ Ages(u) /\ Booting(u, j + 1) /\ NoUnits(u)
         /\ Undoable(u, S \cup {Target(j)}, W) /\ Recorded(u, S \cup {Target(j)}, W, j + 1)
<1> DEFINE T == Target(j)
<1>1. T \in Fs!Path /\ T \in Seq(Name) \ {<<>>} /\ j \in Nat /\ j < j + 1 /\ T # Fs!OverRoot
  <2>1. T \in Fs!Path /\ T \in Seq(Name) \ {<<>>} /\ j \in 1..8
    BY EarlyTargets
  <2> HIDE DEF T
  <2> QED
    BY <2>1, NamePaths
<1>2. CASE Fs!Busy(t, T, Device(j))
  <2>1. u = t /\ t[Fs!Lookup(t, T)].at = T /\ t[Fs!Lookup(t, T)].dev = Device(j)
    BY <1>1, <1>2 DEF Fs!Busy, Fs!IsMountPoint
  <2>2. Booting(t, j + 1) /\ Recorded(t, S, W, j + 1)
    BY <1>1, NextEntry
  <2> HIDE DEF T
  <2>3. Undoable(t, S \cup {T}, W)
    BY <2>1, <1>1 DEF Undoable, NoUnits
  <2>4. Recorded(t, S \cup {T}, W, j + 1)
    BY <2>1, <2>2, <1>1 DEF Recorded, T
  <2> QED
    BY <2>1, <2>2, <2>3, <2>4 DEF T
<1>3. CASE ~Fs!Busy(t, T, Device(j))
  <2> DEFINE x == Fs!Fresh(t)
  <2>1. Attached(t, x, T, Device(j), "early", u)
    BY <1>1, <1>3, AttachedTable
  <2>2. Unstacked(u) /\ Ages(u) /\ Booting(u, j + 1) /\ NoUnits(u)
    BY <2>1, EarlyMountTable
  <2>3. /\ DOMAIN u = DOMAIN t \cup {x} /\ \A k \in DOMAIN t : u[k] = t[k]
        /\ u[x] = [at |-> T, on |-> Fs!Lookup(t, T), dev |-> Device(j), by |-> "early"]
        /\ Tree(u)
        /\ \A q \in Fs!Path :
             Fs!Lookup(u, q) = IF Fs!IsPrefix(T, q) THEN x ELSE Fs!Lookup(t, q)
    BY <2>1 DEF Attached
  <2>4. u[x].at = T /\ u[x].dev = Device(j) /\ u[x].by = "early"
    BY <2>3
  <2>5. Fs!Lookup(u, T) = x
    BY <2>3, <1>1, PrefixOrder
  <2> HIDE DEF x
  <2>6. ASSUME NEW p \in S
        PROVE  /\ p \in Seq(Name) \ {<<>>} /\ Fs!Lookup(t, p) \in DOMAIN t
               /\ Fs!Lookup(u, p) = Fs!Lookup(t, p)
    <3>1. p \in Seq(Name) \ {<<>>} /\ p \in Fs!Path
      BY NamePaths DEF Undoable
    <3>2. PICK k \in Entries : k < j /\ p = Target(k)
      BY DEF Recorded
    <3>3. ~Fs!IsPrefix(T, p)
      BY <3>2, EarlyTargets
    <3> QED
      BY <3>1, <3>3, <2>3, LookupIsNewest DEF Newest
  <2> HIDE DEF T
  <2>7. \A q : ~Covered(t, q)
    BY DEF NoUnits, Covered
  <2>8. Undoable(u, S \cup {T}, W)
    <3>1. ASSUME NEW p \in S
          PROVE  p \in Seq(Name) \ {<<>>} /\ (u[Fs!Lookup(u, p)].at = p \/ Away(W, p))
      BY <2>3, <2>6, <2>7 DEF Undoable
    <3>2. ASSUME NEW n \in DOMAIN u, u[n].by = "early"
          PROVE  u[n].at \in S \cup {T} \/ Away(W, u[n].at)
      BY <2>7, <3>2, <2>3, <2>4 DEF Undoable
    <3> QED
      BY <3>1, <3>2, <2>2, <2>4, <2>5, <1>1 DEF Undoable, NoUnits
  <2>9. Recorded(u, S \cup {T}, W, j + 1)
    <3>1. ASSUME NEW p \in S
          PROVE  \E k \in Entries :
                   /\ k < j + 1 /\ p = Target(k)
                   /\ /\ u[Fs!Lookup(u, p)].by \in {"host", "early"}
                      /\ u[Fs!Lookup(u, p)].at = p /\ ~Away(W, p)
                      => u[Fs!Lookup(u, p)].dev = Device(k)
      <4>1. u[Fs!Lookup(u, p)] = t[Fs!Lookup(t, p)]
        BY <2>3, <2>6
      <4>2. \A k \in Entries : k < j => k < j + 1
        BY EarlyTargets
      <4> QED
        BY <4>1, <4>2 DEF Recorded
    <3>2. T = Target(j)
      BY DEF T
    <3> QED
      BY <3>1, <3>2, <2>4, <2>5, <1>1 DEF Recorded
  <2> QED
    BY <2>2, <2>3, <2>8, <2>9 DEF T
<1> QED
  BY <1>2, <1>3

-------------------------------------------------------------------------------
(* Mount units and unmounts                                                *)

\* The kinds of mounts, once more.
LEMMA Kinds ==
  ASSUME NEW t, Tree(t), Ages(t), NEW n \in DOMAIN t
  PROVE  /\ t[n].at \in Fs!Path
         /\ t[n].at = Fs!OverRoot => t[n].by = "unit"
         /\ t[n].by = "unit" => t[n].at \in Place /\ t[n].at # <<>>
         /\ t[n].by = "copy" => Covered(t, t[n].at)
         /\ \A p \in Fs!Path : t[n].by = "copy" /\ Fs!IsStrictPrefix(t[n].at, p) => Covered(t, p)
<1>1. \A m \in DOMAIN t : t[m].at \in Fs!Path
  BY DEF Tree
<1>2. /\ \/ t[n].by \in {"host", "early"} /\ t[n].at \in Seq(Name)
         \/ t[n].by = "unit" /\ t[n].at \in Place
         \/ t[n].by = "copy"
      /\ \A m \in DOMAIN t : t[m].by = "unit" => t[m].at \in Place
  BY DEF Ages
<1>3. <<>> \notin Place /\ Fs!OverRoot \notin Seq(Name)
  BY NamePaths DEF Place
<1>4. CASE t[n].by = "copy"
  <2>1. PICK m \in DOMAIN t : t[m].by = "unit" /\ Fs!IsStrictPrefix(t[m].at, t[n].at)
    BY <1>4 DEF Ages
  <2>2. Covered(t, t[n].at)
    BY <2>1 DEF Covered
  <2>3. t[n].at # Fs!OverRoot
    <3>1. t[m].at # <<>>
      BY <2>1, <1>2, <1>3
    <3> QED
      BY <3>1, <2>1, <1>1, NamePaths DEF Fs!IsStrictPrefix
  <2>4. ASSUME NEW p \in Fs!Path, Fs!IsStrictPrefix(t[n].at, p)
        PROVE  Covered(t, p)
    <3>1. Fs!IsStrictPrefix(t[m].at, p)
      BY <2>1, <2>4, <1>1, StrictlyAbove DEF Fs!IsStrictPrefix
    <3> QED
      BY <3>1, <2>1 DEF Covered
  <2> QED
    BY <2>2, <2>3, <2>4, <1>1, <1>4
<1>5. CASE t[n].by # "copy"
  BY <1>1, <1>2, <1>3, <1>5
<1> QED
  BY <1>4, <1>5

\* What covers a path covers those below it.
LEMMA CoveredBelow ==
  ASSUME NEW t, Tree(t), NEW p \in Fs!Path, NEW q \in Fs!Path, Fs!IsPrefix(p, q), Covered(t, p)
  PROVE  Covered(t, q)
<1>1. PICK n \in DOMAIN t : /\ t[n].by = "unit"
                            /\ Fs!IsStrictPrefix(t[n].at, p) \/ t[n].at = Fs!OverRoot
  BY DEF Covered
<1>2. t[n].at \in Fs!Path
  BY DEF Tree
<1>3. Fs!IsStrictPrefix(t[n].at, p) => Fs!IsStrictPrefix(t[n].at, q)
  BY <1>2, StrictlyAbove
<1> QED
  BY <1>1, <1>3 DEF Covered

\* Where the device shows no mount point although one was recorded, mount
\* units have covered it or moved it away: the device of the early mount
\* would have shown.
LEMMA LooksUnmounted ==
  ASSUME NEW t, NEW S, NEW W, NEW j, Tree(t), Ages(t), Booting(t, j),
         Undoable(t, S, W), Recorded(t, S, W, j), NEW p \in S, p \in Place,
         t[Fs!Lookup(t, p)].dev = t[Fs!Lookup(t, Fs!DirAbove(p))].dev
  PROVE  Covered(t, p) \/ Away(W, p)
<1> SUFFICES ASSUME ~Covered(t, p), ~Away(W, p)
             PROVE  FALSE
  OBVIOUS
<1> DEFINE m == Fs!Lookup(t, p)
           f == Fs!Lookup(t, Fs!DirAbove(p))
<1>1. p \in Fs!Path /\ Fs!DirAbove(p) \in Fs!Path
  BY DirectoryAbove
<1>2. t[m].at = p /\ m \in DOMAIN t
  BY <1>1, LookupIsNewest DEF Undoable, Newest
<1>3. t[m].by # "unit"
  BY <1>2 DEF Undoable
<1>4. t[m].by \in {"host", "early"}
  BY <1>2, <1>3, Kinds DEF Ages
<1>5. PICK k \in Entries : p = Target(k) /\ t[m].dev = Device(k)
  BY <1>2, <1>4 DEF Recorded
<1>6. f \in DOMAIN t /\ Fs!IsPrefix(t[f].at, Fs!DirAbove(p)) /\ t[f].at \in Fs!Path
  BY <1>1, LookupIsNewest DEF Newest, Tree
<1>7. t[m].dev = t[f].dev
  OBVIOUS
<1> HIDE DEF m, f
<1>8. Fs!IsStrictPrefix(t[f].at, p)
  <2>1. Fs!IsStrictPrefix(t[f].at, p) \/ t[f].at = Fs!OverRoot
    BY <1>6, DirectoryAbove
  <2>2. t[f].at = Fs!OverRoot => Covered(t, p)
    BY <1>6, Kinds DEF Covered
  <2> QED
    BY <2>1, <2>2
<1>9. t[f].by # "unit" /\ t[f].by # "copy"
  BY <1>1, <1>6, <1>8, Kinds DEF Covered
<1>10. t[f].by \in {"host", "early"}
  BY <1>6, <1>9 DEF Ages
<1> QED
  BY <1>5, <1>6, <1>7, <1>8, <1>10, EarlyDevices

\* A mount unit's mounts, where the device shows no mount point: the table.
LEMMA GraftTable ==
  ASSUME NEW t, NEW j, Tree(t), Unstacked(t), Ages(t), Booting(t, j), NEW p \in Place,
         t[Fs!Lookup(t, p)].dev = t[Fs!Lookup(t, Fs!DirAbove(p))].dev,
         NEW x, NEW u, Grafted(t, x, p, u)
  PROVE  Unstacked(u) /\ Ages(u) /\ Booting(u, j)
<1>1. /\ DOMAIN t \subseteq DOMAIN u /\ \A k \in DOMAIN t : u[k] = t[k]
      /\ Tree(u) /\ x \in DOMAIN u \ DOMAIN t
      /\ u[x].at = p /\ u[x].on = Fs!Lookup(t, p) /\ u[x].by = "unit"
      /\ \A n \in DOMAIN u \ DOMAIN t :
           /\ n >= x /\ \A k \in DOMAIN t : k < n
           /\ n # x => u[n].by = "copy" /\ Fs!IsStrictPrefix(p, u[n].at)
  BY DEF Grafted
<1>2. \A n \in DOMAIN u : n \in Nat
  BY <1>1, TreeOrder
<1>3. /\ p \in Fs!Path /\ p # <<>> /\ Fs!DirAbove(p) \in Fs!Path
  BY DirectoryAbove
<1>4. Ages(u)
  <2>1. ASSUME NEW n \in DOMAIN u
        PROVE  /\ \/ u[n].by \in {"host", "early"} /\ u[n].at \in Seq(Name)
                  \/ u[n].by = "unit" /\ u[n].at \in Place
                  \/ u[n].by = "copy"
               /\ u[n].by = "copy" =>
                    \E m \in DOMAIN u :
                      m < n /\ u[m].by = "unit" /\ Fs!IsStrictPrefix(u[m].at, u[n].at)
    <3>1. CASE n \in DOMAIN t
      <4>1. /\ \/ t[n].by \in {"host", "early"} /\ t[n].at \in Seq(Name)
               \/ t[n].by = "unit" /\ t[n].at \in Place
               \/ t[n].by = "copy"
            /\ t[n].by = "copy" =>
                 \E m \in DOMAIN t :
                   m < n /\ t[m].by = "unit" /\ Fs!IsStrictPrefix(t[m].at, t[n].at)
        BY <3>1 DEF Ages
      <4> QED
        BY <4>1, <3>1, <1>1
    <3>2. CASE n = x
      BY <3>2, <1>1
    <3>3. CASE n \notin DOMAIN t /\ n # x
      <4>1. u[n].by = "copy" /\ Fs!IsStrictPrefix(u[x].at, u[n].at) /\ x < n
        BY <3>3, <1>1, <1>2
      <4> QED
        BY <4>1, <1>1
    <3> QED
      BY <3>1, <3>2, <3>3
  <2>2. ASSUME NEW n \in DOMAIN u, u[n].by \in {"host", "early"}
        PROVE  n \in DOMAIN t
    BY <2>2, <1>1
  <2>3. /\ \A m, n \in DOMAIN u : u[m].by = "host" /\ u[n].by = "early" => m < n
        /\ \A m, n \in DOMAIN u :
             u[m].by = "early" /\ u[n].by = "early" /\ Fs!IsPrefix(u[m].at, u[n].at) => m <= n
    BY <2>2, <1>1 DEF Ages
  <2> QED
    BY <2>1, <2>3 DEF Ages
<1>5. Booting(u, j)
  <2>1. ASSUME NEW n \in DOMAIN u, u[n].by \in {"host", "early"}
        PROVE  n \in DOMAIN t /\ u[n] = t[n]
    BY <2>1, <1>1
  <2> QED
    BY <2>1 DEF Booting
<1>6. Unstacked(u)
  <2>1. ASSUME NEW n \in DOMAIN u, NEW k \in DOMAIN u, u[n].by = "unit",
               u[u[n].on].at = u[n].at, InDirOf(u, k, n)
        PROVE  u[u[n].on].dev = u[k].dev
    <3>1. CASE n = x
      <4> DEFINE m == Fs!Lookup(t, p)
                 d == Fs!DirAbove(p)
                 f == Fs!Lookup(t, d)
      <4>1. m \in DOMAIN t /\ Newest(t, d, f) /\ t[m].dev = t[f].dev
        BY <1>3, LookupIsNewest DEF Newest
      <4>2. /\ k < x /\ Fs!IsPrefix(u[k].at, d)
            /\ \A o \in DOMAIN u : o < x /\ Fs!IsPrefix(u[o].at, d) => o <= k
        BY <2>1, <3>1, <1>1 DEF InDirOf
      <4>3. k \in DOMAIN t
        BY <4>2, <1>1, <1>2
      <4>4. Newest(t, d, k)
        BY <4>2, <4>3, <1>1 DEF Newest
      <4>5. k = f
        BY <4>1, <4>4, NewestUnique
      <4> QED
        BY <4>1, <4>3, <4>5, <3>1, <1>1
    <3>2. CASE n # x
      <4>1. n \in DOMAIN t /\ u[n] = t[n] /\ n # 0
        <5>1. n \in DOMAIN t /\ u[n] = t[n]
          BY <3>2, <2>1, <1>1
        <5>2. t[n].at # <<>>
          BY <5>1, <2>1, Kinds
        <5> QED
          BY <5>1, <5>2 DEF Tree, Fs!RootMount
      <4>2. t[n].on \in DOMAIN t /\ u[t[n].on] = t[t[n].on]
        BY <4>1, <1>1, TreeOrder
      <4>3. k < n /\ k \in DOMAIN t /\ u[k] = t[k]
        BY <4>1, <2>1, <1>1, <1>2 DEF InDirOf
      <4>4. InDirOf(t, k, n)
        BY <4>1, <4>3, <2>1, <1>1 DEF InDirOf
      <4> QED
        BY <4>1, <4>2, <4>3, <4>4, <2>1 DEF Unstacked
    <3> QED
      BY <3>1, <3>2
  <2> QED
    BY <2>1 DEF Unstacked
<1> QED
  BY <1>4, <1>5, <1>6

\* And what is recorded.
LEMMA GraftStep ==
  ASSUME NEW t, NEW S, NEW W, NEW j, Tree(t), Ages(t),
         Undoable(t, S, W), Recorded(t, S, W, j), NEW p \in Place,
         p \in S => Covered(t, p) \/ Away(W, p),
         NEW x, NEW u, Grafted(t, x, p, u)
  PROVE  /\ Undoable(u, S, W) /\ Recorded(u, S, W, j)
         /\ \A q : Covered(t, q) => Covered(u, q)
<1>1. /\ DOMAIN t \subseteq DOMAIN u /\ \A k \in DOMAIN t : u[k] = t[k]
      /\ x \in DOMAIN u \ DOMAIN t /\ u[x].at = p /\ u[x].by = "unit"
      /\ \A n \in DOMAIN u \ DOMAIN t : n # x => u[n].by = "copy"
      /\ \A q \in Fs!Path :
           IF Fs!IsPrefix(p, q) THEN Fs!Lookup(u, q) \in DOMAIN u \ DOMAIN t
           ELSE Fs!Lookup(u, q) = Fs!Lookup(t, q)
      /\ Fs!Lookup(u, p) = x
  BY DEF Grafted
<1>2. ASSUME NEW q, Covered(t, q)
      PROVE  Covered(u, q)
  BY <1>1, <1>2 DEF Covered
<1>3. \A q \in S : q \in Fs!Path /\ q \in Seq(Name) \ {<<>>}
  BY NamePaths DEF Undoable
<1>4. \A q \in Fs!Path : Fs!Lookup(t, q) \in DOMAIN t
  BY LookupIsNewest DEF Newest
<1>5. Undoable(u, S, W)
  <2>1. ASSUME NEW q \in S
        PROVE  u[Fs!Lookup(u, q)].at = q \/ Covered(u, q) \/ Away(W, q)
    <3>1. CASE q = p
      BY <3>1, <1>1
    <3>2. CASE Fs!IsPrefix(p, q) /\ q # p
      BY <3>2, <1>1 DEF Covered, Fs!IsStrictPrefix
    <3>3. CASE ~Fs!IsPrefix(p, q)
      BY <3>3, <1>1, <1>2, <1>3, <1>4 DEF Undoable
    <3> QED
      BY <3>1, <3>2, <3>3
  <2>2. ASSUME NEW q \in S, NEW n \in DOMAIN u, u[n].by = "unit", u[n].at = q
        PROVE  Covered(u, q) \/ Away(W, q)
    <3>1. CASE n = x
      BY <3>1, <2>2, <1>1, <1>2
    <3>2. CASE n # x
      <4>1. n \in DOMAIN t /\ u[n] = t[n]
        BY <3>2, <2>2, <1>1
      <4>2. Covered(t, q) \/ Away(W, q)
        BY <4>1, <2>2 DEF Undoable
      <4> QED
        BY <4>2, <1>2
    <3> QED
      BY <3>1, <3>2
  <2>3. ASSUME NEW n \in DOMAIN u, u[n].by = "early"
        PROVE  u[n].at \in S \/ Covered(u, u[n].at) \/ Away(W, u[n].at)
    <3>1. n \in DOMAIN t /\ u[n] = t[n]
      BY <2>3, <1>1
    <3>2. t[n].at \in S \/ Covered(t, t[n].at) \/ Away(W, t[n].at)
      BY <3>1, <2>3 DEF Undoable
    <3> QED
      BY <3>1, <3>2, <1>2
  <2> QED
    BY <2>1, <2>2, <2>3, <1>3 DEF Undoable
<1>6. Recorded(u, S, W, j)
  <2>1. ASSUME NEW q \in S
        PROVE  \/ u[Fs!Lookup(u, q)].by \in {"unit", "copy"}
               \/ u[Fs!Lookup(u, q)] = t[Fs!Lookup(t, q)]
    <3>1. q \in Fs!Path /\ Fs!Lookup(t, q) \in DOMAIN t
      BY <1>3, <1>4
    <3>2. CASE Fs!IsPrefix(p, q)
      BY <3>1, <3>2, <1>1
    <3>3. CASE ~Fs!IsPrefix(p, q)
      BY <3>1, <3>3, <1>1
    <3> QED
      BY <3>2, <3>3
  <2> QED
    BY <2>1 DEF Recorded
<1> QED
  BY <1>2, <1>5, <1>6

\* A mount is detached: the table.
LEMMA DetachTable ==
  ASSUME NEW t, Tree(t), Unstacked(t), Ages(t), NEW p \in Seq(Name) \ {<<>>},
         NEW u, Detached(t, p, u)
  PROVE  /\ Unstacked(u) /\ Ages(u) /\ \A j : Booting(t, j) => Booting(u, j)
         /\ \A q \in Fs!Path : Covered(t, q) /\ (~Fs!IsPrefix(p, q) \/ q = p) => Covered(u, q)
<1> DEFINE m == Fs!Lookup(t, p)
<1>1. /\ DOMAIN u = { n \in DOMAIN t : ~(n >= m /\ Fs!IsPrefix(p, t[n].at)) }
      /\ \A n \in DOMAIN u : u[n] = t[n]
      /\ Tree(u)
  BY DEF Detached
<1>2. p \in Fs!Path /\ ~Fs!IsPrefix(p, Fs!OverRoot)
  BY NamePaths
<1>3. \A n \in DOMAIN t : n \in Nat /\ t[n].at \in Fs!Path
  BY TreeOrder DEF Tree
<1>4. m \in Nat
  BY <1>2, <1>3, LookupIsNewest DEF Newest
<1>5. \A n \in DOMAIN u : n \in DOMAIN t /\ u[n] = t[n]
  BY <1>1
<1> HIDE DEF m
<1>6. ASSUME NEW n \in DOMAIN u, NEW k \in DOMAIN t, k < n, t[k].at = t[n].at
               \/ Fs!IsStrictPrefix(t[k].at, t[n].at)
      PROVE  k \in DOMAIN u
  <2> SUFFICES ASSUME k >= m, Fs!IsPrefix(p, t[k].at)
               PROVE  FALSE
    BY <1>1
  <2>1. Fs!IsPrefix(t[k].at, t[n].at)
    BY <1>3, <1>5, <1>6, PrefixOrder DEF Fs!IsStrictPrefix
  <2>2. Fs!IsPrefix(p, t[n].at)
    BY <2>1, <1>2, <1>3, <1>5, PrefixOrder
  <2>3. n >= m
    BY <1>3, <1>4, <1>5, <1>6
  <2> QED
    BY <2>2, <2>3, <1>1
<1>7. Ages(u)
  <2>1. ASSUME NEW n \in DOMAIN u
        PROVE  /\ \/ u[n].by \in {"host", "early"} /\ u[n].at \in Seq(Name)
                  \/ u[n].by = "unit" /\ u[n].at \in Place
                  \/ u[n].by = "copy"
               /\ u[n].by = "copy" =>
                    \E k \in DOMAIN u :
                      k < n /\ u[k].by = "unit" /\ Fs!IsStrictPrefix(u[k].at, u[n].at)
    <3>1. n \in DOMAIN t /\ u[n] = t[n]
      BY <1>5
    <3>2. /\ \/ t[n].by \in {"host", "early"} /\ t[n].at \in Seq(Name)
             \/ t[n].by = "unit" /\ t[n].at \in Place
             \/ t[n].by = "copy"
          /\ t[n].by = "copy" =>
               \E k \in DOMAIN t :
                 k < n /\ t[k].by = "unit" /\ Fs!IsStrictPrefix(t[k].at, t[n].at)
      BY <3>1 DEF Ages
    <3> QED
      BY <3>1, <3>2, <1>5, <1>6
  <2>2. /\ \A k, n \in DOMAIN u : u[k].by = "host" /\ u[n].by = "early" => k < n
        /\ \A k, n \in DOMAIN u :
             u[k].by = "early" /\ u[n].by = "early" /\ Fs!IsPrefix(u[k].at, u[n].at) => k <= n
    BY <1>5 DEF Ages
  <2> QED
    BY <2>1, <2>2 DEF Ages
<1>8. ASSUME NEW j, Booting(t, j)
      PROVE  Booting(u, j)
  BY <1>5, <1>8 DEF Booting
<1>9. Unstacked(u)
  <2>1. ASSUME NEW n \in DOMAIN u, NEW k \in DOMAIN u, u[n].by = "unit",
               u[u[n].on].at = u[n].at, InDirOf(u, k, n)
        PROVE  u[u[n].on].dev = u[k].dev
    <3>1. /\ n \in DOMAIN t /\ u[n] = t[n] /\ t[n].at \in Place /\ t[n].at # <<>>
          /\ k \in DOMAIN t /\ u[k] = t[k]
      BY <2>1, <1>5, Kinds
    <3>2. n # 0
      BY <3>1 DEF Tree, Fs!RootMount
    <3>3. t[n].on \in DOMAIN u /\ u[t[n].on] = t[t[n].on]
      BY <3>1, <3>2, <1>1, <1>5, TreeOrder
    <3> DEFINE d == Fs!DirAbove(t[n].at)
    <3>4. d \in Fs!Path /\ (Fs!IsPrefix(p, d) => Fs!IsStrictPrefix(p, t[n].at))
      BY <3>1, DirectoryAbove
    <3>5. /\ k < n /\ Fs!IsPrefix(t[k].at, d)
          /\ \A o \in DOMAIN u : o < n /\ Fs!IsPrefix(u[o].at, d) => o <= k
      BY <3>1, <2>1 DEF InDirOf
    <3> HIDE DEF d
    <3>6. ASSUME NEW o \in DOMAIN t, o < n, Fs!IsPrefix(t[o].at, d)
          PROVE  o \in DOMAIN u
      <4> SUFFICES ASSUME o >= m, Fs!IsPrefix(p, t[o].at)
                   PROVE  FALSE
        BY <1>1
      <4>1. Fs!IsPrefix(p, d)
        BY <3>4, <3>6, <1>2, <1>3, PrefixOrder
      <4>2. Fs!IsPrefix(p, t[n].at)
        BY <4>1, <3>4 DEF Fs!IsStrictPrefix
      <4>3. n >= m
        BY <3>1, <3>6, <1>3, <1>4
      <4> QED
        BY <4>2, <4>3, <1>1
    <3>7. InDirOf(t, k, n)
      BY <3>5, <3>6, <1>5 DEF InDirOf, d
    <3> QED
      BY <3>1, <3>3, <3>7, <2>1 DEF Unstacked
  <2> QED
    BY <2>1 DEF Unstacked
<1>10. ASSUME NEW q \in Fs!Path, Covered(t, q), ~Fs!IsPrefix(p, q) \/ q = p
       PROVE  Covered(u, q)
  <2>1. PICK n \in DOMAIN t : /\ t[n].by = "unit"
                              /\ Fs!IsStrictPrefix(t[n].at, q) \/ t[n].at = Fs!OverRoot
    BY <1>10 DEF Covered
  <2>2. ~Fs!IsPrefix(p, t[n].at)
    <3>1. CASE Fs!IsStrictPrefix(t[n].at, q)
      <4>1. Fs!IsPrefix(t[n].at, q) /\ t[n].at # q
        BY <3>1 DEF Fs!IsStrictPrefix
      <4> QED
        BY <4>1, <1>2, <1>3, <1>10, PrefixOrder
    <3>2. CASE t[n].at = Fs!OverRoot
      BY <3>2, <1>2
    <3> QED
      BY <3>1, <3>2, <2>1
  <2>3. n \in DOMAIN u
    BY <2>2, <1>1
  <2> QED
    BY <2>1, <2>3, <1>5 DEF Covered
<1> QED
  BY <1>7, <1>8, <1>9, <1>10

\* A mount unit moves the mount at p away: what is recorded.
LEMMA MoveStep ==
  ASSUME NEW t, NEW S, NEW W, NEW j, Tree(t), Unstacked(t), Ages(t),
         Undoable(t, S, W), Recorded(t, S, W, j), NEW p \in Seq(Name) \ {<<>>},
         NEW u, Detached(t, p, u)
  PROVE  Undoable(u, S, W \cup {p}) /\ Recorded(u, S, W \cup {p}, j)
<1>1. /\ \A n \in DOMAIN u : n \in DOMAIN t /\ u[n] = t[n]
      /\ \A q \in Fs!Path : ~Fs!IsPrefix(p, q) => Fs!Lookup(u, q) = Fs!Lookup(t, q)
      /\ Tree(u)
  BY DEF Detached
<1>2. \A q \in Fs!Path : Fs!Lookup(u, q) \in DOMAIN u
  BY <1>1, LookupIsNewest DEF Newest
<1>3. \A q \in S : q \in Fs!Path /\ q \in Seq(Name) \ {<<>>}
  BY NamePaths DEF Undoable
<1>4. ASSUME NEW q \in Fs!Path, Covered(t, q) \/ Away(W, q)
      PROVE  Covered(u, q) \/ Away(W \cup {p}, q)
  BY <1>4, DetachTable DEF Away
<1>5. \A q : Fs!IsPrefix(p, q) => Away(W \cup {p}, q)
  BY DEF Away
<1>6. ASSUME NEW q \in S, ~Away(W \cup {p}, q)
      PROVE  u[Fs!Lookup(u, q)] = t[Fs!Lookup(t, q)] /\ ~Away(W, q)
  <2>1. q \in Fs!Path /\ ~Fs!IsPrefix(p, q)
    BY <1>3, <1>5, <1>6
  <2>2. ~Away(W, q)
    BY <1>6 DEF Away
  <2>3. Fs!Lookup(u, q) = Fs!Lookup(t, q) /\ Fs!Lookup(u, q) \in DOMAIN u
    BY <2>1, <1>1, <1>2
  <2> QED
    BY <2>2, <2>3, <1>1
<1>7. Undoable(u, S, W \cup {p})
  <2>1. ASSUME NEW q \in S
        PROVE  u[Fs!Lookup(u, q)].at = q \/ Covered(u, q) \/ Away(W \cup {p}, q)
    <3> SUFFICES ASSUME ~Away(W \cup {p}, q)
                 PROVE  u[Fs!Lookup(u, q)].at = q \/ Covered(u, q)
      OBVIOUS
    <3>1. t[Fs!Lookup(t, q)].at = q \/ Covered(t, q) \/ Away(W, q)
      BY DEF Undoable
    <3> QED
      BY <3>1, <1>3, <1>4, <1>6
  <2>2. ASSUME NEW q \in S, NEW n \in DOMAIN u, u[n].by = "unit", u[n].at = q
        PROVE  Covered(u, q) \/ Away(W \cup {p}, q)
    <3>1. Covered(t, q) \/ Away(W, q)
      BY <2>2, <1>1 DEF Undoable
    <3> QED
      BY <3>1, <1>3, <1>4
  <2>3. ASSUME NEW n \in DOMAIN u, u[n].by = "early"
        PROVE  u[n].at \in S \/ Covered(u, u[n].at) \/ Away(W \cup {p}, u[n].at)
    <3>1. u[n] = t[n] /\ t[n].at \in Fs!Path
      BY <1>1 DEF Tree
    <3>2. t[n].at \in S \/ Covered(t, t[n].at) \/ Away(W, t[n].at)
      BY <3>1, <2>3, <1>1 DEF Undoable
    <3> QED
      BY <3>1, <3>2, <1>4
  <2> QED
    BY <2>1, <2>2, <2>3, <1>3 DEF Undoable
<1>8. Recorded(u, S, W \cup {p}, j)
  <2>1. ASSUME NEW q \in S
        PROVE  \E k \in Entries :
                 /\ k < j /\ q = Target(k)
                 /\ /\ u[Fs!Lookup(u, q)].by \in {"host", "early"}
                    /\ u[Fs!Lookup(u, q)].at = q /\ ~Away(W \cup {p}, q)
                    => u[Fs!Lookup(u, q)].dev = Device(k)
    <3>1. PICK k \in Entries :
            /\ k < j /\ q = Target(k)
            /\ /\ t[Fs!Lookup(t, q)].by \in {"host", "early"}
               /\ t[Fs!Lookup(t, q)].at = q /\ ~Away(W, q)
               => t[Fs!Lookup(t, q)].dev = Device(k)
      BY DEF Recorded
    <3> QED
      BY <3>1, <1>6
  <2> QED
    BY <2>1 DEF Recorded
<1> QED
  BY <1>7, <1>8

\* The last of the recorded targets is unmounted, which is above none of the
\* others.
LEMMA UnmountStep ==
  ASSUME NEW t, NEW S, NEW W, NEW p, W \subseteq Fs!Path, Tree(t), Unstacked(t), Ages(t),
         Undoable(t, S \cup {p}, W), \A q \in S : ~Fs!IsPrefix(p, q), Fs!IsMountPoint(t, p),
         NEW u, u = Fs!Detach(t, Fs!Lookup(t, p))
  PROVE  Tree(u) /\ Unstacked(u) /\ Ages(u) /\ Undoable(u, S, W)
<1> DEFINE m == Fs!Lookup(t, p)
<1>1. /\ p \in Fs!Path /\ p \in Seq(Name) \ {<<>>}
      /\ \A q \in S : q \in Fs!Path /\ q \in Seq(Name) \ {<<>>}
  BY NamePaths DEF Undoable
<1>2. Detached(t, p, u)
  BY <1>1, DetachedTable
<1>3. /\ DOMAIN u = { n \in DOMAIN t : ~(n >= m /\ Fs!IsPrefix(p, t[n].at)) }
      /\ \A n \in DOMAIN u : n \in DOMAIN t /\ u[n] = t[n]
      /\ Tree(u)
      /\ \A q \in Fs!Path : ~Fs!IsPrefix(p, q) => Fs!Lookup(u, q) = Fs!Lookup(t, q)
  BY <1>2 DEF Detached
<1>4. t[m].at = p /\ m \in DOMAIN t /\ m \in Nat
  BY <1>1, LookupIsNewest, TreeOrder DEF Fs!IsMountPoint, Newest
<1>5. \A n \in DOMAIN t : n \in Nat /\ t[n].at \in Fs!Path
  BY TreeOrder DEF Tree
<1> HIDE DEF m
<1>6. Unstacked(u) /\ Ages(u)
  BY <1>1, <1>2, DetachTable
<1>7. ASSUME NEW q \in Fs!Path, ~Fs!IsPrefix(p, q) \/ q = p, Covered(t, q) \/ Away(W, q)
      PROVE  Covered(u, q) \/ Away(W, q)
  BY <1>1, <1>2, <1>7, DetachTable
\* The mount at p is an early one or older than all of those, or there are
\* mount units above it.
<1>8. ASSUME NEW n \in DOMAIN t, t[n].by = "early", Fs!IsPrefix(p, t[n].at)
      PROVE  n >= m \/ Covered(t, p) \/ Away(W, p)
  <2>1. CASE t[m].by = "unit"
    BY <2>1, <1>4 DEF Undoable
  <2>2. CASE t[m].by = "copy"
    BY <2>2, <1>4, Kinds
  <2>3. CASE t[m].by = "early"
    <3>1. m <= n
      BY <2>3, <1>4, <1>8 DEF Ages
    <3> QED
      BY <3>1, <1>4, <1>5
  <2>4. CASE t[m].by = "host"
    <3>1. m < n
      BY <2>4, <1>4, <1>8 DEF Ages
    <3> QED
      BY <3>1, <1>4, <1>5
  <2> QED
    BY <2>1, <2>2, <2>3, <2>4, <1>4 DEF Ages
<1>9. ASSUME NEW n \in DOMAIN u, u[n].by = "early"
      PROVE  u[n].at \in S \/ Covered(u, u[n].at) \/ Away(W, u[n].at)
  <2> DEFINE a == t[n].at
  <2>1. n \in DOMAIN t /\ u[n] = t[n] /\ a \in Fs!Path /\ t[n].by = "early"
        /\ ~(n >= m /\ Fs!IsPrefix(p, a))
    BY <1>3, <1>5, <1>9
  <2>2. CASE Fs!IsPrefix(p, a)
    <3>1. Covered(t, p) \/ Away(W, p)
      BY <2>1, <2>2, <1>8
    <3>2. Covered(u, p) \/ Away(W, p)
      BY <3>1, <1>1, <1>7
    <3>3. Covered(u, p) => Covered(u, a)
      BY <2>1, <2>2, <1>1, <1>3, CoveredBelow
    <3>4. Away(W, p) => Away(W, a)
      BY <2>1, <2>2, <1>1, PrefixOrder DEF Away
    <3> QED
      BY <3>2, <3>3, <3>4, <2>1
  <2>3. CASE ~Fs!IsPrefix(p, a)
    <3>1. a # p
      BY <2>3, <1>1, PrefixOrder
    <3>2. a \in S \/ Covered(t, a) \/ Away(W, a)
      BY <3>1, <2>1 DEF Undoable
    <3> QED
      BY <3>2, <2>1, <2>3, <1>7
  <2> QED
    BY <2>2, <2>3
<1>10. ASSUME NEW q \in S
       PROVE  /\ u[Fs!Lookup(u, q)].at = q \/ Covered(u, q) \/ Away(W, q)
              /\ \A n \in DOMAIN u : u[n].by = "unit" /\ u[n].at = q => Covered(u, q) \/ Away(W, q)
  <2>1. q \in Fs!Path /\ ~Fs!IsPrefix(p, q)
    BY <1>1
  <2>2. Covered(t, q) \/ Away(W, q) => Covered(u, q) \/ Away(W, q)
    BY <2>1, <1>7
  <2>3. Fs!Lookup(u, q) = Fs!Lookup(t, q) /\ Fs!Lookup(u, q) \in DOMAIN u
    BY <2>1, <1>3, LookupIsNewest DEF Newest
  <2>4. t[Fs!Lookup(t, q)].at = q \/ Covered(t, q) \/ Away(W, q)
    BY DEF Undoable
  <2>5. \A n \in DOMAIN t : t[n].by = "unit" /\ t[n].at = q => Covered(t, q) \/ Away(W, q)
    BY DEF Undoable
  <2> QED
    BY <2>2, <2>3, <2>4, <2>5, <1>3
<1>11. Undoable(u, S, W)
  BY <1>1, <1>9, <1>10 DEF Undoable
<1> QED
  BY <1>3, <1>6, <1>11

-------------------------------------------------------------------------------
(* The inductive invariant                                                 *)

Taken(M) == { M[k] : k \in 1..Len(M) }

\* A target is not above one that was recorded before it.
Ordered(M) == \A i, k \in 1..Len(M) : i < k => ~Fs!IsPrefix(M[k], M[i])

Monitoring == {"tui", "poll", "render", "input", "test", "stop", "exit", "gone"}
Running == {"signals", "sockets", "units", "poll", "render", "input", "test", "stop"}

\* What leads to /run is d or a mount unit's, or was moved away.
DirsFound(t, S, W, d) ==
  \/ Fs!Lookup(t, <<"run">>) = d
  \/ /\ t[Fs!Lookup(t, <<"run">>)].by = "unit"
     /\ <<"run">> \notin S \/ Covered(t, <<"run">>)
  \/ Away(W, <<"run">>)

MountInv ==
  /\ Tree(mounts) /\ Unstacked(mounts) /\ Ages(mounts)
  /\ mounted_ \in Seq(Fs!Path) /\ moved \subseteq Fs!Path
  /\ idx \in Nat \ {0} /\ mode \in Modes
  /\ mode = "monitor" => pc \in Monitoring /\ \A n \in DOMAIN mounts : mounts[n].by = "host"
  /\ mode # "monitor" => pc # "tui"
  /\ pc \notin {"exit", "gone"} =>
       Undoable(mounts, Taken(mounted_), moved) /\ Ordered(mounted_)
  /\ pc \notin {"unmount", "exit", "gone"} =>
       /\ early \in Nat \ {0} /\ Booting(mounts, early)
       /\ Recorded(mounts, Taken(mounted_), moved, early)
  /\ pc = "early" => NoUnits(mounts)
  /\ EarlyMountsUndone
  /\ mode # "monitor" /\ pc \in Running =>
       DirsFound(mounts, Taken(mounted_), moved, runtime_dirs)

\* The table before the program starts.
LEMMA MountInit ==
  Init => MountInv
<1> SUFFICES ASSUME Init
             PROVE  MountInv
  OBVIOUS
<1>1. PICK table \in Host[mode] : Fs!FilesInit(table)
  BY DEF Init
<1>2. mode \in Modes /\ pc = IF mode = "monitor" THEN "tui" ELSE "early"
  BY DEF Init
<1>3. Fs!HostTable(table)
  BY <1>1, <1>2, MountAssumption
<1>4. mounts = table /\ moved = {} /\ mounted_ = <<>> /\ early = 1
  BY <1>1 DEF Fs!FilesInit
<1>5. /\ Tree(mounts) /\ Unstacked(mounts) /\ Ages(mounts) /\ NoUnits(mounts)
      /\ \A n \in DOMAIN mounts : mounts[n].by = "host"
      /\ Booting(mounts, 1) /\ Undoable(mounts, {}, moved) /\ Recorded(mounts, {}, moved, 1)
  BY <1>3, <1>4, HostMounts
<1>6. Taken(mounted_) = {} /\ Ordered(mounted_) /\ mounted_ \in Seq(Fs!Path)
      /\ moved \subseteq Fs!Path
  BY <1>4 DEF Taken, Ordered
<1>7. pc \in {"tui", "early"} /\ EarlyMountsUndone
  BY <1>2 DEF EarlyMountsUndone
<1>8. (mode = "monitor" => pc = "tui") /\ (mode # "monitor" => pc = "early")
  BY <1>2
<1>9. /\ pc = "tui" => pc \in Monitoring /\ mode = "monitor"
      /\ pc \notin Running
  BY <1>2 DEF Monitoring, Running
<1>10. early \in Nat \ {0} /\ idx \in Nat \ {0}
  BY <1>4 DEF Init
<1> QED
  BY <1>2, <1>4, <1>5, <1>6, <1>7, <1>8, <1>9, <1>10 DEF MountInv

\* A step that leaves the file systems alone keeps the invariant if it moves
\* on in the program.
LEMMA FilesKept ==
  ASSUME MountInv, UNCHANGED <<mounts, moved, mounted_, early, runtime_dirs, mode>>,
         idx' = idx \/ idx' = idx + 1,
         pc' \notin {"exit", "gone"} => pc \notin {"exit", "gone"},
         pc' \notin {"unmount", "exit", "gone"} => pc \notin {"unmount", "exit", "gone"},
         pc' = "early" => pc = "early",
         mode = "monitor" => pc' \in Monitoring,
         mode # "monitor" => pc' # "tui",
         EarlyMountsUndone',
         mode # "monitor" /\ pc' \in Running => pc \in Running
  PROVE  MountInv'
<1> DEFINE Found == DirsFound(mounts, Taken(mounted_), moved, runtime_dirs)
<1>1. Found' = Found
  BY DEF DirsFound
<1> HIDE DEF Found
<1>2. /\ Tree(mounts)' /\ Unstacked(mounts)' /\ Ages(mounts)'
      /\ (mounted_ \in Seq(Fs!Path))' /\ (moved \subseteq Fs!Path)' /\ (idx \in Nat \ {0})'
      /\ (mode = "monitor" => pc \in Monitoring /\ \A n \in DOMAIN mounts : mounts[n].by = "host")'
      /\ (mode # "monitor" => pc # "tui")'
  BY DEF MountInv
<1>3. /\ (pc \notin {"exit", "gone"} =>
           Undoable(mounts, Taken(mounted_), moved) /\ Ordered(mounted_))'
      /\ (pc = "early" => NoUnits(mounts))'
  BY DEF MountInv
<1>4. (pc \notin {"unmount", "exit", "gone"} =>
         /\ early \in Nat \ {0} /\ Booting(mounts, early)
         /\ Recorded(mounts, Taken(mounted_), moved, early))'
  BY DEF MountInv
<1>5. (mode # "monitor" /\ pc \in Running => Found)'
  BY <1>1 DEF MountInv, Found
<1> QED
  BY <1>2, <1>3, <1>4, <1>5 DEF MountInv, Found

\* The steps of the boot phases.
LEMMA EarlyMountKept ==
  ASSUME MountInv, EarlyMountPhase
  PROVE  MountInv'
<1>1. /\ pc = "early" /\ pc' = "early" /\ mode' = mode /\ rc' = rc
      /\ mode # "monitor" /\ "early" \notin Running /\ early \in 1..8 /\ early \in Entries
      /\ early' = early + 1 /\ idx' = idx /\ moved' = moved
  <2>1. pc = "early" /\ pc' = "early" /\ mode' = mode /\ rc' = rc /\ idx' = idx
    BY DEF EarlyMountPhase
  <2>2. mode # "monitor" /\ "early" \notin Running
    BY <2>1 DEF MountInv, Monitoring, Running
  <2>3. early <= Len(Fs!kEarlyMounts) /\ early' = early + 1 /\ moved' = moved
    BY DEF EarlyMountPhase, Fs!EarlyMount, Fs!EarlyMountFails
  <2>4. early \in Nat \ {0}
    BY <2>1 DEF MountInv
  <2>5. 1..Len(Fs!kEarlyMounts) = 1..8 /\ Entries = 1..8
    BY EarlyTargets DEF Entries
  <2>6. Len(Fs!kEarlyMounts) = 8
    BY DEF Fs!kEarlyMounts
  <2> QED
    BY <2>1, <2>2, <2>3, <2>4, <2>5, <2>6
<1> DEFINE S == Taken(mounted_)
<1>2. /\ Tree(mounts) /\ Unstacked(mounts) /\ Ages(mounts) /\ NoUnits(mounts)
      /\ Booting(mounts, early) /\ Undoable(mounts, S, moved)
      /\ Recorded(mounts, S, moved, early)
      /\ Ordered(mounted_) /\ mounted_ \in Seq(Fs!Path) /\ moved \subseteq Fs!Path
  BY <1>1 DEF MountInv
<1>3. early + 1 \in Nat \ {0} /\ early \in Nat
  BY <1>1
<1>4. EarlyMountsUndone'
  BY <1>1 DEF EarlyMountsUndone
<1>5. CASE Fs!EarlyMount
  <2> DEFINE T == Target(early)
  <2>1. /\ mounts' = IF Fs!Busy(mounts, T, Device(early)) THEN mounts
                     ELSE Fs!Attach(mounts, T, Device(early), "early")
        /\ mounted_' = Append(mounted_, T)
    BY <1>5 DEF Fs!EarlyMount, Target, Device
  <2>2. /\ Tree(mounts') /\ Unstacked(mounts') /\ Ages(mounts') /\ Booting(mounts', early + 1)
        /\ NoUnits(mounts') /\ Undoable(mounts', S \cup {T}, moved)
        /\ Recorded(mounts', S \cup {T}, moved, early + 1)
    BY <2>1, <1>1, <1>2, EarlyMountStep
  <2>3. T \in Fs!Path
    BY <1>1, EarlyTargets
  <2>4. /\ mounted_' \in Seq(Fs!Path) /\ Len(mounted_') = Len(mounted_) + 1
        /\ Len(mounted_) \in Nat
        /\ \A k \in 1..Len(mounted_) : mounted_'[k] = mounted_[k]
        /\ mounted_'[Len(mounted_) + 1] = T
    BY <2>1, <2>3, <1>2
  <2>5. \A k \in 1..Len(mounted_) : ~Fs!IsPrefix(T, mounted_[k])
    <3> TAKE k \in 1..Len(mounted_)
    <3>1. mounted_[k] \in S
      BY DEF Taken
    <3>2. PICK i \in Entries : i < early /\ mounted_[k] = Target(i)
      BY <3>1, <1>2 DEF Recorded
    <3> QED
      BY <3>2, <1>1, EarlyTargets
  <2> HIDE DEF T
  <2>6. Taken(mounted_') = S \cup {T}
    <3>1. 1..Len(mounted_') = (1..Len(mounted_)) \cup {Len(mounted_) + 1}
      BY <2>4
    <3> QED
      BY <3>1, <2>4 DEF Taken
  <2>7. Ordered(mounted_')
    BY <2>4, <2>5, <1>2 DEF Ordered
  <2> HIDE DEF S
  <2> QED
    BY <2>2, <2>4, <2>6, <2>7, <1>1, <1>3, <1>4 DEF MountInv
<1>6. CASE Fs!EarlyMountFails
  <2>1. mounts' = mounts /\ mounted_' = mounted_
    BY <1>6 DEF Fs!EarlyMountFails
  <2>2. Booting(mounts, early + 1) /\ Recorded(mounts, S, moved, early + 1)
    BY <1>2, <1>3, NextEntry
  <2> QED
    BY <2>1, <2>2, <1>1, <1>2, <1>3, <1>4 DEF MountInv
<1> QED
  BY <1>5, <1>6 DEF EarlyMountPhase

\* The end of the phase EarlyMount.
LEMMA EarlyMountReturnsKept ==
  ASSUME MountInv, EarlyMountReturns
  PROVE  MountInv'
<1>1. /\ pc = "early" /\ mode' = mode /\ mode # "monitor" /\ idx' = idx
      /\ UNCHANGED <<mounts, moved, mounted_, early>>
  <2>1. pc = "early" /\ mode' = mode /\ idx' = idx
    BY DEF EarlyMountReturns
  <2>2. mode # "monitor"
    BY <2>1 DEF MountInv, Monitoring
  <2>3. UNCHANGED <<mounts, moved, mounted_, early>>
    BY DEF EarlyMountReturns, Fs!CreateRuntimeDirs, files
  <2> QED
    BY <2>1, <2>2, <2>3
<1>2. CASE pc' = "exit" /\ rc' = 1 /\ UNCHANGED files
  <2>1. EarlyMountsUndone'
    BY <1>2 DEF EarlyMountsUndone
  <2>2. "exit" \notin Running
    BY DEF Running
  <2> QED
    BY <2>1, <2>2, <1>1, <1>2, FilesKept DEF files
<1>3. CASE pc' = "signals" /\ runtime_dirs' = Fs!Lookup(mounts, <<"run">>)
  <2>1. EarlyMountsUndone'
    BY <1>3 DEF EarlyMountsUndone
  <2>2. DirsFound(mounts, Taken(mounted_), moved, runtime_dirs)'
    BY <1>1, <1>3 DEF DirsFound
  <2> QED
    BY <2>1, <2>2, <1>1, <1>3 DEF MountInv
<1> QED
  BY <1>2, <1>3 DEF EarlyMountReturns, Fs!CreateRuntimeDirs, Fs!DirsMadeOn

\* Only root is above /run.
LEMMA AboveRun ==
  /\ <<"run">> \in Fs!Path /\ <<"run">> \in Seq(Name) \ {<<>>}
  /\ \A a \in Fs!Path : Fs!IsPrefix(a, <<"run">>) => a = <<>> \/ a = <<"run">>
<1>1. <<"run">> = Target(6) /\ 6 \in Entries
  BY EarlyTargets DEF Target, Fs!kEarlyMounts
<1>2. <<"run">> \in Fs!Path /\ <<"run">> \in Seq(Name) \ {<<>>}
  BY <1>1, EarlyTargets
<1>3. ASSUME NEW a \in Fs!Path, Fs!IsPrefix(a, <<"run">>)
      PROVE  a = <<>> \/ a = <<"run">>
  <2> DEFINE r == <<"run">>
  <2>1. Len(r) = 1 /\ r \in Fs!Path
    BY <1>2
  <2> HIDE DEF r
  <2>2. Len(a) <= 1 /\ (\A i \in 1..Len(a) : a[i] = r[i])
    BY <2>1, <1>3, PrefixComponents DEF r
  <2>3. Len(a) \in Nat /\ a \in Seq(Name \cup {"/"}) /\ r \in Seq(Name \cup {"/"})
    BY <2>1 DEF Fs!Path
  <2>4. CASE Len(a) = 1
    <3>1. a = r
      BY <2>1, <2>2, <2>3, <2>4
    <3> QED
      BY <3>1 DEF r
  <2>5. CASE Len(a) = 0
    BY <2>3, <2>5
  <2>6. Len(a) \in Nat /\ Len(a) <= 1
    BY <2>2, <2>3
  <2>7. Len(a) = 0 \/ Len(a) = 1
    BY <2>6
  <2> QED
    BY <2>4, <2>5, <2>7
<1> QED
  BY <1>2, <1>3

\* What holds of table t while mount units are started.
Settled(t, S, W, j, d) ==
  /\ Tree(t) /\ Unstacked(t) /\ Ages(t) /\ Booting(t, j)
  /\ Undoable(t, S, W) /\ Recorded(t, S, W, j) /\ DirsFound(t, S, W, d)

\* A branch is mounted where no device shows a mount point.
LEMMA GraftKept ==
  ASSUME NEW t, NEW S, NEW W, NEW j, NEW d, Settled(t, S, W, j, d), NEW p \in Place,
         t[Fs!Lookup(t, p)].dev = t[Fs!Lookup(t, Fs!DirAbove(p))].dev,
         NEW br, NEW top, WellBranch(br, top)
  PROVE  Settled(Fs!Graft(t, br, p), S, W, j, d)
<1> DEFINE u == Fs!Graft(t, br, p)
           x == Fs!Fresh(t) + top
           r == <<"run">>
<1>1. /\ Tree(t) /\ Unstacked(t) /\ Ages(t) /\ Booting(t, j)
      /\ Undoable(t, S, W) /\ Recorded(t, S, W, j) /\ DirsFound(t, S, W, d)
  BY DEF Settled
<1>2. p \in Fs!Path /\ p # <<>>
  BY DirectoryAbove
<1>3. Grafted(t, x, p, u)
  BY <1>1, <1>2, GraftedTable
<1> HIDE DEF u, x
<1>4. p \in S => Covered(t, p) \/ Away(W, p)
  BY <1>1, LooksUnmounted
<1>5. Unstacked(u) /\ Ages(u) /\ Booting(u, j)
  BY <1>1, <1>3, GraftTable
<1>6. /\ Undoable(u, S, W) /\ Recorded(u, S, W, j)
      /\ \A q : Covered(t, q) => Covered(u, q)
  BY <1>1, <1>3, <1>4, GraftStep
<1>7. /\ \A k \in DOMAIN t : u[k] = t[k]
      /\ Tree(u) /\ u[x].by = "unit" /\ Fs!Lookup(u, p) = x
      /\ \A q \in Fs!Path : ~Fs!IsPrefix(p, q) => Fs!Lookup(u, q) = Fs!Lookup(t, q)
  BY <1>3 DEF Grafted
<1>8. /\ r \in Fs!Path /\ Fs!Lookup(t, r) \in DOMAIN t
      /\ Fs!IsPrefix(p, r) => p = r
  BY <1>1, <1>2, AboveRun, LookupIsNewest DEF Newest
<1>9. DirsFound(u, S, W, d)
  <2> HIDE DEF r
  <2>1. \/ Fs!Lookup(t, r) = d
        \/ t[Fs!Lookup(t, r)].by = "unit" /\ (r \notin S \/ Covered(t, r))
        \/ Away(W, r)
    BY <1>1 DEF DirsFound, r
  <2>2. \/ Fs!Lookup(u, r) = d
        \/ u[Fs!Lookup(u, r)].by = "unit" /\ (r \notin S \/ Covered(u, r))
        \/ Away(W, r)
    <3>1. CASE Fs!IsPrefix(p, r)
      BY <3>1, <1>4, <1>6, <1>7, <1>8
    <3>2. CASE ~Fs!IsPrefix(p, r)
      BY <3>2, <2>1, <1>6, <1>7, <1>8
    <3> QED
      BY <3>1, <3>2
  <2> QED
    BY <2>2 DEF DirsFound, r
<1>10. Settled(u, S, W, j, d)
  BY <1>5, <1>6, <1>7, <1>9 DEF Settled
<1> QED
  BY <1>10 DEF u

\* A mount is taken away from path p.
LEMMA DetachKept ==
  ASSUME NEW t, NEW S, NEW W, NEW j, NEW d, Settled(t, S, W, j, d),
         NEW p \in Seq(Name) \ {<<>>}, NEW u, Detached(t, p, u)
  PROVE  Settled(u, S, W \cup {p}, j, d)
<1> DEFINE r == <<"run">>
<1>1. /\ Tree(t) /\ Unstacked(t) /\ Ages(t) /\ Booting(t, j)
      /\ Undoable(t, S, W) /\ Recorded(t, S, W, j) /\ DirsFound(t, S, W, d)
  BY DEF Settled
<1>2. /\ Unstacked(u) /\ Ages(u) /\ Booting(u, j)
      /\ \A q \in Fs!Path : Covered(t, q) /\ ~Fs!IsPrefix(p, q) => Covered(u, q)
  BY <1>1, DetachTable
<1>3. Undoable(u, S, W \cup {p}) /\ Recorded(u, S, W \cup {p}, j)
  BY <1>1, MoveStep
<1>4. /\ \A n \in DOMAIN u : u[n] = t[n]
      /\ Tree(u)
      /\ \A q \in Fs!Path : ~Fs!IsPrefix(p, q) => Fs!Lookup(u, q) = Fs!Lookup(t, q)
  BY DEF Detached
<1>5. r \in Fs!Path /\ Fs!Lookup(u, r) \in DOMAIN u
  BY <1>4, AboveRun, LookupIsNewest DEF Newest
<1>6. DirsFound(u, S, W \cup {p}, d)
  <2> HIDE DEF r
  <2>1. \/ Fs!Lookup(t, r) = d
        \/ t[Fs!Lookup(t, r)].by = "unit" /\ (r \notin S \/ Covered(t, r))
        \/ Away(W, r)
    BY <1>1 DEF DirsFound, r
  <2>2. Fs!IsPrefix(p, r) \/ Away(W, r) => Away(W \cup {p}, r)
    BY DEF Away
  <2>3. \/ Fs!Lookup(u, r) = d
        \/ u[Fs!Lookup(u, r)].by = "unit" /\ (r \notin S \/ Covered(u, r))
        \/ Away(W \cup {p}, r)
    BY <2>1, <2>2, <1>2, <1>4, <1>5
  <2> QED
    BY <2>3 DEF DirsFound, r
<1> QED
  BY <1>2, <1>3, <1>4, <1>6 DEF Settled

\* The mount units, one of which says where to mount.
LEMMA UnitPlaces ==
  ASSUME NEW md \in Modes, NEW k \in Nat \ {0}, k <= Len(mount_units[md]),
         mount_units[md][k].where # Fs!Empty
  PROVE  /\ mount_units[md][k].where \in Place
         /\ mount_units[md][k].what # Fs!Empty => mount_units[md][k].what \in Seq(Name)
<1> DEFINE What == Seq(Name) \cup {Fs!Empty}
           Where == (Seq(Name) \ {<<>>}) \cup {Fs!OverRoot, Fs!Empty}
           Options == Seq(STRING)
           MU == [name : STRING, what : What, where : Where, fs : STRING, options : Options]
<1>1. mount_units[md] \in Seq(MU)
  BY MountAssumption
<1>2. \A u \in MU : u.what \in What /\ u.where \in Where
  <2> HIDE DEF What, Where, Options
  <2> QED
    OBVIOUS
<1> HIDE DEF MU
<1>3. Len(mount_units[md]) \in Nat /\ k \in 1..Len(mount_units[md])
  BY <1>1
<1>4. mount_units[md][k] \in MU
  BY <1>1, <1>3
<1> QED
  BY <1>2, <1>4 DEF Place

\* start_mount, whatever the unit asks for.
LEMMA MountUnitKept ==
  ASSUME MountInv, ExecuteMountUnit
  PROVE  MountInv'
<1>1. /\ pc = "units" /\ pc' = "units" /\ mode' = mode /\ mode # "monitor"
      /\ UNCHANGED <<mounted_, early, runtime_dirs>> /\ "units" \in Running
      /\ idx' = idx + 1 /\ idx <= Len(mount_units[mode]) /\ idx \in Nat \ {0}
      /\ mode \in Modes
  <2>1. pc = "units" /\ pc' = "units" /\ mode' = mode /\ idx' = idx + 1
        /\ idx <= Len(mount_units[mode])
    BY DEF ExecuteMountUnit
  <2>2. mode # "monitor" /\ "units" \in Running /\ idx \in Nat \ {0} /\ mode \in Modes
    BY <2>1 DEF MountInv, Monitoring, Running
  <2>3. UNCHANGED <<mounted_, early, runtime_dirs>>
    BY DEF ExecuteMountUnit, Fs!start_mount, files
  <2> QED
    BY <2>1, <2>2, <2>3
<1>2. EarlyMountsUndone'
  BY <1>1 DEF EarlyMountsUndone
<1>3. CASE UNCHANGED <<mounts, moved>>
  BY <1>1, <1>2, <1>3, FilesKept
<1> DEFINE u == mount_units[mode][idx]
           flags == Fs!parse_mount_options(u.options).flags
           S == Taken(mounted_)
<1>4. SUFFICES ASSUME Fs!start_mount(u), ~UNCHANGED <<mounts, moved>>
               PROVE  MountInv'
  BY <1>3 DEF ExecuteMountUnit, files
<1>5. /\ u.what # Fs!Empty /\ u.where # Fs!Empty /\ ~Fs!AlreadyMounted(u.where)
      /\ \/ Fs!mount_bind(u, flags)
         \/ Fs!Movable(u) /\ Fs!mount_move(u)
         \/ Fs!mount_new(u)
  BY <1>4 DEF Fs!start_mount, Fs!mount
<1>6. u.where \in Place /\ u.what \in Seq(Name) /\ u.what \in Fs!Path
  BY <1>1, <1>5, UnitPlaces, NamePaths
<1> HIDE DEF u, flags
<1> DEFINE p == u.where
           w == u.what
<1>7. /\ Settled(mounts, S, moved, early, runtime_dirs)
      /\ Ordered(mounted_) /\ mounted_ \in Seq(Fs!Path) /\ early \in Nat \ {0}
      /\ moved \subseteq Fs!Path /\ Tree(mounts)
  BY <1>1 DEF MountInv, Settled
<1>8. mounts[Fs!Lookup(mounts, p)].dev = mounts[Fs!Lookup(mounts, Fs!DirAbove(p))].dev
  BY <1>5 DEF Fs!AlreadyMounted
<1>9. SUFFICES Settled(mounts', S, moved', early, runtime_dirs) /\ moved' \subseteq Fs!Path
  BY <1>1, <1>2, <1>7 DEF MountInv, Settled
<1>10. CASE Fs!mount_bind(u, flags)
  <2> DEFINE ns == IF "MS_REC" \in flags THEN Fs!Below(mounts, w) ELSE {}
  <2>1. mounts' = Fs!Graft(mounts, Fs!Branch(mounts, w, ns), p) /\ moved' = moved
    BY <1>10 DEF Fs!mount_bind
  <2>2. WellBranch(Fs!Branch(mounts, w, ns), Fs!Lookup(mounts, w))
    BY <1>6, <1>7, PathBranch
  <2> HIDE DEF ns
  <2> QED
    BY <2>1, <2>2, <1>6, <1>7, <1>8, GraftKept
<1>11. CASE Fs!mount_new(u)
  <2> DEFINE dev == Fs!DeviceOf(u.fs, <<u.name>>, "unit")
  <2>1. moved' = moved /\ (mounts' = mounts \/ mounts' = Fs!Graft(mounts, Fs!Single(dev), p))
    BY <1>11 DEF Fs!mount_new
  <2>2. WellBranch(Fs!Single(dev), Fs!RootMount)
    BY SingleBranch
  <2> HIDE DEF dev
  <2> QED
    BY <2>1, <2>2, <1>6, <1>7, <1>8, GraftKept
<1>12. CASE Fs!Movable(u) /\ Fs!mount_move(u)
  <2> DEFINE t == Fs!Detach(mounts, Fs!Lookup(mounts, w))
             br == Fs!Branch(mounts, w, Fs!Below(mounts, w))
  <2>1. /\ Fs!IsMountPoint(mounts, w) /\ ~Fs!IsPrefix(w, p)
        /\ mounts' = Fs!Graft(t, br, p) /\ moved' = moved \cup {w}
    BY <1>12 DEF Fs!Movable, Fs!mount_move
  <2>2. WellBranch(br, Fs!Lookup(mounts, w))
    BY <1>6, <1>7, PathBranch
  <2>3. p \in Fs!Path /\ Fs!DirAbove(p) \in Fs!Path /\ w # <<>>
    BY <2>1, <1>6, DirectoryAbove, PrefixOrder
  <2>4. ~Fs!IsPrefix(w, Fs!DirAbove(p))
    BY <2>1, <2>3, <1>6, DirectoryAbove DEF Fs!IsStrictPrefix
  <2>5. Detached(mounts, w, t)
    BY <2>1, <2>3, <1>6, <1>7, DetachedTable
  <2> HIDE DEF t, br
  <2>6. Settled(t, S, moved \cup {w}, early, runtime_dirs)
    BY <2>3, <2>5, <1>6, <1>7, DetachKept
  <2>7. \A q \in Fs!Path : ~Fs!IsPrefix(w, q) =>
          Fs!Lookup(t, q) = Fs!Lookup(mounts, q) /\ t[Fs!Lookup(t, q)] = mounts[Fs!Lookup(mounts, q)]
    <3>1. /\ \A n \in DOMAIN t : t[n] = mounts[n]
          /\ Tree(t)
          /\ \A q \in Fs!Path : ~Fs!IsPrefix(w, q) => Fs!Lookup(t, q) = Fs!Lookup(mounts, q)
      BY <2>5 DEF Detached
    <3>2. \A q \in Fs!Path : Fs!Lookup(t, q) \in DOMAIN t
      BY <3>1, LookupIsNewest DEF Newest
    <3> QED
      BY <3>1, <3>2
  <2>8. t[Fs!Lookup(t, p)].dev = t[Fs!Lookup(t, Fs!DirAbove(p))].dev
    BY <2>1, <2>3, <2>4, <2>7, <1>8
  <2>9. Settled(Fs!Graft(t, br, p), S, moved \cup {w}, early, runtime_dirs)
    BY <2>2, <2>6, <2>8, <1>6, GraftKept
  <2> QED
    BY <2>1, <2>9, <1>6, <1>7
<1> QED
  BY <1>5, <1>10, <1>11, <1>12

\* RemoveAt of the last place.
LEMMA LastRemoved ==
  ASSUME NEW P, NEW M \in Seq(P), Len(M) # 0, NEW F, F = Fs!RemoveAt(M, Len(M))
  PROVE  /\ F \in Seq(P) /\ Len(F) = Len(M) - 1
         /\ \A k \in 1..Len(F) : F[k] = M[k] /\ k \in 1..Len(M) /\ k < Len(M)
<1> DEFINE n == Len(M) - 1
           A == SubSeq(M, 1, n)
           E == SubSeq(M, Len(M) + 1, Len(M))
<1>1. n \in Nat /\ n <= Len(M) /\ Len(M) \in Nat /\ n = Len(M) - 1
  OBVIOUS
<1> HIDE DEF n
<1>2. Len(A) = n /\ \A k \in 1..n : A[k] = M[k]
  <2>1. Len(A) = n
    BY <1>1
  <2>2. ASSUME NEW k \in 1..n
        PROVE  A[k] = M[1 + k - 1]
    BY <1>1
  <2> QED
    BY <2>1, <2>2, <1>1
<1>3. A \in Seq(P)
  BY <1>1
<1>4. E = <<>>
  BY <1>1
<1>5. F = A \o E
  BY <1>1 DEF Fs!RemoveAt
<1> HIDE DEF A, E
<1>6. F = A
  BY <1>3, <1>4, <1>5
<1> QED
  BY <1>1, <1>2, <1>3, <1>6

\* The way out.
LEMMA UnmountKept ==
  ASSUME MountInv, UnmountOne
  PROVE  MountInv' /\ \A p \in refused' \ refused : CoveredByUnit(p) \/ MovedAway(p)
<1> DEFINE M == mounted_
           T == M[Len(M)]
<1>1. /\ pc = "unmount" /\ pc' = "unmount" /\ mode' = mode /\ mode # "monitor"
      /\ idx' = idx /\ moved' = moved /\ "unmount" \notin Running
  <2>1. pc = "unmount" /\ pc' = "unmount" /\ mode' = mode /\ idx' = idx /\ moved' = moved
    BY DEF UnmountOne, Fs!Unmount
  <2>2. mode # "monitor" /\ "unmount" \notin Running
    BY <2>1 DEF MountInv, Monitoring, Running
  <2> QED
    BY <2>1, <2>2
<1>2. /\ Tree(mounts) /\ Unstacked(mounts) /\ Ages(mounts)
      /\ M \in Seq(Fs!Path) /\ Ordered(M) /\ Undoable(mounts, Taken(M), moved)
      /\ moved \subseteq Fs!Path /\ idx \in Nat \ {0}
  BY <1>1 DEF MountInv
<1>3. /\ M # <<>> /\ mounted_' = Fs!RemoveAt(M, Len(M))
      /\ IF Fs!IsMountPoint(mounts, T)
         THEN mounts' = Fs!Detach(mounts, Fs!Lookup(mounts, T)) /\ refused' = refused
         ELSE refused' = refused \cup {T} /\ mounts' = mounts
  BY DEF UnmountOne, Fs!Unmount, Fs!NextUnmount
<1>4. Len(M) \in Nat /\ Len(M) # 0 /\ Len(M) \in 1..Len(M)
  <2>1. Len(M) \in Nat /\ Len(M) # 0
    BY <1>2, <1>3
  <2> QED
    BY <2>1
<1> DEFINE F == mounted_'
<1>5. /\ F \in Seq(Fs!Path) /\ Len(F) = Len(M) - 1
      /\ \A k \in 1..Len(F) : F[k] = M[k] /\ k \in 1..Len(M) /\ k < Len(M)
  BY <1>2, <1>3, <1>4, LastRemoved
<1> HIDE DEF M, F
<1> DEFINE S == Taken(F)
<1>6. Taken(M) = S \cup {T}
  <2>1. 1..Len(M) = (1..Len(F)) \cup {Len(M)}
    BY <1>4, <1>5
  <2> QED
    BY <2>1, <1>5 DEF Taken
<1>7. \A q \in S : ~Fs!IsPrefix(T, q)
  <2> TAKE q \in S
  <2>1. PICK k \in 1..Len(F) : q = F[k]
    BY DEF Taken
  <2> QED
    BY <2>1, <1>2, <1>4, <1>5 DEF Ordered
<1>8. Ordered(F)
  BY <1>2, <1>5 DEF Ordered
<1> HIDE DEF S, T
<1>9. Undoable(mounts, S \cup {T}, moved)
  BY <1>2, <1>6
<1>10. EarlyMountsUndone'
  BY <1>1 DEF EarlyMountsUndone
<1>11. CASE Fs!IsMountPoint(mounts, T)
  <2>1. mounts' = Fs!Detach(mounts, Fs!Lookup(mounts, T)) /\ refused' = refused
    BY <1>3, <1>11
  <2>2. Tree(mounts') /\ Unstacked(mounts') /\ Ages(mounts') /\ Undoable(mounts', S, moved)
    BY <2>1, <1>2, <1>7, <1>9, <1>11, UnmountStep
  <2>3. MountInv'
    BY <2>2, <1>1, <1>2, <1>5, <1>8, <1>10 DEF MountInv, S, F
  <2> QED
    BY <2>1, <2>3
<1>12. CASE ~Fs!IsMountPoint(mounts, T)
  <2>1. mounts' = mounts /\ refused' = refused \cup {T}
    BY <1>3, <1>12
  <2>2. Covered(mounts, T) \/ Away(moved, T)
    BY <1>9, <1>12 DEF Undoable, Fs!IsMountPoint
  <2>3. CoveredByUnit(T) \/ MovedAway(T)
    BY <2>2 DEF Covered, CoveredByUnit, Away, MovedAway
  <2>4. Undoable(mounts, S, moved)
    <3>1. ASSUME NEW n \in DOMAIN mounts, mounts[n].by = "early"
          PROVE  \/ mounts[n].at \in S
                 \/ Covered(mounts, mounts[n].at) \/ Away(moved, mounts[n].at)
      BY <3>1, <2>2, <1>9 DEF Undoable
    <3> QED
      BY <3>1, <1>9 DEF Undoable
  <2>5. MountInv'
    BY <2>1, <2>4, <1>1, <1>2, <1>5, <1>8, <1>10 DEF MountInv, S, F
  <2> QED
    BY <2>1, <2>3, <2>5
<1> QED
  BY <1>11, <1>12

\* The end of the shutdown.
LEMMA UnmountedKept ==
  ASSUME MountInv, Unmounted
  PROVE  MountInv'
<1>1. /\ pc = "unmount" /\ mounted_ = <<>> /\ pc' = "exit" /\ mode' = mode /\ idx' = idx
      /\ UNCHANGED <<mounts, moved, mounted_, early, runtime_dirs>>
  BY DEF Unmounted, files
<1>2. Taken(mounted_) = {} /\ Undoable(mounts, Taken(mounted_), moved)
  BY <1>1 DEF Taken, MountInv
<1>3. EarlyMountsUndone'
  BY <1>1, <1>2 DEF Undoable, Covered, CoveredByUnit, Away, MovedAway, EarlyMountsUndone
<1>4. mode # "monitor" /\ "exit" \notin Running
  BY <1>1 DEF MountInv, Monitoring, Running
<1> QED
  BY <1>1, <1>3, <1>4, FilesKept

\* The other steps.
LEMMA OthersKept ==
  ASSUME MountInv,
         \/ SignalSetup \/ SocketBind \/ SocketsBound \/ TuiStart \/ PollOnce
         \/ FixRuntimeDirs \/ Render \/ HandleInput \/ Quit \/ LoopTest \/ Stop
         \/ CloseSockets \/ Destructors \/ UNCHANGED vars
  PROVE  MountInv'
<1> DEFINE Same == UNCHANGED <<mounts, moved, mounted_, early, runtime_dirs, mode, idx>>
<1>1. Same
  <2>1. CASE FixRuntimeDirs
    BY <2>1 DEF FixRuntimeDirs, Fs!fix_runtime_dir_ownership
  <2>2. CASE SocketBind
    BY <2>2 DEF SocketBind, files
  <2>3. CASE SignalSetup \/ SocketsBound \/ TuiStart \/ PollOnce \/ Render \/ HandleInput
    BY <2>3 DEF SignalSetup, SocketsBound, TuiStart, PollOnce, Render, HandleInput, files
  <2>4. CASE Quit \/ LoopTest \/ Stop \/ CloseSockets \/ Destructors
    BY <2>4 DEF Quit, LoopTest, Stop, CloseSockets, Destructors, files
  <2>5. CASE UNCHANGED vars
    BY <2>5 DEF vars, files
  <2> QED
    BY <2>1, <2>2, <2>3, <2>4, <2>5
<1>2. /\ mode = "monitor" => pc \in Monitoring /\ \A n \in DOMAIN mounts : mounts[n].by = "host"
      /\ mode # "monitor" => pc # "tui"
      /\ EarlyMountsUndone
  BY DEF MountInv
<1>3. ASSUME pc \notin {"exit", "gone"}, pc' \notin {"exit", "gone"}
      PROVE  EarlyMountsUndone'
  BY <1>3 DEF EarlyMountsUndone
<1> DEFINE Moves ==
             /\ pc' \notin {"exit", "gone"} => pc \notin {"exit", "gone"}
             /\ pc' \notin {"unmount", "exit", "gone"} => pc \notin {"unmount", "exit", "gone"}
             /\ pc' = "early" => pc = "early"
             /\ mode = "monitor" => pc' \in Monitoring
             /\ mode # "monitor" => pc' # "tui"
             /\ EarlyMountsUndone'
             /\ mode # "monitor" /\ pc' \in Running => pc \in Running
<1>4. SUFFICES Moves
  BY <1>1, FilesKept
<1>5. CASE pc' = pc /\ rc' = rc
  <2>1. EarlyMountsUndone'
    BY <1>1, <1>2, <1>5 DEF EarlyMountsUndone, CoveredByUnit, MovedAway
  <2> QED
    BY <2>1, <1>2, <1>5
<1>6. CASE SignalSetup
  <2>1. pc = "signals" /\ pc' \in {"exit", "sockets"} /\ (pc' = "exit" => rc' = 1)
    BY <1>6 DEF SignalSetup
  <2>2. EarlyMountsUndone'
    BY <2>1 DEF EarlyMountsUndone
  <2> QED
    BY <2>1, <2>2, <1>2 DEF Monitoring, Running
<1>7. CASE SocketsBound \/ TuiStart
  <2>1. /\ pc \in {"sockets", "units", "tui"} /\ pc' \in {"units", "poll"}
        /\ pc = "sockets" => pc' = "units"
        /\ pc # "sockets" => pc' = "poll"
    BY <1>7 DEF SocketsBound, TuiStart
  <2> QED
    BY <2>1, <1>2, <1>3 DEF Monitoring, Running
<1>8. CASE PollOnce \/ Render \/ HandleInput \/ Quit \/ LoopTest
  <2>1. /\ pc \in {"poll", "render", "input", "test"}
        /\ pc' \in {"render", "test", "input", "poll", "stop"}
    BY <1>8 DEF PollOnce, Render, HandleInput, Quit, LoopTest
  <2> QED
    BY <2>1, <1>2, <1>3 DEF Monitoring, Running
<1>9. CASE Stop
  <2>1. pc = "stop" /\ pc' = IF mode = "monitor" THEN "exit" ELSE "close"
    BY <1>9 DEF Stop
  <2>2. EarlyMountsUndone'
    BY <2>1, <1>1, <1>2, <1>3 DEF EarlyMountsUndone
  <2> QED
    BY <2>1, <2>2, <1>2 DEF Monitoring, Running
<1>10. CASE CloseSockets
  <2>1. pc = "close" /\ pc' = "unmount"
    BY <1>10 DEF CloseSockets
  <2> QED
    BY <2>1, <1>2, <1>3 DEF Monitoring, Running
<1>11. CASE Destructors
  <2>1. pc = "exit" /\ pc' = "gone" /\ rc' = rc
    BY <1>11 DEF Destructors
  <2>2. EarlyMountsUndone'
    BY <2>1, <1>1, <1>2 DEF EarlyMountsUndone, CoveredByUnit, MovedAway
  <2> QED
    BY <2>1, <2>2, <1>2 DEF Monitoring, Running
<1>12. CASE SocketBind \/ FixRuntimeDirs \/ UNCHANGED vars
  <2>1. pc' = pc /\ rc' = rc
    BY <1>12 DEF SocketBind, FixRuntimeDirs, vars
  <2> QED
    BY <2>1, <1>5
<1> QED
  BY <1>6, <1>7, <1>8, <1>9, <1>10, <1>11, <1>12

\* Only the unmounts find targets that umount2 refuses.
LEMMA OthersRefuseNothing ==
  ASSUME [Next]_vars, ~UnmountOne
  PROVE  refused' = refused
<1>1. CASE EarlyMountPhase \/ EarlyMountReturns
  BY <1>1 DEF EarlyMountPhase, EarlyMountReturns, Fs!EarlyMount, Fs!EarlyMountFails,
              Fs!CreateRuntimeDirs, files
<1>2. CASE ExecuteMountUnit
  BY <1>2 DEF ExecuteMountUnit, Fs!start_mount, files
<1>3. CASE FixRuntimeDirs
  BY <1>3 DEF FixRuntimeDirs, Fs!fix_runtime_dir_ownership
<1>4. CASE SocketBind
  BY <1>4 DEF SocketBind, files
<1>5. CASE SignalSetup \/ SocketsBound \/ TuiStart \/ PollOnce \/ Render \/ HandleInput
  BY <1>5 DEF SignalSetup, SocketsBound, TuiStart, PollOnce, Render, HandleInput, files
<1>6. CASE Quit \/ LoopTest \/ Stop \/ CloseSockets \/ Unmounted \/ Destructors
  BY <1>6 DEF Quit, LoopTest, Stop, CloseSockets, Unmounted, Destructors, files
<1>7. CASE UNCHANGED vars \/ Gone
  BY <1>7 DEF Gone, vars, files
<1> QED
  BY <1>1, <1>2, <1>3, <1>4, <1>5, <1>6, <1>7 DEF Next

\* Every step of the program keeps the mounts in order.
LEMMA MountStep ==
  MountInv /\ [Next]_vars => MountInv'
<1> SUFFICES ASSUME MountInv, [Next]_vars
             PROVE  MountInv'
  OBVIOUS
<1>1. CASE EarlyMountPhase
  BY <1>1, EarlyMountKept
<1>2. CASE EarlyMountReturns
  BY <1>2, EarlyMountReturnsKept
<1>3. CASE ExecuteMountUnit
  BY <1>3, MountUnitKept
<1>4. CASE UnmountOne
  BY <1>4, UnmountKept
<1>5. CASE Unmounted
  BY <1>5, UnmountedKept
<1>6. CASE \/ SignalSetup \/ SocketBind \/ SocketsBound \/ TuiStart \/ PollOnce
           \/ FixRuntimeDirs \/ Render \/ HandleInput \/ Quit \/ LoopTest \/ Stop
           \/ CloseSockets \/ Destructors \/ UNCHANGED vars
  BY <1>6, OthersKept
<1> QED
  BY <1>1, <1>2, <1>3, <1>4, <1>5, <1>6 DEF Next, Gone

\* The mounts of the program are always in order.
LEMMA MountInvariant ==
  Spec => []MountInv
BY MountInit, MountStep, PTL DEF Spec

-------------------------------------------------------------------------------
(* The theorems                                                            *)

\* Whatever was mounted at the start and whichever mount units there are,
\* those that move or copy mounts included: a run that ends with 0 has undone
\* its early mounts, but for those below a directory that a mount unit covers
\* or from which one moves a mount away.  phase::Shutdown needs the reverse
\* order and start_mount's look at the devices for it.
THEOREM EarlyMountsAreUndone ==
  Spec => []EarlyMountsUndone
<1>1. MountInv => EarlyMountsUndone
  BY DEF MountInv
<1> QED
  BY <1>1, MountInvariant, PTL

\* No umount2 of phase::Shutdown is refused but where a mount unit covers the
\* target at that time or one has moved it away.
THEOREM RefusedWhereCovered ==
  Spec => RefusedOnlyWhereCovered
<1> DEFINE Excused == \A p \in refused' \ refused : CoveredByUnit(p) \/ MovedAway(p)
<1>1. MountInv /\ [Next]_vars => [Excused]_vars
  <2> SUFFICES ASSUME MountInv, [Next]_vars
               PROVE  Excused
    OBVIOUS
  <2>1. CASE UnmountOne
    BY <2>1, UnmountKept
  <2>2. CASE ~UnmountOne
    BY <2>2, OthersRefuseNothing
  <2> QED
    BY <2>1, <2>2
<1> QED
  BY <1>1, MountInvariant, PTL DEF Spec, RefusedOnlyWhereCovered

\* A mount unit never ends up on a mount that start_mount could have seen,
\* however many units name the same directory or one above it, and whatever
\* they bind or move there.
THEOREM NoMountOverAnother ==
  Spec => []NoMountOverMount
<1>1. MountInv => NoMountOverMount
  BY DEF MountInv, Unstacked, InDirOf, NoMountOverMount, InDirAbove
<1> QED
  BY <1>1, MountInvariant, PTL

\* The runtime directories of EarlyMount stay the ones that services see,
\* unless a mount unit moves /run away or makes up for an early mount of it
\* that failed or is covered.
THEOREM RuntimeDirsStayVisible ==
  Spec => []RuntimeDirsVisible
<1>1. MountInv => RuntimeDirsVisible
  <2> SUFFICES ASSUME MountInv, pc \in {"poll", "render", "input", "test", "stop"},
                      mode # "monitor"
               PROVE  \/ Fs!Lookup(mounts, <<"run">>) = runtime_dirs
                      \/ mounts[Fs!Lookup(mounts, <<"run">>)].by = "unit"
                         /\ \/ \A k \in 1..Len(mounted_) : mounted_[k] # <<"run">>
                            \/ CoveredByUnit(<<"run">>)
                      \/ MovedAway(<<"run">>)
    BY DEF RuntimeDirsVisible
  <2>1. DirsFound(mounts, Taken(mounted_), moved, runtime_dirs)
    BY DEF MountInv, Running
  <2> QED
    BY <2>1 DEF DirsFound, Taken, Covered, CoveredByUnit, Away, MovedAway
<1> QED
  BY <1>1, MountInvariant, PTL
===============================================================================
