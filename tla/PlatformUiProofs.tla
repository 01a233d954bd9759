-------------------------- MODULE PlatformUiProofs --------------------------
(***************************************************************************)
(* Proofs about PlatformUi, for any keys, spots, menus and texts.          *)
(*                                                                         *)
(* The inductive invariant is a conjunction of four parts, each inductive  *)
(* together with TypeOK: where the focus is, who owns the touch under way, *)
(* how the transition goes with the event the guest handles, and whose     *)
(* frame is on the screen.  A fifth part says whose the keys are that are  *)
(* down: the guest's, a layer's that remembers it, or one a layer has lost. *)
(***************************************************************************)
EXTENDS PlatformUi, TLAPS

Posted == {"menuSelect", "menuReturn", "dialog"}

FocusInv ==
  /\ FocusInRange
  /\ g_menu.active => g_menu.item_count >= 1

TouchInv ==
  /\ finger = NoSpot <=> ghost.owner = "none"
  /\ g_captured_touch # Free <=> ghost.owner = "menu"
  /\ g_captured_touch \notin {Free, None} => ghost.fresh /\ ghost.target = g_captured_touch

TransitionInv ==
  /\ tw_transition_depth = IF dispatch.kind \in Posted THEN 1 ELSE 0
  /\ tw_restore_pending => dispatch.kind \in Posted
  /\ tw_transition_depth > 0 => g_menu.active \/ tw.active \/ tw_restore_pending
  /\ dispatch = Off => ~g_menu.active /\ ~tw.active /\ ~tw_mirror_valid

ScreenInv ==
  /\ ~g_menu.active /\ ~tw.active /\ tw_mirror_valid => screen = "guest" \/ tw_restore_pending
  /\ ~ghost.stacked => ~(g_menu.active /\ tw.active)
  /\ LayerOnScreen

Safe == TypeOK /\ FocusInv /\ TouchInv /\ TransitionInv /\ ScreenInv

\* A key that is down belongs to the guest or to the layer that took its press, which
\* remembers it or has lost it to another press.
KeyInv ==
  /\ ghost.keys \subseteq held /\ ghost.lost \subseteq held
  /\ g_captured_key # NoKey => g_captured_key \in held \ (ghost.keys \cup ghost.lost)
  /\ tw_captured_key # NoKey => tw_captured_key \in held \ (ghost.keys \cup ghost.lost)
  /\ g_captured_key # NoKey => g_captured_key # tw_captured_key
  /\ \A k \in held \ (ghost.keys \cup ghost.lost) : k \in {g_captured_key, tw_captured_key}
-----------------------------------------------------------------------------
\* What the steps need of the constants.
LEMMA Bounds ==
  /\ MaxItems \in Nat /\ MaxLines \in Nat /\ Visible \in Nat /\ DragBound \in Nat
  /\ 0 \in 0..MaxItems /\ 0 \in 0..(MaxItems - 1) /\ 0 \in 0..MaxLines
  BY PlatformUiAssumption

LEMMA SpotRows == \A p \in Spots : p.row \in Nat /\ Row(p) \in Nat /\ p # NoSpot
<1> SUFFICES ASSUME NEW p \in Spots PROVE p.row \in Nat /\ Row(p) \in Nat /\ p # NoSpot
  OBVIOUS
<1>1. p \in [area : Areas, row : Nat] /\ Visible \in Nat
  BY PlatformUiAssumption
<1>2. p.row \in Nat /\ p.area \in Areas
  BY <1>1
<1> QED
  BY <1>1, <1>2 DEF Row, NoSpot, Areas

LEMMA TargetValues ==
  /\ Back \in Targets /\ Ok \in Targets /\ None \in Targets /\ Free \notin Targets
  /\ \A i \in 0..(MaxItems - 1) : i \in Targets
  BY Bounds DEF Targets, Back, Ok, None, Free

\* Where a touch on the menu may fall.
LEMMA TargetRange ==
  ASSUME g_menu \in Menus, NEW p \in Spots
  PROVE  /\ menu_touch_target(p) \in Targets
         /\ menu_touch_target(p) >= 0 => menu_touch_target(p) \in 0..(g_menu.item_count - 1)
         /\ menu_touch_target(p) # Free
  BY Bounds, SpotRows DEF Menus, menu_touch_target, Targets, Back, Ok, None, Free

LEMMA ModRange == \A i \in Int, n \in Nat \ {0} : i % n \in 0..(n - 1)
  BY Z3

MenuTypes ==
  /\ g_menu \in Menus
  /\ g_captured_key \in Keys \cup {NoKey} /\ g_captured_touch \in Targets \cup {Free}
TextTypes ==
  /\ tw \in Texts /\ tw_captured_key \in Keys \cup {NoKey}
  /\ tw_drag \in [active : BOOLEAN, last_y : Int]
ScreenTypes ==
  /\ tw_mirror_valid \in BOOLEAN /\ tw_transition_depth \in Nat
  /\ tw_restore_pending \in BOOLEAN
  /\ screen \in {"blank", "guest", "old", "menu", "text"}
  /\ dispatch \in [kind : Kinds, item : Targets]
InputTypes ==
  /\ held \in SUBSET Keys /\ finger \in Spots \cup {NoSpot}
  /\ ghost \in Ghosts

\* Moving the focus keeps it on an item, and shows the menu.
LEMMA MoveSelection ==
  ASSUME g_menu \in Menus, g_menu.active, g_menu.item_count >= 1,
         NEW delta \in {-1, 1}, menu_move_selection(delta)
  PROVE  /\ g_menu' \in Menus /\ g_menu'.active
         /\ g_menu'.selected < g_menu'.item_count /\ g_menu'.item_count >= 1
         /\ screen' \in {screen, "menu"}
         /\ UNCHANGED <<dispatch, tw_mirror_valid, tw_transition_depth, tw_restore_pending>>
<1> DEFINE next == (g_menu.selected + delta) % g_menu.item_count
<1> HIDE DEF next
<1>1. /\ g_menu.item_count \in 1..MaxItems /\ g_menu.selected \in Int
      /\ g_menu.handle \in Handles \cup {0}
  BY Bounds DEF Menus
<1>2. next \in 0..(g_menu.item_count - 1)
  <2>1. g_menu.item_count \in Nat \ {0} /\ g_menu.selected + delta \in Int
    BY <1>1, Bounds
  <2> QED
    BY <2>1, ModRange DEF next
<1>3. g_menu' = [g_menu EXCEPT !.selected = next]
  BY DEF menu_move_selection, next
<1>4. g_menu' = [active |-> TRUE, handle |-> g_menu.handle, item_count |-> g_menu.item_count,
                 selected |-> next]
  BY <1>3 DEF Menus
<1>5. g_menu' \in Menus /\ g_menu'.active /\ g_menu'.selected < g_menu'.item_count
      /\ g_menu'.item_count >= 1
  BY <1>1, <1>2, <1>4, Bounds DEF Menus
<1> QED
  BY <1>5 DEF menu_move_selection, present, screenVars

\* A choice closes the menu and is sent to the guest inside a transition.
LEMMA SelectAndPost ==
  ASSUME g_menu \in Menus, NEW target \in Targets, menu_select_and_post(target)
  PROVE  /\ g_menu' = NoMenu /\ g_menu' \in Menus /\ ~g_menu'.active
         /\ dispatch' \in [kind : Kinds, item : Targets]
         /\ dispatch'.kind \in {"menuSelect", "menuReturn"}
         /\ tw_transition_depth' = tw_transition_depth + 1 /\ tw_restore_pending' = TRUE
         /\ UNCHANGED <<tw_mirror_valid, screen>>
<1>1. NoMenu \in Menus
  BY Bounds DEF NoMenu, Menus
<1>2. g_menu.selected \in Targets /\ None \in Targets
  BY TargetValues DEF Menus
<1>3. PICK kind \in {"menuSelect", "menuReturn"}, i \in Targets :
        dispatch' = [kind |-> kind, item |-> i]
  BY <1>2 DEF menu_select_and_post, Event
<1> QED
  BY <1>1, <1>3 DEF menu_select_and_post, NoMenu, Kinds

LEMMA SelectTypes ==
  ASSUME ScreenTypes, g_menu \in Menus, NEW target \in Targets, menu_select_and_post(target)
  PROVE  ScreenTypes'
<1>1. /\ dispatch' \in [kind : Kinds, item : Targets]
      /\ tw_transition_depth' = tw_transition_depth + 1 /\ tw_restore_pending' = TRUE
      /\ tw_mirror_valid' = tw_mirror_valid /\ screen' = screen
  BY SelectAndPost
<1>2. tw_transition_depth' \in Nat
  BY <1>1 DEF ScreenTypes
<1> QED
  BY <1>1, <1>2 DEF ScreenTypes

\* The menu keeps its types.
LEMMA MenuTypeStep ==
  TypeOK /\ FocusInv /\ [Next]_vars => MenuTypes'
<1> SUFFICES ASSUME TypeOK /\ FocusInv, [Next]_vars PROVE MenuTypes'
  OBVIOUS
<1> USE Bounds, TargetValues DEF TypeOK, FocusInv, FocusInRange, MenuTypes,
          Menus, menuVars, textVars, screenVars, inputVars, NoMenu, NoKey,
          InGuest
<1>1. CASE Starts
  BY <1>1 DEF Starts
<1>2. CASE \E k \in Keys : KeyPress(k)
  <2> SUFFICES ASSUME NEW k \in Keys, KeyPress(k) PROVE MenuTypes'
    BY <1>2
  <2>1. CASE g_menu.active /\ k \in {"down", "up"}
    <3>1. PICK delta \in {-1, 1} : menu_move_selection(delta)
      BY <2>1 DEF KeyPress, MenuTakesPress, MenuActs
    <3> QED
      BY <2>1, <3>1, MoveSelection DEF KeyPress, MenuTakesPress
  <2>2. CASE g_menu.active /\ k \in {"select", "softleft", "softright", "power"}
    <3>1. PICK target \in {Ok, Back} : menu_select_and_post(target)
      BY <2>2 DEF KeyPress, MenuTakesPress, MenuActs
    <3> QED
      BY <2>2, <3>1, SelectAndPost DEF KeyPress, MenuTakesPress
  <2>3. CASE g_menu.active /\ k \notin {"down", "up", "select", "softleft", "softright", "power"}
    BY <2>3 DEF KeyPress, MenuTakesPress, MenuActs
  <2>4. CASE ~g_menu.active /\ tw.active
    BY <2>4 DEF KeyPress, TextTakesPress, TextActs, PostsDialogEvent,
         native_text_widget_transition_begin, ScrollsTo, Offers, present
  <2>5. CASE ~g_menu.active /\ ~tw.active
    BY <2>5 DEF KeyPress, GuestGets
  <2> QED
    BY <2>1, <2>2, <2>3, <2>4, <2>5
<1>3. CASE \E k \in Keys : KeyRelease(k)
  BY <1>3 DEF KeyRelease, GuestGets
<1>4. CASE \E p \in Spots : TouchDown(p)
  BY <1>4, TargetRange DEF TouchDown, MenuTakesDown, TextTakesDown, OnSoftKey, OnScrollBar,
         PostsDialogEvent, native_text_widget_transition_begin, ScrollsTo,
         Offers, present, GuestGets
<1>5. CASE \E p \in Spots : TouchMove(p)
  BY <1>5 DEF TouchMove, TextTakesMove, ScrollsTo, present, GuestGets
<1>6. CASE \E p \in Spots : TouchUp(p)
  <2> SUFFICES ASSUME NEW p \in Spots, TouchUp(p) PROVE MenuTypes'
    BY <1>6
  <2>1. CASE g_captured_touch # Free /\ menu_select_and_post(g_captured_touch)
    BY <2>1, SelectAndPost DEF TouchUp, MenuTakesUp
  <2>2. CASE g_captured_touch # Free /\ UNCHANGED <<g_menu, screenVars, dispatch>>
    BY <2>2 DEF TouchUp, MenuTakesUp
  <2>3. CASE g_captured_touch = Free
    BY <2>3 DEF TouchUp, TextTakesUp, GuestGets
  <2> QED
    BY <2>1, <2>2, <2>3 DEF TouchUp, MenuTakesUp
<1>7. CASE TimerEvent
  BY <1>7 DEF TimerEvent
<1>8. CASE \E h \in Handles, n \in 1..MaxItems : native_modal_menu_show(h, n)
  BY <1>8 DEF native_modal_menu_show, menu_show, present, Stacked
<1>9. CASE \E h \in Handles : native_modal_menu_release(h)
  BY <1>9 DEF native_modal_menu_release, native_text_widget_restore_guest_frame,
         Restored, Stacked
<1>10. CASE \E type \in Types, lines \in 1..MaxLines :
             native_text_widget_create(type, lines)
  BY <1>10 DEF native_text_widget_create, present, Stacked
<1>11. CASE \E type \in Types, lines \in 1..MaxLines :
             native_text_widget_refresh(type, lines)
  BY <1>11 DEF native_text_widget_refresh, present
<1>12. CASE native_text_widget_release
  BY <1>12 DEF native_text_widget_release, native_text_widget_restore_guest_frame,
         Restored, Stacked
<1>13. CASE guiDrawBitmap
  BY <1>13 DEF guiDrawBitmap, Covered
<1>14. CASE GuestReturns
  BY <1>14 DEF GuestReturns, native_text_widget_transition_end, Restored
<1>15. CASE skyengine_runtime_destroy
  BY <1>15 DEF skyengine_runtime_destroy
<1>16. CASE UNCHANGED vars
  BY <1>16 DEF vars
<1> QED
  BY <1>1, <1>2, <1>3, <1>4, <1>5, <1>6, <1>7, <1>8, <1>9, <1>10, <1>11, <1>12,
     <1>13, <1>14, <1>15, <1>16 DEF Next, Guest, Input

\* The text widget keeps its types.
LEMMA TextTypeStep ==
  TypeOK /\ [Next]_vars => TextTypes'
<1> SUFFICES ASSUME TypeOK, [Next]_vars PROVE TextTypes'
  OBVIOUS
<1> USE Bounds, SpotRows DEF TypeOK, TextTypes, Texts, menuVars, textVars,
          screenVars, inputVars, NoKey, NoText, InGuest, NonNegative, Clamped
<1>1. CASE Starts
  BY <1>1 DEF Starts
<1>2. CASE \E k \in Keys : KeyPress(k)
  BY <1>2 DEF KeyPress, MenuTakesPress, MenuActs, menu_move_selection,
         menu_select_and_post, TextTakesPress, TextActs, PostsDialogEvent,
         native_text_widget_transition_begin, ScrollsTo, Offers, present,
         GuestGets
<1>3. CASE \E k \in Keys : KeyRelease(k)
  BY <1>3 DEF KeyRelease, GuestGets
<1>4. CASE \E p \in Spots : TouchDown(p)
  <2> SUFFICES ASSUME NEW p \in Spots, TouchDown(p) PROVE TextTypes'
    BY <1>4
  <2>1. CASE g_menu.active
    BY <2>1, TargetRange DEF TouchDown, MenuTakesDown, present
  <2>2. CASE ~g_menu.active /\ tw.active /\ OnSoftKey(p)
    BY <2>2 DEF TouchDown, TextTakesDown, PostsDialogEvent,
         native_text_widget_transition_begin
  <2>3. CASE ~g_menu.active /\ tw.active /\ ~OnSoftKey(p) /\ OnScrollBar(p)
    BY <2>3 DEF TouchDown, TextTakesDown, ScrollsTo, present
  <2>4. CASE ~g_menu.active /\ tw.active /\ ~OnSoftKey(p) /\ ~OnScrollBar(p)
    <3>1. /\ tw_drag' = [active |-> TRUE, last_y |-> Row(p)] /\ Row(p) \in Int
          /\ UNCHANGED <<tw, screenVars, dispatch, menuVars, tw_captured_key, held>>
          /\ finger' = p
          /\ ghost' = [ghost EXCEPT !.owner = "text", !.target = None, !.fresh = FALSE]
      BY <2>4, SpotRows DEF TouchDown, TextTakesDown
    <3> QED
      BY <2>4, <3>1, SpotRows
  <2>5. CASE ~g_menu.active /\ ~tw.active
    BY <2>5 DEF TouchDown, GuestGets
  <2> QED
    BY <2>1, <2>2, <2>3, <2>4, <2>5
<1>5. CASE \E p \in Spots : TouchMove(p)
  BY <1>5 DEF TouchMove, TextTakesMove, ScrollsTo, present, GuestGets
<1>6. CASE \E p \in Spots : TouchUp(p)
  BY <1>6, TargetRange DEF TouchUp, MenuTakesUp, menu_select_and_post, TextTakesUp, GuestGets
<1>7. CASE TimerEvent
  BY <1>7 DEF TimerEvent
<1>8. CASE \E h \in Handles, n \in 1..MaxItems : native_modal_menu_show(h, n)
  BY <1>8 DEF native_modal_menu_show, menu_show, present, Stacked
<1>9. CASE \E h \in Handles : native_modal_menu_release(h)
  BY <1>9 DEF native_modal_menu_release, native_text_widget_restore_guest_frame,
         Restored, Stacked
<1>10. CASE \E type \in Types, lines \in 1..MaxLines :
             native_text_widget_create(type, lines)
  BY <1>10 DEF native_text_widget_create, present, Stacked
<1>11. CASE \E type \in Types, lines \in 1..MaxLines :
             native_text_widget_refresh(type, lines)
  <2> SUFFICES ASSUME NEW type \in Types, NEW lines \in 1..MaxLines,
                      native_text_widget_refresh(type, lines)
               PROVE  TextTypes'
    BY <1>11
  <2>1. tw' = [active |-> tw.active, type |-> type, scroll |-> 0, line_count |-> lines]
    BY DEF native_text_widget_refresh
  <2>2. tw.active \in BOOLEAN /\ lines \in 0..MaxLines
    BY Bounds
  <2>3. tw' \in Texts
    BY <2>1, <2>2
  <2> QED
    BY <2>3 DEF native_text_widget_refresh
<1>12. CASE native_text_widget_release
  BY <1>12 DEF native_text_widget_release, native_text_widget_restore_guest_frame,
         Restored, Stacked
<1>13. CASE guiDrawBitmap
  BY <1>13 DEF guiDrawBitmap, Covered
<1>14. CASE GuestReturns
  BY <1>14 DEF GuestReturns, native_text_widget_transition_end, Restored
<1>15. CASE skyengine_runtime_destroy
  BY <1>15 DEF skyengine_runtime_destroy
<1>16. CASE UNCHANGED vars
  BY <1>16 DEF vars
<1> QED
  BY <1>1, <1>2, <1>3, <1>4, <1>5, <1>6, <1>7, <1>8, <1>9, <1>10, <1>11, <1>12,
     <1>13, <1>14, <1>15, <1>16 DEF Next, Guest, Input

\* The screen and the event under way keep their types.
LEMMA ScreenTypeStep ==
  TypeOK /\ FocusInv /\ TransitionInv /\ [Next]_vars => ScreenTypes'
<1> SUFFICES ASSUME TypeOK /\ FocusInv /\ TransitionInv, [Next]_vars PROVE ScreenTypes'
  OBVIOUS
<1> USE Bounds, TargetValues DEF TypeOK, ScreenTypes, FocusInv, FocusInRange,
          TransitionInv, Posted, Menus, menuVars, textVars, screenVars,
          inputVars, Kinds, InGuest, Off, Idle, Event
<1>1. CASE Starts
  BY <1>1 DEF Starts
<1>2. CASE \E k \in Keys : KeyPress(k)
  <2> SUFFICES ASSUME NEW k \in Keys, KeyPress(k) PROVE ScreenTypes'
    BY <1>2
  <2>1. CASE g_menu.active /\ k \in {"down", "up"}
    <3>1. PICK delta \in {-1, 1} : menu_move_selection(delta)
      BY <2>1 DEF KeyPress, MenuTakesPress, MenuActs
    <3> QED
      BY <2>1, <3>1, MoveSelection DEF KeyPress, MenuTakesPress
  <2>2. CASE g_menu.active /\ k \in {"select", "softleft", "softright", "power"}
    <3>1. PICK target \in {Ok, Back} : menu_select_and_post(target)
      BY <2>2 DEF KeyPress, MenuTakesPress, MenuActs
    <3> QED
      BY <2>2, <3>1, SelectTypes DEF KeyPress, MenuTakesPress
  <2>3. CASE g_menu.active /\ k \notin {"down", "up", "select", "softleft", "softright", "power"}
    BY <2>3 DEF KeyPress, MenuTakesPress, MenuActs
  <2>4. CASE ~g_menu.active /\ tw.active
    BY <2>4 DEF KeyPress, TextTakesPress, TextActs, PostsDialogEvent,
         native_text_widget_transition_begin, ScrollsTo, Offers, present
  <2>5. CASE ~g_menu.active /\ ~tw.active
    BY <2>5 DEF KeyPress, GuestGets
  <2> QED
    BY <2>1, <2>2, <2>3, <2>4, <2>5
<1>3. CASE \E k \in Keys : KeyRelease(k)
  BY <1>3 DEF KeyRelease, GuestGets
<1>4. CASE \E p \in Spots : TouchDown(p)
  BY <1>4, TargetRange DEF TouchDown, MenuTakesDown, TextTakesDown, OnSoftKey, OnScrollBar,
         PostsDialogEvent, native_text_widget_transition_begin, ScrollsTo,
         Offers, present, GuestGets
<1>5. CASE \E p \in Spots : TouchMove(p)
  BY <1>5 DEF TouchMove, TextTakesMove, ScrollsTo, present, GuestGets
<1>6. CASE \E p \in Spots : TouchUp(p)
  <2> SUFFICES ASSUME NEW p \in Spots, TouchUp(p) PROVE ScreenTypes'
    BY <1>6
  <2>1. CASE g_captured_touch # Free /\ menu_select_and_post(g_captured_touch)
    BY <2>1, SelectTypes DEF TouchUp, MenuTakesUp
  <2>2. CASE g_captured_touch # Free /\ UNCHANGED <<g_menu, screenVars, dispatch>>
    BY <2>2 DEF TouchUp, MenuTakesUp
  <2>3. CASE g_captured_touch = Free
    BY <2>3 DEF TouchUp, TextTakesUp, GuestGets
  <2> QED
    BY <2>1, <2>2, <2>3 DEF TouchUp, MenuTakesUp
<1>7. CASE TimerEvent
  BY <1>7 DEF TimerEvent
<1>8. CASE \E h \in Handles, n \in 1..MaxItems : native_modal_menu_show(h, n)
  BY <1>8 DEF native_modal_menu_show, menu_show, present, Stacked
<1>9. CASE \E h \in Handles : native_modal_menu_release(h)
  BY <1>9 DEF native_modal_menu_release, native_text_widget_restore_guest_frame,
         Restored, Stacked
<1>10. CASE \E type \in Types, lines \in 1..MaxLines :
             native_text_widget_create(type, lines)
  BY <1>10 DEF native_text_widget_create, present, Stacked
<1>11. CASE \E type \in Types, lines \in 1..MaxLines :
             native_text_widget_refresh(type, lines)
  BY <1>11 DEF native_text_widget_refresh, present
<1>12. CASE native_text_widget_release
  BY <1>12 DEF native_text_widget_release, native_text_widget_restore_guest_frame,
         Restored, Stacked
<1>13. CASE guiDrawBitmap
  BY <1>13 DEF guiDrawBitmap, Covered
<1>14. CASE GuestReturns
  <2>1. dispatch' \in [kind : Kinds, item : Targets]
    BY <1>14 DEF GuestReturns
  <2>2. CASE dispatch.kind \in Posted /\ tw_restore_pending
    <3>1. tw_transition_depth = 1
      BY <2>2
    <3>2. /\ tw_transition_depth' = 0 /\ tw_restore_pending' = FALSE
          /\ tw_mirror_valid' = tw_mirror_valid /\ screen' \in {screen, "guest"}
      BY <1>14, <2>2, <3>1 DEF GuestReturns, native_text_widget_transition_end, Restored
    <3> QED
      BY <2>1, <3>2
  <2>3. CASE dispatch.kind \in Posted /\ ~tw_restore_pending
    <3>1. tw_transition_depth = 1
      BY <2>3
    <3>2. tw_transition_depth' = 0
          /\ UNCHANGED <<tw_restore_pending, tw_mirror_valid, screen>>
      BY <1>14, <2>3, <3>1 DEF GuestReturns, native_text_widget_transition_end
    <3> QED
      BY <2>1, <3>2
  <2>4. CASE dispatch.kind \notin Posted
    BY <1>14, <2>1, <2>4 DEF GuestReturns
  <2> QED
    BY <2>2, <2>3, <2>4
<1>15. CASE skyengine_runtime_destroy
  BY <1>15 DEF skyengine_runtime_destroy
<1>16. CASE UNCHANGED vars
  BY <1>16 DEF vars
<1> QED
  BY <1>1, <1>2, <1>3, <1>4, <1>5, <1>6, <1>7, <1>8, <1>9, <1>10, <1>11, <1>12,
     <1>13, <1>14, <1>15, <1>16 DEF Next, Guest, Input

LEMMA GhostOfTouch ==
  ASSUME ghost \in Ghosts, NEW o \in {"none", "menu", "text", "guest"},
         NEW t \in Targets, NEW f \in BOOLEAN
  PROVE  [ghost EXCEPT !.owner = o, !.target = t, !.fresh = f] \in Ghosts
  BY DEF Ghosts

LEMMA TouchDownTypes ==
  ASSUME TypeOK, NEW p \in Spots, TouchDown(p)
  PROVE  InputTypes'
<1>1. ghost \in Ghosts /\ held \in SUBSET Keys /\ None \in Targets
  BY TargetValues DEF TypeOK, InputTypes
<1>2. held' = held /\ finger' = p
  BY DEF TouchDown
<1>3. PICK o \in {"menu", "text", "guest"}, t \in Targets, f \in BOOLEAN :
        ghost' = [ghost EXCEPT !.owner = o, !.target = t, !.fresh = f]
  <2>1. CASE g_menu.active
    <3>1. menu_touch_target(p) \in Targets
      BY TargetRange DEF TypeOK
    <3>2. MenuTakesDown(p)
      BY <2>1 DEF TouchDown
    <3>3. ghost' = [ghost EXCEPT !.owner = "menu", !.target = menu_touch_target(p),
                                 !.fresh = TRUE]
      BY <3>2, Zenon DEF MenuTakesDown
    <3> QED
      BY <3>1, <3>3
  <2>2. CASE ~g_menu.active /\ tw.active
    <3>1. TextTakesDown(p)
      BY <2>2 DEF TouchDown
    <3>2. ghost' = [ghost EXCEPT !.owner = "text", !.target = None, !.fresh = FALSE]
      BY <3>1, Zenon DEF TextTakesDown
    <3> QED
      BY <1>1, <3>2
  <2>3. CASE ~g_menu.active /\ ~tw.active
    <3>1. ghost' = [ghost EXCEPT !.owner = "guest", !.target = None, !.fresh = FALSE]
      BY <2>3, Zenon DEF TouchDown
    <3> QED
      BY <1>1, <3>1
  <2> QED
    BY <2>1, <2>2, <2>3
<1>4. ghost' \in Ghosts
  BY <1>1, <1>3, GhostOfTouch
<1> QED
  BY <1>1, <1>2, <1>4 DEF InputTypes

LEMMA TouchUpTypes ==
  ASSUME TypeOK, NEW p \in Spots, TouchUp(p)
  PROVE  InputTypes'
<1>1. ghost \in Ghosts /\ held \in SUBSET Keys /\ None \in Targets
  BY TargetValues DEF TypeOK, InputTypes
<1>2. /\ held' = held /\ finger' = NoSpot
      /\ ghost' = [ghost EXCEPT !.owner = "none", !.target = None, !.fresh = FALSE]
  BY Zenon DEF TouchUp
<1>3. ghost' \in Ghosts
  BY <1>1, <1>2, GhostOfTouch
<1> QED
  BY <1>1, <1>2, <1>3 DEF InputTypes

LEMMA KeyReleaseTypes ==
  ASSUME TypeOK, NEW k \in Keys, KeyRelease(k)
  PROVE  InputTypes'
<1>1. ghost \in Ghosts /\ held' \in SUBSET Keys /\ finger' = finger
  BY DEF TypeOK, InputTypes, KeyRelease
<1>2. ghost' \in {ghost, [ghost EXCEPT !.keys = @ \ {k}, !.lost = @ \ {k}]}
  BY Zenon DEF KeyRelease
<1>3. [ghost EXCEPT !.keys = @ \ {k}, !.lost = @ \ {k}] \in Ghosts
  BY <1>1 DEF Ghosts
<1> QED
  BY <1>1, <1>2, <1>3 DEF TypeOK, InputTypes

\* The input and the history keep their types.
LEMMA InputTypeStep ==
  TypeOK /\ [Next]_vars => InputTypes'
<1> SUFFICES ASSUME TypeOK, [Next]_vars PROVE InputTypes'
  OBVIOUS
<1> USE SpotRows, TargetValues DEF TypeOK, InputTypes, Menus, Ghosts,
          menuVars, textVars, screenVars, inputVars, InGuest, InitGhost
<1>1. CASE Starts
  BY <1>1 DEF Starts
<1>2. CASE \E k \in Keys : KeyPress(k)
  BY <1>2 DEF KeyPress, MenuTakesPress, MenuActs, menu_move_selection,
         menu_select_and_post, TextTakesPress, TextActs, PostsDialogEvent,
         native_text_widget_transition_begin, ScrollsTo, Offers, present,
         GuestGets
<1>3. CASE \E k \in Keys : KeyRelease(k)
  BY <1>3, KeyReleaseTypes
<1>4. CASE \E p \in Spots : TouchDown(p)
  BY <1>4, TouchDownTypes
<1>5. CASE \E p \in Spots : TouchMove(p)
  BY <1>5 DEF TouchMove, TextTakesMove, ScrollsTo, present, GuestGets
<1>6. CASE \E p \in Spots : TouchUp(p)
  BY <1>6, TouchUpTypes
<1>7. CASE TimerEvent
  BY <1>7 DEF TimerEvent
<1>8. CASE \E h \in Handles, n \in 1..MaxItems : native_modal_menu_show(h, n)
  <2> SUFFICES ASSUME NEW h \in Handles, NEW n \in 1..MaxItems,
                      native_modal_menu_show(h, n)
               PROVE  InputTypes'
    BY <1>8
  <2>1. UNCHANGED <<held, finger>>
    BY DEF native_modal_menu_show
  <2>2. ghost' = [ghost EXCEPT !.fresh = FALSE, !.stacked = Stacked(TRUE, tw.active)]
    BY Zenon DEF native_modal_menu_show
  <2>3. Stacked(TRUE, tw.active) \in BOOLEAN
    BY DEF Stacked, TypeOK, TextTypes, Texts
  <2> QED
    BY <2>1, <2>2, <2>3
<1>9. CASE \E h \in Handles : native_modal_menu_release(h)
  BY <1>9 DEF native_modal_menu_release, native_text_widget_restore_guest_frame,
         Restored, Stacked
<1>10. CASE \E type \in Types, lines \in 1..MaxLines :
             native_text_widget_create(type, lines)
  BY <1>10 DEF native_text_widget_create, present, Stacked
<1>11. CASE \E type \in Types, lines \in 1..MaxLines :
             native_text_widget_refresh(type, lines)
  BY <1>11 DEF native_text_widget_refresh, present
<1>12. CASE native_text_widget_release
  BY <1>12 DEF native_text_widget_release, native_text_widget_restore_guest_frame,
         Restored, Stacked
<1>13. CASE guiDrawBitmap
  BY <1>13 DEF guiDrawBitmap, Covered
<1>14. CASE GuestReturns
  BY <1>14 DEF GuestReturns, native_text_widget_transition_end, Restored
<1>15. CASE skyengine_runtime_destroy
  BY <1>15 DEF skyengine_runtime_destroy
<1>16. CASE UNCHANGED vars
  BY <1>16 DEF vars
<1> QED
  BY <1>1, <1>2, <1>3, <1>4, <1>5, <1>6, <1>7, <1>8, <1>9, <1>10, <1>11, <1>12,
     <1>13, <1>14, <1>15, <1>16 DEF Next, Guest, Input

\* The focus stays on an item, the scroll position on a line.
LEMMA FocusStep ==
  TypeOK /\ FocusInv /\ [Next]_vars => FocusInv'
<1> SUFFICES ASSUME TypeOK /\ FocusInv, [Next]_vars PROVE FocusInv'
  OBVIOUS
<1> USE Bounds, TargetValues DEF TypeOK, Menus, Texts, FocusInv, FocusInRange,
          menuVars, textVars, screenVars, inputVars, NoMenu, NonNegative,
          Clamped
<1>1. CASE Starts
  BY <1>1 DEF Starts
<1>2. CASE \E k \in Keys : KeyPress(k)
  <2> SUFFICES ASSUME NEW k \in Keys, KeyPress(k) PROVE FocusInv'
    BY <1>2
  <2>1. CASE g_menu.active /\ k \in {"down", "up"}
    <3>1. PICK delta \in {-1, 1} : menu_move_selection(delta)
      BY <2>1 DEF KeyPress, MenuTakesPress, MenuActs
    <3> QED
      BY <2>1, <3>1, MoveSelection DEF KeyPress, MenuTakesPress
  <2>2. CASE g_menu.active /\ k \in {"select", "softleft", "softright", "power"}
    <3>1. PICK target \in {Ok, Back} : menu_select_and_post(target)
      BY <2>2 DEF KeyPress, MenuTakesPress, MenuActs
    <3> QED
      BY <2>2, <3>1, SelectAndPost DEF KeyPress, MenuTakesPress
  <2>3. CASE g_menu.active /\ k \notin {"down", "up", "select", "softleft", "softright", "power"}
    BY <2>3 DEF KeyPress, MenuTakesPress, MenuActs
  <2>4. CASE ~g_menu.active /\ tw.active
    BY <2>4 DEF KeyPress, TextTakesPress, TextActs, PostsDialogEvent,
         native_text_widget_transition_begin, ScrollsTo, Offers, present
  <2>5. CASE ~g_menu.active /\ ~tw.active
    BY <2>5 DEF KeyPress, GuestGets
  <2> QED
    BY <2>1, <2>2, <2>3, <2>4, <2>5
<1>3. CASE \E k \in Keys : KeyRelease(k)
  BY <1>3 DEF KeyRelease, GuestGets
<1>4. CASE \E p \in Spots : TouchDown(p)
  <2> SUFFICES ASSUME NEW p \in Spots, TouchDown(p) PROVE FocusInv'
    BY <1>4
  <2>1. CASE g_menu.active
    BY <2>1, TargetRange DEF TouchDown, MenuTakesDown, present
  <2>2. CASE ~g_menu.active /\ tw.active /\ OnSoftKey(p)
    BY <2>2 DEF TouchDown, TextTakesDown, PostsDialogEvent,
         native_text_widget_transition_begin
  <2>3. CASE ~g_menu.active /\ tw.active /\ ~OnSoftKey(p) /\ OnScrollBar(p)
    BY <2>3 DEF TouchDown, TextTakesDown, ScrollsTo, present
  <2>4. CASE ~g_menu.active /\ tw.active /\ ~OnSoftKey(p) /\ ~OnScrollBar(p)
    <3>1. /\ tw_drag' = [active |-> TRUE, last_y |-> Row(p)] /\ Row(p) \in Int
          /\ UNCHANGED <<tw, screenVars, dispatch, menuVars, tw_captured_key, held>>
          /\ finger' = p
          /\ ghost' = [ghost EXCEPT !.owner = "text", !.target = None, !.fresh = FALSE]
      BY <2>4, SpotRows DEF TouchDown, TextTakesDown
    <3> QED
      BY <2>4, <3>1, SpotRows
  <2>5. CASE ~g_menu.active /\ ~tw.active
    BY <2>5 DEF TouchDown, GuestGets
  <2> QED
    BY <2>1, <2>2, <2>3, <2>4, <2>5
<1>5. CASE \E p \in Spots : TouchMove(p)
  <2> SUFFICES ASSUME NEW p \in Spots, TouchMove(p) PROVE FocusInv'
    BY <1>5
  <2>1. UNCHANGED g_menu
    BY DEF TouchMove, TextTakesMove, GuestGets
  <2>2. CASE UNCHANGED tw
    BY <2>1, <2>2
  <2>3. CASE ~UNCHANGED tw
    <3> DEFINE dy == tw_drag.last_y - Row(p)
               n == IF dy > 0 THEN Clamped(tw.scroll + dy) ELSE NonNegative(tw.scroll + dy)
    <3>1. tw.active /\ dy # 0 /\ tw' = [tw EXCEPT !.scroll = n]
      BY <2>3 DEF TouchMove, TextTakesMove, ScrollsTo, GuestGets
    <3>2. dy \in Int /\ tw.scroll \in Nat /\ tw.line_count \in Nat
      BY SpotRows
    <3>3. n <= NonNegative(tw.line_count - Visible)
      BY <3>1, <3>2
    <3>4. tw'.scroll = n /\ tw'.line_count = tw.line_count
      BY <3>1
    <3> QED
      BY <2>1, <3>3, <3>4
  <2> QED
    BY <2>2, <2>3
<1>6. CASE \E p \in Spots : TouchUp(p)
  BY <1>6, TargetRange DEF TouchUp, MenuTakesUp, menu_select_and_post, TextTakesUp, GuestGets
<1>7. CASE TimerEvent
  BY <1>7 DEF TimerEvent
<1>8. CASE \E h \in Handles, n \in 1..MaxItems : native_modal_menu_show(h, n)
  BY <1>8 DEF native_modal_menu_show, menu_show, present, Stacked
<1>9. CASE \E h \in Handles : native_modal_menu_release(h)
  BY <1>9 DEF native_modal_menu_release, native_text_widget_restore_guest_frame,
         Restored, Stacked
<1>10. CASE \E type \in Types, lines \in 1..MaxLines :
             native_text_widget_create(type, lines)
  BY <1>10 DEF native_text_widget_create, present, Stacked
<1>11. CASE \E type \in Types, lines \in 1..MaxLines :
             native_text_widget_refresh(type, lines)
  BY <1>11 DEF native_text_widget_refresh, present
<1>12. CASE native_text_widget_release
  BY <1>12 DEF native_text_widget_release, native_text_widget_restore_guest_frame,
         Restored, Stacked
<1>13. CASE guiDrawBitmap
  BY <1>13 DEF guiDrawBitmap, Covered
<1>14. CASE GuestReturns
  BY <1>14 DEF GuestReturns, native_text_widget_transition_end, Restored
<1>15. CASE skyengine_runtime_destroy
  BY <1>15 DEF skyengine_runtime_destroy
<1>16. CASE UNCHANGED vars
  BY <1>16 DEF vars
<1> QED
  BY <1>1, <1>2, <1>3, <1>4, <1>5, <1>6, <1>7, <1>8, <1>9, <1>10, <1>11, <1>12,
     <1>13, <1>14, <1>15, <1>16 DEF Next, Guest, Input

\* A touch keeps its owner.
LEMMA TouchStep ==
  TypeOK /\ TouchInv /\ [Next]_vars => TouchInv'
<1> SUFFICES ASSUME TypeOK /\ TouchInv, [Next]_vars PROVE TouchInv'
  OBVIOUS
<1> USE SpotRows, TargetValues DEF TypeOK, Ghosts, TouchInv, menuVars,
          textVars, screenVars, inputVars, InitGhost
<1>1. CASE Starts
  BY <1>1 DEF Starts
<1>2. CASE \E k \in Keys : KeyPress(k)
  BY <1>2 DEF KeyPress, MenuTakesPress, MenuActs, menu_move_selection,
         menu_select_and_post, TextTakesPress, TextActs, PostsDialogEvent,
         native_text_widget_transition_begin, ScrollsTo, Offers, present,
         GuestGets
<1>3. CASE \E k \in Keys : KeyRelease(k)
  BY <1>3 DEF KeyRelease, GuestGets
<1>4. CASE \E p \in Spots : TouchDown(p)
  <2> SUFFICES ASSUME NEW p \in Spots, TouchDown(p) PROVE TouchInv'
    BY <1>4
  <2>1. CASE g_menu.active
    BY <2>1, TargetRange DEF TouchDown, MenuTakesDown, present
  <2>2. CASE ~g_menu.active /\ tw.active
    <3>1. ghost' = [ghost EXCEPT !.owner = "text", !.target = None, !.fresh = FALSE]
      BY <2>2 DEF TouchDown, TextTakesDown
    <3>2. ghost'.owner = "text"
      BY <3>1
    <3>3. finger = NoSpot /\ finger' = p /\ UNCHANGED g_captured_touch
      BY <2>2 DEF TouchDown, TextTakesDown
    <3> QED
      BY <3>2, <3>3
  <2>5. CASE ~g_menu.active /\ ~tw.active
    BY <2>5 DEF TouchDown, GuestGets
  <2> QED
    BY <2>1, <2>2, <2>5
<1>5. CASE \E p \in Spots : TouchMove(p)
  BY <1>5 DEF TouchMove, TextTakesMove, ScrollsTo, present, GuestGets
<1>6. CASE \E p \in Spots : TouchUp(p)
  BY <1>6, TargetRange DEF TouchUp, MenuTakesUp, menu_select_and_post, TextTakesUp, GuestGets
<1>7. CASE TimerEvent
  BY <1>7 DEF TimerEvent
<1>8. CASE \E h \in Handles, n \in 1..MaxItems : native_modal_menu_show(h, n)
  BY <1>8 DEF native_modal_menu_show, menu_show, present, Stacked
<1>9. CASE \E h \in Handles : native_modal_menu_release(h)
  BY <1>9 DEF native_modal_menu_release, native_text_widget_restore_guest_frame,
         Restored, Stacked
<1>10. CASE \E type \in Types, lines \in 1..MaxLines :
             native_text_widget_create(type, lines)
  BY <1>10 DEF native_text_widget_create, present, Stacked
<1>11. CASE \E type \in Types, lines \in 1..MaxLines :
             native_text_widget_refresh(type, lines)
  BY <1>11 DEF native_text_widget_refresh, present
<1>12. CASE native_text_widget_release
  BY <1>12 DEF native_text_widget_release, native_text_widget_restore_guest_frame,
         Restored, Stacked
<1>13. CASE guiDrawBitmap
  BY <1>13 DEF guiDrawBitmap, Covered
<1>14. CASE GuestReturns
  BY <1>14 DEF GuestReturns, native_text_widget_transition_end, Restored
<1>15. CASE skyengine_runtime_destroy
  BY <1>15 DEF skyengine_runtime_destroy
<1>16. CASE UNCHANGED vars
  BY <1>16 DEF vars
<1> QED
  BY <1>1, <1>2, <1>3, <1>4, <1>5, <1>6, <1>7, <1>8, <1>9, <1>10, <1>11, <1>12,
     <1>13, <1>14, <1>15, <1>16 DEF Next, Guest, Input

\* A transition lasts as long as the event it was begun for.
LEMMA TransitionStep ==
  TypeOK /\ TransitionInv /\ [Next]_vars => TransitionInv'
<1> SUFFICES ASSUME TypeOK /\ TransitionInv, [Next]_vars PROVE TransitionInv'
  OBVIOUS
<1> USE DEF TypeOK, Menus, Texts, TransitionInv, Posted, menuVars, textVars,
          screenVars, inputVars, Off, Idle, Event, InGuest, NoMenu
<1>1. CASE Starts
  BY <1>1 DEF Starts
<1>2. CASE \E k \in Keys : KeyPress(k)
  BY <1>2 DEF KeyPress, MenuTakesPress, MenuActs, menu_move_selection,
         menu_select_and_post, TextTakesPress, TextActs, PostsDialogEvent,
         native_text_widget_transition_begin, ScrollsTo, Offers, present,
         GuestGets
<1>3. CASE \E k \in Keys : KeyRelease(k)
  BY <1>3 DEF KeyRelease, GuestGets
<1>4. CASE \E p \in Spots : TouchDown(p)
  BY <1>4, TargetRange DEF TouchDown, MenuTakesDown, TextTakesDown, OnSoftKey, OnScrollBar,
         PostsDialogEvent, native_text_widget_transition_begin, ScrollsTo,
         Offers, present, GuestGets
<1>5. CASE \E p \in Spots : TouchMove(p)
  BY <1>5 DEF TouchMove, TextTakesMove, ScrollsTo, present, GuestGets
<1>6. CASE \E p \in Spots : TouchUp(p)
  BY <1>6, TargetRange DEF TouchUp, MenuTakesUp, menu_select_and_post, TextTakesUp, GuestGets
<1>7. CASE TimerEvent
  BY <1>7 DEF TimerEvent
<1>8. CASE \E h \in Handles, n \in 1..MaxItems : native_modal_menu_show(h, n)
  BY <1>8 DEF native_modal_menu_show, menu_show, present, Stacked
<1>9. CASE \E h \in Handles : native_modal_menu_release(h)
  BY <1>9 DEF native_modal_menu_release, native_text_widget_restore_guest_frame,
         Restored, Stacked
<1>10. CASE \E type \in Types, lines \in 1..MaxLines :
             native_text_widget_create(type, lines)
  BY <1>10 DEF native_text_widget_create, present, Stacked
<1>11. CASE \E type \in Types, lines \in 1..MaxLines :
             native_text_widget_refresh(type, lines)
  BY <1>11 DEF native_text_widget_refresh, present
<1>12. CASE native_text_widget_release
  BY <1>12 DEF native_text_widget_release, native_text_widget_restore_guest_frame,
         Restored, Stacked
<1>13. CASE guiDrawBitmap
  BY <1>13 DEF guiDrawBitmap, Covered
<1>14. CASE GuestReturns
  BY <1>14 DEF GuestReturns, native_text_widget_transition_end, Restored
<1>15. CASE skyengine_runtime_destroy
  BY <1>15 DEF skyengine_runtime_destroy
<1>16. CASE UNCHANGED vars
  BY <1>16 DEF vars
<1> QED
  BY <1>1, <1>2, <1>3, <1>4, <1>5, <1>6, <1>7, <1>8, <1>9, <1>10, <1>11, <1>12,
     <1>13, <1>14, <1>15, <1>16 DEF Next, Guest, Input

\* The screen follows the layers.
LEMMA ScreenStep ==
  TypeOK /\ TransitionInv /\ ScreenInv /\ [Next]_vars => ScreenInv'
<1> SUFFICES ASSUME TypeOK /\ TransitionInv /\ ScreenInv, [Next]_vars PROVE ScreenInv'
  OBVIOUS
<1> USE DEF TypeOK, Menus, Texts, Ghosts, TransitionInv, ScreenInv,
          LayerOnScreen, Posted, menuVars, textVars, screenVars, inputVars, Off,
          Idle, Event, InGuest, NoMenu, InitGhost
<1>1. CASE Starts
  BY <1>1 DEF Starts
<1>2. CASE \E k \in Keys : KeyPress(k)
  BY <1>2 DEF KeyPress, MenuTakesPress, MenuActs, menu_move_selection,
         menu_select_and_post, TextTakesPress, TextActs, PostsDialogEvent,
         native_text_widget_transition_begin, ScrollsTo, Offers, present,
         GuestGets
<1>3. CASE \E k \in Keys : KeyRelease(k)
  BY <1>3 DEF KeyRelease, GuestGets
<1>4. CASE \E p \in Spots : TouchDown(p)
  <2> SUFFICES ASSUME NEW p \in Spots, TouchDown(p) PROVE ScreenInv'
    BY <1>4
  <2>1. CASE g_menu.active
    BY <2>1, TargetRange DEF TouchDown, MenuTakesDown, present
  <2>2. CASE ~g_menu.active /\ tw.active /\ OnSoftKey(p)
    BY <2>2 DEF TouchDown, TextTakesDown, PostsDialogEvent,
         native_text_widget_transition_begin
  <2>3. CASE ~g_menu.active /\ tw.active /\ ~OnSoftKey(p) /\ OnScrollBar(p)
    BY <2>3 DEF TouchDown, TextTakesDown, ScrollsTo, present
  <2>4. CASE ~g_menu.active /\ tw.active /\ ~OnSoftKey(p) /\ ~OnScrollBar(p)
    <3>1. /\ tw_drag' = [active |-> TRUE, last_y |-> Row(p)] /\ Row(p) \in Int
          /\ UNCHANGED <<tw, screenVars, dispatch, menuVars, tw_captured_key, held>>
          /\ finger' = p
          /\ ghost' = [ghost EXCEPT !.owner = "text", !.target = None, !.fresh = FALSE]
      BY <2>4, SpotRows DEF TouchDown, TextTakesDown
    <3> QED
      BY <2>4, <3>1, SpotRows
  <2>5. CASE ~g_menu.active /\ ~tw.active
    BY <2>5 DEF TouchDown, GuestGets
  <2> QED
    BY <2>1, <2>2, <2>3, <2>4, <2>5
<1>5. CASE \E p \in Spots : TouchMove(p)
  BY <1>5 DEF TouchMove, TextTakesMove, ScrollsTo, present, GuestGets
<1>6. CASE \E p \in Spots : TouchUp(p)
  BY <1>6, TargetRange DEF TouchUp, MenuTakesUp, menu_select_and_post, TextTakesUp, GuestGets
<1>7. CASE TimerEvent
  BY <1>7 DEF TimerEvent
<1>8. CASE \E h \in Handles, n \in 1..MaxItems : native_modal_menu_show(h, n)
  BY <1>8 DEF native_modal_menu_show, menu_show, present, Stacked
<1>9. CASE \E h \in Handles : native_modal_menu_release(h)
  BY <1>9 DEF native_modal_menu_release, native_text_widget_restore_guest_frame,
         Restored, Stacked
<1>10. CASE \E type \in Types, lines \in 1..MaxLines :
             native_text_widget_create(type, lines)
  BY <1>10 DEF native_text_widget_create, present, Stacked
<1>11. CASE \E type \in Types, lines \in 1..MaxLines :
             native_text_widget_refresh(type, lines)
  BY <1>11 DEF native_text_widget_refresh, present
<1>12. CASE native_text_widget_release
  BY <1>12 DEF native_text_widget_release, native_text_widget_restore_guest_frame,
         Restored, Stacked
<1>13. CASE guiDrawBitmap
  BY <1>13 DEF guiDrawBitmap, Covered
<1>14. CASE GuestReturns
  BY <1>14 DEF GuestReturns, native_text_widget_transition_end, Restored
<1>15. CASE skyengine_runtime_destroy
  BY <1>15 DEF skyengine_runtime_destroy
<1>16. CASE UNCHANGED vars
  BY <1>16 DEF vars
<1> QED
  BY <1>1, <1>2, <1>3, <1>4, <1>5, <1>6, <1>7, <1>8, <1>9, <1>10, <1>11, <1>12,
     <1>13, <1>14, <1>15, <1>16 DEF Next, Guest, Input

-----------------------------------------------------------------------------
LEMMA InitSafe == Init => Safe
<1> SUFFICES ASSUME Init PROVE Safe
  OBVIOUS
<1> USE Bounds, TargetValues DEF Init, NoMenu, NoText, Off, InitGhost
<1>1. g_menu \in Menus /\ tw \in Texts /\ tw_drag \in [active : BOOLEAN, last_y : Int]
  BY DEF Menus, Texts, Types
<1>2. ghost \in Ghosts /\ dispatch \in [kind : Kinds, item : Targets]
  BY DEF Ghosts, Kinds
<1>3. TypeOK
  BY <1>1, <1>2 DEF TypeOK
<1>4. FocusInv /\ TouchInv
  BY DEF FocusInv, FocusInRange, TouchInv
<1>5. TransitionInv /\ ScreenInv
  BY DEF TransitionInv, Posted, ScreenInv, LayerOnScreen
<1> QED
  BY <1>3, <1>4, <1>5 DEF Safe

LEMMA SafeStep == Safe /\ [Next]_vars => Safe'
<1> SUFFICES ASSUME Safe, [Next]_vars PROVE Safe'
  OBVIOUS
<1>1. TypeOK'
  BY MenuTypeStep, TextTypeStep, ScreenTypeStep, InputTypeStep
     DEF Safe, TypeOK, MenuTypes, TextTypes, ScreenTypes, InputTypes
<1>2. FocusInv' /\ TouchInv' /\ TransitionInv' /\ ScreenInv'
  BY FocusStep, TouchStep, TransitionStep, ScreenStep DEF Safe
<1> QED
  BY <1>1, <1>2 DEF Safe

\* The inductive invariant of the layers, the touches and the screen, from which the
\* theorems below follow.
THEOREM SafeAlways == Spec => []Safe
  BY InitSafe, SafeStep, PTL DEF Spec

\* The variables keep their types, and the focus and the scroll position stay in
\* range however often a menu or a text is replaced under them.
THEOREM UiTypesAndFocus == Spec => [](TypeOK /\ FocusInRange)
<1>1. Safe => TypeOK /\ FocusInRange
  BY DEF Safe, FocusInv
<1> QED
  BY <1>1, SafeAlways, PTL

\* The guest's frame is back on the screen whenever no layer is left.
THEOREM FrameComesBack == Spec => []GuestFrameReturns
<1>1. Safe => GuestFrameReturns
  BY DEF Safe, ScreenInv, TransitionInv, GuestFrameReturns, Idle, Posted
<1> QED
  BY <1>1, SafeAlways, PTL

\* The layer that takes the input is the one on the screen, and no guest frame shows
\* between one layer and the next.
THEOREM InputGoesToTheLayerShown == Spec => []LayerOnScreen
<1>1. Safe => LayerOnScreen
  BY DEF Safe, ScreenInv
<1> QED
  BY <1>1, SafeAlways, PTL

-----------------------------------------------------------------------------
TouchPaired ==
  finger # NoSpot /\ finger' = NoSpot /\ dispatch' # Off =>
    /\ ghost.owner = "menu" => dispatch'.kind # "up"
    /\ ghost.owner = "guest" /\ ~tw.active => dispatch'.kind = "up"

\* Only the end of a touch and the end of the run leave the glass.
LEMMA TouchEnds ==
  ASSUME Safe, [Next]_vars, finger # NoSpot, finger' = NoSpot, dispatch' # Off
  PROVE  \E p \in Spots : TouchUp(p)
<1> USE SpotRows DEF menuVars, textVars, screenVars, inputVars
<1>1. CASE Starts \/ TimerEvent \/ UNCHANGED vars
  BY <1>1 DEF Starts, TimerEvent, vars
<1>2. CASE Guest
  BY <1>2 DEF Guest, native_modal_menu_show, native_modal_menu_release,
         native_text_widget_create, native_text_widget_refresh,
         native_text_widget_release, guiDrawBitmap, GuestReturns
<1>3. CASE Input
  BY <1>3 DEF Input, KeyPress, KeyRelease, TouchDown, TouchMove
<1>4. CASE skyengine_runtime_destroy
  BY <1>4 DEF skyengine_runtime_destroy
<1> QED
  BY <1>1, <1>2, <1>3, <1>4 DEF Next

\* A choice comes from a key pressed or a touch ended while the menu is open.
LEMMA ChoiceBegins ==
  ASSUME Safe, [Next]_vars, dispatch = Idle,
         dispatch'.kind \in {"menuSelect", "menuReturn"}
  PROVE  /\ g_menu.active
         /\ \/ /\ UNCHANGED finger
               /\ \E target \in {Ok, Back} : menu_select_and_post(target)
            \/ \E p \in Spots :
                 /\ menu_touch_target(p) = g_captured_touch
                 /\ g_captured_touch \notin {Free, None}
                 /\ menu_select_and_post(g_captured_touch)
<1> USE DEF Idle, Event, Off, InGuest
<1>1. CASE Starts \/ TimerEvent \/ UNCHANGED vars
  BY <1>1 DEF Starts, TimerEvent, vars
<1>2. CASE Guest
  BY <1>2 DEF Guest, native_modal_menu_show, native_modal_menu_release,
         native_text_widget_create, native_text_widget_refresh,
         native_text_widget_release, guiDrawBitmap, GuestReturns
<1>3. CASE skyengine_runtime_destroy
  BY <1>3 DEF skyengine_runtime_destroy
<1>4. ASSUME NEW k \in Keys, KeyPress(k) PROVE g_menu.active /\ UNCHANGED finger
                        /\ \E target \in {Ok, Back} : menu_select_and_post(target)
  <2>1. g_menu.active
    BY <1>4 DEF KeyPress, TextTakesPress, TextActs, PostsDialogEvent, GuestGets
  <2>2. MenuActs(k) /\ UNCHANGED finger
    BY <1>4, <2>1 DEF KeyPress, MenuTakesPress
  <2> QED
    BY <2>1, <2>2 DEF MenuActs, menu_move_selection
<1>5. CASE \E k \in Keys : KeyRelease(k)
  BY <1>5 DEF KeyRelease, GuestGets
<1>6. CASE \E p \in Spots : TouchDown(p) \/ TouchMove(p)
  BY <1>6 DEF TouchDown, TouchMove, MenuTakesDown, TextTakesDown, PostsDialogEvent,
         TextTakesMove, GuestGets
<1>7. ASSUME NEW p \in Spots, TouchUp(p)
      PROVE  /\ g_menu.active /\ menu_touch_target(p) = g_captured_touch
             /\ g_captured_touch \notin {Free, None}
             /\ menu_select_and_post(g_captured_touch)
  BY <1>7 DEF TouchUp, MenuTakesUp, TextTakesUp, GuestGets
<1> QED
  BY <1>1, <1>2, <1>3, <1>4, <1>5, <1>6, <1>7 DEF Next, Input

LEMMA TouchPairedStep == Safe /\ [Next]_vars => TouchPaired
<1> SUFFICES ASSUME Safe, [Next]_vars, finger # NoSpot, finger' = NoSpot, dispatch' # Off
             PROVE  /\ ghost.owner = "menu" => dispatch'.kind # "up"
                    /\ ghost.owner = "guest" /\ ~tw.active => dispatch'.kind = "up"
  BY DEF TouchPaired
<1>1. PICK p \in Spots : TouchUp(p)
  BY TouchEnds
<1>2. g_captured_touch # Free <=> ghost.owner = "menu"
  BY DEF Safe, TouchInv
<1>3. g_menu \in Menus /\ g_captured_touch \in Targets \cup {Free}
  BY DEF Safe, TypeOK
<1>4. CASE g_captured_touch # Free
  <2>1. dispatch' = Idle \/ menu_select_and_post(g_captured_touch)
    BY <1>1, <1>4 DEF TouchUp, MenuTakesUp
  <2>2. dispatch'.kind # "up"
    <3>1. CASE dispatch' = Idle
      BY <3>1 DEF Idle
    <3>2. CASE menu_select_and_post(g_captured_touch)
      <4>1. dispatch'.kind \in {"menuSelect", "menuReturn"}
        BY <1>3, <1>4, <3>2, SelectAndPost
      <4> QED
        BY <4>1
    <3> QED
      BY <2>1, <3>1, <3>2
  <2> QED
    BY <1>2, <1>4, <2>2
<1>5. CASE g_captured_touch = Free
  BY <1>1, <1>2, <1>5 DEF TouchUp, GuestGets, Event
<1> QED
  BY <1>4, <1>5

\* A touch that began on the menu never reaches the guest, and one that began in the
\* guest always comes back to it.
THEOREM TouchesKeepTheirOwner == Spec => TouchesPaired
<1>1. Safe /\ [Next]_vars => [TouchPaired]_vars
  BY TouchPairedStep
<1> QED
  BY <1>1, SafeAlways, PTL DEF Spec, TouchesPaired, TouchPaired

-----------------------------------------------------------------------------
Fresh ==
  dispatch = Idle /\ dispatch'.kind \in {"menuSelect", "menuReturn"} =>
    /\ g_menu.active
    /\ dispatch'.kind = "menuSelect" => dispatch'.item \in 0..(g_menu.item_count - 1)
    /\ finger # finger' =>
         /\ ghost.owner = "menu" /\ ghost.fresh
         /\ dispatch'.kind = "menuReturn" <=> ghost.target = Back
         /\ ghost.target >= 0 => dispatch'.item = ghost.target

LEMMA FreshStep == Safe /\ [Next]_vars => Fresh
<1> SUFFICES ASSUME Safe, [Next]_vars, dispatch = Idle,
                    dispatch'.kind \in {"menuSelect", "menuReturn"}
             PROVE  Fresh
  BY DEF Fresh
<1>1. g_menu \in Menus /\ g_captured_touch \in Targets \cup {Free}
  BY DEF Safe, TypeOK
<1>2. g_menu.active
  BY ChoiceBegins
<1>3. g_menu.selected \in 0..(g_menu.item_count - 1)
  BY <1>1, <1>2, Bounds DEF Safe, FocusInv, FocusInRange, Menus
<1>4. CASE UNCHANGED finger /\ \E target \in {Ok, Back} : menu_select_and_post(target)
  <2>1. dispatch'.kind = "menuSelect" => dispatch'.item = g_menu.selected
    BY <1>4 DEF menu_select_and_post, Event, Ok, Back
  <2> QED
    BY <1>2, <1>3, <1>4, <2>1 DEF Fresh
<1>5. ASSUME NEW p \in Spots, menu_touch_target(p) = g_captured_touch,
             g_captured_touch \notin {Free, None}, menu_select_and_post(g_captured_touch)
      PROVE  Fresh
  <2>1. ghost.fresh /\ ghost.target = g_captured_touch /\ ghost.owner = "menu"
    BY <1>5 DEF Safe, TouchInv
  <2>2. CASE g_captured_touch = Back
    <3>1. dispatch' = [kind |-> "menuReturn", item |-> None]
      BY <1>5, <2>2 DEF menu_select_and_post, Event, Back, Ok
    <3>2. ghost.target = Back /\ ~(ghost.target >= 0)
      BY <2>1, <2>2 DEF Back
    <3> QED
      BY <1>2, <2>1, <3>1, <3>2 DEF Fresh
  <2>3. CASE g_captured_touch = Ok
    BY <1>2, <1>3, <2>1, <2>3, <1>5 DEF Fresh, menu_select_and_post, Ok, Back
  <2>4. CASE g_captured_touch \notin {Ok, Back}
    <3>1. g_captured_touch \in 0..(g_menu.item_count - 1)
      BY <1>1, <1>5, <2>4, Bounds, TargetRange DEF Targets, Ok, Back, None, Free
    <3>2. dispatch' = [kind |-> "menuSelect", item |-> g_captured_touch]
      BY <1>5, <2>4 DEF menu_select_and_post
    <3> QED
      BY <1>2, <2>1, <2>4, <3>1, <3>2 DEF Fresh
  <2> QED
    BY <2>2, <2>3, <2>4
<1> QED
  BY <1>4, <1>5, ChoiceBegins

\* A choice is of the menu the user sees and, by touch, of the item touched.
THEOREM ChoicesAreFresh == Spec => ChoiceIsFresh
<1>1. Safe /\ [Next]_vars => [Fresh]_vars
  BY FreshStep
<1> QED
  BY <1>1, SafeAlways, PTL DEF Spec, ChoiceIsFresh, Fresh

-----------------------------------------------------------------------------
(* Keys, however many are held at a time.                                  *)
LEMMA NoKeyIsNone == NoKey \notin Keys
  BY PlatformUiAssumption DEF NoKey, AllKeys

LEMMA InitKey == Init => KeyInv
  BY DEF Init, KeyInv, InitGhost

LEMMA KeyStep ==
  ASSUME TypeOK, KeyInv, [Next]_vars
  PROVE  KeyInv'
<1> USE DEF menuVars, textVars, screenVars, inputVars
<1>1. CASE Starts \/ TimerEvent \/ UNCHANGED vars
  BY <1>1 DEF Starts, TimerEvent, vars, KeyInv
<1>2. CASE Guest
  <2>1. UNCHANGED <<held, g_captured_key, tw_captured_key>>
    BY <1>2 DEF Guest, native_modal_menu_show, menu_show, native_modal_menu_release,
           native_text_widget_create, native_text_widget_refresh,
           native_text_widget_release, guiDrawBitmap, GuestReturns
  <2>2. ghost'.keys = ghost.keys /\ ghost'.lost = ghost.lost
    BY <1>2 DEF Guest, native_modal_menu_show, menu_show, native_modal_menu_release,
           native_text_widget_create, native_text_widget_refresh,
           native_text_widget_release, guiDrawBitmap, GuestReturns, TypeOK, Ghosts
  <2> QED
    BY <2>1, <2>2 DEF KeyInv
<1>3. ASSUME NEW k \in Keys, KeyPress(k) PROVE KeyInv'
  <2>1. k \notin held /\ k # NoKey /\ held' = held \cup {k}
    BY <1>3, NoKeyIsNone DEF KeyPress
  <2>2. CASE g_menu.active
    <3>1. /\ ghost'.keys = ghost.keys
          /\ ghost'.lost = ghost.lost \cup (held \cap {g_captured_key})
          /\ g_captured_key' = k /\ UNCHANGED tw_captured_key
      BY <1>3, <2>2 DEF KeyPress, MenuTakesPress, TypeOK, Ghosts
    <3> QED
      BY <2>1, <3>1 DEF KeyInv
  <2>3. CASE ~g_menu.active /\ tw.active
    <3>1. /\ ghost'.keys = ghost.keys
          /\ ghost'.lost = ghost.lost \cup (held \cap {tw_captured_key})
          /\ tw_captured_key' = k /\ UNCHANGED g_captured_key
      BY <1>3, <2>3 DEF KeyPress, TextTakesPress, TypeOK, Ghosts
    <3> QED
      BY <2>1, <3>1 DEF KeyInv
  <2>4. CASE ~g_menu.active /\ ~tw.active
    <3>1. /\ ghost'.keys = ghost.keys \cup {k} /\ ghost'.lost = ghost.lost
          /\ UNCHANGED <<g_captured_key, tw_captured_key>>
      BY <1>3, <2>4 DEF KeyPress, GuestGets, TypeOK, Ghosts
    <3> QED
      BY <2>1, <3>1 DEF KeyInv
  <2> QED
    BY <2>2, <2>3, <2>4
<1>4. ASSUME NEW k \in Keys, KeyRelease(k) PROVE KeyInv'
  <2>1. k \in held /\ k # NoKey /\ held' = held \ {k}
    BY <1>4, NoKeyIsNone DEF KeyRelease
  <2>2. CASE k = g_captured_key
    BY <1>4, <2>1, <2>2 DEF KeyRelease, KeyInv
  <2>3. CASE k # g_captured_key /\ k = tw_captured_key
    BY <1>4, <2>1, <2>3 DEF KeyRelease, KeyInv
  <2>4. CASE k # g_captured_key /\ k # tw_captured_key
    <3>1. /\ ghost'.keys = ghost.keys \ {k} /\ ghost'.lost = ghost.lost \ {k}
          /\ UNCHANGED <<g_captured_key, tw_captured_key>>
      BY <1>4, <2>4 DEF KeyRelease, GuestGets, TypeOK, Ghosts
    <3> QED
      BY <2>1, <2>4, <3>1 DEF KeyInv
  <2> QED
    BY <2>2, <2>3, <2>4
<1>5. CASE \E p \in Spots : TouchDown(p) \/ TouchMove(p) \/ TouchUp(p)
  <2>1. UNCHANGED <<held, g_captured_key, tw_captured_key>>
    BY <1>5 DEF TouchDown, TouchMove, TouchUp, MenuTakesDown, TextTakesDown,
           TextTakesMove, MenuTakesUp, TextTakesUp, GuestGets
  <2>2. ghost'.keys = ghost.keys /\ ghost'.lost = ghost.lost
    BY <1>5 DEF TouchDown, TouchMove, TouchUp, MenuTakesDown, TextTakesDown,
           TextTakesMove, TypeOK, Ghosts
  <2> QED
    BY <2>1, <2>2 DEF KeyInv
<1>6. CASE skyengine_runtime_destroy
  BY <1>6 DEF skyengine_runtime_destroy, KeyInv, InitGhost
<1> QED
  BY <1>1, <1>2, <1>3, <1>4, <1>5, <1>6 DEF Next, Input

KeyPaired ==
  dispatch' # Off =>
    \A k \in held \ held' :
      /\ k \in ghost.keys => dispatch'.kind = "release"
      /\ k \notin ghost.keys \cup ghost.lost => dispatch'.kind # "release"

LEMMA KeyPairedStep == TypeOK /\ KeyInv /\ [Next]_vars => KeyPaired
<1> SUFFICES ASSUME TypeOK, KeyInv, [Next]_vars, dispatch' # Off, NEW k \in held \ held'
             PROVE  /\ k \in ghost.keys => dispatch'.kind = "release"
                    /\ k \notin ghost.keys \cup ghost.lost => dispatch'.kind # "release"
  BY DEF KeyPaired
<1>1. KeyRelease(k)
  <2> USE DEF menuVars, textVars, screenVars, inputVars
  <2>1. CASE Starts \/ TimerEvent \/ UNCHANGED vars \/ skyengine_runtime_destroy
    BY <2>1 DEF Starts, TimerEvent, vars, skyengine_runtime_destroy
  <2>2. CASE Guest
    BY <2>2 DEF Guest, native_modal_menu_show, native_modal_menu_release,
           native_text_widget_create, native_text_widget_refresh,
           native_text_widget_release, guiDrawBitmap, GuestReturns
  <2>3. CASE Input
    BY <2>3 DEF Input, KeyPress, KeyRelease, TouchDown, TouchMove, TouchUp
  <2> QED
    BY <2>1, <2>2, <2>3 DEF Next
<1>2. CASE k \in {g_captured_key, tw_captured_key}
  <2>1. dispatch' = Idle
    BY <1>1, <1>2 DEF KeyRelease
  <2>2. k \notin ghost.keys
    BY <1>2, NoKeyIsNone DEF KeyInv, TypeOK
  <2> QED
    BY <2>1, <2>2 DEF Idle
<1>3. CASE k \notin {g_captured_key, tw_captured_key}
  <2>1. dispatch' = Event("release")
    BY <1>1, <1>3 DEF KeyRelease, GuestGets
  <2>2. k \in ghost.keys \cup ghost.lost
    BY <1>1, <1>3 DEF KeyInv, KeyRelease
  <2> QED
    BY <2>1, <2>2 DEF Event
<1> QED
  BY <1>2, <1>3

\* Whatever layers open and close and however many keys are down, the guest gets the
\* release of each key whose press it got, and that of a key a layer took only if the
\* layer has taken another one since.
THEOREM KeysArePaired == Spec => KeysPaired
<1>1. TypeOK /\ KeyInv /\ [Next]_vars => KeyInv'
  BY KeyStep
<1>2. Spec => [](TypeOK /\ KeyInv)
  <2>1. Spec => []TypeOK
    BY UiTypesAndFocus, PTL
  <2> QED
    BY <1>1, <2>1, InitKey, PTL DEF Spec
<1>3. TypeOK /\ KeyInv /\ [Next]_vars => [KeyPaired]_vars
  BY KeyPairedStep
<1> QED
  BY <1>2, <1>3, PTL DEF Spec, KeysPaired, KeyPaired

=============================================================================
