----------------------------- MODULE PlatformUi -----------------------------
(***************************************************************************)
(* The platform layers drawn over the guest: the modal menu                *)
(* (ohos_src/native_modal_menu.c), the text widget that serves both        *)
(* dialogs and text pages (ohos_src/native_text_widget.c), and the funnel  *)
(* skyengine_runtime_event (vmrp/src/runtime_native_mythroad.c) through    *)
(* which every input reaches the menu, the widget or the guest; the build  *)
(* (scripts/CMakeLists.txt) makes it pass the y coordinate to the widget.  *)
(*                                                                         *)
(* All of it runs on the thread that is inside the engine (see ApiRunner). *)
(* What makes it hard is the order of events: the guest opens and closes   *)
(* layers from any callback, also between the press and the release of one *)
(* key and in the middle of one touch.                                     *)
(***************************************************************************)
EXTENDS Integers

CONSTANTS
  Keys,       \* the keys the front end has
  Spots,      \* the places a finger may touch
  Handles,    \* the guest's menus
  MaxItems,   \* bound on the items of a menu (MENU_MAX_ITEMS)
  MaxLines,   \* bound on the lines of a text
  Visible,    \* tw_visible_lines
  DragBound   \* bound on tw_drag_last_y, in lines

Types == {"ok", "cancel", "okCancel"}   \* MR_DIALOG_*
AllKeys == {"up", "down", "select", "softleft", "softright", "power", "digit"}

\* title: above the body; row: on an item or a line; bar: on the scroll bar, above
\* or below its thumb; left and right: on the two soft keys at the bottom.
Areas == {"title", "row", "barUp", "barDown", "left", "right"}

ASSUME PlatformUiAssumption ==
  /\ Keys \subseteq AllKeys
  /\ Spots \subseteq [area : Areas, row : Nat]
  /\ MaxItems \in Nat \ {0} /\ MaxLines \in Nat \ {0} /\ Visible \in Nat \ {0}
  /\ DragBound \in Nat

VARIABLES
  g_menu,
  g_captured_key,
  g_captured_touch,       \* g_captured_touch_target, or Free if not active
  tw,
  tw_captured_key,
  tw_drag,                \* tw_drag_active and tw_drag_last_y, in lines
  tw_mirror_valid,
  tw_transition_depth,
  tw_restore_pending,
  screen,                 \* whose frame screen_buf holds
  dispatch,               \* the event the guest is handling
  held,                   \* the keys down on the front end
  finger,                 \* where the finger is
  ghost                   \* history, read by properties only

menuVars   == <<g_menu, g_captured_key, g_captured_touch>>
textVars   == <<tw, tw_captured_key, tw_drag>>
screenVars == <<tw_mirror_valid, tw_transition_depth, tw_restore_pending, screen>>
inputVars  == <<held, finger>>
vars == <<menuVars, textVars, screenVars, dispatch, inputVars, ghost>>

NoKey  == "none"
NoSpot == [area |-> "none", row |-> 0]
NoMenu == [active |-> FALSE, handle |-> 0, item_count |-> 0, selected |-> 0]
NoText == [active |-> FALSE, type |-> "ok", scroll |-> 0, line_count |-> 0]

\* The values of MENU_TOUCH_TARGET_*.
Back == -3
Ok   == -2
None == -1
Free == -4

\* keys are those the guest saw pressed and not yet released; lost are held keys a
\* layer took before it took another one; owner is who took the
\* DOWN of the touch under way, target what it hit, and fresh whether the menu has
\* not been shown anew since; stacked tells that a menu and a text were opened one
\* over the other, until a callback returns with both closed.
InitGhost == [keys |-> {}, lost |-> {}, owner |-> "none", target |-> None, fresh |-> FALSE,
              stacked |-> FALSE]

Off  == [kind |-> "off", item |-> None]
Idle == [kind |-> "idle", item |-> None]
Event(kind) == [kind |-> kind, item |-> None]

Init ==
  /\ g_menu = NoMenu /\ g_captured_key = NoKey /\ g_captured_touch = Free
  /\ tw = NoText /\ tw_captured_key = NoKey
  /\ tw_drag = [active |-> FALSE, last_y |-> 0]
  /\ tw_mirror_valid = FALSE /\ tw_transition_depth = 0 /\ tw_restore_pending = FALSE
  /\ screen = "blank"
  /\ dispatch = Off
  /\ held = {} /\ finger = NoSpot
  /\ ghost = InitGhost

-----------------------------------------------------------------------------
(* The screen: guest frames go to the mirror, platform frames do not.      *)

\* tw_restore_guest_frame_now
Restored == IF tw_mirror_valid THEN "guest" ELSE screen

\* Mutant: the restore does not wait for the end of a transition.
restore_at_once ==
  /\ screen' = Restored
  /\ UNCHANGED <<tw_mirror_valid, tw_transition_depth, tw_restore_pending>>

native_text_widget_restore_guest_frame ==
  /\ tw_restore_pending' = (tw_restore_pending \/ tw_transition_depth > 0)
  /\ screen' = IF tw_transition_depth > 0 THEN screen ELSE Restored
  /\ UNCHANGED <<tw_mirror_valid, tw_transition_depth>>

present(layer) ==
  /\ screen' = layer
  /\ UNCHANGED <<tw_mirror_valid, tw_transition_depth, tw_restore_pending>>

native_text_widget_transition_begin ==
  /\ tw_transition_depth' = tw_transition_depth + 1
  /\ UNCHANGED <<tw_mirror_valid, tw_restore_pending, screen>>

\* Mutant: the end of a transition forgets the restore that was put off.
transition_end_forgets ==
  /\ tw_transition_depth' = tw_transition_depth - 1
  /\ tw_restore_pending' = FALSE
  /\ UNCHANGED <<tw_mirror_valid, screen>>

native_text_widget_transition_end ==
  /\ tw_transition_depth' = tw_transition_depth - 1
  /\ IF tw_transition_depth = 1 /\ tw_restore_pending
     THEN /\ tw_restore_pending' = FALSE
          /\ screen' = IF tw.active \/ g_menu.active THEN screen ELSE Restored
     ELSE UNCHANGED <<tw_restore_pending, screen>>
  /\ UNCHANGED tw_mirror_valid

-----------------------------------------------------------------------------
(* The menu's part of the funnel.                                          *)

menu_touch_target(p) ==
  CASE p.area = "left"  -> Ok
    [] p.area = "right" -> Back
    [] p.area = "row" /\ p.row < g_menu.item_count -> p.row
    [] OTHER -> None

\* menu_select_and_post up to event(): the menu is closed inside a transition.
menu_select_and_post(target) ==
  /\ g_menu' = NoMenu
  /\ tw_transition_depth' = tw_transition_depth + 1
  /\ tw_restore_pending' = TRUE
  /\ dispatch' = CASE target = Back -> Event("menuReturn")
                   [] target = Ok -> [kind |-> "menuSelect", item |-> g_menu.selected]
                   [] OTHER -> [kind |-> "menuSelect", item |-> target]
  /\ UNCHANGED <<tw_mirror_valid, screen>>

menu_move_selection(delta) ==
  LET next == (g_menu.selected + delta) % g_menu.item_count
  IN  /\ g_menu' = [g_menu EXCEPT !.selected = next]
      /\ IF next # g_menu.selected THEN present("menu") ELSE UNCHANGED screenVars
      /\ UNCHANGED dispatch

MenuActs(k) ==
  CASE k = "down" -> menu_move_selection(1)
    [] k = "up"   -> menu_move_selection(-1)
    [] k \in {"select", "softleft"}  -> menu_select_and_post(Ok)
    [] k \in {"softright", "power"}  -> menu_select_and_post(Back)
    [] OTHER -> UNCHANGED <<g_menu, screenVars, dispatch>>

\* Mutant: the menu does not remember the key it has taken.
MenuForgetsPress(k) ==
  /\ MenuActs(k)
  /\ UNCHANGED <<g_captured_key, g_captured_touch, textVars, ghost>>

\* One key is remembered: a second press replaces the first, which may still be held.
MenuTakesPress(k) ==
  /\ g_captured_key' = k
  /\ ghost' = [ghost EXCEPT !.lost = @ \cup (held \cap {g_captured_key})]
  /\ MenuActs(k)
  /\ UNCHANGED <<g_captured_touch, textVars>>

MenuTakesDown(p) ==
  LET target == menu_touch_target(p)
  IN  /\ g_captured_touch' = target
      /\ IF target >= 0 /\ target # g_menu.selected
         THEN g_menu' = [g_menu EXCEPT !.selected = target] /\ present("menu")
         ELSE UNCHANGED <<g_menu, screenVars>>
      /\ ghost' = [ghost EXCEPT !.owner = "menu", !.target = target, !.fresh = TRUE]
      /\ UNCHANGED <<g_captured_key, textVars, dispatch>>

\* The menu took the DOWN: it takes the UP, and acts if both hit the same target.
MenuTakesUp(p) ==
  LET hit == g_menu.active /\ menu_touch_target(p) = g_captured_touch
  IN  /\ g_captured_touch' = Free
      /\ IF hit /\ g_captured_touch # None
         THEN menu_select_and_post(g_captured_touch)
         ELSE UNCHANGED <<g_menu, screenVars, dispatch>>
      /\ UNCHANGED <<g_captured_key, textVars>>

-----------------------------------------------------------------------------
(* The text widget's part.                                                 *)

NonNegative(n) == IF n < 0 THEN 0 ELSE n
Clamped(n) == NonNegative(IF n + Visible > tw.line_count
                          THEN tw.line_count - Visible ELSE n)

Offers(button) == tw.type \in {button, "okCancel"}

ScrollsTo(n) == tw' = [tw EXCEPT !.scroll = n] /\ present("text")

\* A soft key becomes MR_DIALOG_EVENT, sent to the guest inside a transition.
PostsDialogEvent ==
  /\ dispatch' = Event("dialog")
  /\ native_text_widget_transition_begin
  /\ UNCHANGED tw

TextActs(k) ==
  CASE k = "softleft" /\ Offers("ok")      -> PostsDialogEvent
    [] k = "softright" /\ Offers("cancel") -> PostsDialogEvent
    [] k = "up" /\ tw.scroll > 0 -> ScrollsTo(tw.scroll - 1) /\ UNCHANGED dispatch
    [] k = "down" /\ tw.scroll + Visible < tw.line_count ->
         ScrollsTo(tw.scroll + 1) /\ UNCHANGED dispatch
    [] OTHER -> UNCHANGED <<tw, screenVars, dispatch>>

TextTakesPress(k) ==
  /\ tw_captured_key' = k
  /\ ghost' = [ghost EXCEPT !.lost = @ \cup (held \cap {tw_captured_key})]
  /\ TextActs(k)
  /\ UNCHANGED <<menuVars, tw_drag>>

Row(p) == IF p.area \in {"left", "right"} THEN Visible ELSE p.row

OnSoftKey(p) == (p.area = "left" /\ Offers("ok")) \/ (p.area = "right" /\ Offers("cancel"))
OnScrollBar(p) == p.area \in {"barUp", "barDown"} /\ tw.line_count > Visible

TextTakesDown(p) ==
  /\ IF OnSoftKey(p) THEN PostsDialogEvent /\ UNCHANGED tw_drag
     ELSE IF OnScrollBar(p)
     THEN /\ ScrollsTo(IF p.area = "barUp" THEN NonNegative(tw.scroll - Visible)
                       ELSE Clamped(tw.scroll + Visible))
          /\ UNCHANGED <<tw_drag, dispatch>>
     ELSE /\ tw_drag' = [active |-> TRUE, last_y |-> Row(p)]
          /\ UNCHANGED <<tw, screenVars, dispatch>>
  /\ ghost' = [ghost EXCEPT !.owner = "text", !.target = None, !.fresh = FALSE]
  /\ UNCHANGED <<menuVars, tw_captured_key>>

\* The widget adds the lines it scrolled to tw_drag_last_y when the finger went up,
\* and takes them off when it went down.
TextTakesMove(p) ==
  LET dy == tw_drag.last_y - Row(p)
  IN  /\ IF tw_drag.active /\ dy # 0
         THEN /\ tw_drag.last_y + dy \in -DragBound..DragBound
              /\ ScrollsTo(IF dy > 0 THEN Clamped(tw.scroll + dy)
                           ELSE NonNegative(tw.scroll + dy))
              /\ tw_drag' = [tw_drag EXCEPT !.last_y = @ + dy]
         ELSE UNCHANGED <<tw, tw_drag, screenVars>>
      /\ UNCHANGED <<menuVars, tw_captured_key, dispatch, ghost>>

TextTakesUp ==
  /\ tw_drag' = [tw_drag EXCEPT !.active = FALSE]
  /\ UNCHANGED <<menuVars, tw, tw_captured_key, screenVars, dispatch>>

-----------------------------------------------------------------------------
(* The funnel: skyengine_runtime_event.                                    *)
GuestGets(kind) ==
  /\ dispatch' = Event(kind)
  /\ UNCHANGED <<menuVars, textVars, screenVars>>

KeyPress(k) ==
  /\ dispatch = Idle
  /\ k \in Keys \ held
  /\ held' = held \cup {k}
  /\ IF g_menu.active THEN MenuTakesPress(k)
     ELSE IF tw.active THEN TextTakesPress(k)
     ELSE GuestGets("press") /\ ghost' = [ghost EXCEPT !.keys = @ \cup {k}]
  /\ UNCHANGED finger

\* A layer takes the release of the key whose press it took last.
KeyRelease(k) ==
  /\ dispatch = Idle
  /\ k \in held
  /\ held' = held \ {k}
  /\ CASE k = g_captured_key ->
            /\ g_captured_key' = NoKey
            /\ UNCHANGED <<g_menu, g_captured_touch, textVars, screenVars, dispatch, ghost>>
       [] k # g_captured_key /\ k = tw_captured_key ->
            /\ tw_captured_key' = NoKey
            /\ UNCHANGED <<menuVars, tw, tw_drag, screenVars, dispatch, ghost>>
       [] OTHER ->
            GuestGets("release") /\ ghost' = [ghost EXCEPT !.keys = @ \ {k}, !.lost = @ \ {k}]
  /\ UNCHANGED finger

TouchDown(p) ==
  /\ dispatch = Idle
  /\ finger = NoSpot
  /\ finger' = p
  /\ IF g_menu.active THEN MenuTakesDown(p)
     ELSE IF tw.active THEN TextTakesDown(p)
     ELSE GuestGets("down") /\ ghost' = [ghost EXCEPT !.owner = "guest", !.target = None,
                                                     !.fresh = FALSE]
  /\ UNCHANGED held

TouchMove(p) ==
  /\ dispatch = Idle
  /\ finger # NoSpot
  /\ finger' = p
  /\ IF g_captured_touch # Free \/ g_menu.active
     THEN UNCHANGED <<menuVars, textVars, screenVars, dispatch, ghost>>
     ELSE IF tw.active THEN TextTakesMove(p)
     ELSE GuestGets("move") /\ UNCHANGED ghost
  /\ UNCHANGED held

\* Mutant: a menu that is shown takes any UP.
TouchUpToMenu(p) ==
  /\ dispatch = Idle
  /\ finger # NoSpot
  /\ finger' = NoSpot
  /\ IF g_captured_touch # Free THEN MenuTakesUp(p)
     ELSE IF g_menu.active THEN UNCHANGED <<menuVars, textVars, screenVars, dispatch>>
     ELSE IF tw.active THEN TextTakesUp
     ELSE GuestGets("up")
  /\ ghost' = [ghost EXCEPT !.owner = "none", !.target = None, !.fresh = FALSE]
  /\ UNCHANGED held

\* The finger leaves the glass where it last was, or at another spot.
TouchUp(p) ==
  /\ dispatch = Idle
  /\ finger # NoSpot
  /\ finger' = NoSpot
  /\ IF g_captured_touch # Free THEN MenuTakesUp(p)
     ELSE IF tw.active THEN TextTakesUp
     ELSE GuestGets("up")
  /\ ghost' = [ghost EXCEPT !.owner = "none", !.target = None, !.fresh = FALSE]
  /\ UNCHANGED held

-----------------------------------------------------------------------------
(* The guest, inside a dispatch: it may open, refresh and close layers and *)
(* draw, in any order.                                                     *)
InGuest == dispatch \notin {Off, Idle}

\* Both layers are open, or were since the last moment with none.
Stacked(menu, text) == (menu /\ text) \/ ghost.stacked

\* Mutant: the touch under way keeps its target in the new menu.
menu_show_keeps_target(h, n) ==
  /\ g_menu' = [active |-> TRUE, handle |-> h, item_count |-> n,
                selected |-> IF g_menu.active /\ g_menu.selected < n THEN g_menu.selected
                             ELSE IF g_menu.active THEN n - 1 ELSE 0]
  /\ UNCHANGED <<g_captured_key, g_captured_touch>>

\* The new content, the focus kept or clamped, a touch under way cut off.
menu_show(h, n) ==
  /\ g_menu' = [active |-> TRUE, handle |-> h, item_count |-> n,
                selected |-> IF g_menu.active /\ g_menu.selected < n THEN g_menu.selected
                             ELSE IF g_menu.active THEN n - 1 ELSE 0]
  /\ g_captured_touch' = IF g_captured_touch = Free THEN Free ELSE None
  /\ UNCHANGED g_captured_key

native_modal_menu_show(h, n) ==
  /\ InGuest
  /\ g_menu.active => g_menu.handle = h
  /\ menu_show(h, n)
  /\ present("menu")
  /\ ghost' = [ghost EXCEPT !.fresh = FALSE, !.stacked = Stacked(TRUE, tw.active)]
  /\ UNCHANGED <<textVars, dispatch, inputVars>>

native_modal_menu_release(h) ==
  /\ InGuest
  /\ g_menu.active /\ g_menu.handle = h
  /\ g_menu' = NoMenu
  /\ native_text_widget_restore_guest_frame
  /\ ghost' = [ghost EXCEPT !.stacked = Stacked(FALSE, tw.active)]
  /\ UNCHANGED <<g_captured_key, g_captured_touch, textVars, dispatch, inputVars>>

native_text_widget_create(type, lines) ==
  /\ InGuest
  /\ tw' = [active |-> TRUE, type |-> type, scroll |-> 0, line_count |-> lines]
  /\ present("text")
  /\ ghost' = [ghost EXCEPT !.stacked = Stacked(g_menu.active, TRUE)]
  /\ UNCHANGED <<menuVars, tw_captured_key, tw_drag, dispatch, inputVars>>

\* A refresh of a text keeps its type, one of a dialog may change it.
native_text_widget_refresh(type, lines) ==
  /\ InGuest
  /\ tw.active
  /\ tw' = [tw EXCEPT !.type = type, !.scroll = 0, !.line_count = lines]
  /\ present("text")
  /\ UNCHANGED <<menuVars, tw_captured_key, tw_drag, dispatch, inputVars, ghost>>

native_text_widget_release ==
  /\ InGuest
  /\ tw.active
  /\ tw' = [tw EXCEPT !.active = FALSE]
  /\ native_text_widget_restore_guest_frame
  /\ ghost' = [ghost EXCEPT !.stacked = Stacked(g_menu.active, FALSE)]
  /\ UNCHANGED <<menuVars, tw_captured_key, tw_drag, dispatch, inputVars>>

Covered == tw.active \/ g_menu.active \/ tw_transition_depth > 0

\* guiDrawBitmap of a guest frame: into the mirror, and to the screen if no layer
\* covers it (native_text_widget_capture_frame).
guiDrawBitmap ==
  /\ InGuest
  /\ tw_mirror_valid' = TRUE
  /\ screen' = IF ~Covered THEN "guest" ELSE IF screen = "guest" THEN "old" ELSE screen
  /\ UNCHANGED <<menuVars, textVars, tw_transition_depth, tw_restore_pending, dispatch,
                 inputVars, ghost>>

\* The guest's callback returns; a transition begun for it ends.
GuestReturns ==
  /\ InGuest
  /\ dispatch' = Idle
  /\ IF dispatch.kind \in {"menuSelect", "menuReturn", "dialog"}
     THEN native_text_widget_transition_end
     ELSE UNCHANGED screenVars
  /\ ghost' = [ghost EXCEPT !.stacked = @ /\ (g_menu.active \/ tw.active)]
  /\ UNCHANGED <<menuVars, textVars, inputVars>>

-----------------------------------------------------------------------------
(* The runtime: start-up, timer events, and the end of a run.              *)
Starts ==
  /\ dispatch = Off
  /\ dispatch' = Event("start")
  /\ UNCHANGED <<menuVars, textVars, screenVars, inputVars, ghost>>

TimerEvent ==
  /\ dispatch = Idle
  /\ dispatch' = Event("timer")
  /\ UNCHANGED <<menuVars, textVars, screenVars, inputVars, ghost>>

\* skyengine_runtime_destroy; the page that takes the input and the screen buffer go
\* away with the run.
skyengine_runtime_destroy ==
  /\ dispatch = Idle
  /\ dispatch' = Off
  /\ g_menu' = NoMenu /\ g_captured_key' = NoKey /\ g_captured_touch' = Free
  /\ tw' = [tw EXCEPT !.active = FALSE, !.scroll = 0, !.line_count = 0]
  /\ tw_captured_key' = NoKey
  /\ tw_mirror_valid' = FALSE /\ tw_transition_depth' = 0 /\ tw_restore_pending' = FALSE
  /\ screen' = "blank"
  /\ held' = {} /\ finger' = NoSpot
  /\ ghost' = InitGhost
  /\ UNCHANGED tw_drag

-----------------------------------------------------------------------------
Guest ==
  \/ \E h \in Handles, n \in 1..MaxItems : native_modal_menu_show(h, n)
  \/ \E h \in Handles : native_modal_menu_release(h)
  \/ \E type \in Types, lines \in 1..MaxLines :
       \/ native_text_widget_create(type, lines)
       \/ native_text_widget_refresh(type, lines)
  \/ native_text_widget_release
  \/ guiDrawBitmap
  \/ GuestReturns

Input ==
  \/ \E k \in Keys : KeyPress(k) \/ KeyRelease(k)
  \/ \E p \in Spots : TouchDown(p) \/ TouchMove(p) \/ TouchUp(p)

Next ==
  \/ Starts
  \/ Input
  \/ TimerEvent
  \/ Guest
  \/ skyengine_runtime_destroy

Spec == Init /\ [][Next]_vars

-----------------------------------------------------------------------------
(* Properties.                                                             *)
Targets == Back..(MaxItems - 1)
Kinds == {"off", "idle", "start", "timer", "press", "release", "down", "move", "up",
          "menuSelect", "menuReturn", "dialog"}

Menus == [active : BOOLEAN, handle : Handles \cup {0}, item_count : 0..MaxItems,
          selected : 0..(MaxItems - 1)]
Texts == [active : BOOLEAN, type : Types, scroll : 0..MaxLines, line_count : 0..MaxLines]
Ghosts == [keys : SUBSET Keys, lost : SUBSET Keys, owner : {"none", "menu", "text", "guest"},
           target : Targets, fresh : BOOLEAN, stacked : BOOLEAN]

\* Every variable has a value of its type.
TypeOK ==
  /\ g_menu \in Menus
  /\ g_captured_key \in Keys \cup {NoKey} /\ g_captured_touch \in Targets \cup {Free}
  /\ tw \in Texts /\ tw_captured_key \in Keys \cup {NoKey}
  /\ tw_drag \in [active : BOOLEAN, last_y : Int]
  /\ tw_mirror_valid \in BOOLEAN /\ tw_transition_depth \in Nat
  /\ tw_restore_pending \in BOOLEAN
  /\ screen \in {"blank", "guest", "old", "menu", "text"}
  /\ dispatch \in [kind : Kinds, item : Targets]
  /\ held \in SUBSET Keys /\ finger \in Spots \cup {NoSpot}
  /\ ghost \in Ghosts

\* The focus of a menu is on one of its items, also after it was refreshed with
\* fewer, and a text is never scrolled beyond its last line.
FocusInRange ==
  /\ g_menu.active => g_menu.selected < g_menu.item_count
  /\ tw.active => tw.scroll <= NonNegative(tw.line_count - Visible)

\* Presses and releases come to the guest in pairs, whatever layers open and close
\* in between and however many keys are held: the guest gets the release of every key
\* whose press it got, and that of a layer's key only if the layer took another press
\* while that key was held (g_captured_key, tw_captured_key).
KeysPaired ==
  [][dispatch' # Off =>
       \A k \in held \ held' :
         /\ k \in ghost.keys => dispatch'.kind = "release"
         /\ k \notin ghost.keys \cup ghost.lost => dispatch'.kind # "release"]_vars

\* The release of a key whose press a layer took goes to that layer and does not leak
\* to the guest (comment on g_captured_key).  It is violated: the layer remembers the
\* last key only.
NoReleaseLeaks ==
  [][dispatch' # Off =>
       \A k \in held \ held' : k \notin ghost.keys => dispatch'.kind # "release"]_vars

\* A touch that began on the menu ends there, even if the menu is gone by then; one
\* that began in the guest comes back to it, even if it opened a menu meanwhile
\* (comments on g_captured_touch and in the MR_MOUSE_UP case).
TouchesPaired ==
  [][finger # NoSpot /\ finger' = NoSpot /\ dispatch' # Off =>
       /\ ghost.owner = "menu" => dispatch'.kind # "up"
       /\ ghost.owner = "guest" /\ ~tw.active => dispatch'.kind = "up"]_vars

\* What the guest is told was chosen is an item of the menu on the screen; by touch,
\* it is the one the finger went down on, in the very menu it went down on.
ChoiceIsFresh ==
  [][dispatch = Idle /\ dispatch'.kind \in {"menuSelect", "menuReturn"} =>
       /\ g_menu.active
       /\ dispatch'.kind = "menuSelect" => dispatch'.item \in 0..(g_menu.item_count - 1)
       /\ finger # finger' =>
            /\ ghost.owner = "menu" /\ ghost.fresh
            /\ dispatch'.kind = "menuReturn" <=> ghost.target = Back
            /\ ghost.target >= 0 => dispatch'.item = ghost.target]_vars

\* When no layer is left, the screen shows the guest's latest frame again, however
\* many layers were stacked and in whatever order they were closed.
GuestFrameReturns ==
  dispatch = Idle /\ ~g_menu.active /\ ~tw.active /\ tw_mirror_valid => screen = "guest"

\* As long as menu and text do not overlap, the layer that takes the input is the
\* one on the screen, and no guest frame flashes up between one layer and the next
\* (native_text_widget_transition_begin).
LayerOnScreen ==
  ~ghost.stacked =>
    /\ g_menu.active => screen = "menu"
    /\ tw.active => screen = "text"
    /\ tw_transition_depth > 0 => screen \in {"menu", "text"}

\* A guest frame is never on the screen while a layer is open (comment on
\* native_text_widget_capture_frame: the platform window covers the application).
LayerCovers ==
  g_menu.active \/ tw.active => screen \notin {"guest", "old"}

\* Dragging scrolls no further than the finger has moved (the widget's touch
\* scrolling, header of native_text_widget.c).
DragFollowsFinger ==
  [][finger # NoSpot /\ finger' # NoSpot =>
       LET travel == Row(finger') - Row(finger)
           lines  == tw'.scroll - tw.scroll
       IN  lines \in -NonNegative(travel)..NonNegative(-travel)]_vars
=============================================================================
