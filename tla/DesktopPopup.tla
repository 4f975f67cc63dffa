---------------------------- MODULE DesktopPopup ----------------------------
(* The popup of the desktop client, desktop/src/popup.c, with the pages it *)
(* shows (unlock.c, fields.c; of search.c only that it lists entries, see  *)
(* SearchView), the tray icon (tray.c), the check of the session's expiry  *)
(* (application.c) and the clipboard (clipboard.c).                        *)
(*                                                                         *)
(* Handlers and timers run one at a time on the GTK main loop.  What is    *)
(* hard is what lies between them: the popup is hidden and shown again     *)
(* while an unlock, a paste or a clearing of the clipboard is under way,   *)
(* and the vault process locks itself without telling anyone.              *)
(***************************************************************************)
EXTENDS Integers, Sequences, FiniteSets

CONSTANTS
  NULL,
  Entries,      \* entries of the vault
  FieldCount,   \* how many values an entry offers to paste
  HasTotp,      \* the entries with a TOTP secret
  MaxSessions,  \* bound on successful unlocks (of the model)
  MaxUnlocks,   \* bound on unlocks under way at once (of the model)
  MaxCopies     \* bound on values copied (of the model)

ASSUME PopupAssumption ==
  /\ FieldCount \in [Entries -> Nat]
  /\ HasTotp \subseteq Entries
  /\ {MaxSessions, MaxUnlocks, MaxCopies} \subseteq Nat

VARIABLES
  running,          \* whether the application runs
  srvLocked,        \* whether the vault process is locked
  clientLocked,     \* SolockClient.locked
  session,          \* how often the client has unlocked the vault
  tray,             \* TrayData: on the bus; locked; an update got lost (history)
  visible, page,    \* the popup and the page of its stack
  remembered_page, reset_timer,
  found,            \* whether the search page has entries listed
  touching,         \* whether an opened entry is still to be fetched
  sensitive, password, unlocks,  \* the unlock page and its delayed calls
  detail,           \* the detail page: entry, session (history), code, label mode
  active,           \* whether active_detail_data points somewhere
  pastes,           \* paste jobs under way
  copies,           \* values copied so far
  clipboard,        \* the copy in the clipboard, 0 for none; whether it is to go
  clear_timers,     \* the copies whose clearing timer runs
  abandoned,        \* whether wl-copy failed or the application ended since (history)
  addresses         \* whether the dashboard has addresses to copy

appVars    == <<running, addresses>>
lockVars   == <<srvLocked, clientLocked, tray>>
popupVars  == <<visible, page, remembered_page, reset_timer>>
searchVars == <<found, touching>>
unlockVars == <<sensitive, password, unlocks, session>>
detailVars == <<detail, active>>
clipVars   == <<pastes, copies, clipboard, clear_timers, abandoned>>
vars == <<appVars, lockVars, popupVars, searchVars, unlockVars, detailVars, clipVars>>

Pages == {"unlock", "search", "detail"}
Details == [entry : Entries, session : 1 .. MaxSessions, code : BOOLEAN, label_mode : BOOLEAN]

ASSUME NullAssumption == NULL \notin Pages \cup Details

NoCopy == [copy |-> 0, clear |-> FALSE]

NewTray == [conn |-> FALSE, locked |-> TRUE, missed |-> FALSE]

\* The application before it is activated.
Init ==
  /\ running = FALSE
  /\ srvLocked = TRUE
  /\ clientLocked = TRUE
  /\ session = 0
  /\ tray = NewTray
  /\ visible = FALSE /\ page = NULL
  /\ remembered_page = NULL /\ reset_timer = FALSE
  /\ found = FALSE /\ touching = FALSE
  /\ sensitive = TRUE /\ password = FALSE /\ unlocks = 0
  /\ detail = NULL /\ active = FALSE
  /\ pastes = <<>>
  /\ copies = 0 /\ clipboard = NoCopy /\ clear_timers = {} /\ abandoned = FALSE
  /\ addresses = FALSE

-----------------------------------------------------------------------------
(* Steps shared by the handlers *)

\* The answers of a vault process that is locked or not.
Answers(locked) == {"failed", IF locked THEN "locked" ELSE "ok"}

Call ==
  \E answer \in Answers(srvLocked) : clientLocked' = (clientLocked \/ answer = "locked")

\* Before the tray is on the bus, an update does nothing.
solock_tray_update_status(t, locked) ==
  IF t.conn THEN [t EXCEPT !.locked = locked, !.missed = FALSE]
  ELSE [t EXCEPT !.missed = TRUE]

\* The search page fetches groups and entries when it comes on screen.
SearchAppears(srv, locked, t) ==
  \E groups, list \in Answers(srv) :
    LET refused == locked \/ "locked" \in {groups, list}
    IN /\ clientLocked' = refused
       /\ found' = (list = "ok")
       /\ tray' = IF refused /\ list # "ok" THEN solock_tray_update_status(t, TRUE) ELSE t

\* The timer of the page and the pointer to it go with it.
on_detail_destroy ==
  /\ detail' = NULL
  /\ active' = FALSE

remove_detail_view ==
  IF detail = NULL THEN UNCHANGED detailVars ELSE on_detail_destroy

\* The stack turns to its first page when it loses the one it shows.
PageWithoutDetail == IF page = "detail" THEN "unlock" ELSE page

\* Mutated: the timer runs on.
StopNothing == UNCHANGED reset_timer

stop_reset_timer == reset_timer' = FALSE

\* Mutated: the label keys stay as they were.
KeepLabelMode == UNCHANGED detailVars

solock_fields_reset_label_mode ==
  /\ detail' = IF active THEN [detail EXCEPT !.label_mode = FALSE] ELSE detail
  /\ UNCHANGED active

PageToShow ==
  IF clientLocked THEN "unlock"
  ELSE IF remembered_page = "detail" /\ detail # NULL THEN "detail"
  ELSE "search"

\* The unlock page takes input again when it comes on screen.
on_view_map(appears) == sensitive' = (sensitive \/ appears)

solock_popup_show ==
  /\ stop_reset_timer
  /\ visible' = TRUE
  /\ page' = PageToShow
  /\ LET appears == ~visible \/ page # page'
     IN /\ on_view_map(appears /\ page' = "unlock")
        /\ IF appears /\ page' = "search" THEN SearchAppears(srvLocked, clientLocked, tray)
           ELSE UNCHANGED <<clientLocked, tray, found>>
  /\ solock_fields_reset_label_mode
  /\ UNCHANGED <<appVars, srvLocked, remembered_page, touching, password,
                 unlocks, session, clipVars>>

solock_popup_hide ==
  /\ remembered_page' = page
  /\ visible' = FALSE
  /\ reset_timer' = TRUE
  /\ UNCHANGED page

-----------------------------------------------------------------------------
(* The popup *)

\* The first activation starts the vault process or ends the application.
on_activate ==
  /\ page = NULL
  /\ running' = TRUE
  /\ visible' = TRUE
  /\ page' = "unlock"
  /\ UNCHANGED <<addresses, lockVars, remembered_page, reset_timer, searchVars,
                 unlockVars, detailVars, clipVars>>

\* A later activation, or the tray icon.
solock_popup_toggle ==
  IF visible
    THEN /\ solock_popup_hide
         /\ UNCHANGED <<appVars, lockVars, searchVars, unlockVars, detailVars, clipVars>>
  ELSE solock_popup_show

\* Mutated: the page is forgotten but not removed.
OnResetTimerKeepingDetail ==
  /\ running /\ reset_timer
  /\ reset_timer' = FALSE
  /\ remembered_page' = IF clientLocked THEN "unlock" ELSE "search"
  /\ UNCHANGED <<appVars, lockVars, visible, page, searchVars, unlockVars, detailVars, clipVars>>

on_reset_timer ==
  /\ running /\ reset_timer
  /\ reset_timer' = FALSE
  /\ remembered_page' = IF clientLocked THEN "unlock" ELSE "search"
  /\ remove_detail_view
  /\ page' = PageWithoutDetail
  /\ UNCHANGED <<appVars, lockVars, visible, searchVars, unlockVars, clipVars>>

\* Escape; the search page closes its search first (see SearchView).
on_popup_key ==
  /\ visible
  /\ IF page = "detail"
       THEN /\ page' = "search"
            /\ SearchAppears(srvLocked, clientLocked, tray)
            /\ remove_detail_view
            /\ UNCHANGED <<srvLocked, visible, remembered_page, reset_timer>>
     ELSE /\ solock_popup_hide
          /\ UNCHANGED <<lockVars, found, detailVars>>
  /\ UNCHANGED <<appVars, touching, unlockVars, clipVars>>

\* The handlers of the search page that fetch anew.
SearchAgain ==
  /\ visible /\ page = "search"
  /\ SearchAppears(srvLocked, clientLocked, tray)
  /\ UNCHANGED <<appVars, srvLocked, popupVars, touching, unlockVars, detailVars, clipVars>>

\* A code is asked for at once; Control may be held.
solock_fields_view_new(e, code, control) ==
  /\ detail' = [entry |-> e, session |-> session, code |-> code, label_mode |-> control]
  /\ active' = TRUE

\* An entry on the search page, listed perhaps before the vault was locked.
solock_popup_switch_to_detail(e) ==
  /\ visible /\ page = "search" /\ found
  /\ page' = "detail"
  /\ touching' = TRUE
  /\ \E answer \in IF e \in HasTotp THEN Answers(srvLocked) ELSE {"not asked"},
        control \in BOOLEAN :
       /\ solock_fields_view_new(e, answer = "ok", control)
       /\ clientLocked' = (clientLocked \/ answer = "locked")
  /\ UNCHANGED <<appVars, srvLocked, tray, visible, remembered_page, reset_timer,
                 found, unlockVars, clipVars>>

\* The answer is dropped and the tray is not told.
touch_entry_idle ==
  /\ touching
  /\ touching' = FALSE
  /\ Call
  /\ UNCHANGED <<appVars, srvLocked, tray, popupVars, found, unlockVars, detailVars, clipVars>>

-----------------------------------------------------------------------------
(* The unlock page *)

on_unlock_activate ==
  /\ visible /\ page = "unlock" /\ sensitive
  /\ session < MaxSessions /\ unlocks < MaxUnlocks
  /\ sensitive' = FALSE
  /\ password' = TRUE
  /\ unlocks' = unlocks + 1
  /\ UNCHANGED <<appVars, lockVars, popupVars, searchVars, session, detailVars, clipVars>>

\* Mutated: the detail page stays in the stack.
SwitchToSearchKeepingDetail(t) ==
  /\ page' = "search"
  /\ IF visible /\ page # "search" THEN SearchAppears(FALSE, FALSE, t)
     ELSE clientLocked' = FALSE /\ tray' = t /\ UNCHANGED found
  /\ UNCHANGED detailVars

\* Mutated: the tray is told only when the popup is on screen.
SwitchToSearchUntold(t) ==
  /\ remove_detail_view
  /\ page' = "search"
  /\ IF visible /\ page # "search" THEN SearchAppears(FALSE, FALSE, t)
     ELSE clientLocked' = FALSE /\ UNCHANGED <<tray, found>>

\* After an unlock, of a hidden popup, too.
solock_popup_switch_to_search(t) ==
  /\ remove_detail_view
  /\ page' = "search"
  /\ IF visible /\ page # "search" THEN SearchAppears(FALSE, FALSE, t)
     ELSE clientLocked' = FALSE /\ tray' = t /\ UNCHANGED found

\* Mutated: the password is kept after the call.
DoUnlockKeepingPassword ==
  /\ running /\ unlocks > 0
  /\ unlocks' = unlocks - 1
  /\ \E answer \in IF password THEN {"ok", "failed", "lost"} ELSE {"failed"} :
       /\ srvLocked' = (srvLocked /\ answer = "failed")
       /\ IF answer = "ok"
            THEN /\ session' = session + 1
                 /\ solock_popup_switch_to_search(solock_tray_update_status(tray, FALSE))
          ELSE UNCHANGED <<clientLocked, tray, session, detailVars, page, found>>
  /\ UNCHANGED <<appVars, password, visible, remembered_page, reset_timer, touching,
                 sensitive, clipVars>>

\* The call may fail after the vault process has the keys.  A second call
\* under way finds no password, which the vault process refuses.
do_unlock ==
  /\ running /\ unlocks > 0
  /\ unlocks' = unlocks - 1
  /\ password' = FALSE
  /\ \E answer \in IF password THEN {"ok", "failed", "lost"} ELSE {"failed"} :
       /\ srvLocked' = (srvLocked /\ answer = "failed")
       /\ IF answer = "ok"
            THEN /\ session' = session + 1
                 /\ solock_popup_switch_to_search(solock_tray_update_status(tray, FALSE))
          ELSE UNCHANGED <<clientLocked, tray, session, detailVars, page, found>>
  /\ UNCHANGED <<appVars, visible, remembered_page, reset_timer, touching, sensitive, clipVars>>

-----------------------------------------------------------------------------
(* The detail page *)

OnDetail == visible /\ page = "detail"

\* Control pressed or released.
LabelKey(held) ==
  /\ OnDetail
  /\ detail' = [detail EXCEPT !.label_mode = held]
  /\ detail' # detail
  /\ UNCHANGED <<appVars, lockVars, popupVars, searchVars, unlockVars, active, clipVars>>

\* The timer of the detail page, which runs while the popup is hidden, too.
update_totp ==
  /\ detail # NULL /\ detail.entry \in HasTotp
  /\ \E answer \in Answers(srvLocked) :
       /\ detail' = [detail EXCEPT !.code = @ \/ answer = "ok"]
       /\ clientLocked' = (clientLocked \/ answer = "locked")
  /\ UNCHANGED <<appVars, srvLocked, tray, popupVars, searchVars, unlockVars, active, clipVars>>

\* The popup hides and the value is pasted after a delay.  Whether it is to
\* be cleared is read from the settings now, which change at any time.
do_paste_value(type) ==
  /\ copies + Len(pastes) < MaxCopies
  /\ solock_popup_hide
  /\ \E clear \in BOOLEAN : pastes' = Append(pastes, [clear |-> clear, use_wtype |-> type])
  /\ UNCHANGED <<appVars, lockVars, searchVars, unlockVars, detailVars,
                 copies, clipboard, clear_timers, abandoned>>

on_field_clicked(shift) ==
  /\ OnDetail
  /\ FieldCount[detail.entry] > 0
  /\ do_paste_value(shift)

\* A click without a code hides the popup all the same; a key does not.
on_totp_clicked(shift) ==
  /\ OnDetail
  /\ detail.entry \in HasTotp
  /\ IF detail.code THEN do_paste_value(shift)
     ELSE /\ solock_popup_hide
          /\ UNCHANGED <<appVars, lockVars, searchVars, unlockVars, detailVars, clipVars>>

\* A label key, or Return on the only field.
on_key_pressed(shift) ==
  /\ OnDetail
  /\ FieldCount[detail.entry] > 0 \/ (detail.entry \in HasTotp /\ detail.code)
  /\ do_paste_value(shift)

-----------------------------------------------------------------------------
(* The clipboard *)

\* Mutated: the timer of the last copy is not stopped.
CopyKeepingTimer(clear) ==
  LET new == [copy |-> copies + 1, clear |-> clear]
  IN /\ copies' = new.copy
     /\ clipboard' = new
     /\ clear_timers' = clear_timers \cup (IF clear THEN {new.copy} ELSE {})
     /\ abandoned' = FALSE

\* The timer of the last copy is stopped before wl-copy is run.  A run that
\* fails leaves either value and starts no timer.
solock_clipboard_copy(clear) ==
  LET new == [copy |-> copies + 1, clear |-> clear]
  IN /\ copies' = copies + 1
     /\ \/ /\ clipboard' = new
           /\ clear_timers' = IF clear THEN {new.copy} ELSE {}
           /\ abandoned' = FALSE
        \/ /\ clipboard' \in {clipboard, new}
           /\ clear_timers' = {}
           /\ abandoned' = TRUE

\* The value is typed into whatever window has the focus.
solock_wtype_type == UNCHANGED <<copies, clipboard, clear_timers, abandoned>>

\* Typing needs wtype, which may not be installed.
do_paste_delayed ==
  /\ pastes # <<>>
  /\ pastes' = Tail(pastes)
  /\ \/ solock_clipboard_copy(Head(pastes).clear)
     \/ Head(pastes).use_wtype /\ solock_wtype_type
  /\ UNCHANGED <<appVars, lockVars, popupVars, searchVars, unlockVars, detailVars>>

\* The clipboard is cleared whatever it holds by now.
clear_clipboard_cb ==
  /\ running
  /\ \E timer \in clear_timers : clear_timers' = clear_timers \ {timer}
  /\ \/ clipboard' = NoCopy /\ UNCHANGED abandoned
     \/ abandoned' = TRUE /\ UNCHANGED clipboard
  /\ UNCHANGED <<appVars, lockVars, popupVars, searchVars, unlockVars, detailVars,
                 pastes, copies>>

OthersCopy ==
  /\ clipboard # NoCopy
  /\ clipboard' = NoCopy
  /\ UNCHANGED <<appVars, lockVars, popupVars, searchVars, unlockVars, detailVars,
                 pastes, copies, clear_timers, abandoned>>

-----------------------------------------------------------------------------
(* The main window, opened from the tray's menu, shares the client and the *)
(* clipboard: here is what it does to them (for the rest see MainWindow).  *)

\* Fetched at most every 30 seconds, unless it is forced.
dashboard_refresh(locked, forced) ==
  \E answer \in IF locked THEN {"not asked"}
                ELSE Answers(srvLocked) \cup (IF forced THEN {} ELSE {"not asked"}) :
    /\ clientLocked' = (locked \/ answer = "locked")
    /\ addresses' = (addresses \/ answer = "ok")

on_refresh_clicked ==
  /\ ~clientLocked
  /\ \E answer \in Answers(srvLocked) : dashboard_refresh(answer = "locked", TRUE)

\* A client that knows the vault to be locked asks all the same.
on_clear_local_db_clicked ==
  \E answer \in Answers(srvLocked) : dashboard_refresh(clientLocked \/ answer = "locked", FALSE)

\* Two calls, the second whatever became of the first; the other calls of
\* the vault and groups sections do no more to the client.
on_network_changed ==
  /\ \E network, rpc_url \in Answers(srvLocked) :
       clientLocked' = (clientLocked \/ "locked" \in {network, rpc_url})
  /\ UNCHANGED addresses

\* None of these tells the tray.
WindowCalls ==
  /\ tray.conn
  /\ \/ dashboard_refresh(clientLocked, FALSE)
     \/ on_refresh_clicked
     \/ on_clear_local_db_clicked
     \/ on_network_changed
  /\ UNCHANGED <<running, srvLocked, tray, popupVars, searchVars, unlockVars,
                 detailVars, clipVars>>

\* A fetch of the vault section, which tells the tray when it is refused.
vault_rebuild_list ==
  /\ tray.conn /\ ~clientLocked
  /\ \E answer \in Answers(srvLocked) :
       /\ clientLocked' = (answer = "locked")
       /\ tray' = IF answer = "locked" THEN solock_tray_update_status(tray, TRUE) ELSE tray
  /\ UNCHANGED <<appVars, srvLocked, popupVars, searchVars, unlockVars, detailVars, clipVars>>

\* An address, of the deployer or of the program, is never cleared.
on_copy_deployer ==
  /\ addresses
  /\ copies + Len(pastes) < MaxCopies
  /\ solock_clipboard_copy(FALSE)
  /\ UNCHANGED <<appVars, lockVars, popupVars, searchVars, unlockVars, detailVars, pastes>>

-----------------------------------------------------------------------------
(* Locking *)

\* The session ends in the vault process: it expires.
SessionEnds ==
  /\ ~srvLocked
  /\ srvLocked' = TRUE
  /\ UNCHANGED <<appVars, clientLocked, tray, popupVars, searchVars, unlockVars,
                 detailVars, clipVars>>

\* The client counts as locked whether or not the call got through.
solock_client_lock ==
  /\ srvLocked' \in {srvLocked, TRUE}
  /\ clientLocked' = TRUE
  /\ tray' = solock_tray_update_status(tray, TRUE)
  /\ UNCHANGED <<appVars, popupVars, searchVars, unlockVars, detailVars, clipVars>>

\* Every five seconds.  A locked vault process names no remaining seconds,
\* so a session is seen to end only in its last second.
on_expiry_check ==
  /\ ~clientLocked
  /\ ~srvLocked
  /\ solock_client_lock

\* The popup is not hidden.
MenuLock ==
  /\ tray.conn
  /\ IF tray.locked THEN solock_popup_show ELSE solock_client_lock

on_bus_acquired ==
  /\ ~tray.conn
  /\ tray' = [tray EXCEPT !.conn = TRUE]
  /\ UNCHANGED <<appVars, srvLocked, clientLocked, popupVars, searchVars,
                 unlockVars, detailVars, clipVars>>

\* The vault process ends with the application, which may be started
\* again.  The clipboard keeps what it has and nobody clears it.
Quit ==
  /\ running' = FALSE
  /\ srvLocked' = TRUE
  /\ clientLocked' = TRUE
  /\ tray' = NewTray
  /\ visible' = FALSE /\ page' = NULL
  /\ remembered_page' = NULL /\ reset_timer' = FALSE
  /\ found' = FALSE /\ touching' = FALSE
  /\ sensitive' = TRUE /\ password' = FALSE /\ unlocks' = 0
  /\ detail' = NULL /\ active' = FALSE
  /\ pastes' = <<>>
  /\ clear_timers' = {}
  /\ abandoned' = TRUE
  /\ addresses' = FALSE
  /\ UNCHANGED <<session, copies, clipboard>>

Keys ==
  \/ on_popup_key
  \/ SearchAgain
  \/ on_unlock_activate
  \/ \E e \in Entries : solock_popup_switch_to_detail(e)
  \/ \E held \in BOOLEAN : LabelKey(held)
  \/ \E shift \in BOOLEAN :
       on_field_clicked(shift) \/ on_totp_clicked(shift) \/ on_key_pressed(shift)

Timers ==
  \/ on_reset_timer
  \/ touch_entry_idle
  \/ do_unlock
  \/ update_totp
  \/ do_paste_delayed
  \/ clear_clipboard_cb
  \/ on_expiry_check

Bus ==
  \/ solock_popup_toggle
  \/ MenuLock
  \/ on_bus_acquired
  \/ Quit

Window ==
  \/ WindowCalls
  \/ vault_rebuild_list
  \/ on_copy_deployer

Next ==
  \/ on_activate
  \/ /\ running
     /\ \/ Keys
        \/ Timers
        \/ Bus
        \/ Window
        \/ SessionEnds
        \/ OthersCopy

\* The reset timer is one of the main loop, whose handlers all end.
Spec == Init /\ [][Next]_vars /\ WF_vars(on_reset_timer)

-----------------------------------------------------------------------------
(* Properties *)

(* Every variable has its type.                                            *)
TypeOK ==
  /\ {running, srvLocked, clientLocked, visible, reset_timer, found, touching,
      sensitive, password, active, abandoned, addresses} \subseteq BOOLEAN
  /\ session \in 0 .. MaxSessions
  /\ tray \in [conn : BOOLEAN, locked : BOOLEAN, missed : BOOLEAN]
  /\ {page, remembered_page} \subseteq Pages \cup {NULL}
  /\ unlocks \in 0 .. MaxUnlocks
  /\ detail \in Details \cup {NULL}
  /\ pastes \in Seq([clear : BOOLEAN, use_wtype : BOOLEAN])
  /\ copies \in 0 .. MaxCopies
  /\ clipboard \in [copy : 0 .. MaxCopies, clear : BOOLEAN]
  /\ clear_timers \subseteq 1 .. MaxCopies

(* A detail page, with its values in clear, does not reach the session     *)
(* after the one it was opened in, though locking closes neither the popup *)
(* nor the page, and the popup may be hidden while the unlock is under way.*)
DetailOfThisSession ==
  detail # NULL /\ ~clientLocked => detail.session = session

(* The reset timer runs only while the popup is hidden, so it never takes  *)
(* away the page in use, and it runs as long as there is a detail page     *)
(* behind a hidden popup; the pointer that a later show follows is not     *)
(* left behind by a page that is gone, and the page on screen exists.      *)
DetailHasItsTimers ==
  /\ reset_timer => ~visible
  /\ detail # NULL /\ ~visible => reset_timer
  /\ active <=> detail # NULL
  /\ page = "detail" => detail # NULL

(* However the popup was left, it is shown afresh: asking for the password *)
(* and ready to take it when the client knows the vault to be locked, and  *)
(* without the label keys of a Control key released while it was hidden.   *)
ShownAfresh ==
  [][~visible /\ visible' =>
       /\ clientLocked => page' = "unlock" /\ sensitive'
       /\ page' = "detail" => ~detail'.label_mode]_vars

(* A value copied while the settings had the clipboard cleared still has   *)
(* its timer when it is in the clipboard, unless wl-copy has failed or the *)
(* application has ended since, and no timer of an earlier copy runs that  *)
(* would clear a later one.                                                *)
ClearingIsArmed ==
  /\ clear_timers \subseteq {copies}
  /\ clipboard.clear /\ ~abandoned => clipboard.copy \in clear_timers

(* The tray never calls locked, and so refuses to lock, a vault that the   *)
(* client has unlocked, except when it was not on the bus yet to be told.  *)
TrayCanLock == tray.locked /\ ~clientLocked => tray.missed

(* A detail page with its values in clear does not stay behind a hidden    *)
(* popup: it is gone at last, unless the popup is shown again.             *)
HiddenDetailGoes == detail # NULL /\ ~visible ~> detail = NULL \/ visible
=============================================================================
