------------------------ MODULE DesktopPopup_proofs ------------------------
(***************************************************************************)
(* Proofs about the popup, for every set of entries and every number of    *)
(* sessions, unlocks under way and copied values.  HiddenDetailGoes, a     *)
(* liveness property, is left to TLC.                                      *)
(***************************************************************************)
EXTENDS DesktopPopup, TLAPS

(* Before the first activation the popup is hidden, without a timer, and   *)
(* its unlock page takes input.                                            *)
Stopped == page = NULL => ~running /\ ~visible /\ ~reset_timer /\ sensitive

(* Only a client that has unlocked the vault gets past the unlock page,    *)
(* and a password waits only where a further unlock is possible.           *)
UnlockedFirst ==
  /\ ~clientLocked \/ page \in {"search", "detail"} => session > 0
  /\ password => session < MaxSessions

(* The values copied and those about to be.                                *)
PastesCounted == copies + Len(pastes) <= MaxCopies

Inv ==
  /\ TypeOK
  /\ Stopped
  /\ UnlockedFirst
  /\ PastesCounted
  /\ DetailOfThisSession
  /\ DetailHasItsTimers
  /\ ClearingIsArmed
  /\ TrayCanLock

\* Expanded everywhere: the groups of variables in UNCHANGED.
USE DEF appVars, lockVars, popupVars, searchVars, unlockVars, detailVars, clipVars

Trays == [conn : BOOLEAN, locked : BOOLEAN, missed : BOOLEAN]

-----------------------------------------------------------------------------
(* The shared steps *)

(* The tray shows what it was told or knows that it was not told.          *)
LEMMA StatusUpdated ==
  ASSUME NEW t \in Trays, NEW locked \in BOOLEAN
  PROVE  LET u == solock_tray_update_status(t, locked)
         IN /\ u \in Trays
            /\ u.locked => locked \/ u.missed
  BY DEF Trays, solock_tray_update_status

(* A fetch never unlocks the client, and touches the tray only when it     *)
(* leaves the client locked.                                               *)
LEMMA FetchKeepsLock ==
  ASSUME NEW srv \in BOOLEAN, NEW locked \in BOOLEAN, NEW t \in Trays,
         SearchAppears(srv, locked, t)
  PROVE  /\ clientLocked' \in BOOLEAN /\ found' \in BOOLEAN /\ tray' \in Trays
         /\ locked => clientLocked'
         /\ ~clientLocked' => tray' = t
<1> DEFINE u == solock_tray_update_status(t, TRUE)
<1>1. u \in Trays
  BY StatusUpdated
<1> HIDE DEF u
<1>2. PICK groups, list \in Answers(srv) :
        LET refused == locked \/ "locked" \in {groups, list}
        IN /\ clientLocked' = refused
           /\ found' = (list = "ok")
           /\ tray' = IF refused /\ list # "ok" THEN u ELSE t
  BY DEF SearchAppears, u
<1> QED BY <1>1, <1>2

(* What the pages of the stack may turn to.                                *)
LEMMA PagesKept ==
  ASSUME Inv
  PROVE  /\ PageToShow \in Pages
         /\ PageToShow = "detail" => detail # NULL
         /\ clientLocked <=> PageToShow = "unlock"
         /\ PageWithoutDetail \in (Pages \cup {NULL}) \ {"detail"}
         /\ PageWithoutDetail = NULL <=> page = NULL
         /\ PageWithoutDetail = "search" => page = "search"
  BY NullAssumption DEF Inv, TypeOK, PageToShow, PageWithoutDetail, Pages

(* The counters stay within their bounds.                                  *)
LEMMA Counters ==
  ASSUME Inv
  PROVE  /\ MaxSessions \in Nat /\ MaxUnlocks \in Nat /\ MaxCopies \in Nat
         /\ session \in Nat /\ session <= MaxSessions
         /\ unlocks \in Nat /\ unlocks <= MaxUnlocks
         /\ copies \in Nat /\ copies <= MaxCopies
<1>1. MaxSessions \in Nat /\ MaxUnlocks \in Nat /\ MaxCopies \in Nat
  BY PopupAssumption
<1>2. session \in 0 .. MaxSessions /\ unlocks \in 0 .. MaxUnlocks /\ copies \in 0 .. MaxCopies
  BY DEF Inv, TypeOK
<1> QED BY <1>1, <1>2

(* Behind the search page lies a session.                                  *)
LEMMA SearchHasSession ==
  ASSUME Inv, page = "search"
  PROVE  session \in 1 .. MaxSessions
<1>1. session > 0
  BY DEF Inv, UnlockedFirst
<1> QED BY <1>1, Counters

-----------------------------------------------------------------------------
(* The invariant *)

LEMMA InitInv == Init => Inv
<1> SUFFICES ASSUME Init PROVE Inv
  OBVIOUS
<1> USE DEF Init
<1>1. TypeOK
  <2>1. pastes \in Seq([clear : BOOLEAN, use_wtype : BOOLEAN])
    OBVIOUS
  <2>2. {0} \subseteq (0 .. MaxSessions) \cap (0 .. MaxUnlocks) \cap (0 .. MaxCopies)
    BY PopupAssumption
  <2>3. /\ tray \in [conn : BOOLEAN, locked : BOOLEAN, missed : BOOLEAN]
        /\ clipboard \in [copy : 0 .. MaxCopies, clear : BOOLEAN]
    BY <2>2 DEF NewTray, NoCopy
  <2>4. {running, srvLocked, clientLocked, visible, reset_timer, found, touching,
         sensitive, password, active, abandoned, addresses} \subseteq BOOLEAN
    OBVIOUS
  <2> QED BY <2>1, <2>2, <2>3, <2>4 DEF TypeOK
<1>2. Stopped /\ UnlockedFirst
  BY NullAssumption DEF Stopped, UnlockedFirst, Pages
<1>3. PastesCounted
  <2>1. Len(pastes) = 0
    OBVIOUS
  <2> QED BY <2>1, PopupAssumption DEF PastesCounted
<1>4. DetailOfThisSession /\ DetailHasItsTimers
  BY NullAssumption DEF DetailOfThisSession, DetailHasItsTimers, Pages
<1>5. ClearingIsArmed /\ TrayCanLock
  BY DEF ClearingIsArmed, TrayCanLock, NoCopy
<1> QED BY <1>1, <1>2, <1>3, <1>4, <1>5 DEF Inv

LEMMA ActivateKeepsInv == ASSUME Inv, on_activate PROVE Inv'
  BY PopupAssumption, NullAssumption
  DEF on_activate, Inv, TypeOK, Stopped, UnlockedFirst, PastesCounted,
      DetailOfThisSession, DetailHasItsTimers, ClearingIsArmed, TrayCanLock, Pages

LEMMA ResetKeepsInv == ASSUME Inv, on_reset_timer PROVE Inv'
<1> USE DEF Inv, on_reset_timer, remove_detail_view, on_detail_destroy
<1>1. TypeOK' /\ Stopped' /\ UnlockedFirst' /\ DetailHasItsTimers'
  BY PagesKept, NullAssumption
  DEF TypeOK, Stopped, UnlockedFirst, DetailHasItsTimers, Pages
<1>2. DetailOfThisSession' /\ PastesCounted' /\ ClearingIsArmed' /\ TrayCanLock'
  BY DEF DetailOfThisSession, PastesCounted, ClearingIsArmed, TrayCanLock
<1> QED BY <1>1, <1>2

LEMMA ShowKeepsInv == ASSUME Inv, running, solock_popup_show PROVE Inv'
<1> DEFINE appears == ~visible \/ page # page'
<1>1. tray \in Trays /\ srvLocked \in BOOLEAN /\ clientLocked \in BOOLEAN
  BY DEF Inv, TypeOK, Trays
<1>2. IF appears /\ page' = "search" THEN SearchAppears(srvLocked, clientLocked, tray)
      ELSE UNCHANGED <<clientLocked, tray, found>>
  BY DEF solock_popup_show
<1>3. /\ clientLocked' \in BOOLEAN /\ found' \in BOOLEAN /\ tray' \in Trays
      /\ clientLocked => clientLocked'
      /\ ~clientLocked' => tray' = tray
  BY <1>1, <1>2, FetchKeepsLock DEF Inv, TypeOK
<1>4. /\ page' = PageToShow /\ visible' = TRUE /\ reset_timer' = FALSE
      /\ sensitive' \in BOOLEAN
      /\ detail' = IF active THEN [detail EXCEPT !.label_mode = FALSE] ELSE detail
      /\ UNCHANGED <<appVars, srvLocked, remembered_page, touching, password,
                     unlocks, session, active, clipVars>>
  BY DEF solock_popup_show, stop_reset_timer, on_view_map,
         solock_fields_reset_label_mode, Inv, TypeOK
<1>5. /\ detail' \in Details \cup {NULL}
      /\ detail' = NULL <=> detail = NULL
      /\ detail # NULL => detail'.session = detail.session
  BY <1>4, NullAssumption DEF Inv, TypeOK, DetailHasItsTimers, Details
<1>6. TypeOK'
  BY <1>3, <1>4, <1>5, PagesKept DEF Inv, TypeOK, Trays
<1>7. Stopped' /\ UnlockedFirst' /\ PastesCounted'
  BY <1>3, <1>4, PagesKept, NullAssumption DEF Inv, Stopped, UnlockedFirst, PastesCounted, Pages
<1>8. DetailOfThisSession' /\ DetailHasItsTimers'
  BY <1>3, <1>4, <1>5, PagesKept DEF Inv, DetailOfThisSession, DetailHasItsTimers
<1>9. ClearingIsArmed' /\ TrayCanLock'
  BY <1>3, <1>4 DEF Inv, ClearingIsArmed, TrayCanLock
<1> QED BY <1>6, <1>7, <1>8, <1>9 DEF Inv

LEMMA HideKeepsInv ==
  ASSUME Inv, visible, solock_popup_hide,
         UNCHANGED <<appVars, lockVars, searchVars, unlockVars, detailVars, clipVars>>
  PROVE  Inv'
  BY DEF solock_popup_hide, Inv, TypeOK, Stopped, UnlockedFirst, PastesCounted,
         DetailOfThisSession, DetailHasItsTimers, ClearingIsArmed, TrayCanLock

LEMMA ToggleKeepsInv == ASSUME Inv, running, solock_popup_toggle PROVE Inv'
  BY HideKeepsInv, ShowKeepsInv DEF solock_popup_toggle

(* The search page comes on screen, or fetches anew, and the detail page   *)
(* goes when it was left.                                                  *)
LEMMA EscapeKeepsInv == ASSUME Inv, running, on_popup_key PROVE Inv'
<1>1. CASE page = "detail"
  <2>1. tray \in Trays /\ srvLocked \in BOOLEAN /\ clientLocked \in BOOLEAN
    BY DEF Inv, TypeOK, Trays
  <2>2. /\ visible /\ detail # NULL
        /\ page' = "search" /\ detail' = NULL /\ active' = FALSE
        /\ SearchAppears(srvLocked, clientLocked, tray)
        /\ UNCHANGED <<appVars, srvLocked, visible, remembered_page, reset_timer,
                       touching, unlockVars, clipVars>>
    BY <1>1 DEF on_popup_key, remove_detail_view, on_detail_destroy, Inv, DetailHasItsTimers
  <2>3. /\ clientLocked' \in BOOLEAN /\ found' \in BOOLEAN /\ tray' \in Trays
        /\ clientLocked => clientLocked'
        /\ ~clientLocked' => tray' = tray
    BY <2>1, <2>2, FetchKeepsLock
  <2>4. TypeOK'
    BY <2>2, <2>3 DEF Inv, TypeOK, Trays, Pages
  <2>5. Stopped' /\ UnlockedFirst' /\ PastesCounted'
    BY <1>1, <2>2, <2>3, NullAssumption DEF Inv, Stopped, UnlockedFirst, PastesCounted, Pages
  <2>6. DetailOfThisSession' /\ DetailHasItsTimers' /\ ClearingIsArmed' /\ TrayCanLock'
    BY <2>2, <2>3
    DEF Inv, DetailOfThisSession, DetailHasItsTimers, ClearingIsArmed, TrayCanLock
  <2> QED BY <2>4, <2>5, <2>6 DEF Inv
<1>2. CASE page # "detail"
  BY <1>2, HideKeepsInv DEF on_popup_key
<1> QED BY <1>1, <1>2

LEMMA SearchAgainKeepsInv == ASSUME Inv, running, SearchAgain PROVE Inv'
<1>1. tray \in Trays /\ srvLocked \in BOOLEAN /\ clientLocked \in BOOLEAN
  BY DEF Inv, TypeOK, Trays
<1>2. /\ clientLocked' \in BOOLEAN /\ found' \in BOOLEAN /\ tray' \in Trays
      /\ clientLocked => clientLocked'
      /\ ~clientLocked' => tray' = tray
  BY <1>1, FetchKeepsLock DEF SearchAgain
<1>3. UNCHANGED <<appVars, srvLocked, popupVars, touching, unlockVars, detailVars, clipVars>>
  BY DEF SearchAgain
<1>4. TypeOK'
  BY <1>2, <1>3 DEF Inv, TypeOK, Trays
<1>5. Stopped' /\ UnlockedFirst' /\ PastesCounted'
  BY <1>2, <1>3 DEF Inv, Stopped, UnlockedFirst, PastesCounted
<1>6. DetailOfThisSession' /\ DetailHasItsTimers' /\ ClearingIsArmed' /\ TrayCanLock'
  BY <1>2, <1>3
  DEF Inv, DetailOfThisSession, DetailHasItsTimers, ClearingIsArmed, TrayCanLock
<1> QED BY <1>4, <1>5, <1>6 DEF Inv

LEMMA OpenKeepsInv ==
  ASSUME Inv, running, NEW e \in Entries, solock_popup_switch_to_detail(e)
  PROVE  Inv'
<1>1. PICK answer \in IF e \in HasTotp THEN Answers(srvLocked) ELSE {"not asked"},
           control \in BOOLEAN :
        /\ solock_fields_view_new(e, answer = "ok", control)
        /\ clientLocked' = (clientLocked \/ answer = "locked")
  BY DEF solock_popup_switch_to_detail
<1>2. /\ visible /\ page = "search"
      /\ page' = "detail" /\ touching' = TRUE /\ active' = TRUE
      /\ UNCHANGED <<appVars, srvLocked, tray, visible, remembered_page, reset_timer,
                     found, unlockVars, clipVars>>
  BY <1>1 DEF solock_popup_switch_to_detail, solock_fields_view_new
<1>3. session \in 1 .. MaxSessions
  BY <1>2, SearchHasSession
<1>4. detail' \in Details /\ detail'.session = session
  BY <1>1, <1>3 DEF solock_fields_view_new, Details
<1>5. clientLocked' \in BOOLEAN /\ (clientLocked => clientLocked')
  BY <1>1 DEF Inv, TypeOK, Answers
<1>6. TypeOK'
  BY <1>2, <1>4, <1>5 DEF Inv, TypeOK, Pages
<1>7. Stopped' /\ UnlockedFirst' /\ PastesCounted'
  BY <1>2, <1>3, <1>5, NullAssumption DEF Inv, Stopped, UnlockedFirst, PastesCounted, Pages
<1>8. DetailOfThisSession' /\ DetailHasItsTimers' /\ ClearingIsArmed' /\ TrayCanLock'
  BY <1>2, <1>4, <1>5, NullAssumption
  DEF Inv, DetailOfThisSession, DetailHasItsTimers, ClearingIsArmed, TrayCanLock
<1> QED BY <1>6, <1>7, <1>8 DEF Inv

LEMMA TouchKeepsInv == ASSUME Inv, running, touch_entry_idle PROVE Inv'
<1>1. /\ clientLocked' \in BOOLEAN /\ (clientLocked => clientLocked')
      /\ touching' = FALSE
      /\ UNCHANGED <<appVars, srvLocked, tray, popupVars, found, unlockVars, detailVars, clipVars>>
  BY DEF touch_entry_idle, Call, Inv, TypeOK
<1> QED BY <1>1 DEF Inv, TypeOK, Stopped, UnlockedFirst, PastesCounted,
         DetailOfThisSession, DetailHasItsTimers, ClearingIsArmed, TrayCanLock

LEMMA PasswordKeepsInv == ASSUME Inv, running, on_unlock_activate PROVE Inv'
<1> USE DEF on_unlock_activate, Inv
<1>1. TypeOK'
  <2>1. unlocks' \in 0 .. MaxUnlocks
    BY Counters
  <2> QED BY <2>1 DEF TypeOK
<1>2. Stopped' /\ UnlockedFirst' /\ PastesCounted'
  BY NullAssumption DEF Stopped, UnlockedFirst, PastesCounted, Pages
<1>3. DetailOfThisSession' /\ DetailHasItsTimers' /\ ClearingIsArmed' /\ TrayCanLock'
  BY DEF DetailOfThisSession, DetailHasItsTimers, ClearingIsArmed, TrayCanLock
<1> QED BY <1>1, <1>2, <1>3

LEMMA UnlockKeepsInv == ASSUME Inv, running, do_unlock PROVE Inv'
<1>1. PICK answer \in IF password THEN {"ok", "failed", "lost"} ELSE {"failed"} :
        /\ srvLocked' = (srvLocked /\ answer = "failed")
        /\ IF answer = "ok"
             THEN /\ session' = session + 1
                  /\ solock_popup_switch_to_search(solock_tray_update_status(tray, FALSE))
           ELSE UNCHANGED <<clientLocked, tray, session, detailVars, page, found>>
  BY DEF do_unlock
<1>2. /\ unlocks' = unlocks - 1 /\ unlocks > 0 /\ password' = FALSE
      /\ UNCHANGED <<appVars, visible, remembered_page, reset_timer, touching,
                     sensitive, clipVars>>
  BY DEF do_unlock
<1>3. unlocks' \in 0 .. MaxUnlocks /\ srvLocked' \in BOOLEAN
  BY <1>1, <1>2, Counters DEF Inv, TypeOK
<1>4. CASE answer = "ok"
  <2> DEFINE told == solock_tray_update_status(tray, FALSE)
  <2>1. told \in Trays /\ (told.locked => told.missed)
    BY StatusUpdated DEF Inv, TypeOK, Trays
  <2> HIDE DEF told
  <2>2. /\ session' = session + 1 /\ session' \in 0 .. MaxSessions /\ session' > 0
        /\ page' = "search"
        /\ detail' = NULL /\ active' = FALSE
    <3>1. session < MaxSessions
      BY <1>1, <1>4 DEF Inv, UnlockedFirst
    <3>2. session' = session + 1 /\ session' \in 0 .. MaxSessions /\ session' > 0
      BY <1>1, <1>4, <3>1, Counters
    <3> QED BY <1>1, <1>4, <3>2
        DEF solock_popup_switch_to_search, remove_detail_view, on_detail_destroy,
            Inv, DetailHasItsTimers
  <2>3. \/ SearchAppears(FALSE, FALSE, told)
        \/ clientLocked' = FALSE /\ tray' = told /\ UNCHANGED found
    BY <1>1, <1>4 DEF solock_popup_switch_to_search, told
  <2>4. /\ clientLocked' \in BOOLEAN /\ found' \in BOOLEAN /\ tray' \in Trays
        /\ ~clientLocked' => tray' = told
    <3>1. CASE SearchAppears(FALSE, FALSE, told)
      BY <2>1, <3>1, FetchKeepsLock
    <3>2. CASE clientLocked' = FALSE /\ tray' = told /\ UNCHANGED found
      BY <2>1, <3>2 DEF Inv, TypeOK
    <3> QED BY <2>3, <3>1, <3>2
  <2>5. TypeOK'
    BY <1>2, <1>3, <2>2, <2>4 DEF Inv, TypeOK, Trays, Pages
  <2>6. Stopped' /\ UnlockedFirst' /\ PastesCounted'
    BY <1>2, <2>2, NullAssumption DEF Inv, Stopped, UnlockedFirst, PastesCounted, Pages
  <2>7. DetailOfThisSession' /\ DetailHasItsTimers' /\ ClearingIsArmed' /\ TrayCanLock'
    BY <1>2, <2>1, <2>2, <2>4
    DEF Inv, DetailOfThisSession, DetailHasItsTimers, ClearingIsArmed, TrayCanLock
  <2> QED BY <2>5, <2>6, <2>7 DEF Inv
<1>5. CASE answer # "ok"
  <2>1. UNCHANGED <<clientLocked, tray, session, detailVars, page, found>>
    BY <1>1, <1>5
  <2>2. TypeOK'
    BY <1>2, <1>3, <2>1 DEF Inv, TypeOK
  <2>3. Stopped' /\ UnlockedFirst' /\ PastesCounted'
    BY <1>2, <2>1 DEF Inv, Stopped, UnlockedFirst, PastesCounted
  <2>4. DetailOfThisSession' /\ DetailHasItsTimers' /\ ClearingIsArmed' /\ TrayCanLock'
    BY <1>2, <2>1
    DEF Inv, DetailOfThisSession, DetailHasItsTimers, ClearingIsArmed, TrayCanLock
  <2> QED BY <2>2, <2>3, <2>4 DEF Inv
<1> QED BY <1>4, <1>5

-----------------------------------------------------------------------------
(* The detail page and the clipboard *)

LEMMA LabelKeepsInv == ASSUME Inv, running, NEW held \in BOOLEAN, LabelKey(held) PROVE Inv'
<1>1. /\ detail # NULL
      /\ detail' = [detail EXCEPT !.label_mode = held]
      /\ UNCHANGED <<appVars, lockVars, popupVars, searchVars, unlockVars, active, clipVars>>
  BY DEF LabelKey, OnDetail, Inv, DetailHasItsTimers
<1>2. detail' \in Details /\ detail'.session = detail.session
  BY <1>1 DEF Inv, TypeOK, Details
<1> QED BY <1>1, <1>2, NullAssumption
    DEF Inv, TypeOK, Stopped, UnlockedFirst, PastesCounted,
        DetailOfThisSession, DetailHasItsTimers, ClearingIsArmed, TrayCanLock

LEMMA TotpKeepsInv == ASSUME Inv, running, update_totp PROVE Inv'
<1>1. PICK answer \in Answers(srvLocked) :
        /\ detail' = [detail EXCEPT !.code = @ \/ answer = "ok"]
        /\ clientLocked' = (clientLocked \/ answer = "locked")
  BY DEF update_totp
<1>2. /\ detail # NULL
      /\ UNCHANGED <<appVars, srvLocked, tray, popupVars, searchVars, unlockVars, active, clipVars>>
  BY DEF update_totp
<1>3. detail' \in Details /\ detail'.session = detail.session
  BY <1>1, <1>2 DEF Inv, TypeOK, Details
<1>4. clientLocked' \in BOOLEAN /\ (clientLocked => clientLocked')
  BY <1>1 DEF Inv, TypeOK, Answers
<1> QED BY <1>2, <1>3, <1>4, NullAssumption
    DEF Inv, TypeOK, Stopped, UnlockedFirst, PastesCounted,
        DetailOfThisSession, DetailHasItsTimers, ClearingIsArmed, TrayCanLock

(* One more value is about to be pasted, and the popup hides.              *)
LEMMA PasteKeepsInv ==
  ASSUME Inv, running, visible, NEW type \in BOOLEAN, do_paste_value(type)
  PROVE  Inv'
<1> DEFINE Jobs == [clear : BOOLEAN, use_wtype : BOOLEAN]
<1>1. PICK clear \in BOOLEAN : pastes' = Append(pastes, [clear |-> clear, use_wtype |-> type])
  BY DEF do_paste_value
<1>2. /\ solock_popup_hide
      /\ copies + Len(pastes) < MaxCopies
      /\ UNCHANGED <<appVars, lockVars, searchVars, unlockVars, detailVars,
                     copies, clipboard, clear_timers, abandoned>>
  BY DEF do_paste_value
<1>3. pastes' \in Seq(Jobs) /\ Len(pastes') = Len(pastes) + 1 /\ Len(pastes) \in Nat
  BY <1>1 DEF Inv, TypeOK
<1>4. PastesCounted'
  BY <1>2, <1>3, PopupAssumption DEF Inv, TypeOK, PastesCounted
<1> QED BY <1>2, <1>3, <1>4
    DEF solock_popup_hide, Inv, TypeOK, Stopped, UnlockedFirst,
        DetailOfThisSession, DetailHasItsTimers, ClearingIsArmed, TrayCanLock

LEMMA ChoiceKeepsInv ==
  ASSUME Inv, running, NEW shift \in BOOLEAN,
         on_field_clicked(shift) \/ on_totp_clicked(shift) \/ on_key_pressed(shift)
  PROVE  Inv'
<1>1. CASE on_field_clicked(shift)
  BY <1>1, PasteKeepsInv DEF on_field_clicked, OnDetail
<1>2. CASE on_totp_clicked(shift)
  BY <1>2, PasteKeepsInv, HideKeepsInv DEF on_totp_clicked, OnDetail
<1>3. CASE on_key_pressed(shift)
  BY <1>3, PasteKeepsInv DEF on_key_pressed, OnDetail
<1> QED BY <1>1, <1>2, <1>3

(* A copy takes the next number, and a value that is to be cleared has its *)
(* timer, the only one, if nothing failed.                                 *)
LEMMA CopyArmed ==
  ASSUME Inv, copies < MaxCopies, NEW clear \in BOOLEAN, solock_clipboard_copy(clear)
  PROVE  /\ copies' = copies + 1 /\ copies' \in 0 .. MaxCopies
         /\ clipboard' \in [copy : 0 .. MaxCopies, clear : BOOLEAN]
         /\ clear_timers' \subseteq 1 .. MaxCopies
         /\ abandoned' \in BOOLEAN
         /\ ClearingIsArmed'
<1> DEFINE new == [copy |-> copies + 1, clear |-> clear]
<1>1. new \in [copy : 0 .. MaxCopies, clear : BOOLEAN] /\ new.copy \in 1 .. MaxCopies
  BY Counters
<1>2. copies' = new.copy /\ copies' = copies + 1 /\ copies' \in 0 .. MaxCopies
  BY <1>1, Counters DEF solock_clipboard_copy
<1>3. /\ clipboard' \in {clipboard, new}
      /\ abandoned' \in BOOLEAN
      /\ clear_timers' \subseteq {new.copy}
      /\ ~abandoned' => clipboard' = new /\ (new.clear => clear_timers' = {new.copy})
  BY DEF solock_clipboard_copy
<1>4. ClearingIsArmed'
  BY <1>2, <1>3 DEF ClearingIsArmed
<1> QED BY <1>1, <1>2, <1>3, <1>4 DEF Inv, TypeOK

LEMMA CopyKeepsInv == ASSUME Inv, running, do_paste_delayed PROVE Inv'
<1> DEFINE Jobs == [clear : BOOLEAN, use_wtype : BOOLEAN]
<1>1. /\ pastes # <<>> /\ pastes' = Tail(pastes)
      /\ UNCHANGED <<appVars, lockVars, popupVars, searchVars, unlockVars, detailVars>>
  BY DEF do_paste_delayed
<1>2. /\ Head(pastes) \in Jobs /\ pastes' \in Seq(Jobs)
      /\ Len(pastes) \in Nat /\ Len(pastes') = Len(pastes) - 1 /\ Len(pastes) >= 1
  <2>1. pastes \in Seq(Jobs)
    BY DEF Inv, TypeOK
  <2> HIDE DEF Jobs
  <2> QED BY <1>1, <2>1
<1>3. copies < MaxCopies
  BY <1>2, Counters DEF Inv, PastesCounted
<1>4. CASE solock_clipboard_copy(Head(pastes).clear)
  <2>1. Head(pastes).clear \in BOOLEAN
    BY <1>2
  <2>2. /\ copies' = copies + 1 /\ copies' \in 0 .. MaxCopies
        /\ clipboard' \in [copy : 0 .. MaxCopies, clear : BOOLEAN]
        /\ clear_timers' \subseteq 1 .. MaxCopies
        /\ abandoned' \in BOOLEAN
        /\ ClearingIsArmed'
    BY <1>3, <1>4, <2>1, CopyArmed
  <2>3. TypeOK'
    BY <1>1, <1>2, <2>2 DEF Inv, TypeOK
  <2>4. PastesCounted'
    BY <1>2, <2>2, Counters DEF Inv, PastesCounted
  <2> QED BY <1>1, <2>2, <2>3, <2>4
      DEF Inv, Stopped, UnlockedFirst, DetailOfThisSession, DetailHasItsTimers, TrayCanLock
<1>5. CASE solock_wtype_type
  <2>1. UNCHANGED <<copies, clipboard, clear_timers, abandoned>>
    BY <1>5 DEF solock_wtype_type
  <2>2. PastesCounted'
    BY <1>2, <2>1, Counters DEF Inv, PastesCounted
  <2> QED BY <1>1, <1>2, <2>1, <2>2
      DEF Inv, TypeOK, Stopped, UnlockedFirst, DetailOfThisSession, DetailHasItsTimers,
          ClearingIsArmed, TrayCanLock
<1> QED BY <1>4, <1>5 DEF do_paste_delayed

LEMMA AddressKeepsInv == ASSUME Inv, running, on_copy_deployer PROVE Inv'
<1>1. /\ solock_clipboard_copy(FALSE)
      /\ copies + Len(pastes) < MaxCopies
      /\ UNCHANGED <<appVars, lockVars, popupVars, searchVars, unlockVars, detailVars, pastes>>
  BY DEF on_copy_deployer
<1>2. Len(pastes) \in Nat
  BY DEF Inv, TypeOK
<1>3. copies < MaxCopies
  BY <1>1, <1>2, Counters
<1>4. /\ copies' = copies + 1 /\ copies' \in 0 .. MaxCopies
      /\ clipboard' \in [copy : 0 .. MaxCopies, clear : BOOLEAN]
      /\ clear_timers' \subseteq 1 .. MaxCopies
      /\ abandoned' \in BOOLEAN
      /\ ClearingIsArmed'
  BY <1>1, <1>3, CopyArmed
<1>5. TypeOK'
  BY <1>1, <1>4 DEF Inv, TypeOK
<1>6. PastesCounted'
  BY <1>1, <1>2, <1>4, Counters DEF PastesCounted
<1> QED BY <1>1, <1>4, <1>5, <1>6
    DEF Inv, Stopped, UnlockedFirst, DetailOfThisSession, DetailHasItsTimers, TrayCanLock

LEMMA ClearKeepsInv ==
  ASSUME Inv, running, clear_clipboard_cb \/ OthersCopy
  PROVE  Inv'
<1>1. /\ UNCHANGED <<appVars, lockVars, popupVars, searchVars, unlockVars, detailVars,
                     pastes, copies>>
      /\ clear_timers' \subseteq clear_timers
      /\ clipboard' \in {clipboard, NoCopy}
      /\ abandoned' \in BOOLEAN
      /\ clipboard' = NoCopy \/ abandoned'
  <2>1. CASE clear_clipboard_cb
    <3>1. PICK timer \in clear_timers : clear_timers' = clear_timers \ {timer}
      BY <2>1 DEF clear_clipboard_cb
    <3> QED BY <2>1, <3>1 DEF clear_clipboard_cb, Inv, TypeOK, NoCopy
  <2>2. CASE OthersCopy
    BY <2>2 DEF OthersCopy, Inv, TypeOK
  <2> QED BY <2>1, <2>2
<1>2. NoCopy \in [copy : 0 .. MaxCopies, clear : BOOLEAN] /\ ~NoCopy.clear
  BY Counters DEF NoCopy
<1>3. TypeOK'
  BY <1>1, <1>2 DEF Inv, TypeOK
<1>4. ClearingIsArmed'
  BY <1>1, <1>2 DEF Inv, ClearingIsArmed
<1> QED BY <1>1, <1>3, <1>4
    DEF Inv, Stopped, UnlockedFirst, PastesCounted, DetailOfThisSession,
        DetailHasItsTimers, TrayCanLock

-----------------------------------------------------------------------------
(* Locking, the bus and the end *)

LEMMA LockKeepsInv ==
  ASSUME Inv, running, SessionEnds \/ solock_client_lock \/ on_bus_acquired
  PROVE  Inv'
<1>1. tray \in Trays
  BY DEF Inv, TypeOK, Trays
<1>2. /\ tray' \in Trays /\ srvLocked' \in BOOLEAN /\ clientLocked' \in BOOLEAN
      /\ clientLocked => clientLocked'
      /\ clientLocked' \/ (tray'.locked = tray.locked /\ tray'.missed = tray.missed)
      /\ UNCHANGED <<appVars, popupVars, searchVars, unlockVars, detailVars, clipVars>>
  <2>1. CASE SessionEnds
    BY <1>1, <2>1 DEF SessionEnds, Inv, TypeOK
  <2>2. CASE solock_client_lock
    BY <1>1, <2>2, StatusUpdated DEF solock_client_lock, Inv, TypeOK
  <2>3. CASE on_bus_acquired
    BY <1>1, <2>3 DEF on_bus_acquired, Trays, Inv, TypeOK
  <2> QED BY <2>1, <2>2, <2>3
<1>3. TypeOK'
  BY <1>2 DEF Inv, TypeOK, Trays
<1>4. Stopped' /\ UnlockedFirst' /\ PastesCounted'
  BY <1>2 DEF Inv, Stopped, UnlockedFirst, PastesCounted
<1>5. DetailOfThisSession' /\ DetailHasItsTimers' /\ ClearingIsArmed' /\ TrayCanLock'
  BY <1>2 DEF Inv, DetailOfThisSession, DetailHasItsTimers, ClearingIsArmed, TrayCanLock
<1> QED BY <1>3, <1>4, <1>5 DEF Inv

(* What the main window asks may find the vault locked, and never unlocks  *)
(* the client; the tray is told only that it is locked.                    *)
LEMMA WindowKeepsInv == ASSUME Inv, running, Window PROVE Inv'
<1>1. CASE WindowCalls \/ vault_rebuild_list
  <2>1. tray \in Trays /\ clientLocked \in BOOLEAN /\ addresses \in BOOLEAN
    BY DEF Inv, TypeOK, Trays
  <2>2. /\ clientLocked' \in BOOLEAN /\ addresses' \in BOOLEAN /\ tray' \in Trays
        /\ clientLocked => clientLocked'
        /\ clientLocked' \/ tray' = tray
        /\ UNCHANGED <<running, srvLocked, popupVars, searchVars, unlockVars, detailVars, clipVars>>
    <3>1. CASE WindowCalls
      <4>1. /\ tray' = tray
            /\ UNCHANGED <<running, srvLocked, popupVars, searchVars, unlockVars,
                           detailVars, clipVars>>
        BY <3>1 DEF WindowCalls
      <4>2. ASSUME NEW locked \in BOOLEAN, NEW forced \in BOOLEAN,
                   clientLocked => locked, dashboard_refresh(locked, forced)
            PROVE  /\ clientLocked' \in BOOLEAN /\ addresses' \in BOOLEAN
                   /\ clientLocked => clientLocked'
        BY <2>1, <4>2 DEF dashboard_refresh
      <4>3. CASE dashboard_refresh(clientLocked, FALSE)
        BY <2>1, <4>1, <4>2, <4>3
      <4>4. CASE on_refresh_clicked
        BY <2>1, <4>1, <4>2, <4>4 DEF on_refresh_clicked
      <4>5. CASE on_clear_local_db_clicked
        BY <2>1, <4>1, <4>2, <4>5 DEF on_clear_local_db_clicked
      <4>6. CASE on_network_changed
        BY <2>1, <4>1, <4>6 DEF on_network_changed
      <4> QED BY <3>1, <4>3, <4>4, <4>5, <4>6 DEF WindowCalls
    <3>2. CASE vault_rebuild_list
      BY <2>1, <3>2, StatusUpdated DEF vault_rebuild_list
    <3> QED BY <1>1, <3>1, <3>2
  <2>3. TypeOK'
    BY <2>2 DEF Inv, TypeOK, Trays
  <2>4. Stopped' /\ UnlockedFirst' /\ PastesCounted'
    BY <2>2 DEF Inv, Stopped, UnlockedFirst, PastesCounted
  <2>5. DetailOfThisSession' /\ DetailHasItsTimers' /\ ClearingIsArmed' /\ TrayCanLock'
    BY <2>2 DEF Inv, DetailOfThisSession, DetailHasItsTimers, ClearingIsArmed, TrayCanLock
  <2> QED BY <2>3, <2>4, <2>5 DEF Inv
<1>2. CASE on_copy_deployer
  BY <1>2, AddressKeepsInv
<1> QED BY <1>1, <1>2 DEF Window

LEMMA QuitKeepsInv == ASSUME Inv, running, Quit PROVE Inv'
<1> USE DEF Quit
<1>1. pastes' \in Seq([clear : BOOLEAN, use_wtype : BOOLEAN]) /\ Len(pastes') = 0
  OBVIOUS
<1>2. tray' \in Trays /\ unlocks' \in 0 .. MaxUnlocks
  BY Counters DEF NewTray, Trays
<1>3. TypeOK'
  BY <1>1, <1>2 DEF Inv, TypeOK, Trays
<1>4. PastesCounted'
  BY <1>1, Counters DEF PastesCounted
<1>5. Stopped' /\ UnlockedFirst'
  BY NullAssumption DEF Stopped, UnlockedFirst, Pages
<1>6. DetailOfThisSession' /\ DetailHasItsTimers' /\ ClearingIsArmed' /\ TrayCanLock'
  BY NullAssumption
  DEF DetailOfThisSession, DetailHasItsTimers, ClearingIsArmed, TrayCanLock, Pages
<1> QED BY <1>3, <1>4, <1>5, <1>6 DEF Inv

(* Every step of the popup preserves the invariant.                        *)
LEMMA NextKeepsInv == ASSUME Inv, [Next]_vars PROVE Inv'
<1>1. CASE on_activate
  BY <1>1, ActivateKeepsInv
<1>2. CASE running /\ Keys
  <2>1. CASE on_popup_key \/ SearchAgain \/ on_unlock_activate
    BY <1>2, <2>1, EscapeKeepsInv, SearchAgainKeepsInv, PasswordKeepsInv
  <2>2. CASE \E e \in Entries : solock_popup_switch_to_detail(e)
    BY <1>2, <2>2, OpenKeepsInv
  <2>3. CASE \E held \in BOOLEAN : LabelKey(held)
    BY <1>2, <2>3, LabelKeepsInv
  <2>4. CASE \E shift \in BOOLEAN :
               on_field_clicked(shift) \/ on_totp_clicked(shift) \/ on_key_pressed(shift)
    BY <1>2, <2>4, ChoiceKeepsInv
  <2> QED BY <1>2, <2>1, <2>2, <2>3, <2>4 DEF Keys
<1>3. CASE running /\ Timers
  <2>1. CASE on_expiry_check
    BY <1>3, <2>1, LockKeepsInv DEF on_expiry_check
  <2>2. CASE on_reset_timer \/ touch_entry_idle \/ do_unlock \/ update_totp
             \/ do_paste_delayed \/ clear_clipboard_cb
    BY <1>3, <2>2, ResetKeepsInv, TouchKeepsInv, UnlockKeepsInv, TotpKeepsInv,
       CopyKeepsInv, ClearKeepsInv
  <2> QED BY <1>3, <2>1, <2>2 DEF Timers
<1>4. CASE running /\ Bus
  <2>1. CASE MenuLock
    BY <1>4, <2>1, ShowKeepsInv, LockKeepsInv DEF MenuLock
  <2>2. CASE solock_popup_toggle \/ on_bus_acquired \/ Quit
    BY <1>4, <2>2, ToggleKeepsInv, LockKeepsInv, QuitKeepsInv
  <2> QED BY <1>4, <2>1, <2>2 DEF Bus
<1>5. CASE running /\ (Window \/ SessionEnds \/ OthersCopy)
  BY <1>5, WindowKeepsInv, LockKeepsInv, ClearKeepsInv
<1>6. CASE UNCHANGED vars
  BY <1>6
  DEF vars, Inv, TypeOK, Stopped, UnlockedFirst, PastesCounted, DetailOfThisSession,
      DetailHasItsTimers, ClearingIsArmed, TrayCanLock
<1> QED BY <1>1, <1>2, <1>3, <1>4, <1>5, <1>6 DEF Next

(* The inductive invariant holds in every reachable state: the properties  *)
(* checked by TLC, and what they need, on the pages, timers and copies.    *)
THEOREM PopupInvariance == Spec => []Inv
<1>1. Inv /\ [Next]_vars => Inv'
  BY NextKeepsInv
<1> QED BY InitInv, <1>1, PTL DEF Spec

-----------------------------------------------------------------------------
(* What the runs check, for all values of the constants *)

(* The state of the popup, the tray and the clipboard is typed, and unlocks *)
(* and copies stay within their bounds.                                    *)
THEOREM PopupTypeCorrect == Spec => []TypeOK
<1>1. Inv => TypeOK
  BY DEF Inv
<1> QED BY PopupInvariance, <1>1, PTL

(* A detail page never reaches the session after its own, however locking, *)
(* delayed unlocks, hiding and showing interleave.                         *)
THEOREM DetailOfThisSessionCorrect == Spec => []DetailOfThisSession
<1>1. Inv => DetailOfThisSession
  BY DEF Inv
<1> QED BY PopupInvariance, <1>1, PTL

(* The reset timer runs exactly where a detail page is hidden, and no      *)
(* pointer to a detail page outlives it.                                   *)
THEOREM DetailHasItsTimersCorrect == Spec => []DetailHasItsTimers
<1>1. Inv => DetailHasItsTimers
  BY DEF Inv
<1> QED BY PopupInvariance, <1>1, PTL

(* A value to be cleared keeps its timer, whatever is copied meanwhile.    *)
THEOREM ClearingIsArmedCorrect == Spec => []ClearingIsArmed
<1>1. Inv => ClearingIsArmed
  BY DEF Inv
<1> QED BY PopupInvariance, <1>1, PTL

(* The tray can lock what the client has unlocked, if it was told.         *)
THEOREM TrayCanLockCorrect == Spec => []TrayCanLock
<1>1. Inv => TrayCanLock
  BY DEF Inv
<1> QED BY PopupInvariance, <1>1, PTL

(* However the popup comes on screen: only its activation and             *)
(* solock_popup_show bring it there.                                       *)
LEMMA OnlyShowShows ==
  ASSUME Inv, [Next]_vars, ~visible, visible'
  PROVE  on_activate \/ solock_popup_show
<1>1. CASE running /\ Keys
  <2>1. CASE on_unlock_activate \/ on_popup_key \/ SearchAgain
    BY <2>1 DEF on_unlock_activate, on_popup_key, SearchAgain
  <2>2. CASE \E e \in Entries : solock_popup_switch_to_detail(e)
    BY <2>2 DEF solock_popup_switch_to_detail
  <2>3. CASE \E held \in BOOLEAN : LabelKey(held)
    BY <2>3 DEF LabelKey, OnDetail
  <2>4. CASE \E shift \in BOOLEAN :
               on_field_clicked(shift) \/ on_totp_clicked(shift) \/ on_key_pressed(shift)
    BY <2>4 DEF on_field_clicked, on_totp_clicked, on_key_pressed, OnDetail
  <2> QED BY <1>1, <2>1, <2>2, <2>3, <2>4 DEF Keys
<1>2. CASE running /\ Timers
  <2>1. CASE on_reset_timer \/ touch_entry_idle
    BY <2>1 DEF on_reset_timer, touch_entry_idle
  <2>2. CASE do_unlock
    BY <2>2 DEF do_unlock
  <2>3. CASE update_totp \/ do_paste_delayed
    BY <2>3 DEF update_totp, do_paste_delayed
  <2>4. CASE clear_clipboard_cb \/ on_expiry_check
    BY <2>4 DEF clear_clipboard_cb, on_expiry_check, solock_client_lock
  <2> QED BY <1>2, <2>1, <2>2, <2>3, <2>4 DEF Timers
<1>3. CASE running /\ Bus
  BY <1>3 DEF Bus, solock_popup_toggle, MenuLock, solock_client_lock, on_bus_acquired, Quit
<1>4. CASE running /\ (Window \/ SessionEnds \/ OthersCopy)
  BY <1>4 DEF Window, WindowCalls, vault_rebuild_list, on_copy_deployer, SessionEnds, OthersCopy
<1>5. CASE UNCHANGED vars
  BY <1>5 DEF vars
<1> QED BY <1>1, <1>2, <1>3, <1>4, <1>5 DEF Next

(* However the popup was left, it is shown afresh: on the unlock page,     *)
(* ready for a password, when the client is locked, and without the label  *)
(* keys of a Control key released behind its back.                         *)
THEOREM ShownAfreshCorrect == Spec => ShownAfresh
<1> DEFINE Afresh == /\ clientLocked => page' = "unlock" /\ sensitive'
                     /\ page' = "detail" => ~detail'.label_mode
<1>1. ASSUME Inv, [Next]_vars, ~visible, visible'
      PROVE  Afresh
  <2>1. CASE on_activate
    BY <1>1, <2>1 DEF on_activate, Inv, Stopped
  <2>2. CASE solock_popup_show
    <3>1. clientLocked => page' = "unlock" /\ sensitive'
      BY <1>1, <2>2 DEF solock_popup_show, PageToShow, on_view_map
    <3>2. CASE page' = "detail"
      <4>1. detail # NULL /\ active
        BY <1>1, <2>2, <3>2, PagesKept DEF solock_popup_show, Inv, DetailHasItsTimers
      <4>2. detail \in Details /\ detail' = [detail EXCEPT !.label_mode = FALSE]
        BY <1>1, <2>2, <4>1 DEF solock_popup_show, solock_fields_reset_label_mode, Inv, TypeOK
      <4> QED BY <3>1, <4>2 DEF Details
    <3> QED BY <3>1, <3>2
  <2> QED BY <1>1, <2>1, <2>2, OnlyShowShows
<1>2. Inv /\ [Next]_vars => [~visible /\ visible' => Afresh]_vars
  BY <1>1
<1> QED BY PopupInvariance, <1>2, PTL DEF Spec, ShownAfresh
=============================================================================
