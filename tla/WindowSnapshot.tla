-------------------------- MODULE WindowSnapshot --------------------------
(***************************************************************************)
(* What happens to the content of a window snapshot between KWin and the   *)
(* taskbar of the dashboard: the KWin script lists the windows, the helper *)
(* parses the list and asks KWin about each window again, helper, store    *)
(* and envelopes normalize it (common/window_state.cpp), and the dashboard *)
(* lists it (clients/web/src/api/state.ts, components/WindowTaskbar.tsx).  *)
(*                                                                         *)
(* Operators only.  A window is reduced to its id and the two flags that   *)
(* decide whether and how the taskbar shows it.  A value that may be       *)
(* missing (std::optional, null in JSON) is a set of at most one element.  *)
(***************************************************************************)
EXTENDS Naturals, Sequences

CONSTANTS
  WindowIds,   (* the ids KWin gives to windows                              *)
  NoId         (* the empty string                                           *)

ASSUME NoIdAssumption == NoId \notin WindowIds

Optional(S) == {o \in SUBSET S : \A x, y \in o : x = y}
ValueOr(optional, default) == IF optional = {} THEN default ELSE CHOOSE x \in optional : TRUE

(* WindowState, WindowSnapshot.  Id NoId stands for any entry of a list of *)
(* windows that windowStateFromJson does not accept.                       *)
Windows == [id : WindowIds \cup {NoId}, isActive : BOOLEAN, skipTaskbar : BOOLEAN]
Snapshots == [activeWindowId : WindowIds \cup {NoId}, windows : Seq(Windows)]

(* A snapshot as JSON.  Lists written by the KWin script have no           *)
(* activeWindow, which nothing reads back.                                 *)
JsonSnapshots ==
  [activeWindowId : Optional(WindowIds), activeWindow : Optional(Windows),
   windows : Seq(Windows)]

Indexes(s) == DOMAIN s.windows
First(S) == CHOOSE i \in S : \A j \in S : i <= j

-----------------------------------------------------------------------------
(* common/window_state.cpp *)

(* activeWindow: the first window of the id the snapshot names, else the   *)
(* first one flagged as active.                                            *)
Named(s) == {i \in Indexes(s) : s.activeWindowId # NoId /\ s.windows[i].id = s.activeWindowId}
Flagged(s) == {i \in Indexes(s) : s.windows[i].isActive}
ActiveIndexes(s) == IF Named(s) # {} THEN Named(s) ELSE Flagged(s)

ActiveWindow(s) ==
  IF ActiveIndexes(s) = {} THEN {} ELSE {s.windows[First(ActiveIndexes(s))]}

(* normalizeWindowSnapshot: the active window's id is named, and exactly   *)
(* the windows of that id are flagged.                                     *)
ActiveIds(s) == {w.id : w \in ActiveWindow(s)}

NormalizeIdOnly(s) == [s EXCEPT !.activeWindowId = ValueOr(ActiveIds(s), NoId)]

Normalize(s) ==
  [activeWindowId |-> ValueOr(ActiveIds(s), NoId),
   windows |-> [i \in Indexes(s) |->
                  [s.windows[i] EXCEPT !.isActive = s.windows[i].id \in ActiveIds(s)]]]

(* toJsonObject *)
ToJsonAsIs(s) ==
  [activeWindowId |-> {s.activeWindowId} \ {NoId},
   activeWindow |-> ActiveWindow(s),
   windows |-> s.windows]

ToJson(s) == ToJsonAsIs(Normalize(s))

(* windowSnapshotFromJson: one window that cannot be read, and the whole   *)
(* list is refused.                                                        *)
FromJson(json) ==
  IF \E i \in Indexes(json) : json.windows[i].id = NoId
    THEN {}
    ELSE {Normalize([activeWindowId |-> ValueOr(json.activeWindowId, NoId),
                     windows |-> json.windows])}

-----------------------------------------------------------------------------
(* The KWin script and the helper *)

(* currentSnapshot of the script: the windows KWin tracks, those of the    *)
(* active window's id flagged; the active window need not be tracked.      *)
CurrentSnapshot(tracked, activeId) ==
  [activeWindowId |-> {activeId} \ {NoId},
   activeWindow |-> {},
   windows |-> [i \in DOMAIN tracked |->
                  [id |-> tracked[i].id, isActive |-> tracked[i].id = activeId,
                   skipTaskbar |-> tracked[i].skipTaskbar]]]

(* applyBackfill: what KWin says of a window a moment later, if it answers *)
(* and has the property, replaces the flag the script sent.                *)
WindowInfos == [active : Optional(BOOLEAN), skipTaskbar : Optional(BOOLEAN)]

ApplyBackfill(window, info) ==
  [window EXCEPT !.isActive = ValueOr(info.active, @),
                 !.skipTaskbar = ValueOr(info.skipTaskbar, @)]

(* PushSnapshot, of a list that could be parsed: info[i] is what KWin says *)
(* of the window at index i.                                               *)
Enrich(s, info) ==
  Normalize([s EXCEPT !.windows = [i \in Indexes(s) |-> ApplyBackfill(s.windows[i], info[i])]])

-----------------------------------------------------------------------------
(* The dashboard *)

(* windowsForTaskbar: of the windows with the same id that are not to be   *)
(* skipped the last is listed, unless it is the active window's id, which  *)
(* is listed as activeWindow has it.                                       *)
Listed(json) ==
  {json.windows[i] : i \in
     {i \in Indexes(json) :
        /\ ~json.windows[i].skipTaskbar
        /\ \A j \in Indexes(json) :
             j > i /\ json.windows[j].id = json.windows[i].id => json.windows[j].skipTaskbar}}

ListedActive(json) == {w \in json.activeWindow : ~w.skipTaskbar}

WindowsForTaskbar(json) ==
  {w \in Listed(json) : \A a \in ListedActive(json) : a.id # w.id} \cup ListedActive(json)

(* WindowTaskbar renders the item as the active one, which cannot be       *)
(* clicked.                                                                *)
IsActiveItem(json, window) == {window.id} = json.activeWindowId \/ window.isActive

(* The taskbar has one entry per window and at most one of them is active: *)
(* one is, unless no window is active or the active one is to be skipped.  *)
OneActiveItem(json) ==
  LET items == WindowsForTaskbar(json)
      active == {w \in items : IsActiveItem(json, w)}
  IN  /\ \A v, w \in items : v.id = w.id => v = w
      /\ \A v, w \in active : v = w
      /\ ListedActive(json) # {} => active = ListedActive(json)
=============================================================================
