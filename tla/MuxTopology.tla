------------------------------ MODULE MuxTopology ------------------------------
(***************************************************************************)
(* NativeMuxState (crates/bootty-mux/src/native/state.rs): the sessions,   *)
(* tabs and panes of one workspace scope, and what every MuxCommand does   *)
(* to them.                                                                *)
(*                                                                         *)
(* The server applies a command to a copy (Workspace::prepare_topology),   *)
(* so a command that fails changes nothing and an action's guard is what   *)
(* its command needs to succeed and have an effect.  An omitted pane or    *)
(* tab means the active one, which the actions' explicit arguments cover.  *)
(* Names and directories are left out, except a session's name, by which   *)
(* activate_pane also finds it.  Layout trees are left out too: execute    *)
(* refuses a command whose layout does not hold exactly the tab's panes,   *)
(* so a layout only decides which pane is a neighbour, here any other one. *)
(*                                                                         *)
(* Operators named Bug_... are deliberately wrong variants of the          *)
(* definition that follows them; nothing in the specification uses them.   *)
(***************************************************************************)
EXTENDS Integers, SequencesExt

CONSTANTS
  SessionIds,   \* session ids, also the names a session may take
  NoSession,    \* the empty active_session_id
  Tags, NoTag,  \* MuxSessionTags, and the empty one
  Saved,        \* checkpoints: how many panes their first windows have, up to each
  Groups,       \* the groups of commands clients send
  Deltas,       \* the distances tabs are moved by
  MaxPane,      \* bound: pane identities minted
  MaxTab        \* bound: window identities minted in one session

ASSUME TopologyAssumption ==
  /\ NoSession \notin SessionIds /\ NoTag \notin Tags
  /\ MaxPane \in Nat /\ MaxTab \in Nat /\ Deltas \subseteq Int
  /\ \A shape \in Saved : /\ shape \in Seq(Nat \ {0}) /\ shape # << >>
                          /\ \A j, k \in DOMAIN shape : j < k => shape[j] < shape[k]

VARIABLES sessions, activeSession, nextPane

stateVars == <<sessions, activeSession, nextPane>>

--------------------------------------------------------------------------------
(* Looking things up *)

Live(s) == \E k \in DOMAIN sessions : sessions[k].id = s

Pos(s) == CHOOSE k \in DOMAIN sessions : sessions[k].id = s

Session(s) == sessions[Pos(s)]

\* The sessions with s replaced by r.
With(s, r) == [sessions EXCEPT ![Pos(s)] = r]

Tabs(r) == {r.windows[k].id : k \in DOMAIN r.windows}

Panes(r) == UNION {ToSet(r.windows[k].panes) : k \in DOMAIN r.windows}

LiveTabs(s) == IF Live(s) THEN Tabs(Session(s)) ELSE {}

LivePanes(s) == IF Live(s) THEN Panes(Session(s)) ELSE {}

TabPos(r, w) == CHOOSE k \in DOMAIN r.windows : r.windows[k].id = w

\* pane_location: the position of a pane's tab, and its position there.
Home(r, p) == CHOOSE k \in DOMAIN r.windows : p \in ToSet(r.windows[k].panes)

PanePos(w, p) == CHOOSE k \in DOMAIN w.panes : w.panes[k] = p

--------------------------------------------------------------------------------
(* Arithmetic on positions, which count from 1 *)

WrapIndex(i, delta, n) == 1 + ((i - 1 + delta) % n)

ClampMoveIndex(i, delta, n) ==
  LET moved == IF i + delta < 1 THEN 1 ELSE i + delta
  IN  IF moved > n THEN n ELSE moved

\* The element that takes over from position i of a sequence that lost it.
Successor(seq, i) == seq[IF i > Len(seq) THEN Len(seq) ELSE i]

Bug_Renumbered(ws) == ws

\* renumber_windows.
Renumbered(ws) == [k \in DOMAIN ws |-> [ws[k] EXCEPT !.index = k]]

--------------------------------------------------------------------------------
(* Building blocks *)

Tab(w, k, p) == [id |-> w, index |-> k, active |-> p, panes |-> <<p>>]

NewSession(s, tag, ws, active) ==
  [id |-> s, name |-> s, tag |-> tag, next |-> Len(ws) + 1, active |-> active, windows |-> ws]

\* next_pane_id.
Mint(n) ==
  /\ nextPane + n <= MaxPane + 1
  /\ nextPane' = nextPane + n

\* next_window_id, of a session: within the bound, the identity it hands out.
CanMintTab(r) == r.next <= MaxTab

Bug_NextTab(r) == Len(r.windows) + 1

NextTab(r) == r.next

Update(s, r) ==
  /\ sessions' = With(s, r)
  /\ activeSession' = s

\* activate_window, on the session alone.
Selecting(r, w) == IF w \in Tabs(r) THEN [r EXCEPT !.active = w] ELSE r

WithTab(r, k, w) == [r EXCEPT !.windows[k] = w]

--------------------------------------------------------------------------------
(* Sessions *)

\* ensure_session; an explicit create (argv set) refuses a taken name.
CreateProjectSession(s, tag, explicit) ==
  /\ explicit => \A k \in DOMAIN sessions : sessions[k].id # s /\ sessions[k].name # s
  /\ IF Live(s)
     THEN /\ sessions' = With(s, [Session(s) EXCEPT !.tag = IF tag = NoTag THEN @ ELSE tag])
          /\ UNCHANGED nextPane
     ELSE /\ Mint(1)
          /\ sessions' = Append(sessions, NewSession(s, tag, <<Tab(1, 1, nextPane)>>, 1))
  /\ activeSession' = s

Bug_Before(shape, k) == k - 1

\* How many panes the windows before position k of a checkpoint have.
Before(shape, k) == IF k = 1 THEN 0 ELSE shape[k - 1]

\* How many its k-th window has.
Count(shape, k) == shape[k] - Before(shape, k)

Bug_RestoreSession(s, tag, shape, focus, active) ==
  /\ tag # NoTag
  /\ \A k \in DOMAIN sessions :
       sessions[k].id # s /\ sessions[k].name # s /\ sessions[k].tag # tag
  /\ Mint(Before(shape, Len(shape) + 1))
  /\ LET Restored(k) == LET from == nextPane + Before(shape, k)
                        IN  [id |-> k, index |-> k, active |-> nextPane + focus[k] - 1,
                             panes |-> [j \in 1 .. Count(shape, k) |-> from + j - 1]]
     IN  sessions' = Append(sessions, NewSession(s, tag, [k \in DOMAIN shape |-> Restored(k)],
                                                 active))
  /\ activeSession' = s

\* restore_session: a checkpoint whose k-th window has Count(shape, k) panes, of
\* which the focus[k]-th is focused, and its active window.  Identities are minted
\* pane by pane through all windows, so a window's are those after Before(shape, k).
RestoreSession(s, tag, shape, focus, active) ==
  /\ tag # NoTag
  /\ \A k \in DOMAIN sessions :
       sessions[k].id # s /\ sessions[k].name # s /\ sessions[k].tag # tag
  /\ Mint(Before(shape, Len(shape) + 1))
  /\ LET Restored(k) == LET from == nextPane + Before(shape, k)
                        IN  [id |-> k, index |-> k, active |-> from + focus[k] - 1,
                             panes |-> [j \in 1 .. Count(shape, k) |-> from + j - 1]]
     IN  sessions' = Append(sessions, NewSession(s, tag, [k \in DOMAIN shape |-> Restored(k)],
                                                 active))
  /\ activeSession' = s

RenameSession(s, name) ==
  /\ Live(s)
  /\ sessions' = With(s, [Session(s) EXCEPT !.name = name])
  /\ UNCHANGED <<activeSession, nextPane>>

StampSession(s, tag) ==
  /\ Live(s)
  /\ sessions' = With(s, [Session(s) EXCEPT !.tag = tag])
  /\ UNCHANGED <<activeSession, nextPane>>

\* The sessions that kill_session retains; no two have one id (SessionsApart).
Others(s) == IF Live(s) THEN RemoveAt(sessions, Pos(s)) ELSE sessions

\* kill_session.
KillSession(s) ==
  /\ sessions' = Others(s)
  /\ activeSession' = IF activeSession # s THEN activeSession
                      ELSE IF Others(s) = << >> THEN NoSession ELSE Others(s)[1].id

DitchSession(s) ==
  /\ KillSession(s)
  /\ UNCHANGED nextPane

--------------------------------------------------------------------------------
(* Tabs *)

\* new_window: the identity is minted before the session is looked up.
NewWindow(s) ==
  /\ Live(s) => CanMintTab(Session(s))
  /\ Mint(1)
  /\ IF Live(s)
     THEN LET r == Session(s)
          IN  Update(s, [r EXCEPT !.windows = Append(@, Tab(NextTab(r), Len(@) + 1, nextPane)),
                                  !.active = NextTab(r), !.next = @ + 1])
     ELSE UNCHANGED <<sessions, activeSession>>

ActivateWindow(s, w) ==
  /\ w \in LiveTabs(s)
  /\ Update(s, Selecting(Session(s), w))
  /\ UNCHANGED nextPane

\* activate_relative_window; the "last" window is the previous one.
ActivateRelativeWindow(s, delta) ==
  /\ Live(s)
  /\ LET r == Session(s)
     IN  /\ r.active \in Tabs(r)
         /\ Update(s, [r EXCEPT !.active =
                         r.windows[WrapIndex(TabPos(r, @), delta, Len(r.windows))].id])
  /\ UNCHANGED nextPane

ActivateWindowIndex(s, i) ==
  /\ Live(s)
  /\ \E k \in DOMAIN Session(s).windows :
       /\ Session(s).windows[k].index = i
       /\ \A j \in 1 .. k - 1 : Session(s).windows[j].index # i
       /\ Update(s, [Session(s) EXCEPT !.active = Session(s).windows[k].id])
  /\ UNCHANGED nextPane

\* move_window's effect on the session.
Moved(r, w, delta) ==
  LET k == TabPos(r, w)
  IN  [r EXCEPT !.windows = Renumbered(InsertAt(RemoveAt(@, k),
                                                ClampMoveIndex(k, delta, Len(@)), @[k])),
                !.active = w]

\* move_window leaves the active session alone ...
MoveWindow(s, w, delta) ==
  /\ w \in LiveTabs(s)
  /\ sessions' = With(s, Moved(Session(s), w, delta))
  /\ UNCHANGED <<activeSession, nextPane>>

\* ... which the activate_window of its selection preserving form sets.
MoveWindowPreservingSelection(s, w, delta, selected) ==
  /\ w \in LiveTabs(s) \/ selected \in LiveTabs(s)
  /\ LET r == Session(s)
         moved == IF w \in Tabs(r) THEN Moved(r, w, delta) ELSE r
     IN  /\ sessions' = With(s, Selecting(moved, selected))
         /\ activeSession' = IF selected \in Tabs(r) THEN s ELSE activeSession
  /\ UNCHANGED nextPane

Bug_MergeWindows(s, a, b) ==
  /\ a \in LiveTabs(s) /\ b \in LiveTabs(s) /\ a # b
  /\ LET r == Session(s)
     IN  Update(s, [r EXCEPT !.windows = Renumbered(RemoveAt(@, TabPos(r, a))), !.active = b])
  /\ UNCHANGED nextPane

\* merge_windows: the source tab's panes go to the end of the target tab.
MergeWindows(s, a, b) ==
  /\ a \in LiveTabs(s) /\ b \in LiveTabs(s) /\ a # b
  /\ LET r == Session(s)
         from == r.windows[TabPos(r, a)]
         merged == [r.windows[TabPos(r, b)] EXCEPT !.panes = @ \o from.panes,
                                                   !.active = from.active]
     IN  Update(s, [r EXCEPT !.windows = Renumbered(RemoveAt([@ EXCEPT ![TabPos(r, b)] = merged],
                                                             TabPos(r, a))),
                             !.active = b])
  /\ UNCHANGED nextPane

--------------------------------------------------------------------------------
(* Panes *)

\* split_pane of p, for SplitPane and CreatePane: the new pane goes last.
SplitPane(s, p) ==
  /\ p \in LivePanes(s)
  /\ Mint(1)
  /\ LET r == Session(s)
         k == Home(r, p)
     IN  Update(s, [WithTab(r, k, [r.windows[k] EXCEPT !.panes = Append(@, nextPane),
                                                       !.active = nextPane])
                      EXCEPT !.active = r.windows[k].id])

\* activate_pane looks the session up by id or by name, and takes the first.
ActivatePane(s, w, p) ==
  /\ \E k \in DOMAIN sessions :
       /\ s \in {sessions[k].id, sessions[k].name}
       /\ \A j \in 1 .. k - 1 : s \notin {sessions[j].id, sessions[j].name}
       /\ LET r == sessions[k]
          IN  /\ w \in Tabs(r) /\ p \in ToSet(r.windows[TabPos(r, w)].panes)
              /\ Update(r.id, [WithTab(r, TabPos(r, w), [r.windows[TabPos(r, w)] EXCEPT !.active = p])
                                 EXCEPT !.active = w])
  /\ UNCHANGED nextPane

\* select_directional_pane: p is the neighbour, or, when there is none, the pane
\* that is active already; select_relative_pane: p is the one delta away.
SelectPane(s, w, p) ==
  /\ w \in LiveTabs(s)
  /\ LET r == Session(s)
         k == TabPos(r, w)
     IN  /\ p \in ToSet(r.windows[k].panes)
         /\ Update(s, [WithTab(r, k, [r.windows[k] EXCEPT !.active = p]) EXCEPT !.active = w])
  /\ UNCHANGED nextPane

SelectRelativePane(s, w, delta) ==
  /\ w \in LiveTabs(s)
  /\ LET tab == Session(s).windows[TabPos(Session(s), w)]
     IN  /\ tab.active \in ToSet(tab.panes)
         /\ SelectPane(s, w, tab.panes[WrapIndex(PanePos(tab, tab.active), delta, Len(tab.panes))])

Bug_Swapped(r, p, q) ==
  LET b == Home(r, q)
  IN  WithTab(r, b, [r.windows[b] EXCEPT !.panes[PanePos(r.windows[b], q)] = p, !.active = p])

\* swap_panes in one tab, and between two.
Swapped(r, p, q) ==
  LET a == Home(r, p)
      b == Home(r, q)
      i == PanePos(r.windows[a], p)
      j == PanePos(r.windows[b], q)
  IN  IF a = b
      THEN WithTab(r, a, [r.windows[a] EXCEPT
                            !.panes = [k \in DOMAIN @ |-> IF k = i THEN q ELSE IF k = j THEN p ELSE @[k]],
                            !.active = p])
      ELSE WithTab(WithTab(r, a, [r.windows[a] EXCEPT !.panes[i] = q,
                                                      !.active = IF @ = p THEN q ELSE @]),
                   b, [r.windows[b] EXCEPT !.panes[j] = p, !.active = p])

SwapPanes(s, p, q) ==
  /\ p \in LivePanes(s) /\ q \in LivePanes(s) /\ p # q
  /\ LET r == Session(s)
     IN  Update(s, [Swapped(r, p, q) EXCEPT !.active = r.windows[Home(r, q)].id])
  /\ UNCHANGED nextPane

\* A tab without its pane p; its first pane takes over when p was active.
Without(w, p) ==
  LET rest == RemoveAt(w.panes, PanePos(w, p))
  IN  [w EXCEPT !.panes = rest,
                !.active = IF @ = p /\ rest # << >> THEN rest[1] ELSE @]

\* The tabs that move_pane retains: only the one that p left, the k-th, may be empty.
Retained(ws, k) == IF ws[k].panes = << >> THEN RemoveAt(ws, k) ELSE ws

\* move_pane: take p out, drop an emptied tab, put p beside q.
MovePane(s, p, q, after) ==
  /\ p \in LivePanes(s) /\ q \in LivePanes(s) /\ p # q
  /\ LET r == Session(s)
         target == r.windows[Home(r, q)].id
         out == Retained([r.windows EXCEPT ![Home(r, p)] = Without(@, p)], Home(r, p))
         k == CHOOSE j \in DOMAIN out : out[j].id = target
         beside == PanePos(out[k], q) + (IF after THEN 1 ELSE 0)
         joined == [out[k] EXCEPT !.panes = InsertAt(@, beside, p), !.active = p]
     IN  Update(s, [r EXCEPT !.windows = Renumbered([out EXCEPT ![k] = joined]), !.active = target])
  /\ UNCHANGED nextPane

\* extract_pane: p gets a tab of its own after the one it leaves.
ExtractPane(s, p) ==
  /\ p \in LivePanes(s)
  /\ LET r == Session(s)
         k == Home(r, p)
         left == [r.windows EXCEPT ![k] = Without(@, p)]
     IN  /\ Len(r.windows[k].panes) >= 2
         /\ CanMintTab(r)
         /\ Update(s, [r EXCEPT !.windows = Renumbered(InsertAt(left, k + 1, Tab(NextTab(r), 0, p))),
                                !.active = NextTab(r), !.next = @ + 1])
  /\ UNCHANGED nextPane

Bug_Closed(r, p) ==
  LET k == Home(r, p)
      w == r.windows[k]
      rest == RemoveAt(w.panes, PanePos(w, p))
      ws == Renumbered(RemoveAt(r.windows, k))
  IN  IF rest # << >>
      THEN WithTab(r, k, [w EXCEPT !.panes = rest, !.active = Successor(rest, PanePos(w, p))])
      ELSE [r EXCEPT !.windows = ws, !.active = IF ws = << >> THEN @ ELSE Successor(ws, k).id]

\* The session that close_pane leaves, perhaps without any window.
Closed(r, p) ==
  LET k == Home(r, p)
      w == r.windows[k]
      rest == RemoveAt(w.panes, PanePos(w, p))
      ws == Renumbered(RemoveAt(r.windows, k))
  IN  IF rest # << >>
      THEN WithTab(r, k, [w EXCEPT !.panes = rest,
                                   !.active = IF @ = p THEN Successor(rest, PanePos(w, p)) ELSE @])
      ELSE [r EXCEPT !.windows = ws,
                     !.active = IF @ # w.id \/ ws = << >> THEN @ ELSE Successor(ws, k).id]

\* close_pane: KillPane keeps a tab's last pane, ClosePane closes the tab with
\* it and the session with its last tab.
ClosePane(s, p, closeWindow) ==
  /\ p \in LivePanes(s)
  /\ LET r == Session(s)
         closed == Closed(r, p)
         tab == r.windows[Home(r, p)]
     IN  /\ closeWindow \/ Len(tab.panes) > 1
         /\ IF closed.windows = << >>
            THEN KillSession(s)
            ELSE /\ sessions' = With(s, closed)
                 /\ activeSession' = IF tab.id = r.active THEN s ELSE activeSession
  /\ UNCHANGED nextPane

--------------------------------------------------------------------------------
\* NativeMuxState::new.
StateInit == sessions = << >> /\ activeSession = NoSession /\ nextPane = 1

\* execute_topology and execute_pane_command.
SessionCommand(s) ==
  \E tag \in Tags \cup {NoTag}, explicit \in BOOLEAN : CreateProjectSession(s, tag, explicit)

SavedCommand(s) ==
  \/ \E tag \in Tags, shape \in Saved :
       \E focus \in [DOMAIN shape -> 1 .. MaxPane], active \in DOMAIN shape :
         /\ \A k \in DOMAIN shape : focus[k] <= Count(shape, k)
         /\ RestoreSession(s, tag, shape, focus, active)
  \/ \E name \in SessionIds : RenameSession(s, name)
  \/ \E tag \in Tags : StampSession(s, tag)

TabCommand(s) ==
  \/ NewWindow(s)
  \/ \E w \in 1 .. MaxTab : ActivateWindow(s, w)
  \/ \E delta \in {-1, 1} : ActivateRelativeWindow(s, delta)
  \/ \E i \in 1 .. MaxTab : ActivateWindowIndex(s, i)
  \/ \E w \in 1 .. MaxTab, delta \in Deltas : MoveWindow(s, w, delta)
  \/ \E w, selected \in 1 .. MaxTab, delta \in Deltas :
       MoveWindowPreservingSelection(s, w, delta, selected)

PaneCommand(s) ==
  \/ \E p \in 1 .. MaxPane : SplitPane(s, p)
  \/ \E w \in 1 .. MaxTab, p \in 1 .. MaxPane : ActivatePane(s, w, p)
  \/ \E w \in 1 .. MaxTab, p \in 1 .. MaxPane : SelectPane(s, w, p)
  \/ \E w \in 1 .. MaxTab, delta \in {-1, 1} : SelectRelativePane(s, w, delta)
  \/ \E p \in 1 .. MaxPane, closeWindow \in BOOLEAN : ClosePane(s, p, closeWindow)

ArrangeCommand(s) ==
  \/ \E a, b \in 1 .. MaxTab : MergeWindows(s, a, b)
  \/ \E p, q \in 1 .. MaxPane : SwapPanes(s, p, q)
  \/ \E p, q \in 1 .. MaxPane, after \in BOOLEAN : MovePane(s, p, q, after)
  \/ \E p \in 1 .. MaxPane : ExtractPane(s, p)

StateNext ==
  \E s \in SessionIds :
    \/ SessionCommand(s)
    \/ "ditch" \in Groups /\ DitchSession(s)
    \/ "saved" \in Groups /\ SavedCommand(s)
    \/ "tab" \in Groups /\ TabCommand(s)
    \/ "pane" \in Groups /\ PaneCommand(s)
    \/ "arrange" \in Groups /\ ArrangeCommand(s)

StateSpec == StateInit /\ [][StateNext]_stateVars

--------------------------------------------------------------------------------
(* Properties *)

AllPanes == UNION {Panes(sessions[k]) : k \in DOMAIN sessions}

TabType == [id : Nat \ {0}, index : Nat, active : Nat \ {0}, panes : Seq(Nat \ {0})]

SessionType == [id : SessionIds, name : SessionIds, tag : Tags \cup {NoTag},
                next : Nat \ {0}, active : Nat \ {0}, windows : Seq(TabType)]

\* Types of NativeMuxState; no session without tabs, no tab without panes is
\* ever left behind.
StateTypeOK ==
  /\ sessions \in Seq(SessionType)
  /\ \A k \in DOMAIN sessions :
       /\ sessions[k].windows # << >>
       /\ \A j \in DOMAIN sessions[k].windows : sessions[k].windows[j].panes # << >>
  /\ activeSession \in SessionIds \cup {NoSession}
  /\ nextPane \in 1 .. MaxPane + 1

\* Whatever commands ran, the selection is live all the way down: a session is
\* selected when there is one, its active tab is one of its tabs and each tab's
\* active pane one of its panes (target_pane_location fails otherwise).
SelectionLive ==
  /\ IF sessions = << >> THEN activeSession = NoSession ELSE Live(activeSession)
  /\ \A k \in DOMAIN sessions :
       /\ sessions[k].active \in Tabs(sessions[k])
       /\ \A j \in DOMAIN sessions[k].windows :
            sessions[k].windows[j].active \in ToSet(sessions[k].windows[j].panes)

\* A session is found by its id: no two have one.
SessionsApart == \A i, j \in DOMAIN sessions : sessions[i].id = sessions[j].id => i = j

\* Merging, swapping, moving and extracting leave every pane in one place (of a
\* tab, of a session and of the workspace), and every live identity below the
\* counter that mints the next.
PanesUnique ==
  /\ \A k \in DOMAIN sessions :
       LET ws == sessions[k].windows
       IN  /\ \A j \in DOMAIN ws : IsInjective(ws[j].panes)
           /\ \A i, j \in DOMAIN ws : i # j => ToSet(ws[i].panes) \cap ToSet(ws[j].panes) = {}
  /\ \A k, l \in DOMAIN sessions : k # l => Panes(sessions[k]) \cap Panes(sessions[l]) = {}
  /\ \A p \in AllPanes : p < nextPane

\* Tabs are numbered by position, which ActivateWindowIndex relies on, under
\* identities that next_window_id will not hand out again.
TabsNumbered ==
  \A k \in DOMAIN sessions :
    LET ws == sessions[k].windows
    IN  \A i, j \in DOMAIN ws : /\ ws[i].index = i
                                /\ ws[i].id < sessions[k].next
                                /\ ws[i].id = ws[j].id => i = j

\* What every command may rely on: types, sessions and panes in one place,
\* numbered tabs.
WellFormed == StateTypeOK /\ SessionsApart /\ PanesUnique /\ TabsNumbered

\* The pane a session's input goes to.
Focus(r) == r.windows[TabPos(r, r.active)].active

\* Closing a pane, or its tab with it, never takes the focus of its session away
\* from a pane that stays (close_pane's target_was_active, removed_active_pane).
CloseKeepsFocus ==
  [][\A k \in DOMAIN sessions, j \in DOMAIN sessions' :
       LET r == sessions[k]
           t == sessions'[j]
       IN  r.id = t.id /\ ~(Panes(r) \subseteq Panes(t)) /\ Focus(r) \in Panes(t)
             => Focus(t) = Focus(r)]_stateVars

\* A tab identity that appears in a session is one that the session never had
\* ("Never reuse a closed tab's identity", next_window_id).  Merging, swapping,
\* moving and extracting lose no pane of the session, even when a tab is emptied
\* on the way and dropped, and gain none.
IdentitiesKept ==
  /\ [][\A k \in DOMAIN sessions, j \in DOMAIN sessions' :
          sessions[k].id = sessions'[j].id =>
            \A w \in Tabs(sessions'[j]) \ Tabs(sessions[k]) : w >= sessions[k].next]_stateVars
  /\ [][\A s \in SessionIds : LivePanes(s)' # LivePanes(s) => ~ArrangeCommand(s)]_stateVars

\* The commands by which TopologyStore explains a change of the pane set.
StoreCommands ==
  {[op |-> "create", n |-> k, ids |-> {}] : k \in 1 .. MaxPane}
    \cup {[op |-> "close", n |-> 0, ids |-> {p}] : p \in 1 .. MaxPane}
    \cup {[op |-> "ditch", n |-> 0, ids |-> ps] : ps \in SUBSET (1 .. MaxPane)}
    \cup {[op |-> "miss", n |-> 1, ids |-> {}]}

PaneStore == INSTANCE TopologyStore
               WITH Commands <- StoreCommands, Layouts <- {NoTag}, Started <- 0,
                    ids <- AllPanes, minted <- nextPane, layout <- NoTag

\* Every command of NativeMuxState changes the pane set and the identity counter
\* in one of the ways the transaction protocol (MuxServer) assumes of commands:
\* it adds the panes it mints or removes some, never both.
ImplementsPaneStore == PaneStore!Spec
================================================================================
