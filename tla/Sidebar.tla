------------------------------ MODULE Sidebar ------------------------------
(***************************************************************************)
(* The list of one persistent sidebar: what is selected, what is drawn,    *)
(* what a key or a click activates, and the selection it shares with the   *)
(* other sidebars of its tmux server (src/ui.rs: AgentListState,           *)
(* RenderedSessionShortcuts, run_loop; broadcast_ui_selection in           *)
(* src/tmux.rs).                                                           *)
(*                                                                         *)
(* Abstractions: a search is the set of agents its query matches; where    *)
(* snapshots come from is Watching's subject, here any list may arrive;    *)
(* an activation is Focus's subject, here it is done or fails; the other   *)
(* sidebars only broadcast; tmux carries out what a broadcast asks for.    *)
(* The confirmation of q, messages and animation are left out.             *)
(***************************************************************************)
EXTENDS NoValue, Integers, Sequences, SequencesExt, FiniteSets

CONSTANTS
    Agent,
    Child,      \* those that are subagents: they have no key
    Lists,      \* the lists a snapshot may hold
    Queries,    \* the sets of agents that a query may match
    Keys,       \* sessions that get a numeric key: ten in the code
    MaxTask,    \* bound: broadcasts at a time
    MaxWake     \* bound: F17 keys waiting in the terminal

ASSUME SidebarAssumption ==
    /\ Child \subseteq Agent
    /\ Lists \subseteq Seq(Agent)
    /\ Lists # {}
    /\ Queries \subseteq SUBSET Agent
    /\ Keys \in Nat /\ MaxTask \in Nat /\ MaxWake \in Nat
    /\ None \notin Agent

(* A broadcast: the option is set, then the sidebars are woken.            *)
Task == [agent : Agent, step : {"set", "wake"}]

VARIABLES
    list,       \* snapshot.agents
    searching, query, selected_id, selected_position, \* AgentListState
    visible, dirty, hidden_once, \* UiSchedule, after the first frame
    screen,     \* what was drawn last: rows, the highlighted one, keys
    rendered_shortcuts,
    pending_shared_selection,
    option,     \* the tmux option @tmux_agent_selection
    tasks,      \* broadcasts on their way, in no order
    wakes,      \* F17 keys in the terminal's input
    pressed,    \* history: the last shortcut pressed and what it activated
    moved       \* history: what is selected was chosen here, or by the list

selection == <<searching, query, selected_id, selected_position>>
schedule == <<visible, dirty, hidden_once>>
drawn == <<screen, rendered_shortcuts>>
others == <<option, tasks, wakes>>
sidebarVars == <<list, selection, schedule, drawn, pending_shared_selection, others,
          pressed, moved>>

-----------------------------------------------------------------------------
(* The agents of a list that match, in its order: SelectSeq, written out   *)
(* because the prover cannot look into that.                               *)
visible_indices(agents, matching) ==
    LET rows[n \in 0..Len(agents)] ==
            IF n = 0 THEN <<>>
            ELSE IF agents[n] \in matching THEN Append(rows[n - 1], agents[n])
            ELSE rows[n - 1]
    IN  rows[Len(agents)]

Smaller(m, n) == IF m < n THEN m ELSE n

(* reconcile_selection: an agent that has gone leaves its place to the one *)
(* that is there now; an empty list leaves everything.                     *)
reconcile_selection(agents, matching, id, position) ==
    LET rows == visible_indices(agents, matching)
        place == Smaller(position, Len(rows))
    IN  IF rows = <<>> THEN [id |-> id, position |-> position]
        ELSE IF Contains(rows, id)
             THEN [id |-> id,
                   position |-> CHOOSE i \in DOMAIN rows : rows[i] = id]
             ELSE [id |-> rows[place], position |-> place]

Select(choice) ==
    /\ selected_id' = choice.id
    /\ selected_position' = choice.position

Reconcile(agents, matching) ==
    Select(reconcile_selection(agents, matching, selected_id, selected_position))

(* A bug to look for: subagents get keys too.                              *)
from_list_with_children(agents, matching, search) ==
    IF search THEN <<>>
    ELSE LET rows == visible_indices(agents, matching)
         IN  SubSeq(rows, 1, Smaller(Keys, Len(rows)))

(* RenderedSessionShortcuts::from_list.                                    *)
from_list(agents, matching, search) ==
    IF search THEN <<>>
    ELSE LET sessions == visible_indices(agents, matching \ Child)
         IN  SubSeq(sessions, 1, Smaller(Keys, Len(sessions)))

Picture(agents, matching, search, id) ==
    [rows |-> visible_indices(agents, matching),
     highlight |-> id,
     keys |-> from_list(agents, matching, search)]

should_render == dirty /\ (visible \/ hidden_once)

Arrived == /\ pending_shared_selection # None
           /\ Contains(list, pending_shared_selection)

(* The loop waits in its select.                                           *)
Waiting == ~Arrived /\ ~should_render

SidebarInit ==
    /\ list \in Lists
    /\ searching = FALSE
    /\ query = Agent
    /\ LET first == reconcile_selection(list, Agent, None, 1)
       IN  /\ selected_id = first.id
           /\ selected_position = first.position
           /\ screen = Picture(list, Agent, FALSE, first.id)
    /\ visible \in BOOLEAN
    /\ dirty = FALSE
    /\ hidden_once = FALSE
    /\ rendered_shortcuts = from_list(list, Agent, FALSE)
    /\ pending_shared_selection = None
    /\ option = None
    /\ tasks = {}
    /\ wakes = 0
    /\ pressed = [slot |-> None, activated |-> None]
    /\ moved = TRUE

view_changed == dirty' = TRUE /\ UNCHANGED <<visible, hidden_once>>

(* What is selected changes for a reason other than a broadcast.           *)
Move == moved' = (moved \/ selected_id' # selected_id)

-----------------------------------------------------------------------------
(* A bug to look for: a selection that cannot be shown yet is forgotten.   *)
sync_and_forget ==
    /\ Waiting /\ wakes > 0
    /\ wakes' = wakes - 1
    /\ pending_shared_selection' =
          IF option = None THEN pending_shared_selection
          ELSE IF Contains(list, option) THEN option ELSE None
    /\ UNCHANGED <<list, selection, schedule, drawn, option, tasks, pressed, moved>>

(* F17: what the option holds now is to be selected.                       *)
SyncSharedSelection ==
    /\ Waiting /\ wakes > 0
    /\ wakes' = wakes - 1
    /\ pending_shared_selection' =
          IF option = None THEN pending_shared_selection ELSE option
    /\ UNCHANGED <<list, selection, schedule, drawn, option, tasks, pressed, moved>>

(* A bug to look for: the new selection waits for the next probe.          *)
apply_without_drawing ==
    /\ Arrived
    /\ searching' = FALSE
    /\ query' = Agent
    /\ Select(reconcile_selection(list, Agent, pending_shared_selection, 1))
    /\ pending_shared_selection' = None
    /\ moved' = FALSE
    /\ UNCHANGED <<list, schedule, drawn, others, pressed>>

(* apply_pending_shared_selection, before anything is drawn or read.       *)
apply_pending_shared_selection ==
    /\ Arrived
    /\ searching' = FALSE
    /\ query' = Agent
    /\ Select(reconcile_selection(list, Agent, pending_shared_selection, 1))
    /\ pending_shared_selection' = None
    /\ IF selection' # selection
       THEN dirty' = TRUE /\ hidden_once' = TRUE /\ UNCHANGED visible
       ELSE UNCHANGED schedule
    /\ moved' = FALSE
    /\ UNCHANGED <<list, drawn, others, pressed>>

Draw ==
    /\ ~Arrived /\ should_render
    /\ Reconcile(list, query)
    /\ screen' = Picture(list, query, searching, selected_id')
    /\ rendered_shortcuts' = from_list(list, query, searching)
    /\ dirty' = FALSE
    /\ hidden_once' = FALSE
    /\ Move
    /\ UNCHANGED <<list, searching, query, visible, pending_shared_selection, others, pressed>>

(* A snapshot of the watch, of a reconnection or of a refresh.             *)
apply_daemon_refresh ==
    /\ Waiting
    /\ list' \in Lists
    /\ Reconcile(list', query)
    /\ view_changed
    /\ Move
    /\ UNCHANGED <<searching, query, drawn, pending_shared_selection, others, pressed>>

visibility_checked ==
    /\ Waiting
    /\ visible' = ~visible
    /\ dirty' = (dirty \/ visible')
    /\ UNCHANGED <<list, selection, hidden_once, drawn, pending_shared_selection,
                   others, pressed, moved>>

(* handle_list_key: a key changes the search or the selection, and what is *)
(* selected then is looked for in what is listed then.                     *)
Type(matching, search, id, position) ==
    /\ searching' = search
    /\ query' = matching
    /\ Select(reconcile_selection(list, matching, id, position))
    /\ IF selection' # selection THEN view_changed ELSE UNCHANGED schedule
    /\ Move
    /\ UNCHANGED <<list, drawn, pending_shared_selection, others, pressed>>

Search ==
    /\ Waiting
    /\ \/ ~searching /\ Type(query, TRUE, selected_id, selected_position)
       \/ searching /\ \E matching \in Queries :
                           Type(matching, TRUE, selected_id, selected_position)
       \/ searching /\ Type(Agent, FALSE, selected_id, selected_position)

(* move_selection and select_visible.                                      *)
NavigateList ==
    /\ Waiting
    /\ \E i \in DOMAIN visible_indices(list, query) :
          Type(query, searching, visible_indices(list, query)[i], i)

(* activate_record and apply_activation_outcome: a successful activation   *)
(* ends the search, and may have fetched another list.                     *)
Activated(id) ==
    /\ \/ /\ list' \in Lists
          /\ searching' = FALSE
          /\ query' = Agent
          /\ Select(reconcile_selection(list', Agent, id, selected_position))
       \/ /\ selected_id' = id
          /\ UNCHANGED <<list, searching, query, selected_position>>
    /\ view_changed
    /\ Move
    /\ UNCHANGED <<drawn, pending_shared_selection, option, wakes>>

(* Enter activates what is selected.                                       *)
Enter ==
    /\ Waiting
    /\ Contains(visible_indices(list, query), selected_id)
    /\ Activated(selected_id)
    /\ UNCHANGED <<tasks, pressed>>

(* A click activates what is listed at its row now.                        *)
Click ==
    /\ Waiting
    /\ \E i \in DOMAIN visible_indices(list, query) :
          Activated(visible_indices(list, query)[i])
    /\ UNCHANGED <<tasks, pressed>>

(* A bug to look for: the key is looked up in the list of now.             *)
ActivateShortcutOfNow(slot) ==
    /\ Waiting /\ ~searching
    /\ slot \in DOMAIN from_list(list, query, FALSE)
    /\ LET id == from_list(list, query, FALSE)[slot]
       IN  /\ Activated(id)
           /\ tasks' = tasks \cup {[agent |-> id, step |-> "set"]}
           /\ pressed' = [slot |-> slot, activated |-> id]
    /\ Cardinality(tasks') <= MaxTask

(* A numeric key activates the session it was drawn for, if it is listed,  *)
(* and tells the other sidebars in the background.                         *)
ActivateShortcut(slot) ==
    /\ Waiting /\ ~searching
    /\ slot \in DOMAIN rendered_shortcuts
    /\ LET id == rendered_shortcuts[slot]
       IN  /\ Contains(list, id)
           /\ Activated(id)
           /\ tasks' = tasks \cup {[agent |-> id, step |-> "set"]}
           /\ pressed' = [slot |-> slot, activated |-> id]
    /\ Cardinality(tasks') <= MaxTask

(* Another sidebar's numeric key.                                          *)
Sibling ==
    /\ \E id \in Agent \ Child : tasks' = tasks \cup {[agent |-> id, step |-> "set"]}
    /\ tasks' # tasks /\ Cardinality(tasks') <= MaxTask
    /\ UNCHANGED <<list, selection, schedule, drawn, pending_shared_selection,
                   option, wakes, pressed, moved>>

(* broadcast_ui_selection: the option, then a key to every sidebar.        *)
broadcast_ui_selection(task) ==
    /\ \/ /\ task.step = "set"
          /\ tasks' = (tasks \ {task}) \cup {[task EXCEPT !.step = "wake"]}
          /\ option' = task.agent
          /\ UNCHANGED wakes
       \/ /\ task.step = "wake" /\ wakes < MaxWake
          /\ tasks' = tasks \ {task}
          /\ wakes' = wakes + 1
          /\ UNCHANGED option
    /\ UNCHANGED <<list, selection, schedule, drawn, pending_shared_selection, pressed, moved>>

SidebarNext ==
    \/ SyncSharedSelection \/ apply_pending_shared_selection \/ Draw
    \/ apply_daemon_refresh \/ visibility_checked \/ Search \/ NavigateList
    \/ Enter \/ Click \/ Sibling
    \/ \E slot \in 1..Keys : ActivateShortcut(slot)
    \/ \E task \in tasks : broadcast_ui_selection(task)

SidebarSpec == SidebarInit /\ [][SidebarNext]_sidebarVars

-----------------------------------------------------------------------------
SidebarTypeOK ==
    /\ list \in Lists
    /\ searching \in BOOLEAN
    /\ query \subseteq Agent
    /\ selected_id \in Agent \cup {None}
    /\ selected_position \in Nat \ {0}
    /\ visible \in BOOLEAN
    /\ dirty \in BOOLEAN
    /\ hidden_once \in BOOLEAN
    /\ rendered_shortcuts \in Seq(Agent \ Child)
    /\ pending_shared_selection \in Agent \cup {None}
    /\ option \in Agent \cup {None}
    /\ tasks \subseteq Task
    /\ wakes \in 0..MaxWake
    /\ moved \in BOOLEAN

(* Every way the list, the search or the selection can change leads to a   *)
(* frame before the next key or click is read, so that a click hits the    *)
(* row it points at; and a shared selection is drawn in a hidden sidebar   *)
(* too.                                                                    *)
ScreenIsCurrent ==
    Waiting /\ visible =>
        /\ screen = Picture(list, query, searching, selected_id)
        /\ rendered_shortcuts = screen.keys

(* A numeric key activates the session it stands next to on the screen or  *)
(* nothing, whatever snapshots have reordered since; also in a hidden      *)
(* sidebar that has not been drawn for long.                               *)
ShortcutHitsWhatIsDrawn ==
    [][pressed' # pressed =>
          /\ pressed'.slot \in DOMAIN screen.keys
          /\ pressed'.activated = screen.keys[pressed'.slot]]_sidebarVars

(* docs/architecture.md:272: "keep sibling pane buffers synchronized":     *)
(* when broadcasts and keys have been handled, every sidebar whose user    *)
(* did not move has selected what the last broadcast stored, in whatever   *)
(* order they were sent and although the agent may have been listed later. *)
SelectionIsShared ==
    (/\ tasks = {} /\ wakes = 0 /\ ~Arrived
     /\ option # None /\ Contains(list, option)) =>
        moved \/ selected_id = option

=============================================================================
