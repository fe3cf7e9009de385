-------------------------- MODULE InstanceManager --------------------------
(* The tabs of the terminal interface: src/remote/instance-manager.ts, the   *)
(* calls the interface makes of it and the effect that fetches the data of   *)
(* the selected remote tab (src/tui/components/RunApp.tsx).  Each client     *)
(* takes the steps ClientLifecycle allows.  The overlay that adds, edits and *)
(* deletes remotes can be closed or sent again while it saves, so several    *)
(* saves are under way at once, and an alias may get two tabs.  React renders *)
(* and runs its effects after every step; indices start at 1 here.           *)
EXTENDS Naturals, Sequences, FiniteSets

CONSTANTS
    Alias,          \* names of remotes
    Configured,     \* those of the configuration when the interface starts
    Local,          \* the tab of this instance
    NoAlias,
    RemoteOnly,     \* the manager was made without a local tab
    MaxSaves,       \* bound: the overlay saves so often
    MaxFetches      \* bound: the user acts while fewer fetches are under way

ASSUME InstanceManagerAssumption ==
    /\ Configured \in Seq(Alias)
    /\ \A i, j \in DOMAIN Configured : Configured[i] = Configured[j] => i = j
    /\ Local \notin Alias /\ NoAlias \notin Alias \cup {Local}
    /\ RemoteOnly \in BOOLEAN /\ MaxSaves \in Nat /\ MaxFetches \in Nat

VARIABLES
    tabs,       \* aliases in their order
    selected,   \* selectedIndex
    known,      \* aliases in remoteConfigs
    status,     \* per alias: the status its first tab shows
    client,     \* per alias: the status of its RemoteClient, or "absent"
    editing,    \* editingRemote, whom the overlay edits or deletes
    saves,      \* the overlay's saves: what their await is for, [kind, alias, new]
    shown,      \* the remote whose state the remote fields hold
    fetches,    \* calls of fetchRemoteData under way: [at, from]
    subscribed, \* clients whose server forwards engine events
    stale,      \* the fields may be of another tab than the selected one
    deaf        \* the selected tab may have been left without its events

tabsVars == <<tabs, selected, known, status, client, editing, saves, shown, fetches,
              subscribed, stale, deaf>>

ConnectionStatus == {"disconnected", "connecting", "connected", "reconnecting"}
Kinds == {"add", "edit", "delete", "rename", "renamed", "select", "done"}
SaveOf(kind, a) == [kind |-> kind, alias |-> a, new |-> NoAlias]

TabSet == {tabs[i] : i \in DOMAIN tabs}

TabsTypeOK ==
    /\ tabs \in Seq(Alias \cup {Local})
    /\ IF tabs = <<>> THEN selected = 1 ELSE selected \in DOMAIN tabs
    /\ known \subseteq Alias
    /\ status \in [Alias -> ConnectionStatus]
    /\ client \in [Alias -> ConnectionStatus \cup {"absent"}]
    /\ editing \in Alias \cup {NoAlias}
    /\ saves \in Seq([kind : Kinds, alias : Alias \cup {NoAlias}, new : Alias \cup {NoAlias}])
    /\ \A s \in DOMAIN saves :
         /\ saves[s].kind # "done" => saves[s].alias \in Alias
         /\ saves[s].kind = "rename" => saves[s].new \in Alias
    /\ shown \in Alias \cup {NoAlias}
    /\ fetches \subseteq [at : {"state", "tasks"}, from : Alias \cup {NoAlias}]
    /\ subscribed \subseteq Alias
    /\ stale \in BOOLEAN /\ deaf \in BOOLEAN

\* listRemotes() gives the configured remotes in the order of the file.
TabsInit ==
    /\ tabs = (IF RemoteOnly THEN <<>> ELSE <<Local>>) \o Configured
    /\ selected = 1
    /\ known = {Configured[i] : i \in DOMAIN Configured}
    /\ status = [a \in Alias |-> "disconnected"]
    /\ client = [a \in Alias |-> "absent"]
    /\ editing = NoAlias
    /\ saves = <<>>
    /\ shown = NoAlias /\ fetches = {} /\ subscribed = {} /\ stale = FALSE /\ deaf = FALSE

-----------------------------------------------------------------------------
\* Tabs are looked up by alias, and the first one is found; what happens to a
\* client is shown there, and a second tab shows what it was made with.
IndexOf(a) == CHOOSE i \in DOMAIN tabs : tabs[i] = a /\ \A j \in 1 .. i - 1 : tabs[j] # a
StatusOfTab(i) == IF i = IndexOf(tabs[i]) THEN status[tabs[i]] ELSE "disconnected"

SelectedTab == IF selected \in DOMAIN tabs THEN tabs[selected] ELSE NoAlias
ViewingRemote == SelectedTab \in Alias
SelectedStatus == IF ViewingRemote THEN StatusOfTab(selected) ELSE "local"

\* getSelectedClient: null where no remote is selected or it is not connected.
SelectedClient ==
    IF ViewingRemote /\ client[SelectedTab] = "connected" THEN SelectedTab ELSE NoAlias

EffectKeyOfIndex == <<ViewingRemote, selected>>

\* What the effect of RunApp depends on; it does its work where the tab is connected.
EffectKey == <<ViewingRemote, selected, SelectedStatus>>
EffectIsOn == SelectedStatus = "connected"

\* The part of each step after the manager's: clients that lost their connection
\* are no longer subscribed; if the dependencies changed, the old effect's cleanup
\* unsubscribes the client that is selected by now, and the new effect fetches.
\* A tab that takes the selected one's index and status goes unnoticed.
Render ==
    LET live == {a \in subscribed : client'[a] = "connected"}
        unnoticed == EffectIsOn /\ SelectedTab' # SelectedTab
    IN  IF EffectKey' = EffectKey
        THEN /\ subscribed' = live
             /\ stale' = (stale \/ unnoticed) /\ deaf' = (deaf \/ unnoticed)
             /\ UNCHANGED fetches
        ELSE /\ subscribed' = IF EffectIsOn THEN live \ {SelectedClient'} ELSE live
             /\ stale' = FALSE /\ deaf' = FALSE
             /\ fetches' = IF EffectIsOn'
                           THEN fetches \cup {[at |-> "state", from |-> SelectedClient']}
                           ELSE fetches

-----------------------------------------------------------------------------
(* Helpers of the manager.                                                   *)

ConnectNewOnly(clients, a) ==
    IF clients[a] = "absent" THEN [clients EXCEPT ![a] = "connecting"] ELSE clients

\* connectToRemote up to its await: a client there already is kept, and asked
\* to connect unless it is connected or about to be.
ConnectTo(clients, a) ==
    IF clients[a] \in {"connecting", "connected"} THEN clients
    ELSE [clients EXCEPT ![a] = "connecting"]

StatusAfterConnect(shownStatus, clients, a) ==
    IF clients[a] = "connected" THEN shownStatus
    ELSE [shownStatus EXCEPT ![a] = "connecting"]

\* selectTab: a tab that shows disconnected is connected, if its remote is known.
Select(i) ==
    /\ selected' = i
    /\ LET a == tabs[i]
       IN  IF a # Local /\ StatusOfTab(i) = "disconnected" /\ a \in known
           THEN /\ client' = ConnectTo(client, a)
                /\ status' = StatusAfterConnect(status, client, a)
           ELSE UNCHANGED <<client, status>>

\* addAndConnectRemote, up to its await: the tab goes last.
AddAndConnect(a) ==
    /\ known' = known \cup {a}
    /\ tabs' = Append(tabs, a)
    /\ client' = ConnectTo(client, a)
    /\ status' = StatusAfterConnect(status, client, a)
    /\ UNCHANGED selected

Without(s, i) == SubSeq(s, 1, i - 1) \o SubSeq(s, i + 1, Len(s))
TabsWithout(a) == IF a \in TabSet THEN Without(tabs, IndexOf(a)) ELSE tabs

ForgetNothing(a) == client
\* disconnectRemote: the client is disconnected and forgotten.
ForgetClient(a) == [client EXCEPT ![a] = "absent"]

\* removeTab keeps the selection in range and on its tab.
IndexAfterRemoval(i) ==
    IF selected > Len(tabs) - 1 THEN (IF Len(tabs) > 1 THEN Len(tabs) - 1 ELSE 1)
    ELSE IF selected > i THEN selected - 1 ELSE selected

-----------------------------------------------------------------------------
(* The user.                                                                 *)

UserActs == Cardinality(fetches) < MaxFetches

SelectTab(i) ==
    /\ UserActs
    /\ i \in DOMAIN tabs
    /\ Select(i)
    /\ UNCHANGED <<tabs, known, editing, saves, shown>>
    /\ Render

\* The overlay, whether or not another save is under way, calls onSave or onDelete,
\* which awaits the configuration file first.
Submit(save) ==
    /\ UserActs
    /\ Len(saves) < MaxSaves
    /\ saves' = Append(saves, save)
    /\ UNCHANGED <<tabs, selected, known, status, client, shown>>
    /\ Render

SubmitAdd(a) == Submit(SaveOf("add", a)) /\ UNCHANGED editing

\* The remote of a tab, or again the one the overlay was opened for: edited under
\* its alias, deleted, or edited with another alias.
SubmitChange(a) ==
    /\ a \in TabSet \ {Local} \/ a = editing
    /\ editing' = a
    /\ \/ Submit(SaveOf("edit", a)) \/ Submit(SaveOf("delete", a))
       \/ \E b \in Alias \ {a} : Submit([SaveOf("rename", a) EXCEPT !.new = b])

-----------------------------------------------------------------------------
(* What the saves do after their awaits.  Whether the configuration takes an  *)
(* alias is up to its file, which other commands write too and which old      *)
(* copies overwrite.                                                         *)

Done(s) == saves' = [saves EXCEPT ![s] = SaveOf("done", NoAlias)]

\* The file cannot be written, has the alias already, or no longer has it.
SaveFails(s) ==
    /\ saves[s].kind \in {"add", "edit", "delete", "rename", "renamed"}
    /\ Done(s)
    /\ UNCHANGED <<tabs, selected, known, status, client, editing, shown>>
    /\ Render

\* Added: its tab is connected, and selected when that has settled.
AddRemote(s) ==
    /\ saves[s].kind = "add"
    /\ AddAndConnect(saves[s].alias)
    /\ saves' = [saves EXCEPT ![s].kind = "select"]
    /\ UNCHANGED <<editing, shown>>
    /\ Render

AddSettles(s) ==
    /\ saves[s].kind = "select"
    /\ client[saves[s].alias] # "connecting"
    /\ IF saves[s].alias \in TabSet THEN Select(IndexOf(saves[s].alias))
       ELSE UNCHANGED <<selected, client, status>>
    /\ Done(s)
    /\ UNCHANGED <<tabs, known, editing, shown>>
    /\ Render

\* Edited under the same alias: reconnectRemote makes a new client for its tab.
EditRemote(s) ==
    /\ saves[s].kind = "edit"
    /\ LET a == saves[s].alias
       IN  /\ known' = known \cup {a}
           /\ IF a \in TabSet
              THEN /\ client' = [ForgetClient(a) EXCEPT ![a] = "connecting"]
                   /\ status' = [status EXCEPT ![a] = "connecting"]
              ELSE client' = ForgetClient(a) /\ UNCHANGED status
    /\ Done(s)
    /\ UNCHANGED <<tabs, selected, editing, shown>>
    /\ Render

\* Edited with another alias: the old tab goes, whether or not the file had it, and
\* once the file has the new one its tab comes.
RenameRemote(s) ==
    /\ saves[s].kind = "rename"
    /\ LET a == saves[s].alias
       IN  /\ client' = ForgetClient(a)
           /\ status' = [status EXCEPT ![a] = "disconnected"]
           /\ known' = known \ {a}
           /\ tabs' = TabsWithout(a)
           /\ selected' = IF a \in TabSet THEN IndexAfterRemoval(IndexOf(a)) ELSE selected
    /\ saves' = [saves EXCEPT ![s] = SaveOf("renamed", saves[s].new)]
    /\ UNCHANGED <<editing, shown>>
    /\ Render

AddRenamed(s) ==
    /\ saves[s].kind = "renamed"
    /\ AddAndConnect(saves[s].alias)
    /\ Done(s)
    /\ UNCHANGED <<editing, shown>>
    /\ Render

\* Deleted: the tab goes and the first one is selected.
DeleteRemote(s) ==
    /\ saves[s].kind = "delete"
    /\ LET a     == saves[s].alias
           rest  == TabsWithout(a)
           first == rest[1]
           gone  == [status EXCEPT ![a] = "disconnected"]
           connect == /\ rest # <<>> /\ first # Local
                      /\ gone[first] = "disconnected" /\ first \in known \ {a}
       IN  /\ tabs' = rest
           /\ known' = known \ {a}
           /\ IF connect
              THEN /\ client' = ConnectTo(ForgetClient(a), first)
                   /\ status' = StatusAfterConnect(gone, ForgetClient(a), first)
              ELSE client' = ForgetClient(a) /\ status' = gone
    /\ selected' = 1
    /\ Done(s)
    /\ UNCHANGED <<editing, shown>>
    /\ Render

-----------------------------------------------------------------------------
(* Clients and fetches.                                                      *)

Lifecycle(a) == INSTANCE ClientLifecycle WITH status <- client[a]

\* A client takes a step of its own; handleClientEvent shows it on its tab.
ClientStep(a) ==
    /\ client[a] # "absent"
    /\ \E st \in ConnectionStatus :
        /\ client' = [client EXCEPT ![a] = st]
        /\ Lifecycle(a)!OwnStep
        /\ status' = IF a \in TabSet THEN [status EXCEPT ![a] = st] ELSE status
    /\ UNCHANGED <<tabs, selected, known, editing, saves, shown>>
    /\ Render

\* The answer to getRemoteState() fills the fields, whichever tab is selected by
\* then; there is none if the connection was lost, the request times out or is
\* answered with an error.
FetchState(f) ==
    /\ f \in fetches /\ f.at = "state"
    /\ \/ /\ f.from # NoAlias /\ client[f.from] = "connected"
          /\ shown' = f.from
          /\ stale' = (stale \/ SelectedTab # f.from)
       \/ /\ stale' = (stale \/ SelectedClient = f.from)
          /\ UNCHANGED shown
    /\ fetches' = (fetches \ {f}) \cup {[at |-> "tasks", from |-> NoAlias]}
    /\ UNCHANGED <<tabs, selected, known, status, client, editing, saves, subscribed, deaf>>

\* After the tasks, the client that is selected by then is subscribed, unless that
\* request fails.
FetchTasks(f) ==
    /\ f \in fetches /\ f.at = "tasks"
    /\ \/ /\ subscribed' = subscribed \cup ({SelectedClient} \ {NoAlias})
          /\ UNCHANGED deaf
       \/ /\ SelectedClient # NoAlias
          /\ deaf' = TRUE
          /\ UNCHANGED subscribed
    /\ fetches' = fetches \ {f}
    /\ UNCHANGED <<tabs, selected, known, status, client, editing, saves, shown, stale>>

TabsNext ==
    \/ \E i \in DOMAIN tabs : SelectTab(i)
    \/ \E a \in Alias : SubmitAdd(a) \/ SubmitChange(a)
    \/ \E s \in DOMAIN saves :
        \/ SaveFails(s) \/ AddRemote(s) \/ AddSettles(s) \/ EditRemote(s)
        \/ RenameRemote(s) \/ AddRenamed(s) \/ DeleteRemote(s)
    \/ \E a \in Alias : ClientStep(a)
    \/ \E f \in fetches : FetchState(f) \/ FetchTasks(f)

TabsSpec == TabsInit /\ [][TabsNext]_tabsVars

\* Requests are answered or fail, and attempts to connect come to an end.
TabsFairness ==
    /\ WF_tabsVars(\E f \in fetches : FetchState(f) \/ FetchTasks(f))
    /\ \A a \in Alias : WF_tabsVars(client[a] = "connecting" /\ ClientStep(a))

TabsFairSpec == TabsSpec /\ TabsFairness

-----------------------------------------------------------------------------
(* Properties.                                                               *)

\* Every remote with a client has a tab that shows the client's status, and one
\* without shows disconnected, through saves that overtake each other during
\* connects.
TabsShowTheirClients ==
    \A a \in Alias :
        /\ client[a] # "absent" => a \in TabSet /\ a \in known /\ status[a] = client[a]
        /\ client[a] = "absent" => status[a] = "disconnected"

\* The same with the selection in range.
TabsInOrder == TabsTypeOK /\ TabsShowTheirClients

\* Once the fetches are done, a selected tab that shows connected has its own data
\* on the screen, unless its request failed, a late answer came after it or the tab
\* changed unnoticed; and it receives its engine events, unless a subscription
\* failed or the tab changed unnoticed.
SelectedTabIsLive ==
    (fetches = {} /\ EffectIsOn)
    => /\ shown = SelectedTab \/ stale
       /\ SelectedTab \in subscribed \/ deaf

\* A save that was to remove the selected tab itself.
RemovesSelected(s) ==
    saves[s].kind \in {"rename", "delete"} /\ selected = IndexOf(saves[s].alias)

\* Adding and renaming remotes leaves the selection on its tab, unless that is the
\* one renamed.
SelectionFollowsItsTab ==
    [][\A s \in DOMAIN saves :
         (tabs' # tabs /\ saves'[s] # saves[s] /\ saves[s].kind # "delete"
          /\ SelectedTab # NoAlias /\ ~RemovesSelected(s))
         => SelectedTab' = SelectedTab]_tabsVars

\* A tab that has been selected ends up with its events or with a status that says
\* why not, unless the user goes elsewhere or saves remotes, or a request failed or
\* the tab changed unnoticed.
SelectionSettles ==
    \A a \in Alias :
        (SelectedTab = a /\ SelectedStatus \in {"connecting", "connected"})
        ~> \/ SelectedTab # a \/ \E s \in DOMAIN saves : saves[s].kind # "done"
           \/ SelectedStatus \in {"disconnected", "reconnecting"}
           \/ deaf \/ (SelectedClient = a /\ a \in subscribed)

\* The selection is kept, and what is selected is shown in the end.
SelectionIsHonoured == SelectionFollowsItsTab /\ SelectionSettles
=============================================================================
