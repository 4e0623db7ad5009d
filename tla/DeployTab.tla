------------------------------ MODULE DeployTab -------------------------------
(***************************************************************************)
(* The windows that deploy (gui/tabs/deploy_tab.py, test_deploy_tab.py): a *)
(* program, a folder, a command of an agent, a test.  Each has a choice of *)
(* an agent, "(auto)" included, and a list that was fetched from an agent: *)
(* its programs with their paths, its folders or its commands.  What is    *)
(* sent is put together from both, partly by a thread that goes on while   *)
(* the window is used.  Of an item of a list only the agent it came from   *)
(* matters here; that the server runs is not looked at, a click without it *)
(* does nothing.                                                           *)
(***************************************************************************)
EXTENDS Integers, Sequences, FiniteSets, SequencesExt

CONSTANTS Agent, AskBound, FileBound, JobBound

Kind == {"process", "folder", "command", "test"}
None == "none"
Auto == "(auto)"

VARIABLES
  kind,     \* the window
  first,    \* the agent "(auto)" stands for: the first that is connected
  chosen,   \* _agent_combo
  shown,    \* the agent whose list is shown, None for "(기본)" and its like
  asks,     \* the fetches under way, by agent
  files,    \* which files are chosen, for a test a list of them; 0 is none
  jobs,     \* what was clicked and is not done: [do, at, to, of, files, got]
  sent,     \* the request that has just reached the server, with the agent it chose
  late      \* what came between a look and its use, history

vars == <<kind, first, chosen, shown, asks, files, jobs, sent, late>>

Nothing == [do |-> "nothing", to |-> None, of |-> None, asked |-> 0, files |-> 0]

Init ==
  /\ kind \in Kind
  /\ first \in Agent
  /\ chosen = Auto /\ shown = None
  /\ asks = <<>>
  /\ files = 0
  /\ jobs = {}
  /\ sent = Nothing
  /\ late = {}

\* The GUI's get_connected_agent_ids()[0], and the server's for an empty agent_id.
Resolved(a) == IF a = Auto THEN first ELSE a

Late(why, cause) == late' = IF why THEN late \cup {cause} ELSE late
Running(do) == \E j \in jobs : j.do = do
With(j, k) == (jobs \ {j}) \cup {k}

\* The first agent goes, or another comes.
FirstChanges ==
  /\ first' \in (Agent \cup {None}) \ {first}
  /\ Late(\/ chosen = Auto /\ (shown # None \/ asks # <<>>)
          \/ \E j \in jobs : j.to = Auto, "auto")
  /\ sent' = Nothing
  /\ UNCHANGED <<kind, chosen, shown, asks, files, jobs>>

-----------------------------------------------------------------------------
(* The list.                                                               *)

\* _fetch_watch_folders, _fetch_commands, _fetch_process_info.
Fetched(a) == IF a = None THEN asks ELSE Append(asks, a)

\* Variant: the list is fetched by its button only.
SelectOnly(a) == chosen' = a /\ UNCHANGED <<shown, asks>>

\* _refresh_process_list, which waits for the answer.
SelectProcesses(a) ==
  (shown' \in IF a = Auto THEN {None} ELSE {a, None}) /\ asks' = asks

\* _on_agent_selected of the test, the other windows fetch as their button does.
SelectTested(a) ==
  IF a = Auto THEN shown' = None /\ asks' = asks
  ELSE shown' = shown /\ asks' = Fetched(a)

SelectAgent(a) ==
  /\ chosen' = a
  /\ \/ kind = "process" /\ SelectProcesses(a)
     \/ kind \in {"folder", "command"} /\ shown' = shown /\ asks' = Fetched(Resolved(a))
     \/ kind = "test" /\ SelectTested(a)

Select(a) ==
  /\ a # chosen /\ Len(asks) < AskBound
  /\ ~\E j \in jobs : j.at = "asks"         \* its dialog is modal
  /\ SelectAgent(a)
  /\ Late(\E j \in jobs : j.of = "later", "switched")
  /\ sent' = Nothing
  /\ UNCHANGED <<kind, first, files, jobs>>

\* The button that fetches the list anew.
Fetch ==
  /\ kind \in {"folder", "command"} /\ Len(asks) < AskBound
  /\ asks' = Fetched(Resolved(chosen)) /\ asks' # asks
  /\ sent' = Nothing
  /\ UNCHANGED <<kind, first, chosen, shown, files, jobs, late>>

\* _on_folders_fetched, _on_commands_fetched, _apply_process_info: the list that came,
\* which may be empty; also while a dialog is open.
ListComes(i) ==
  /\ i \in DOMAIN asks
  /\ shown' \in {asks[i], None}
  /\ asks' = RemoveAt(asks, i)
  /\ Late(asks[i] # Resolved(chosen), "crossed")
  /\ sent' = Nothing
  /\ UNCHANGED <<kind, first, chosen, files, jobs>>

\* The same with an error: the list before stays.
ListFails(i) ==
  /\ i \in DOMAIN asks
  /\ asks' = RemoveAt(asks, i)
  /\ Late(shown \notin {None, asks[i]}, "failed")
  /\ sent' = Nothing
  /\ UNCHANGED <<kind, first, chosen, shown, files, jobs>>

\* _select_file; _add_files, _remove_selected, and _auto_load_files when a program is
\* selected.
ChangeFiles ==
  /\ kind \in {"process", "test"} /\ ~\E j \in jobs : j.at = "asks"
  /\ files' \in (0 .. FileBound) \ {files}
  /\ Late(\E j \in jobs : j.do \in {"deploy", "direct"} /\ j.at \in {"zips", "sends"}, "files")
  /\ sent' = Nothing
  /\ UNCHANGED <<kind, first, chosen, shown, asks, jobs>>

-----------------------------------------------------------------------------
(* What is clicked, and what the thread it starts does.                    *)

Job(do, at, to, of) ==
  [do |-> do, at |-> at, to |-> to, of |-> of, asked |-> files, got |-> None]

Begin(j) ==
  /\ ~Running(j.do) /\ Cardinality(jobs) < JobBound
  /\ ~\E k \in jobs : k.at = "asks"
  /\ jobs' = jobs \cup {j}
  /\ Late(asks # <<>>, "hasty")
  /\ sent' = Nothing
  /\ UNCHANGED <<kind, first, chosen, shown, asks, files>>

\* _deploy of a program and of a folder, which needs one.
Deploy ==
  /\ \/ kind = "process" /\ files # 0
     \/ kind = "folder" /\ shown # None
  /\ Begin(Job("deploy", "sends", chosen, shown))

\* _send_ctrl: the thread reads the program from the window; _do_ctrl does not.
Control ==
  /\ kind \in {"process", "test"}
  /\ Begin(Job("ctrl", "sends", chosen, IF kind = "process" THEN "later" ELSE shown))

\* _execute.
Execute ==
  /\ kind = "command" /\ shown # None /\ Resolved(chosen) # None
  /\ Begin(Job("exec", "sends", Resolved(chosen), shown))

\* _do_rollback.
Rollback ==
  /\ kind = "test" /\ Resolved(chosen) # None
  /\ ~\E j \in jobs : j.do = "deploy"       \* its button is disabled
  /\ Begin(Job("rollback", "sends", Resolved(chosen), shown))

\* _do_deploy and _do_direct_deploy as far as their dialog, one of them at a time.
AskDeploy ==
  /\ kind = "test" /\ files # 0 /\ ~Running("direct")
  /\ Begin(Job("deploy", "asks", chosen, shown))

AskDirect ==
  /\ kind = "test" /\ files # 0 /\ shown # None /\ ~Running("deploy")
  /\ Begin(Job("direct", "asks", chosen, shown))

\* Then: no; or yes, after which a deployment looks at the window again.
Decline(j) ==
  /\ j.at = "asks" /\ jobs' = jobs \ {j}
  /\ sent' = Nothing
  /\ UNCHANGED <<kind, first, chosen, shown, asks, files, late>>

Confirm(j) ==
  /\ j.at = "asks"
  /\ jobs' = With(j, IF j.do = "deploy" THEN [j EXCEPT !.at = "zips", !.to = chosen, !.of = shown]
                     ELSE [j EXCEPT !.at = "sends"])
  /\ Late(asks # <<>>, "hasty")
  /\ sent' = Nothing
  /\ UNCHANGED <<kind, first, chosen, shown, asks, files>>

\* The request reaches the server, which chooses an agent when it is given none; with
\* none connected, or any error, nothing is sent.  The files are those chosen now, but
\* for a folder, which was put together by the click.
Reach(j) ==
  sent' = [do |-> j.do, to |-> Resolved(j.to), of |-> IF j.of = "later" THEN shown ELSE j.of,
           asked |-> j.asked,
           files |-> IF j.do \in {"deploy", "direct"} /\ kind # "folder" THEN files ELSE j.asked]

Send(j) ==
  /\ j.at = "sends" /\ Resolved(j.to) # None
  /\ Reach(j)
  /\ jobs' = jobs \ {j}
  /\ UNCHANGED <<kind, first, chosen, shown, asks, files, late>>

\* The deployment of a test: its files are packed and uploaded.
Upload(j) ==
  /\ j.at = "zips" /\ Resolved(j.to) # None
  /\ Reach(j)
  /\ jobs' = With(j, [j EXCEPT !.at = "waits", !.got = Resolved(j.to)])
  /\ UNCHANGED <<kind, first, chosen, shown, asks, files, late>>

\* Then it waits for a time, not for the agent, and has the program restarted.
RestartStaged(j) == [Nothing EXCEPT !.do = "restart", !.to = Resolved(j.to), !.of = j.got]

Restart(j) ==
  /\ j.at = "waits" /\ Resolved(j.to) # None
  /\ sent' = RestartStaged(j)
  /\ jobs' = jobs \ {j}
  /\ UNCHANGED <<kind, first, chosen, shown, asks, files, late>>

Fail(j) ==
  /\ j.at # "asks"
  /\ jobs' = jobs \ {j}
  /\ sent' = Nothing
  /\ UNCHANGED <<kind, first, chosen, shown, asks, files, late>>

Next ==
  \/ FirstChanges \/ Fetch \/ ChangeFiles
  \/ \E a \in Agent \cup {Auto} : Select(a)
  \/ \E i \in 1 .. AskBound : ListComes(i) \/ ListFails(i)
  \/ Deploy \/ Control \/ Execute \/ Rollback \/ AskDeploy \/ AskDirect
  \/ \E j \in jobs : Decline(j) \/ Confirm(j) \/ Send(j) \/ Upload(j) \/ Restart(j) \/ Fail(j)

Spec == Init /\ [][Next]_vars

-----------------------------------------------------------------------------

\* What is sent to an agent was on the list of that agent, the files that go are those
\* of the dialog, and the agent that restarts is the one that has the files: unless the
\* window was used before its list had come, the list failed, came for another choice,
\* or what a thread still reads was changed under it (deploy_tab.py:322-336, 516-540,
\* 834-862; test_deploy_tab.py:231-238, 384-466).
SentAsShown ==
  late = {} =>
    /\ sent.of \in {None, sent.to}
    /\ sent.files = sent.asked
=============================================================================
