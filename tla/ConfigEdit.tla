------------------------------ MODULE ConfigEdit ------------------------------
(***************************************************************************)
(* The configuration of an agent, edited from the server: the agent's      *)
(* handler (agent/core/config_handler.py, shared/crypto_utils.py), the     *)
(* server's routes (dashboard/routes/config_api.py) and the editors        *)
(* (gui/dialogs/config_editor.py), which work at the same time.            *)
(*                                                                         *)
(* A configuration has a section that is a dictionary, with a field and a  *)
(* secret, and one that is a list of items, whose token is a secret too.   *)
(* Which request an answer is given to is the matter of Requests; here it  *)
(* is the one it belongs to, or nobody waits for it any more.              *)
(***************************************************************************)
EXTENDS Integers, Sequences, SequencesExt

CONSTANTS
  Editor,
  Value,        \* what may be typed into a field
  ItemBound, ApplyBound

Null == "null"            \* a field of the file without a value
Masked == "********"      \* MASK_VALUE
Template == [name |-> "", token |-> ""]
NoFile == [field |-> Null]

VARIABLES
  key,        \* "ok"; "none": no encryption; "wrong": values of another key
  hasText,    \* the items have a field that is itself a list, shown in a text widget
  file,       \* config.yaml: [field, secret, sealed, list]; sealed: the secret is encrypted
  backup,     \* the copy made last
  editor,     \* editor -> its dialog
  queue,      \* the requests on the connection, in their order
  applies,    \* updates sent so far
  last        \* the update handled last, history

vars == <<key, hasText, file, backup, editor, queue, applies, last>>

Closed == [at |-> "closed"]
Nothing == [edited |-> {"nothing"}, seen |-> NoFile]
Seen(f) == [field |-> f.field, list |-> f.list]

Init ==
  /\ key \in {"ok", "none", "wrong"}
  /\ hasText \in BOOLEAN
  /\ file \in [field: {Null, "a"}, secret: {"x"}, sealed: {key # "none"},
               list: {<<[name |-> "a", token |-> "x"]>>}]
  /\ backup = NoFile
  /\ editor = [e \in Editor |-> Closed]
  /\ queue = <<>>
  /\ applies = 0
  /\ last = Nothing

-----------------------------------------------------------------------------
(* The agent.                                                              *)

\* mask_config: the secrets of dictionaries, not those of the items of lists.
MaskConfig(f) == [field |-> f.field, secret |-> Masked, list |-> f.list]

\* Variant: a masked value is a value like others.
OverMasked(old, new) == new

\* apply_masked_update, of one value.
Merged(old, new) == IF new = Masked THEN old ELSE new

\* encrypt_config and decrypt_config: the key opens and closes a secret; without it, or
\* with another one, a secret stays as it is, and a new one is saved as it is typed.
Sealed(f, secret) == key = "ok" \/ (f.sealed /\ secret = f.secret)

\* apply_masked_update and encrypt_config: what the update has replaces what there is,
\* a list as a whole.
Updated(f, data) ==
  LET secret == IF "secret" \in DOMAIN data THEN Merged(f.secret, data.secret) ELSE f.secret
  IN [field |-> IF "field" \in DOMAIN data THEN Merged(f.field, data.field) ELSE f.field,
      secret |-> secret,
      sealed |-> Sealed(f, secret),
      list |-> IF "list" \in DOMAIN data THEN data.list ELSE f.list]

\* The dialog, when it still waits for the answer.
Answer(r, dialog) ==
  editor' = IF editor[r.from].at = r.waits THEN [editor EXCEPT ![r.from] = dialog] ELSE editor

\* Text and labels of a form that is built anew.
Shown(v) == IF v = Null THEN "" ELSE v
Form(config) ==
  [field |-> Shown(config.field), secret |-> config.secret, list |-> config.list]

\* _fetch_config and _populate_sections: the first section is selected.  The fields
\* of the other one that were collected before stay.
Opened(d, config, seen) ==
  LET form == Form(config)
  IN [at |-> "open", config |-> config, current |-> "dict",
      visited |-> (IF "visited" \in DOMAIN d THEN d.visited ELSE {}) \cup {"dict"},
      form |-> IF "form" \in DOMAIN d THEN [form EXCEPT !.list = d.form.list] ELSE form,
      edited |-> IF "edited" \in DOMAIN d THEN d.edited \cap {"list", "items"} ELSE {},
      seen |-> [field |-> seen.field,
                list |-> IF "seen" \in DOMAIN d /\ "list" \in d.visited
                         THEN d.seen.list ELSE seen.list]]

\* _handle_get.
HandleGet ==
  /\ queue # <<>> /\ Head(queue).action = "get"
  /\ LET r == Head(queue)
     IN \/ Answer(r, Opened(editor[r.from], MaskConfig(file), file))
        \/ Answer(r, Closed)
  /\ queue' = Tail(queue)
  /\ UNCHANGED <<key, hasText, file, backup, applies, last>>

\* _handle_update: nothing changed, nothing saved; else a backup, the file, and the
\* components told.  The file may also fail to be written.
HandleUpdate ==
  /\ queue # <<>> /\ Head(queue).action = "update"
  /\ LET r == Head(queue)
         new == Updated(file, r.data)
     IN \/ /\ IF [new EXCEPT !.sealed = file.sealed] = file
              THEN UNCHANGED <<file, backup, last>>
              ELSE /\ backup' = file
                   /\ file' = new
                   /\ last' = [edited |-> r.edited, seen |-> r.seen]
           /\ Answer(r, [editor[r.from] EXCEPT !.at = "applied"])
        \/ /\ backup' \in {file, backup}
           /\ UNCHANGED <<file, last>>
           /\ Answer(r, [editor[r.from] EXCEPT !.at = "open"])
  /\ queue' = Tail(queue)
  /\ UNCHANGED <<key, hasText, applies>>

\* An update of another server of the agent, whoever edited it there.
UpdatedElsewhere ==
  /\ applies < ApplyBound
  /\ applies' = applies + 1
  /\ \E data \in {[field |-> "c"], [list |-> <<Template>>]} :
       /\ last' = [edited |-> DOMAIN data, seen |-> Seen(file)]
       /\ backup' = file
       /\ file' = Updated(file, data)
  /\ UNCHANGED <<key, hasText, editor, queue>>

-----------------------------------------------------------------------------
(* The routes: the request goes to the agent, and the answer is awaited    *)
(* for 10 or 15 seconds.                                                   *)

GetAgentConfig(e, d) ==
  /\ editor' = [editor EXCEPT ![e] = d]
  /\ queue' = Append(queue, [from |-> e, waits |-> d.at, action |-> "get"])
  /\ UNCHANGED <<key, hasText, file, backup, applies, last>>

Open(e) ==
  /\ editor[e] = Closed
  /\ ~\E i \in DOMAIN queue : queue[i].from = e
  /\ GetAgentConfig(e, [at |-> "getting"])

\* Half a second after an update.
Refresh(e) ==
  /\ editor[e].at = "applied"
  /\ GetAgentConfig(e, [editor[e] EXCEPT !.at = "refreshing"])

Timeout(e) ==
  /\ editor[e].at \in {"getting", "refreshing", "applying"}
  /\ editor' = [editor EXCEPT ![e] = IF @.at = "getting" THEN Closed ELSE [@ EXCEPT !.at = "open"]]
  /\ UNCHANGED <<key, hasText, file, backup, queue, applies, last>>

-----------------------------------------------------------------------------
(* The editor.                                                             *)

Dialog(e, d) ==
  /\ editor[e].at = "open"
  /\ editor' = [editor EXCEPT ![e] = d]
  /\ UNCHANGED <<key, hasText, file, backup, queue, applies, last>>

FieldsOf(section) == IF section = "dict" THEN {"field", "secret"} ELSE {"list"}

\* _build_form: the section as the configuration has it; what was typed there is gone,
\* and what it shows was seen when the configuration was read last.
Built(d, section) ==
  [d EXCEPT !.current = section, !.visited = @ \cup {section},
            !.form = [x \in DOMAIN @ |-> IF x \in FieldsOf(section) THEN Form(d.config)[x] ELSE @[x]],
            !.edited = @ \ FieldsOf(section),
            !.seen = [x \in DOMAIN @ |-> IF x \in FieldsOf(section) THEN d.config[x] ELSE @[x]]]

SelectSection(e, section) ==
  editor[e].at = "open" /\ Dialog(e, Built(editor[e], section))

\* Typing into a field of the section that is shown.
Type(e, x, v) ==
  LET d == editor[e]
  IN /\ d.at = "open"
     /\ x \in FieldsOf(d.current)
     /\ \/ x # "list" /\ Dialog(e, [d EXCEPT !.form[x] = v, !.edited = @ \cup {x}])
        \/ /\ x = "list"
           /\ \E i \in DOMAIN d.form.list :
                Dialog(e, [d EXCEPT !.form.list[i].name = v, !.edited = @ \cup {x}])

\* _add_list_entry and _remove_list_entry, _add_server_entry and _remove_server_entry.
ChangeList(e, items) ==
  LET d == editor[e]
  IN Dialog(e, [Built([d EXCEPT !.config.list = items], "list") EXCEPT !.edited = @ \cup {"items"}])
AddItem(e) ==
  /\ editor[e].at = "open" /\ editor[e].current = "list"
  /\ Len(editor[e].config.list) < ItemBound
  /\ ChangeList(e, Append(editor[e].config.list, Template))
RemoveItem(e) ==
  /\ editor[e].at = "open" /\ editor[e].current = "list"
  /\ \E i \in DOMAIN editor[e].config.list : ChangeList(e, RemoveAt(editor[e].config.list, i))

\* _collect_form_data: of the sections that were visited, all fields; of a list
\* without items there are none.
Collected(d) ==
  LET fields == UNION {FieldsOf(s) : s \in d.visited}
            \ (IF d.form.list = <<>> THEN {"list"} ELSE {})
  IN [x \in fields |-> d.form[x]]

\* The text widgets of a section that is no longer shown are destroyed: reading them
\* raises.
Raises(d) == hasText /\ d.current # "list" /\ "list" \in d.visited /\ d.form.list # <<>>

\* _apply_config and update_agent_config.
Apply(e) ==
  LET d == editor[e]
  IN /\ d.at = "open"
     /\ ~Raises(d)
     /\ applies < ApplyBound
     /\ applies' = applies + 1
     /\ editor' = [editor EXCEPT ![e].at = "applying"]
     /\ queue' = Append(queue, [from |-> e, waits |-> "applying", action |-> "update",
                                data |-> Collected(d), edited |-> d.edited, seen |-> d.seen])
     /\ UNCHANGED <<key, hasText, file, backup, last>>

Close(e) ==
  Dialog(e, Closed)

Next ==
  \/ HandleGet \/ HandleUpdate \/ UpdatedElsewhere
  \/ \E e \in Editor :
       \/ Open(e) \/ Refresh(e) \/ Timeout(e) \/ Apply(e) \/ Close(e) \/ AddItem(e) \/ RemoveItem(e)
       \/ \E s \in {"dict", "list"} : SelectSection(e, s)
       \/ \E x \in {"field", "secret", "list"}, v \in Value : Type(e, x, v)

Spec == Init /\ [][Next]_vars

-----------------------------------------------------------------------------

\* An update changes what its editor edited, and else only what has become different
\* at the agent since the editor read it, or had no value; a secret of the dictionary
\* only if it was typed anew; and where the key encrypts, a secret is saved encrypted
\* (config_handler.py:101-175, config_editor.py:871-917, crypto_utils.py:225-251).
OnlyEditedWritten ==
  last # Nothing =>
    /\ \A x \in {"field", "list"} :
         file[x] # backup[x] =>
           \/ x \in last.edited \/ (x = "list" /\ "items" \in last.edited)
           \/ last.seen[x] # backup[x] \/ last.seen[x] = Null
    /\ "secret" \notin last.edited => file.secret = backup.secret
    /\ key = "ok" => file.sealed
=============================================================================
