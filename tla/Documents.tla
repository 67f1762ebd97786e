----------------------------- MODULE Documents -----------------------------
(***************************************************************************)
(* An organisation's projects, their contract texts and documents, and the *)
(* plan's limits.  Projects are created, archived and deleted in threads of *)
(* their own; an upload runs on the event loop of the one API process, and *)
(* nothing but a thread interleaves with it from its last await to its end. *)
(* A document's content goes to object storage before its row is committed; *)
(* a deletion removes the contents before the rows.                        *)
(***************************************************************************)
EXTENDS Naturals, FiniteSets

CONSTANTS
  Projects,
  Requests,     \* requests in flight together
  Nothing,
  MaxActive,    \* PLAN_LIMITS: active projects,
  MaxDocs,      \* documents of a month,
  MaxStorage,   \* units of storage; a document has one
  MaxText,      \* units of a contract text
  MaxRows,      \* rows of a register
  MaxDocKeys,   \* bound: documents at a time
  MaxFailures   \* bound: errors and crashes

ASSUME DocumentsConstants ==
  /\ Nothing \notin Projects \cup Requests \cup Nat
  /\ IsFiniteSet(Projects)
  /\ MaxDocKeys \in Nat
  /\ MaxActive \in Nat /\ MaxDocs \in Nat /\ MaxStorage \in Nat
  /\ MaxText \in Nat /\ MaxRows \in Nat \ {0} /\ MaxFailures \in Nat

VARIABLES
  project,    \* projects
  text,       \* units of projects.contract_text and scope_text
  doc,        \* documents.project_id
  blob,       \* keys in object storage
  task,       \* each request
  loop,       \* the upload on the event loop
  failures,
  history     \* what excuses a broken limit or a lost content, see the properties

documentVars == <<project, text, doc, blob, task, loop, failures, history>>

Docs == 1..MaxDocKeys

NoTask == [op |-> "none", at |-> "none", project |-> Nothing, rows |-> 0, doc |-> Nothing,
           size |-> 0, old |-> 0, keys |-> {}, stale |-> FALSE]

DocumentsTypeOK ==
  /\ project \in [Projects -> {"none", "active", "archived", "deleted"}]
  /\ text \in [Projects -> 0..MaxText]
  /\ doc \in [Docs -> Projects \cup {Nothing}]
  /\ blob \in SUBSET Docs
  /\ task \in [Requests ->
       [op : {"none", "create", "upload", "contract", "delete"},
        at : {"none", "create", "read", "put", "insert", "write", "remove"},
        project : Projects \cup {Nothing}, rows : 0..MaxRows, doc : Docs \cup {Nothing},
        size : 0..MaxText, old : 0..MaxText, keys : SUBSET Docs, stale : BOOLEAN]]
  /\ loop \in Requests \cup {Nothing}
  /\ failures \in 0..MaxFailures
  /\ history \in [uncounted : SUBSET Projects, unmeasured : SUBSET Projects,
                  doomed : SUBSET Projects, calm : BOOLEAN]

DocumentsInit ==
  /\ project = [p \in Projects |-> "none"]
  /\ text = [p \in Projects |-> 0]
  /\ doc = [d \in Docs |-> Nothing]
  /\ blob = {}
  /\ task = [h \in Requests |-> NoTask]
  /\ loop = Nothing
  /\ failures = 0
  /\ history = [uncounted |-> {}, unmeasured |-> {}, doomed |-> {}, calm |-> TRUE]

-----------------------------------------------------------------------------
Active == {p \in Projects : project[p] = "active"}
Stored(p) == project[p] \in {"active", "archived"}
RowsOf(p) == {d \in Docs : doc[d] = p}
Registered == {d \in Docs : doc[d] # Nothing}

Units(S) == Cardinality({u \in S \X (1..MaxText) : u[2] <= text[u[1]]})

\* storage_bytes_used
Used == Cardinality(Registered) + Units(Projects)

\* "S" with p or without it.
Mark(S, p, marked) == IF marked THEN S \cup {p} ELSE S \ {p}

Begin(h, r) ==
  /\ task[h] = NoTask
  /\ task' = [task EXCEPT ![h] = r]

\* The request ends; the requests "S" hold an outdated reading now.
Done(h, S) ==
  /\ task' = [g \in Requests |->
                IF g = h THEN NoTask ELSE [task[g] EXCEPT !.stale = @ \/ g \in S]]
  /\ loop' = IF loop = h THEN Nothing ELSE loop

Doing(op, p) == {g \in Requests : task[g].op = op /\ task[g].project = p}

-----------------------------------------------------------------------------
(* Projects                                                                *)

\* enforce_project_limit; the texts that come with a new project are not measured.
BeginCreateProject(h, p, size) ==
  /\ project[p] = "none" /\ Doing("create", p) = {}
  /\ Cardinality(Active) + 1 <= MaxActive
  /\ Begin(h, [NoTask EXCEPT !.op = "create", !.at = "create", !.project = p, !.size = size])
  /\ UNCHANGED <<project, text, doc, blob, loop, failures, history>>

CommitCreate(h) ==
  LET p == task[h].project
  IN  /\ task[h].at = "create"
      /\ project' = [project EXCEPT ![p] = "active"]
      /\ text' = [text EXCEPT ![p] = task[h].size]
      /\ history' = [history EXCEPT !.uncounted = Mark(@, p, task[h].stale),
                                    !.unmeasured = Mark(@, p, task[h].size > 0)]
      /\ Done(h, {g \in Requests : task[g].op = "create"})
      /\ UNCHANGED <<doc, blob, failures>>

Archive(p) ==
  /\ project[p] = "active"
  /\ project' = [project EXCEPT ![p] = "archived"]
  /\ history' = [history EXCEPT !.uncounted = @ \ {p}]
  /\ UNCHANGED <<text, doc, blob, task, loop, failures>>

\* The limit of active projects is not asked.
Unarchive(p) ==
  /\ project[p] = "archived"
  /\ project' = [project EXCEPT ![p] = "active"]
  /\ history' = [history EXCEPT !.uncounted = @ \cup {p}]
  /\ UNCHANGED <<text, doc, blob, task, loop, failures>>

-----------------------------------------------------------------------------
(* Uploads                                                                 *)

Overlap(p, ops) == \E op \in ops : Doing(op, p) # {}

\* A document or a register of several; the project is loaded, the body awaited.
BeginUpload(h, p, rows) ==
  /\ Stored(p)
  /\ Begin(h, [NoTask EXCEPT !.op = "upload", !.at = "read", !.project = p, !.rows = rows])
  /\ history' = [history EXCEPT !.calm = @ /\ ~Overlap(p, {"delete"})]
  /\ UNCHANGED <<project, text, doc, blob, loop, failures>>

\* upload_contract: the old text is the one loaded before the body is awaited.
BeginContract(h, p, size) ==
  /\ Stored(p)
  /\ Begin(h, [NoTask EXCEPT !.op = "contract", !.at = "read", !.project = p, !.size = size,
                             !.old = text[p]])
  /\ UNCHANGED <<project, text, doc, blob, loop, failures, history>>

\* Mutation: a register counts as one document.
AdmitAsOne(h) ==
  /\ task[h].at = "read" /\ loop = Nothing
  /\ IF task[h].op = "upload"
       THEN /\ Cardinality(Registered) + 1 <= MaxDocs
            /\ Used + task[h].rows <= MaxStorage
            /\ task' = [task EXCEPT ![h].at = "put"]
       ELSE /\ Used <= MaxStorage
            /\ Used + task[h].size <= MaxStorage + task[h].old
            /\ task' = [task EXCEPT ![h].at = "write"]
  /\ loop' = h
  /\ UNCHANGED <<project, text, doc, blob, failures, history>>

\* The body is there: enforce_document_limit and enforce_storage_limit, the latter for
\* what a text has more than the one it replaces.
Admit(h) ==
  /\ task[h].at = "read" /\ loop = Nothing
  /\ IF task[h].op = "upload"
       THEN /\ Cardinality(Registered) + task[h].rows <= MaxDocs
            /\ Used + task[h].rows <= MaxStorage
            /\ task' = [task EXCEPT ![h].at = "put"]
       ELSE /\ Used <= MaxStorage
            /\ Used + task[h].size <= MaxStorage + task[h].old
            /\ task' = [task EXCEPT ![h].at = "write"]
  /\ loop' = h
  /\ UNCHANGED <<project, text, doc, blob, failures, history>>

\* 400, 402 or 413: a bad file or a limit.
Refuse(h) ==
  /\ task[h].at = "read" /\ loop = Nothing
  /\ Done(h, {})
  /\ UNCHANGED <<project, text, doc, blob, failures, history>>

\* Keys nobody uses; store.put draws a new one, which is of no account.
FreeKeys == Docs \ (Registered \cup blob \cup UNION {task[h].keys : h \in Requests})

\* add_document, store.put.
PutBlob(h, d) ==
  /\ task[h].at = "put"
  /\ d \in FreeKeys /\ \A e \in FreeKeys : d <= e
  /\ blob' = blob \cup {d}
  /\ task' = [task EXCEPT ![h] = [@ EXCEPT !.at = "insert", !.doc = d]]
  /\ UNCHANGED <<project, text, doc, loop, failures, history>>

\* add_document, the commit; without its project the row is refused, and what was
\* registered before it stays.
InsertRow(h) ==
  LET p == task[h].project
  IN  /\ task[h].at = "insert"
      /\ IF Stored(p) /\ task[h].rows > 1
           THEN /\ task' = [task EXCEPT ![h] = [@ EXCEPT !.at = "put", !.doc = Nothing,
                                                         !.rows = task[h].rows - 1]]
                /\ UNCHANGED loop
           ELSE Done(h, {})
      /\ doc' = IF Stored(p) THEN [doc EXCEPT ![task[h].doc] = p] ELSE doc
      /\ UNCHANGED <<project, text, blob, failures, history>>

\* set_contract; a text that is the loaded one is not written.
WriteText(h) ==
  LET p == task[h].project
  IN  /\ task[h].at = "write"
      /\ \/ /\ Stored(p)
            /\ text' = [text EXCEPT ![p] = task[h].size]
            /\ history' = [history EXCEPT
                             !.unmeasured = Mark(@, p, task[h].stale /\ task[h].size > 0)]
            /\ Done(h, Doing("contract", p))
         \/ /\ ~Stored(p) \/ task[h].size = task[h].old
            /\ Done(h, {})
            /\ UNCHANGED <<text, history>>
      /\ UNCHANGED <<project, doc, blob, failures>>

-----------------------------------------------------------------------------
(* Deletion                                                                *)

\* Mutation: only the rows are deleted.
BeginDeleteRows(h, p) ==
  /\ project[p] = "archived"
  /\ Begin(h, [NoTask EXCEPT !.op = "delete", !.at = "remove", !.project = p])
  /\ history' = [history EXCEPT !.doomed = @ \cup {p},
                                !.calm = @ /\ ~Overlap(p, {"upload"})]
  /\ UNCHANGED <<project, text, doc, blob, loop, failures>>

\* The project is archived; the keys of its documents are read.
BeginDeleteProject(h, p) ==
  /\ project[p] = "archived"
  /\ Begin(h, [NoTask EXCEPT !.op = "delete", !.at = "remove", !.project = p,
                             !.keys = RowsOf(p)])
  /\ history' = [history EXCEPT !.doomed = @ \cup {p},
                                !.calm = @ /\ ~Overlap(p, {"upload"})]
  /\ UNCHANGED <<project, text, doc, blob, loop, failures>>

RemoveBlob(h, d) ==
  /\ task[h].at = "remove" /\ d \in task[h].keys
  /\ blob' = blob \ {d}
  /\ task' = [task EXCEPT ![h].keys = @ \ {d}]
  /\ UNCHANGED <<project, text, doc, loop, failures, history>>

\* A failing store is logged and passed over.
KeepBlob(h, d) ==
  /\ failures < MaxFailures
  /\ task[h].at = "remove" /\ d \in task[h].keys
  /\ task' = [task EXCEPT ![h].keys = @ \ {d}]
  /\ failures' = failures + 1
  /\ history' = [history EXCEPT !.calm = FALSE]
  /\ UNCHANGED <<project, text, doc, blob, loop>>

\* One DELETE, with the rows of the documents.
DeleteProject(h) ==
  LET p == task[h].project
  IN  /\ task[h].at = "remove" /\ task[h].keys = {}
      /\ project' = [project EXCEPT ![p] = "deleted"]
      /\ text' = [text EXCEPT ![p] = 0]
      /\ doc' = [d \in Docs |-> IF doc[d] = p THEN Nothing ELSE doc[d]]
      /\ history' = [history EXCEPT !.uncounted = @ \ {p}, !.unmeasured = @ \ {p}]
      /\ Done(h, Doing("contract", p))
      /\ UNCHANGED <<blob, failures>>

\* An error or a crash; what was committed or stored stays.
FailTask(h) ==
  /\ failures < MaxFailures
  /\ task[h].op # "none"
  /\ failures' = failures + 1
  /\ history' = [history EXCEPT !.calm = FALSE]
  /\ Done(h, {})
  /\ UNCHANGED <<project, text, doc, blob>>

-----------------------------------------------------------------------------
DocumentsNext ==
  \/ \E p \in Projects : Archive(p) \/ Unarchive(p)
  \/ \E h \in Requests, p \in Projects :
       \/ \E size \in 0..MaxText : BeginCreateProject(h, p, size) \/ BeginContract(h, p, size)
       \/ \E rows \in 1..MaxRows : BeginUpload(h, p, rows)
       \/ BeginDeleteProject(h, p)
  \/ \E h \in Requests, d \in Docs : PutBlob(h, d) \/ RemoveBlob(h, d) \/ KeepBlob(h, d)
  \/ \E h \in Requests :
       \/ CommitCreate(h) \/ Admit(h) \/ Refuse(h) \/ InsertRow(h) \/ WriteText(h)
       \/ DeleteProject(h) \/ FailTask(h)

DocumentsSpec == DocumentsInit /\ [][DocumentsNext]_documentVars

-----------------------------------------------------------------------------
(* Properties                                                              *)

\* services/billing.py, the plan's limits: uploads never take an organisation past
\* its documents; past its active projects only those nobody counted do, unarchived or
\* created beside another creation; past its storage only the texts nobody measured, of
\* a new project or in place of another text than the request had loaded.
LimitsHold ==
  /\ Cardinality(Registered) <= MaxDocs
  /\ Cardinality(Active \ history.uncounted) <= MaxActive
  /\ Cardinality(Registered) + Units(Projects \ history.unmeasured) <= MaxStorage

\* A document's row has its content, unless a deletion of its project was begun.
\* Without failures, and without an upload into a project that is being deleted,
\* a content has its row or is about to get it, and goes with its project.
ContentFollowsRows ==
  /\ \A d \in Registered : d \in blob \/ doc[d] \in history.doomed
  /\ history.calm =>
       /\ \A d \in blob : d \in Registered \/ \E h \in Requests : task[h].doc = d
       /\ \A d \in Registered : d \in blob \/ Doing("delete", doc[d]) # {}
=============================================================================
