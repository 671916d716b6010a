---------------------------- MODULE WorkflowConfigs ----------------------------
(***************************************************************************)
(* The configurations of a workflow (models/workflows.py,                  *)
(* services/workflows/__init__.py, commands/update.py): versions of its    *)
(* step tree, each with the sha of the tree and maybe a tag; the name of   *)
(* the active one; and the calls and texts that begin a run on it.         *)
(*                                                                         *)
(* Workers, operators and requests alike, interleave: one action per query *)
(* or commit.  A tree stands for its sha, which is not a tag.  A row keeps *)
(* its place in configs, the order of created_at.                          *)
(***************************************************************************)
EXTENDS Integers, Sequences

CONSTANTS
    Trees, Tags,
    NoTag,          \* None
    Same,           \* a field an edit leaves as it is
    Latest,         \* the name "latest", which may be a tag
    Workers,
    MaxConfigs, MaxRuns, MaxEdits   \* bounds

ASSUME WorkflowConfigsAssumption ==
    /\ Trees \cap (Tags \cup {NoTag, Latest}) = {}
    /\ {NoTag, Same} \cap (Trees \cup Tags \cup {Latest}) = {} /\ NoTag # Same
    /\ {MaxConfigs, MaxRuns, MaxEdits} \subseteq Nat

VARIABLES
    configs,    \* the rows: tree, tag, and (for the properties) the names a row has
                \* had, and how many runs there were when it was last edited
    active,     \* active_config_tag
    runs,       \* the runs: the row, and the tree it had when the run was begun
    jobs,       \* what each worker is doing
    edits       \* how many edits were begun

configVars == <<configs, active, runs, jobs, edits>>

-----------------------------------------------------------------------------

Names(row) == {row.tree, row.tag} \ {NoTag}

Config(tree, tag) == [tree |-> tree, tag |-> tag, names |-> {tree, tag} \ {NoTag}, counted |-> 0]

\* The rows that a tag or a sha names.
Found(name) == {c \in DOMAIN configs : name \in Names(configs[c])}

\* run_count > 0
Live(c) == \E r \in DOMAIN runs : runs[r].config = c

Idle == [op |-> "idle"]
At(w, op) == jobs[w].op = op
Becomes(w, job) == jobs' = [jobs EXCEPT ![w] = job]

ConfigsInit == \E tree \in Trees, tag \in Tags \cup {NoTag} :
    /\ configs = <<Config(tree, tag)>>
    /\ active = IF tag = NoTag THEN tree ELSE tag
    /\ runs = <<>>
    /\ jobs = [w \in Workers |-> Idle]
    /\ edits = 0

-----------------------------------------------------------------------------
(* Operators: new configurations, and which one is active *)

\* Slip: the name of a configuration is taken as it is given.
KnownUnchecked(name) == TRUE

\* get_config_for_sha_or_tag finds a row.
Known(name) == Found(name) # {}

\* create_config_for_workflow, first that its tag is no tag or sha of another.
CheckTag(w) == \E tree \in Trees, tag \in Tags \cup {NoTag}, activate \in BOOLEAN :
    /\ At(w, "idle") /\ Len(configs) < MaxConfigs
    /\ tag # NoTag => Found(tag) = {}
    /\ activate => tag # NoTag
    /\ Becomes(w, [op |-> "insert", config |-> Config(tree, tag), activate |-> activate])
    /\ UNCHANGED <<configs, active, runs, edits>>

\* The tags of a workflow are unique, None aside (the table's constraint).
TagTaken(tag, others) == tag # NoTag /\ \E c \in others : configs[c].tag = tag

InsertConfig(w) ==
    LET config == jobs[w].config
    IN  /\ At(w, "insert")
        /\ IF TagTaken(config.tag, DOMAIN configs)
              THEN Becomes(w, Idle) /\ UNCHANGED configs
              ELSE /\ configs' = Append(configs, config)
                   /\ Becomes(w, IF jobs[w].activate
                                    THEN [op |-> "activate", name |-> config.tag] ELSE Idle)
        /\ UNCHANGED <<active, runs, edits>>

\* update_active_workflow_config: of an operator, or of a scheduled call for a
\* version, which makes it the active one of all calls.
CheckActive(w) == \E name \in Trees \cup Tags :
    /\ \/ At(w, "idle")
       \/ At(w, "activate") /\ name = jobs[w].name
    /\ Becomes(w, IF Known(name) THEN [op |-> "set_active", name |-> name] ELSE Idle)
    /\ UNCHANGED <<configs, active, runs, edits>>

SetActive(w) ==
    /\ At(w, "set_active")
    /\ active' = jobs[w].name
    /\ Becomes(w, Idle)
    /\ UNCHANGED <<configs, runs, edits>>

-----------------------------------------------------------------------------
(* Editing a row: nothing in src does, but the model allows for it *)

\* What get_model_changes finds: a field that was None is left out.
Changes(row, tree, tag) ==
    (IF row.tree # tree THEN {"tree"} ELSE {}) \cup (IF row.tag \notin {NoTag, tag} THEN {"tag"} ELSE {})

\* Slip: the runs are not counted.
EditableAlways(c, tree, tag) == TRUE

\* A row that a run uses is not edited, but it may be given its first tag.
Editable(c, tree, tag) == Changes(configs[c], tree, tag) # {} => ~Live(c)

\* The row is loaded, and before_update counts its runs.
Edit(w) == \E c \in DOMAIN configs, tree \in Trees, tag \in Tags \cup {NoTag} :
    /\ At(w, "idle") /\ edits < MaxEdits
    /\ tree # configs[c].tree \/ tag # configs[c].tag
    /\ Editable(c, tree, tag)
    /\ Becomes(w, [op |-> "update", config |-> c, counted |-> Len(runs),
                   tree |-> IF tree = configs[c].tree THEN Same ELSE tree,
                   tag  |-> IF tag = configs[c].tag THEN Same ELSE tag])
    /\ edits' = edits + 1
    /\ UNCHANGED <<configs, active, runs>>

\* The row with the fields that were changed.
Updated(row, job) ==
    LET tree == IF job.tree = Same THEN row.tree ELSE job.tree
        tag  == IF job.tag = Same THEN row.tag ELSE job.tag
    IN  [tree |-> tree, tag |-> tag, names |-> row.names \cup ({tree, tag} \ {NoTag}),
         counted |-> IF job.tree = Same THEN row.counted ELSE job.counted]

UpdateConfig(w) ==
    LET c       == jobs[w].config
        updated == Updated(configs[c], jobs[w])
    IN  /\ At(w, "update")
        /\ configs' = IF TagTaken(updated.tag, DOMAIN configs \ {c})
                         THEN configs ELSE [configs EXCEPT ![c] = updated]
        /\ Becomes(w, Idle)
        /\ UNCHANGED <<active, runs, edits>>

-----------------------------------------------------------------------------
(* Requests: a call, a text or a transfer begins a run *)

\* create_call_leg, create_sms_leg and the transfers read the workflow.
ReadActive(w) ==
    /\ At(w, "idle") /\ Len(runs) < MaxRuns
    /\ Becomes(w, [op |-> "resolve", name |-> active])
    /\ UNCHANGED <<configs, active, runs, edits>>

\* create_call_leg_from_scheduled_call looks for the version that was asked for,
\* and if there is none takes the active one.
ReadVersion(w) == \E name \in Trees \cup Tags :
    /\ At(w, "idle") /\ Len(runs) < MaxRuns
    /\ IF Found(name) = {}
          THEN Becomes(w, [op |-> "resolve", name |-> active])
          ELSE \E c \in Found(name) :
                   Becomes(w, [op |-> "begin", config |-> c, tree |-> configs[c].tree])
    /\ UNCHANGED <<configs, active, runs, edits>>

\* active_config; .one() raises when there is no row or more than one.
Resolve(w) ==
    LET name  == jobs[w].name
        found == IF name = Latest THEN {Len(configs)} ELSE Found(name)
    IN  /\ At(w, "resolve")
        /\ IF \E c \in found : found = {c}
              THEN \E c \in found :
                       Becomes(w, [op |-> "begin", config |-> c, tree |-> configs[c].tree])
              ELSE Becomes(w, Idle)
        /\ UNCHANGED <<configs, active, runs, edits>>

BeginRun(w) ==
    /\ At(w, "begin")
    /\ runs' = Append(runs, [config |-> jobs[w].config, tree |-> jobs[w].tree])
    /\ Becomes(w, Idle)
    /\ UNCHANGED <<configs, active, edits>>

ConfigsNext == \E w \in Workers :
    \/ CheckTag(w) \/ InsertConfig(w)
    \/ CheckActive(w) \/ SetActive(w) \/ Edit(w) \/ UpdateConfig(w)
    \/ ReadActive(w) \/ ReadVersion(w) \/ Resolve(w) \/ BeginRun(w)

ConfigsSpec == ConfigsInit /\ [][ConfigsNext]_configVars

-----------------------------------------------------------------------------
(* Properties *)

\* A run goes on with the tree it was begun on, whatever operators do ("Do not
\* modify live configs", models/workflows.py): a row whose tree is not the one a
\* run was begun with was edited by a worker that had counted its runs before the
\* run was there.
RunKeepsItsTree == \A r \in DOMAIN runs :
    LET row == configs[runs[r].config]
    IN  row.tree # runs[r].tree => row.counted < r

\* Calls find the active configuration.  Its name is, or was, that of a row, and it
\* names more than one only when it is a sha, of a tree that was deployed twice
\* (create_config_for_workflow, update_active_workflow_config, active_config).
ActiveNameResolves ==
    /\ \E c \in DOMAIN configs : active \in configs[c].names
    /\ (\E c, d \in Found(active) : c # d) => active \in Trees
=============================================================================
