------------------------- MODULE ProvisioningProofs -------------------------
(***************************************************************************)
(* Proofs about what operators do to a system that takes calls.  About     *)
(* WorkflowConfigs, for any trees, tags and workers and any number of      *)
(* configurations, runs and edits: runs keep their tree, and calls find    *)
(* the active configuration.  About Provisioning, for any files and any    *)
(* number of commands: a command that ends has done what its file says.    *)
(***************************************************************************)
EXTENDS WorkflowConfigs, Provisioning, FiniteSetTheorems, TLAPS

-----------------------------------------------------------------------------
(* WorkflowConfigs *)


Row == [tree : Trees, tag : Tags \cup {NoTag}, names : SUBSET (Trees \cup Tags), counted : Nat]

\* What the rows and runs are, on their own.
RowsRight ==
    /\ configs \in Seq(Row) /\ configs # <<>>
    /\ runs \in Seq([config : Nat, tree : Trees])
    /\ \A r \in DOMAIN runs : runs[r].config \in DOMAIN configs
    /\ \A c \in DOMAIN configs :
           /\ Names(configs[c]) \subseteq configs[c].names
           /\ configs[c].counted <= Len(runs)

TagsUnique == \A c, d \in DOMAIN configs :
    configs[c].tag = configs[d].tag /\ configs[c].tag # NoTag => c = d

Named(name) == \E c \in DOMAIN configs : name \in configs[c].names

\* What a worker has read and is about to write.
JobFits(job) ==
    \/ job = Idle
    \/ /\ job \in [op : {"insert"}, config : Row, activate : BOOLEAN]
       /\ Names(job.config) \subseteq job.config.names /\ job.config.counted = 0
       /\ job.activate => job.config.tag # NoTag
    \/ job \in [op : {"activate"}, name : Tags]
    \/ job \in [op : {"set_active"}, name : Trees \cup Tags] /\ Named(job.name)
    \/ /\ job \in [op : {"update"}, config : DOMAIN configs, counted : 0 .. Len(runs),
                   tree : Trees \cup {Same}, tag : Tags \cup {NoTag, Same}]
       /\ job.tree # Same =>
              \A r \in DOMAIN runs : runs[r].config = job.config => job.counted < r
    \/ job \in [op : {"resolve"}, name : Trees \cup Tags]
    \/ job \in [op : {"begin"}, config : DOMAIN configs, tree : Trees]

JobsFit == jobs = [w \in Workers |-> jobs[w]] /\ \A w \in Workers : JobFits(jobs[w])

ConfigsInv == RowsRight /\ TagsUnique /\ Named(active) /\ JobsFit /\ RunKeepsItsTree

-----------------------------------------------------------------------------

\* Rows only come to be, and what a row is called only grows.
RowsStay ==
    /\ DOMAIN configs \subseteq DOMAIN configs'
    /\ \A c \in DOMAIN configs : configs[c].names \subseteq configs'[c].names

\* A job stays right while rows come to be and change their names, and while runs
\* are begun.
LEMMA JobStaysFit ==
    ASSUME NEW job, JobFits(job), RowsStay, RowsRight, RowsRight',
           runs' = runs \/ \E run : runs' = Append(runs, run)
    PROVE  JobFits(job)'
<1>0. runs \in Seq([config : Nat, tree : Trees]) BY DEF RowsRight
<1>1. Len(runs) \in Nat /\ Len(runs') \in Nat /\ Len(runs) <= Len(runs')
  BY <1>0
<1>2. CASE \/ job = Idle
           \/ job \in [op : {"activate"}, name : Tags]
           \/ job \in [op : {"resolve"}, name : Trees \cup Tags]
  BY <1>2 DEF JobFits, Idle
<1>3. CASE /\ job \in [op : {"insert"}, config : Row, activate : BOOLEAN]
           /\ Names(job.config) \subseteq job.config.names /\ job.config.counted = 0
           /\ job.activate => job.config.tag # NoTag
  BY <1>3 DEF JobFits, Names
<1>4. CASE job \in [op : {"set_active"}, name : Trees \cup Tags] /\ Named(job.name)
  BY <1>4 DEF JobFits, Named, RowsStay
<1>5. CASE /\ job \in [op : {"update"}, config : DOMAIN configs, counted : 0 .. Len(runs),
                       tree : Trees \cup {Same}, tag : Tags \cup {NoTag, Same}]
           /\ job.tree # Same =>
                  \A r \in DOMAIN runs : runs[r].config = job.config => job.counted < r
  <2>1. job \in [op : {"update"}, config : DOMAIN configs', counted : 0 .. Len(runs'),
                 tree : Trees \cup {Same}, tag : Tags \cup {NoTag, Same}]
    BY <1>1, <1>5 DEF RowsStay
  <2>2. ASSUME NEW r \in DOMAIN runs', r \notin DOMAIN runs PROVE job.counted < r
    BY <1>0, <1>1, <1>5, <2>2
  <2>3. \A r \in DOMAIN runs : r \in DOMAIN runs' /\ runs'[r] = runs[r]
    BY <1>0
  <2> QED BY <1>5, <2>1, <2>2, <2>3 DEF JobFits
<1>6. CASE job \in [op : {"begin"}, config : DOMAIN configs, tree : Trees]
  BY <1>6 DEF JobFits, RowsStay
<1> QED BY <1>2, <1>3, <1>4, <1>5, <1>6 DEF JobFits

\* What is said of the names and of the jobs of the other workers outlives a step.
LEMMA OthersStayFit ==
    ASSUME ConfigsInv, RowsStay, RowsRight',
           runs' = runs \/ \E run : runs' = Append(runs, run),
           NEW w \in Workers, NEW job, Becomes(w, job), JobFits(job)'
    PROVE  JobsFit'
<1>1. \A v \in Workers : jobs'[v] = IF v = w THEN job ELSE jobs[v]
  BY DEF Becomes, ConfigsInv, JobsFit
<1>2. jobs' = [v \in Workers |-> jobs'[v]]
  BY DEF Becomes, ConfigsInv, JobsFit
<1>3. ASSUME NEW v \in Workers PROVE JobFits(jobs[v])'
  <2>1. CASE v = w
    <3>1. jobs'[v] = job BY <1>1, <2>1
    <3> QED BY <3>1 DEF JobFits
  <2>2. CASE v # w
    <3>1. PICK kept : kept = jobs[v] OBVIOUS
    <3>2. JobFits(kept) BY <3>1 DEF ConfigsInv, JobsFit
    <3>3. JobFits(kept)' BY <3>2, JobStaysFit DEF ConfigsInv
    <3>4. jobs'[v] = kept BY <1>1, <2>2, <3>1
    <3> QED BY <3>3, <3>4 DEF JobFits
  <2> QED BY <2>1, <2>2
<1> QED BY <1>2, <1>3 DEF JobsFit

-----------------------------------------------------------------------------

\* A step that writes no row and begins no run changes only what a worker does
\* and, if that, which name is active.
LEMMA NothingWritten ==
    ASSUME ConfigsInv, UNCHANGED <<configs, runs>>, Named(active'),
           NEW w \in Workers, NEW job, Becomes(w, job), JobFits(job)
    PROVE  ConfigsInv'
<1>1. RowsStay BY DEF RowsStay
<1>2. RowsRight' BY DEF ConfigsInv, RowsRight
<1>3. JobFits(job)'
  <2>1. RowsRight BY DEF ConfigsInv
  <2> QED BY <1>1, <1>2, <2>1, JobStaysFit
<1>4. JobsFit' BY <1>1, <1>2, <1>3, OthersStayFit
<1>5. TagsUnique' BY DEF ConfigsInv, TagsUnique
<1>6. Named(active)' BY DEF Named
<1>7. RunKeepsItsTree' BY DEF ConfigsInv, RunKeepsItsTree
<1> QED BY <1>2, <1>4, <1>5, <1>6, <1>7 DEF ConfigsInv

LEMMA FoundIsNamed ==
    ASSUME ConfigsInv, NEW name, Found(name) # {}
    PROVE  Named(name)
BY DEF ConfigsInv, RowsRight, Found, Named

LEMMA IdleFits == JobFits(Idle)
BY DEF JobFits

LEMMA RowsAreRows ==
    ASSUME ConfigsInv, NEW c \in DOMAIN configs
    PROVE  configs[c] \in Row
BY DEF ConfigsInv, RowsRight

LEMMA ActiveTyped == ConfigsInv => active \in Trees \cup Tags
<1> SUFFICES ASSUME ConfigsInv PROVE active \in Trees \cup Tags
  OBVIOUS
<1>1. PICK c \in DOMAIN configs : active \in configs[c].names
  BY DEF ConfigsInv, Named
<1> QED BY <1>1, RowsAreRows DEF Row

LEMMA InitGivesInv == ConfigsInit => ConfigsInv
<1> SUFFICES ASSUME ConfigsInit PROVE ConfigsInv
  OBVIOUS
<1>1. PICK tree \in Trees, tag \in Tags \cup {NoTag} :
          /\ configs = <<Config(tree, tag)>>
          /\ active = IF tag = NoTag THEN tree ELSE tag
  BY DEF ConfigsInit
<1>2. runs = <<>> /\ jobs = [w \in Workers |-> Idle]
  BY DEF ConfigsInit
<1>3. Config(tree, tag) \in Row /\ Names(Config(tree, tag)) = Config(tree, tag).names
  BY WorkflowConfigsAssumption DEF Config, Row, Names
<1>4. RowsRight
  <2>1. DOMAIN configs = {1} /\ configs[1] = Config(tree, tag) BY <1>1
  <2>2. configs \in Seq(Row) /\ configs # <<>> BY <1>1, <1>3
  <2>3. runs \in Seq([config : Nat, tree : Trees]) /\ Len(runs) = 0 BY <1>2
  <2>4. Config(tree, tag).counted = 0 BY DEF Config
  <2> QED BY <1>3, <2>1, <2>2, <2>3, <2>4 DEF RowsRight
<1>5. TagsUnique BY <1>1 DEF TagsUnique
<1>6. Named(active) BY <1>1, WorkflowConfigsAssumption DEF Named, Config
<1>7. JobsFit BY <1>2, IdleFits DEF JobsFit
<1>8. RunKeepsItsTree BY <1>2 DEF RunKeepsItsTree
<1> QED BY <1>4, <1>5, <1>6, <1>7, <1>8 DEF ConfigsInv

-----------------------------------------------------------------------------

LEMMA CheckTagKeeps ==
    ASSUME ConfigsInv, NEW w \in Workers, CheckTag(w)
    PROVE  ConfigsInv'
<1>1. PICK tree \in Trees, tag \in Tags \cup {NoTag}, activate \in BOOLEAN :
          /\ activate => tag # NoTag
          /\ Becomes(w, [op |-> "insert", config |-> Config(tree, tag), activate |-> activate])
  BY DEF CheckTag
<1>2. Config(tree, tag) \in Row /\ Names(Config(tree, tag)) = Config(tree, tag).names
  BY WorkflowConfigsAssumption DEF Config, Row, Names
<1>3. JobFits([op |-> "insert", config |-> Config(tree, tag), activate |-> activate])
  BY <1>1, <1>2 DEF JobFits, Config
<1>4. UNCHANGED <<configs, active, runs>> BY DEF CheckTag
<1>5. Named(active') BY <1>4 DEF ConfigsInv
<1> QED BY <1>1, <1>3, <1>4, <1>5, NothingWritten

LEMMA CheckActiveKeeps ==
    ASSUME ConfigsInv, NEW w \in Workers, CheckActive(w)
    PROVE  ConfigsInv'
<1>1. PICK name \in Trees \cup Tags :
          Becomes(w, IF Known(name) THEN [op |-> "set_active", name |-> name] ELSE Idle)
  BY DEF CheckActive
<1>2. JobFits(IF Known(name) THEN [op |-> "set_active", name |-> name] ELSE Idle)
  BY FoundIsNamed, IdleFits DEF JobFits, Known
<1>3. UNCHANGED <<configs, active, runs>> BY DEF CheckActive
<1>4. Named(active') BY <1>3 DEF ConfigsInv
<1> QED BY <1>1, <1>2, <1>3, <1>4, NothingWritten

LEMMA SetActiveKeeps ==
    ASSUME ConfigsInv, NEW w \in Workers, SetActive(w)
    PROVE  ConfigsInv'
<1>1. JobFits(jobs[w]) BY DEF ConfigsInv, JobsFit
<1>2. Named(jobs[w].name) BY <1>1 DEF JobFits, SetActive, At, Idle
<1>3. Named(active') BY <1>2 DEF SetActive
<1> QED BY <1>3, IdleFits, NothingWritten DEF SetActive

LEMMA EditKeeps ==
    ASSUME ConfigsInv, NEW w \in Workers, Edit(w)
    PROVE  ConfigsInv'
<1>1. PICK c \in DOMAIN configs, tree \in Trees, tag \in Tags \cup {NoTag} :
          /\ Editable(c, tree, tag)
          /\ Becomes(w, [op |-> "update", config |-> c, counted |-> Len(runs),
                         tree |-> IF tree = configs[c].tree THEN Same ELSE tree,
                         tag  |-> IF tag = configs[c].tag THEN Same ELSE tag])
  BY DEF Edit
<1> DEFINE job == [op |-> "update", config |-> c, counted |-> Len(runs),
                   tree |-> IF tree = configs[c].tree THEN Same ELSE tree,
                   tag  |-> IF tag = configs[c].tag THEN Same ELSE tag]
<1>2. Len(runs) \in Nat BY DEF ConfigsInv, RowsRight
<1>3. job \in [op : {"update"}, config : DOMAIN configs, counted : 0 .. Len(runs),
                tree : Trees \cup {Same}, tag : Tags \cup {NoTag, Same}]
  BY <1>2
<1>4. job.tree # Same => \A r \in DOMAIN runs : runs[r].config # c
  BY <1>1 DEF Editable, Changes, Live
<1>5. JobFits(job)
  BY <1>3, <1>4 DEF JobFits
<1>6. UNCHANGED <<configs, active, runs>> BY DEF Edit
<1>7. Named(active') BY <1>6 DEF ConfigsInv
<1> QED BY <1>1, <1>5, <1>6, <1>7, NothingWritten

LEMMA ReadActiveKeeps ==
    ASSUME ConfigsInv, NEW w \in Workers, ReadActive(w)
    PROVE  ConfigsInv'
<1>1. JobFits([op |-> "resolve", name |-> active]) BY ActiveTyped DEF JobFits
<1>2. Named(active') BY DEF ConfigsInv, ReadActive
<1> QED BY <1>1, <1>2, NothingWritten DEF ReadActive

LEMMA ReadVersionKeeps ==
    ASSUME ConfigsInv, NEW w \in Workers, ReadVersion(w)
    PROVE  ConfigsInv'
<1>1. UNCHANGED <<configs, active, runs>> BY DEF ReadVersion
<1>2. Named(active') BY <1>1 DEF ConfigsInv
<1>3. CASE Becomes(w, [op |-> "resolve", name |-> active])
  <2>1. JobFits([op |-> "resolve", name |-> active]) BY ActiveTyped DEF JobFits
  <2> QED BY <1>1, <1>2, <1>3, <2>1, NothingWritten
<1>4. ASSUME NEW c \in DOMAIN configs,
             Becomes(w, [op |-> "begin", config |-> c, tree |-> configs[c].tree])
      PROVE  ConfigsInv'
  <2>1. JobFits([op |-> "begin", config |-> c, tree |-> configs[c].tree])
    BY RowsAreRows DEF JobFits, Row
  <2> QED BY <1>1, <1>2, <1>4, <2>1, NothingWritten
<1> QED BY <1>3, <1>4 DEF ReadVersion, Found

LEMMA ResolveKeeps ==
    ASSUME ConfigsInv, NEW w \in Workers, Resolve(w)
    PROVE  ConfigsInv'
<1>1. UNCHANGED <<configs, active, runs>> BY DEF Resolve
<1>2. Named(active') BY <1>1 DEF ConfigsInv
<1>3. CASE Becomes(w, Idle)
  BY <1>1, <1>2, <1>3, IdleFits, NothingWritten
<1>4. ASSUME NEW c \in DOMAIN configs,
             Becomes(w, [op |-> "begin", config |-> c, tree |-> configs[c].tree])
      PROVE  ConfigsInv'
  <2>1. JobFits([op |-> "begin", config |-> c, tree |-> configs[c].tree])
    BY RowsAreRows DEF JobFits, Row
  <2> QED BY <1>1, <1>2, <1>4, <2>1, NothingWritten
<1>5. Len(configs) \in DOMAIN configs BY DEF ConfigsInv, RowsRight
<1> QED BY <1>3, <1>4, <1>5 DEF Resolve, Found

LEMMA UnwrittenInsert ==
    ASSUME ConfigsInv, NEW w \in Workers, At(w, "insert")
    PROVE  /\ jobs[w].config \in Row
           /\ Names(jobs[w].config) \subseteq jobs[w].config.names
           /\ jobs[w].config.counted = 0
           /\ jobs[w].activate => jobs[w].config.tag \in Tags
<1>1. JobFits(jobs[w]) BY DEF ConfigsInv, JobsFit
<1> QED BY <1>1 DEF JobFits, At, Idle, Row

LEMMA InsertConfigKeeps ==
    ASSUME ConfigsInv, NEW w \in Workers, InsertConfig(w)
    PROVE  ConfigsInv'
<1> DEFINE config == jobs[w].config
<1>1. At(w, "insert") /\ UNCHANGED <<active, runs>> BY DEF InsertConfig
<1>2. CASE TagTaken(config.tag, DOMAIN configs)
  <2>1. Becomes(w, Idle) /\ UNCHANGED configs BY <1>2 DEF InsertConfig
  <2>2. Named(active') BY <1>1 DEF ConfigsInv
  <2> QED BY <1>1, <2>1, <2>2, IdleFits, NothingWritten
<1>3. CASE ~TagTaken(config.tag, DOMAIN configs)
  <2>1. config \in Row /\ Names(config) \subseteq config.names /\ config.counted = 0
        /\ (jobs[w].activate => config.tag \in Tags)
    BY <1>1, UnwrittenInsert
  <2>2. configs' = Append(configs, config) BY <1>3 DEF InsertConfig
  <2>3. PICK job : /\ Becomes(w, job)
                   /\ job = IF jobs[w].activate
                               THEN [op |-> "activate", name |-> config.tag] ELSE Idle
    BY <1>3 DEF InsertConfig
  <2>4. JobFits(job)' BY <2>1, <2>3 DEF JobFits
  <2>5. configs \in Seq(Row) /\ runs \in Seq([config : Nat, tree : Trees])
    BY DEF ConfigsInv, RowsRight
  <2>6. /\ DOMAIN configs' = DOMAIN configs \cup {Len(configs) + 1}
        /\ Len(configs) + 1 \notin DOMAIN configs
        /\ configs'[Len(configs) + 1] = config
        /\ \A c \in DOMAIN configs : configs'[c] = configs[c]
    BY <2>2, <2>5
  <2>7. RowsStay BY <2>6 DEF RowsStay
  <2>8. RowsRight'
    <3>1. configs' \in Seq(Row) /\ configs' # <<>> BY <2>1, <2>2, <2>5
    <3>2. /\ runs' \in Seq([config : Nat, tree : Trees]) /\ Len(runs') \in Nat
          /\ \A r \in DOMAIN runs' : runs'[r].config \in DOMAIN configs'
      BY <1>1, <2>5, <2>6 DEF ConfigsInv, RowsRight
    <3>3. \A c \in DOMAIN configs' : /\ Names(configs'[c]) \subseteq configs'[c].names
                                     /\ configs'[c].counted <= Len(runs')
      BY <1>1, <2>1, <2>6, <3>2 DEF ConfigsInv, RowsRight
    <3> QED BY <3>1, <3>2, <3>3 DEF RowsRight, Names
  <2>9. TagsUnique'
    BY <1>3, <2>6 DEF ConfigsInv, TagsUnique, TagTaken
  <2>10. Named(active)' BY <1>1, <2>6 DEF ConfigsInv, Named
  <2>11. JobsFit' BY <1>1, <2>3, <2>4, <2>7, <2>8, OthersStayFit
  <2>12. RunKeepsItsTree'
    <3>1. \A r \in DOMAIN runs : runs[r].config \in DOMAIN configs BY DEF ConfigsInv, RowsRight
    <3> QED BY <1>1, <2>6, <3>1 DEF ConfigsInv, RunKeepsItsTree
  <2> QED BY <2>8, <2>9, <2>10, <2>11, <2>12 DEF ConfigsInv
<1> QED BY <1>2, <1>3

LEMMA UnwrittenUpdate ==
    ASSUME ConfigsInv, NEW w \in Workers, At(w, "update")
    PROVE  /\ jobs[w] \in [op : {"update"}, config : DOMAIN configs, counted : 0 .. Len(runs),
                           tree : Trees \cup {Same}, tag : Tags \cup {NoTag, Same}]
           /\ jobs[w].tree # Same =>
                  \A r \in DOMAIN runs : runs[r].config = jobs[w].config => jobs[w].counted < r
<1>1. JobFits(jobs[w]) BY DEF ConfigsInv, JobsFit
<1> QED BY <1>1 DEF JobFits, At, Idle

LEMMA UpdateConfigKeeps ==
    ASSUME ConfigsInv, NEW w \in Workers, UpdateConfig(w)
    PROVE  ConfigsInv'
<1> DEFINE c       == jobs[w].config
           updated == Updated(configs[c], jobs[w])
<1>1. At(w, "update") /\ Becomes(w, Idle) /\ UNCHANGED <<active, runs>> BY DEF UpdateConfig
<1>2. CASE TagTaken(updated.tag, DOMAIN configs \ {c})
  <2>1. UNCHANGED configs BY <1>2 DEF UpdateConfig
  <2>2. Named(active') BY <1>1 DEF ConfigsInv
  <2> QED BY <1>1, <2>1, <2>2, IdleFits, NothingWritten
<1>3. CASE ~TagTaken(updated.tag, DOMAIN configs \ {c})
  <2>1. configs' = [configs EXCEPT ![c] = updated] BY <1>3 DEF UpdateConfig
  <2>2. /\ c \in DOMAIN configs /\ jobs[w].counted \in 0 .. Len(runs)
        /\ jobs[w].tree \in Trees \cup {Same} /\ jobs[w].tag \in Tags \cup {NoTag, Same}
        /\ jobs[w].tree # Same =>
               \A r \in DOMAIN runs : runs[r].config = c => jobs[w].counted < r
    BY <1>1, UnwrittenUpdate
  <2>3. configs \in Seq(Row) /\ runs \in Seq([config : Nat, tree : Trees])
    BY DEF ConfigsInv, RowsRight
  <2>4. configs[c] \in Row /\ configs[c].counted <= Len(runs) /\ Len(runs) \in Nat
    BY <2>2, <2>3 DEF ConfigsInv, RowsRight
  <2>5. /\ updated \in Row
        /\ Names(updated) \subseteq updated.names
        /\ updated.counted <= Len(runs)
        /\ configs[c].names \subseteq updated.names
    BY <2>2, <2>4 DEF Updated, Row, Names
  <2>6. DOMAIN configs' = DOMAIN configs /\ configs'[c] = updated
        /\ \A d \in DOMAIN configs \ {c} : configs'[d] = configs[d]
    BY <2>1, <2>2
  <2>7. RowsStay BY <2>5, <2>6 DEF RowsStay
  <2>8. RowsRight'
    <3>1. configs' \in Seq(Row) /\ configs' # <<>> BY <2>1, <2>2, <2>3, <2>5
    <3>2. /\ runs' \in Seq([config : Nat, tree : Trees])
          /\ \A r \in DOMAIN runs' : runs'[r].config \in DOMAIN configs'
      BY <1>1, <2>3, <2>6 DEF ConfigsInv, RowsRight
    <3>3. \A d \in DOMAIN configs' : /\ Names(configs'[d]) \subseteq configs'[d].names
                                     /\ configs'[d].counted <= Len(runs')
      BY <1>1, <2>5, <2>6 DEF ConfigsInv, RowsRight
    <3> QED BY <3>1, <3>2, <3>3 DEF RowsRight, Names
  <2>9. TagsUnique'
    BY <1>3, <2>6 DEF ConfigsInv, TagsUnique, TagTaken
  <2>10. Named(active)' BY <1>1, <2>5, <2>6 DEF ConfigsInv, Named
  <2>11. JobFits(Idle)' BY DEF JobFits
  <2>12. JobsFit' BY <1>1, <2>7, <2>8, <2>11, OthersStayFit
  <2>13. RunKeepsItsTree'
    <3> SUFFICES ASSUME NEW r \in DOMAIN runs,
                        configs'[runs[r].config].tree # runs[r].tree
                 PROVE  configs'[runs[r].config].counted < r
      BY <1>1 DEF RunKeepsItsTree
    <3>1. runs[r].config \in DOMAIN configs /\ r \in Nat BY <2>3 DEF ConfigsInv, RowsRight
    <3>2. CASE runs[r].config # c
      BY <2>6, <3>1, <3>2 DEF ConfigsInv, RunKeepsItsTree
    <3>3. CASE runs[r].config = c /\ jobs[w].tree = Same
      <4>1. updated.tree = configs[c].tree /\ updated.counted = configs[c].counted
        BY <3>3 DEF Updated
      <4> QED BY <2>6, <3>3, <4>1 DEF ConfigsInv, RunKeepsItsTree
    <3>4. CASE runs[r].config = c /\ jobs[w].tree # Same
      <4>1. updated.counted = jobs[w].counted BY <3>4 DEF Updated
      <4> QED BY <2>2, <2>6, <3>4, <4>1
    <3> QED BY <3>2, <3>3, <3>4
  <2> QED BY <2>8, <2>9, <2>10, <2>12, <2>13 DEF ConfigsInv
<1> QED BY <1>2, <1>3

LEMMA BeginRunKeeps ==
    ASSUME ConfigsInv, NEW w \in Workers, BeginRun(w)
    PROVE  ConfigsInv'
<1> DEFINE run == [config |-> jobs[w].config, tree |-> jobs[w].tree]
<1>1. At(w, "begin") /\ Becomes(w, Idle) /\ UNCHANGED <<configs, active>>
      /\ runs' = Append(runs, run)
  BY DEF BeginRun
<1>2. run \in [config : DOMAIN configs, tree : Trees]
  <2>1. JobFits(jobs[w]) BY DEF ConfigsInv, JobsFit
  <2> QED BY <1>1, <2>1 DEF JobFits, At, Idle
<1>3. runs \in Seq([config : Nat, tree : Trees]) /\ Len(runs) \in Nat
  BY DEF ConfigsInv, RowsRight
<1>4. /\ DOMAIN runs' = DOMAIN runs \cup {Len(runs) + 1} /\ Len(runs') = Len(runs) + 1
      /\ runs'[Len(runs) + 1] = run /\ \A r \in DOMAIN runs : runs'[r] = runs[r]
  BY <1>1, <1>3
<1>5. \A c \in DOMAIN configs : configs[c].counted \in Nat /\ configs[c].counted <= Len(runs)
  BY RowsAreRows DEF ConfigsInv, RowsRight, Row
<1>6. RowsStay BY <1>1 DEF RowsStay
<1>7. RowsRight'
  <2>1. /\ runs' \in Seq([config : Nat, tree : Trees])
        /\ \A r \in DOMAIN runs' : runs'[r].config \in DOMAIN configs
    <3>1. DOMAIN configs \subseteq Nat BY DEF ConfigsInv, RowsRight
    <3>2. run \in [config : Nat, tree : Trees] BY <1>2, <3>1
    <3> QED BY <1>1, <1>2, <1>3, <1>4, <3>2 DEF ConfigsInv, RowsRight
  <2>2. \A c \in DOMAIN configs : configs[c].counted <= Len(runs') BY <1>3, <1>4, <1>5
  <2> QED BY <1>1, <2>1, <2>2 DEF ConfigsInv, RowsRight, Names
<1>8. TagsUnique' BY <1>1 DEF ConfigsInv, TagsUnique
<1>9. Named(active)' BY <1>1 DEF ConfigsInv, Named
<1>10. JobFits(Idle)' BY DEF JobFits
<1>11. JobsFit' BY <1>1, <1>6, <1>7, <1>10, OthersStayFit
<1>12. RunKeepsItsTree'
  <2> SUFFICES ASSUME NEW r \in DOMAIN runs',
                      configs[runs'[r].config].tree # runs'[r].tree
               PROVE  configs[runs'[r].config].counted < r
    BY <1>1 DEF RunKeepsItsTree
  <2>1. CASE r \in DOMAIN runs
    BY <1>4, <2>1 DEF ConfigsInv, RunKeepsItsTree
  <2>2. CASE r = Len(runs) + 1
    <3>1. runs'[r] = run /\ run.config \in DOMAIN configs BY <1>2, <1>4, <2>2
    <3> QED BY <1>3, <1>5, <2>2, <3>1
  <2> QED BY <1>4, <2>1, <2>2
<1> QED BY <1>7, <1>8, <1>9, <1>11, <1>12 DEF ConfigsInv

-----------------------------------------------------------------------------

\* The invariant holds of every state, whatever workers do at once: tags stay
\* unique, the active name is one that a row has had, and what a worker has read
\* still allows what it is about to write (models/workflows.py,
\* services/workflows/__init__.py).
THEOREM ConfigsInvariant == ConfigsSpec => []ConfigsInv
<1>1. ASSUME ConfigsInv, [ConfigsNext]_configVars PROVE ConfigsInv'
  <2>1. CASE UNCHANGED configVars
    BY <1>1, <2>1 DEF configVars, ConfigsInv, RowsRight, TagsUnique, Named, JobsFit, JobFits,
                      RunKeepsItsTree, Names
  <2>2. ASSUME NEW w \in Workers,
               \/ CheckTag(w) \/ InsertConfig(w)
               \/ CheckActive(w) \/ SetActive(w) \/ Edit(w) \/ UpdateConfig(w)
               \/ ReadActive(w) \/ ReadVersion(w) \/ Resolve(w) \/ BeginRun(w)
        PROVE  ConfigsInv'
    BY <1>1, <2>2, CheckTagKeeps, InsertConfigKeeps, CheckActiveKeeps, SetActiveKeeps,
       EditKeeps, UpdateConfigKeeps, ReadActiveKeeps, ReadVersionKeeps, ResolveKeeps,
       BeginRunKeeps
  <2> QED BY <1>1, <2>1, <2>2 DEF ConfigsNext
<1> QED BY <1>1, InitGivesInv, PTL DEF ConfigsSpec

\* A run goes on with the tree it was begun on, whatever operators do, unless an
\* edit had counted the runs of its row before it was there (receive_before_update,
\* models/workflows.py).
THEOREM RunKeepsItsTreeHolds == ConfigsSpec => []RunKeepsItsTree
<1>1. ConfigsInv => RunKeepsItsTree BY DEF ConfigsInv
<1> QED BY <1>1, ConfigsInvariant, PTL

\* Calls find the active configuration by its name (active_config,
\* models/workflows.py): the name is or was that of a row, and a tag is the tag of
\* one row.
THEOREM ActiveNameResolvesHolds == ConfigsSpec => []ActiveNameResolves
<1>1. ConfigsInv => ActiveNameResolves
  <2> SUFFICES ASSUME ConfigsInv PROVE ActiveNameResolves
    OBVIOUS
  <2>1. \E c \in DOMAIN configs : active \in configs[c].names BY DEF ConfigsInv, Named
  <2>2. ASSUME NEW c \in Found(active), NEW d \in Found(active), c # d, active \notin Trees
        PROVE  FALSE
    <3>1. c \in DOMAIN configs /\ d \in DOMAIN configs /\ active \in Names(configs[c])
          /\ active \in Names(configs[d])
      BY DEF Found
    <3>2. configs[c] \in Row /\ configs[d] \in Row BY <3>1, RowsAreRows
    <3>3. configs[c].tag = active /\ configs[d].tag = active /\ active # NoTag
      BY <2>2, <3>1, <3>2 DEF Names, Row
    <3> QED BY <2>2, <3>1, <3>3 DEF ConfigsInv, TagsUnique
  <2> QED BY <2>1, <2>2 DEF ActiveNameResolves
<1> QED BY <1>1, ConfigsInvariant, PTL

-----------------------------------------------------------------------------
(* Provisioning: the files *)

Files == {<<>>} \cup RoutingFiles \cup GreetingFiles \cup HolidayFiles

EntriesOf(files) == UNION {ToSet(f) : f \in files}

Routing == [target  : {e.target : e \in EntriesOf(RoutingFiles)},
            message : {e.message : e \in EntriesOf(RoutingFiles) \cup EntriesOf(GreetingFiles)},
            active  : BOOLEAN]

\* A command is at an entry of its file or past the last, and has rows to take out of
\* service only if it is one that replaces them.
CommandFits ==
    /\ routings \in Seq(Routing)
    /\ command \in [kind    : {"none", "routings", "routing", "greetings", "holidays"},
                    status  : {"running", "declined", "failed", "cut", "done"},
                    file    : Files,
                    next    : Nat \ {0},
                    rows    : SUBSET DOMAIN routings,
                    planned : SUBSET Queues]
    /\ command.next <= Len(command.file) + 1
    /\ command.kind \in {"routings", "routing"} => command.file \in RoutingFiles
    /\ command.kind = "greetings" => command.file \in GreetingFiles
    /\ command.kind = "holidays" => command.file \in HolidayFiles
    /\ command.rows # {} => command.kind \in {"routings", "routing"} /\ command.status # "done"
    /\ command.status = "done" => command.next = Len(command.file) + 1

UnderWay(kinds) == command.kind \in kinds /\ command.status \in {"running", "done"}

ListedBefore(file, t, k) == {i \in Listed(file, t) : i < k}

\* There are as many rows as entries, and with the same messages.
MadeFrom(rows, file, entries) ==
    /\ Cardinality(rows) = Cardinality(entries)
    /\ \A r \in rows : \E i \in entries : routings[r].message = file[i].message
    /\ \A i \in entries : \E r \in rows : routings[r].message = file[i].message

\* The rows that are in service, but for those the command has yet to take out of it,
\* are those of the entries it has applied.
RoutingsFit ==
    UnderWay({"routings", "routing"}) =>
        \A f \in {command.file}, k \in {command.next} : \A t \in TargetsOf(f) :
            \A kept \in {ActiveRows(t) \ command.rows}, made \in {ListedBefore(f, t, k)} :
                MadeFrom(kept, f, made)

\* The same for the greetings: an entry may be overridden by a later one.
GreetingsFit ==
    UnderWay({"greetings"}) =>
        \A f \in {command.file}, k \in {command.next} : \A i \in 1 .. k - 1, t \in TargetsOf(f) :
            /\ f[i].target = t
            /\ \A j \in i + 1 .. k - 1 : f[j].target # t
            /\ Cardinality(ActiveRows(t)) = 1
          => \A r \in ActiveRows(t) : routings[r].message = f[i].message

\* And for the holidays, with the queues of the entry that the command is at.
HolidaysFit ==
    UnderWay({"holidays"}) =>
        /\ \A i \in 1 .. command.next - 1 : \A q \in ToSet(command.file[i].queues) :
              <<q, command.file[i].date>> \in holidays
        /\ command.next <= Len(command.file) =>
              \A q \in command.planned : <<q, Entry.date>> \in holidays

FilesInv == CommandFits /\ RoutingsFit /\ GreetingsFit /\ HolidaysFit

-----------------------------------------------------------------------------

\* A file is a sequence of entries.
LEMMA FileIsSequence ==
    ASSUME NEW f \in Files
    PROVE  f \in Seq(ToSet(f)) /\ DOMAIN f = 1 .. Len(f) /\ Len(f) \in Nat
<1>1. f \in Seq(ToSet(f))
  <2>1. CASE f = <<>>
    BY <2>1
  <2>2. CASE f \in RoutingFiles \cup GreetingFiles \cup HolidayFiles
    BY <2>2, ProvisioningAssumption
  <2> QED BY <2>1, <2>2 DEF Files
<1> QED BY <1>1

\* The routings of a number in service are finitely many rows.
LEMMA ActiveRowsAre ==
    ASSUME CommandFits, NEW t
    PROVE  /\ ActiveRows(t) = {r \in DOMAIN routings : routings[r].target = t /\ routings[r].active}
           /\ IsFiniteSet(ActiveRows(t))
<1>1. ActiveRows(t) = {r \in DOMAIN routings : routings[r].target = t /\ routings[r].active}
  BY DEF ActiveRows, RowsOf
<1>2. Len(routings) \in Int /\ DOMAIN routings = 1 .. Len(routings)
  BY DEF CommandFits
<1>3. IsFiniteSet(1 .. Len(routings))
  BY <1>2, FS_Interval
<1>4. ActiveRows(t) \in SUBSET (1 .. Len(routings))
  BY <1>1, <1>2
<1> HIDE DEF ActiveRows
<1>5. IsFiniteSet(ActiveRows(t))
  BY ONLY <1>3, <1>4, FS_Subset
<1> QED BY <1>1, <1>5

\* So are the entries of a file for a number.
LEMMA ListedFinite ==
    ASSUME NEW f \in Files, NEW t, NEW k
    PROVE  IsFiniteSet(ListedBefore(f, t, k)) /\ ListedBefore(f, t, k) \subseteq DOMAIN f
<1>1. Len(f) \in Int /\ DOMAIN f = 1 .. Len(f)
  BY FileIsSequence
<1>2. IsFiniteSet(1 .. Len(f))
  BY <1>1, FS_Interval
<1>3. ListedBefore(f, t, k) \in SUBSET (1 .. Len(f))
  BY <1>1 DEF ListedBefore, Listed
<1>4. IsFiniteSet(ListedBefore(f, t, k))
  BY ONLY <1>2, <1>3, FS_Subset
<1> QED BY <1>1, <1>3, <1>4

\* An entry of a command's file.
LEMMA EntryIs ==
    ASSUME CommandFits, EntryLeft, NEW k, k = command.next
    PROVE  /\ k \in 1 .. Len(command.file) /\ DOMAIN command.file = 1 .. Len(command.file)
           /\ k \in Nat /\ Len(command.file) \in Nat
           /\ Entry = command.file[k] /\ Entry \in ToSet(command.file)
<1>1. command.file \in Files
  BY DEF CommandFits
<1>2. DOMAIN command.file = 1 .. Len(command.file) /\ Len(command.file) \in Nat
  BY <1>1, FileIsSequence
<1>3. k \in DOMAIN command.file /\ Entry = command.file[k]
  BY DEF EntryLeft, Entry
<1>4. command.file[k] \in ToSet(command.file)
  BY <1>3 DEF ToSet
<1> QED BY <1>2, <1>3, <1>4

\* A command that begins has applied nothing yet.
LEMMA BeginsFit ==
    ASSUME FilesInv, NEW c, Begin(c),
           CommandFits', c.next = 1 \/ c.status \notin {"running", "done"},
           c.kind \in {"routings", "routing"} /\ c.status \in {"running", "done"} => c.rows = Existing(c.file),
           c.planned = {}
    PROVE  FilesInv'
<1>1. command' = c /\ routings' = routings /\ holidays' = holidays
  BY DEF Begin
<1>2. RoutingsFit'
  <2>1. SUFFICES ASSUME UnderWay({"routings", "routing"})',
                        NEW f, f = command'.file, NEW k, k = command'.next, NEW t \in TargetsOf(f),
                        NEW kept, kept = ActiveRows(t)' \ command'.rows,
                        NEW made, made = ListedBefore(f, t, k)
                 PROVE  MadeFrom(kept, f, made)'
    BY DEF RoutingsFit
  <2>2. c.rows = Existing(f) /\ k = 1 /\ f \in Files
    BY <1>1, <2>1 DEF UnderWay, CommandFits
  <2>3. ActiveRows(t)' = ActiveRows(t) /\ ActiveRows(t) \subseteq Existing(f)
    BY <1>1 DEF ActiveRows, RowsOf, Existing
  <2>4. kept = {}
    BY <1>1, <2>1, <2>2, <2>3
  <2>5. made = {}
    BY <2>1, <2>2, FileIsSequence DEF ListedBefore, Listed
  <2> QED BY <2>4, <2>5 DEF MadeFrom
<1>3. GreetingsFit' /\ HolidaysFit'
  BY <1>1 DEF GreetingsFit, HolidaysFit, UnderWay
<1> QED BY <1>2, <1>3 DEF FilesInv

\* The rows that are kept for a number, and the entries they were made from.
LEMMA RoutingsAre ==
    ASSUME RoutingsFit, UnderWay({"routings", "routing"}),
           NEW f, f = command.file, NEW k, k = command.next, NEW t \in TargetsOf(f),
           NEW kept, kept = ActiveRows(t) \ command.rows,
           NEW made, made = ListedBefore(f, t, k)
    PROVE  MadeFrom(kept, f, made)
BY DEF RoutingsFit

\* What a step that leaves the rows and the command's place alone keeps.
LEMMA NothingAppliedFits ==
    ASSUME FilesInv, UNCHANGED <<routings, holidays>>,
           \/ UNCHANGED command
           \/ \E s \in {"declined", "failed", "cut"} : command.status = "running" /\ Goes(s)
    PROVE  FilesInv'
<1>1. CASE UNCHANGED command
  <2>0. CommandFits /\ command' = command /\ routings' = routings
    BY <1>1 DEF FilesInv
  <2>1. CommandFits'
    BY ONLY <2>0 DEF CommandFits
  <2>2. RoutingsFit'
    <3>1. \A t : ActiveRows(t)' = ActiveRows(t)
      BY <2>0 DEF ActiveRows, RowsOf
    <3>2. RoutingsFit
      BY DEF FilesInv
    <3>3. SUFFICES ASSUME UnderWay({"routings", "routing"})',
                          NEW f, f = command'.file, NEW k, k = command'.next, NEW t \in TargetsOf(f),
                          NEW kept, kept = ActiveRows(t)' \ command'.rows,
                          NEW made, made = ListedBefore(f, t, k)
                   PROVE  MadeFrom(kept, f, made)'
      BY DEF RoutingsFit
    <3>4. UnderWay({"routings", "routing"}) /\ kept = ActiveRows(t) \ command.rows
      <4>1. UnderWay({"routings", "routing"})
        BY <2>0, <3>3 DEF UnderWay
      <4> QED BY ONLY <2>0, <3>1, <3>3, <4>1
    <3>5. f = command.file /\ k = command.next
      BY ONLY <2>0, <3>3
    <3>6. made = ListedBefore(f, t, k)
      BY <3>3
    <3>7. MadeFrom(kept, f, made)
      BY ONLY <3>2, <3>4, <3>5, <3>6, t \in TargetsOf(f), RoutingsAre
    <3> QED BY ONLY <2>0, <3>7 DEF MadeFrom
  <2>3. GreetingsFit'
    <3>1. \A t : ActiveRows(t)' = ActiveRows(t)
      BY <2>0 DEF ActiveRows, RowsOf
    <3> QED BY <2>0, <3>1 DEF FilesInv, GreetingsFit, UnderWay
  <2>4. HolidaysFit'
    BY <1>1 DEF FilesInv, HolidaysFit, UnderWay, Entry
  <2> QED BY <2>1, <2>2, <2>3, <2>4 DEF FilesInv
<1>2. ASSUME NEW s \in {"declined", "failed", "cut"}, command.status = "running", Goes(s)
      PROVE  FilesInv'
  <2>1. command' = [command EXCEPT !.status = s]
    BY <1>2 DEF Goes
  <2>2. CommandFits'
    BY <1>2, <2>1 DEF FilesInv, CommandFits
  <2>3. command'.status = s /\ s \notin {"running", "done"}
    BY <1>2, <2>1 DEF FilesInv, CommandFits
  <2> QED BY <2>2, <2>3 DEF FilesInv, RoutingsFit, GreetingsFit, HolidaysFit, UnderWay
<1> QED BY <1>1, <1>2

LEMMA CreateRoutingsFits ==
    ASSUME FilesInv, CreateRoutings
    PROVE  FilesInv'
<1>1. PICK file \in RoutingFiles, upsert \in BOOLEAN, kind \in {"routings", "routing"} :
         Begin(IF Existing(file) = {} \/ upsert
                  THEN [Start(kind, file) EXCEPT !.rows = Existing(file)]
                  ELSE [Start(kind, file) EXCEPT !.status = "declined"])
  BY DEF CreateRoutings
<1>2. file \in Files /\ Len(file) \in Nat
  BY FileIsSequence DEF Files
<1>3. Existing(file) \subseteq DOMAIN routings
  BY DEF Existing, RowsOf
<1>4. CASE Existing(file) = {} \/ upsert
  <2> DEFINE c == [Start(kind, file) EXCEPT !.rows = Existing(file)]
  <2>1. /\ c = [kind |-> kind, status |-> "running", file |-> file, next |-> 1,
                rows |-> Existing(file), planned |-> {}]
        /\ Begin(c)
    BY <1>1, <1>4 DEF Start
  <2> HIDE DEF c
  <2>2. CommandFits'
    BY <1>2, <1>3, <2>1 DEF Begin, FilesInv, CommandFits
  <2> QED BY <2>1, <2>2, BeginsFit
<1>5. CASE ~(Existing(file) = {} \/ upsert)
  <2> DEFINE c == [Start(kind, file) EXCEPT !.status = "declined"]
  <2>1. /\ c = [kind |-> kind, status |-> "declined", file |-> file, next |-> 1,
                rows |-> {}, planned |-> {}]
        /\ Begin(c)
    BY <1>1, <1>5 DEF Start
  <2> HIDE DEF c
  <2>2. CommandFits'
    BY <1>2, <2>1 DEF Begin, FilesInv, CommandFits
  <2> QED BY <2>1, <2>2, BeginsFit
<1> QED BY <1>4, <1>5

\* A row that is taken out of service is one the command had yet to take out of it.
LEMMA InactivateFits ==
    ASSUME FilesInv, Inactivate
    PROVE  FilesInv'
<1>1. PICK r \in command.rows :
         /\ command.status = "running"
         /\ routings' = [routings EXCEPT ![r].active = FALSE]
         /\ command' = [command EXCEPT !.rows = @ \ {r}]
         /\ holidays' = holidays
  BY DEF Inactivate
<1>2. /\ routings \in Seq(Routing) /\ r \in DOMAIN routings /\ r \in 1 .. Len(routings)
      /\ command.rows \in SUBSET DOMAIN routings /\ command.kind \in {"routings", "routing"}
  BY <1>1 DEF FilesInv, CommandFits
<1>3. /\ routings' \in Seq(Routing) /\ DOMAIN routings' = DOMAIN routings
      /\ \A x \in DOMAIN routings : /\ routings'[x].target = routings[x].target
                                    /\ routings'[x].message = routings[x].message
                                    /\ routings'[x].active <=> routings[x].active /\ x # r
  <2>0. routings[r] \in Routing
    BY <1>2
  <2>1. [routings[r] EXCEPT !.active = FALSE] \in Routing /\ routings[r] \in Routing
    BY <2>0 DEF Routing
  <2>2. routings' = [routings EXCEPT ![r] = [routings[r] EXCEPT !.active = FALSE]]
    BY <1>1
  <2>3. \A x \in DOMAIN routings : routings[x] \in Routing
    BY <1>2
  <2>4. \A x \in DOMAIN routings : /\ routings'[x].target = routings[x].target
                                   /\ routings'[x].message = routings[x].message
                                   /\ routings'[x].active <=> routings[x].active /\ x # r
    BY <1>2, <2>1, <2>2, <2>3 DEF Routing
  <2>5. routings' \in Seq(Routing) /\ DOMAIN routings' = DOMAIN routings
    BY <1>2, <2>1, <2>2
  <2> QED BY <2>4, <2>5
<1>4. CommandFits'
  <2>1. command.rows \ {r} \in SUBSET DOMAIN routings'
    BY <1>2, <1>3
  <2> QED BY <1>1, <1>2, <1>3, <2>1 DEF FilesInv, CommandFits
<1>5. /\ command'.kind = command.kind /\ command'.status = command.status
      /\ command'.file = command.file /\ command'.next = command.next
      /\ command'.rows = command.rows \ {r}
  BY <1>1 DEF FilesInv, CommandFits
<1>6. RoutingsFit'
  <2>1. \A t : ActiveRows(t)' = ActiveRows(t) \ {r} /\ ActiveRows(t) \subseteq DOMAIN routings
    BY <1>3 DEF ActiveRows, RowsOf
  <2>2. \A t : ActiveRows(t)' \ command'.rows = ActiveRows(t) \ command.rows
    BY <1>1, <1>5, <2>1
  <2>3. UnderWay({"routings", "routing"})
    BY <1>1, <1>2 DEF UnderWay
  <2>4. SUFFICES ASSUME NEW f, f = command'.file, NEW k, k = command'.next, NEW t \in TargetsOf(f),
                        NEW kept, kept = ActiveRows(t)' \ command'.rows,
                        NEW made, made = ListedBefore(f, t, k)
                 PROVE  MadeFrom(kept, f, made)'
    BY DEF RoutingsFit
  <2>5. kept = ActiveRows(t) \ command.rows /\ kept \subseteq DOMAIN routings
    BY <2>1, <2>2, <2>4
  <2>6. MadeFrom(kept, f, made)
    <3>1. f = command.file /\ k = command.next /\ RoutingsFit
      BY <1>5, <2>4 DEF FilesInv
    <3>2. made = ListedBefore(f, t, k)
      BY <2>4
    <3> QED BY ONLY <2>3, <2>5, <3>1, <3>2, t \in TargetsOf(f), RoutingsAre
  <2> QED BY <1>3, <2>5, <2>6 DEF MadeFrom
<1>7. GreetingsFit' /\ HolidaysFit'
  BY <1>2, <1>5 DEF GreetingsFit, HolidaysFit, UnderWay
<1> QED BY <1>4, <1>6, <1>7 DEF FilesInv

LEMMA CreateGreetingFits ==
    ASSUME FilesInv, CreateGreeting
    PROVE  FilesInv'
BY NothingAppliedFits DEF CreateGreeting

\* A row that is added is that of the entry the command was at.
LEMMA AddInboundRoutingFits ==
    ASSUME FilesInv, AddInboundRouting
    PROVE  FilesInv'
<1> PICK f, k, n : f = command.file /\ k = command.next /\ n = Len(routings) + 1
  OBVIOUS
<1> DEFINE e == f[k]
           row == [target |-> e.target, message |-> e.message, active |-> e.active]
<1>1. /\ CommandFits /\ command.status = "running" /\ command.kind \in {"routings", "routing"} /\ command.rows = {}
      /\ command' = [command EXCEPT !.next = @ + 1] /\ holidays' = holidays
  BY DEF AddInboundRouting, AtRouting, GoesOn, FilesInv
<1>2. /\ k \in 1 .. Len(f) /\ DOMAIN f = 1 .. Len(f) /\ k \in Nat /\ Len(f) \in Nat
      /\ e \in ToSet(f) /\ e.valid /\ routings' = Append(routings, row)
  BY <1>1, EntryIs DEF AddInboundRouting, Entry
<1>3. f \in RoutingFiles /\ row \in Routing /\ e.active \in BOOLEAN
  <2>1. f \in RoutingFiles
    BY <1>1 DEF CommandFits
  <2>2. e.active \in BOOLEAN
    BY <2>1, <1>2, ProvisioningAssumption
  <2>3. e \in EntriesOf(RoutingFiles)
    BY <1>2, <2>1 DEF EntriesOf
  <2> QED BY <2>1, <2>2, <2>3 DEF Routing
<1> HIDE DEF e
<1>4. /\ command'.kind = command.kind /\ command'.status = command.status /\ command'.rows = {}
      /\ command'.file = f /\ command'.next = k + 1
  BY <1>1 DEF CommandFits
<1>5. /\ routings \in Seq(Routing) /\ routings' \in Seq(Routing) /\ n \in Nat
      /\ DOMAIN routings = 1 .. n - 1 /\ DOMAIN routings' = 1 .. n
      /\ routings'[n] = row /\ \A r \in DOMAIN routings : routings'[r] = routings[r] /\ r # n
  BY <1>1, <1>2, <1>3 DEF CommandFits
<1>6. CommandFits'
  <2>1. k + 1 \in Nat \ {0} /\ k + 1 <= Len(f) + 1
    BY <1>2
  <2> QED BY <1>1, <1>2, <1>4, <1>5, <2>1 DEF CommandFits
<1>7. RoutingsFit'
  <2>1. SUFFICES ASSUME UnderWay({"routings", "routing"})',
                        NEW g, g = command'.file, NEW l, l = command'.next, NEW t \in TargetsOf(g),
                        NEW kept, kept = ActiveRows(t)' \ command'.rows,
                        NEW made, made = ListedBefore(g, t, l)
                 PROVE  MadeFrom(kept, g, made)'
    BY DEF RoutingsFit
  <2>2. g = f /\ l = k + 1 /\ kept = ActiveRows(t)'
    BY <1>4, <2>1
  <2>3. PICK before, old : before = ListedBefore(f, t, k) /\ old = ActiveRows(t)
    OBVIOUS
  <2>4. MadeFrom(old, f, before)
    <3>1. RoutingsFit /\ UnderWay({"routings", "routing"}) /\ old = ActiveRows(t) \ command.rows
      BY <1>1, <2>3 DEF FilesInv, UnderWay
    <3>2. t \in TargetsOf(f)
      BY <2>1, <2>2
    <3> QED BY ONLY <2>3, <3>1, <3>2, f = command.file, k = command.next, RoutingsAre
  <2>5. IsFiniteSet(old) /\ IsFiniteSet(before)
    <3>1. f \in Files
      BY <1>3 DEF Files
    <3> QED BY <1>1, <2>3, <3>1, ActiveRowsAre, ListedFinite
  <2>6. old = {r \in DOMAIN routings : routings[r].target = t /\ routings[r].active}
    BY <1>1, <2>3, ActiveRowsAre
  <2>7. kept = {r \in DOMAIN routings' : routings'[r].target = t /\ routings'[r].active}
    BY <2>2 DEF ActiveRows, RowsOf
  <2>8. /\ before = {i \in DOMAIN f : f[i].target = t /\ f[i].valid /\ f[i].active /\ i < k}
        /\ made = {i \in DOMAIN f : f[i].target = t /\ f[i].valid /\ f[i].active /\ i < k + 1}
    BY <2>1, <2>2, <2>3 DEF ListedBefore, Listed
  <2>9. CASE e.target = t /\ e.active
    <3>1. kept = old \cup {n} /\ n \notin old
      BY <1>5, <2>6, <2>7, <2>9
    <3>2. made = before \cup {k} /\ k \notin before
      BY <1>2, <2>8, <2>9 DEF e
    <3>3. Cardinality(kept) = Cardinality(old) + 1 /\ Cardinality(made) = Cardinality(before) + 1
      BY <2>5, <3>1, <3>2, FS_AddElement
    <3>4. old \subseteq DOMAIN routings
      BY <2>6
    <3>5. routings'[n].message = f[k].message
      BY <1>5 DEF e
    <3>6. \A r \in kept : \E i \in made : routings'[r].message = f[i].message
      BY <1>5, <2>4, <3>1, <3>2, <3>4, <3>5 DEF MadeFrom
    <3>7. \A i \in made : \E r \in kept : routings'[r].message = f[i].message
      BY <1>5, <2>4, <3>1, <3>2, <3>4, <3>5 DEF MadeFrom
    <3>8. Cardinality(kept) = Cardinality(made)
      BY <2>4, <3>3 DEF MadeFrom
    <3> QED BY <2>2, <3>6, <3>7, <3>8 DEF MadeFrom
  <2>10. CASE ~(e.target = t /\ e.active)
    <3>1. kept = old
      BY <1>5, <2>6, <2>7, <2>10
    <3>2. made = before
      BY <1>2, <2>8, <2>10 DEF e
    <3>3. old \subseteq DOMAIN routings
      BY <2>6
    <3>4. \A r \in old : routings'[r] = routings[r]
      BY <1>5, <3>3
    <3>5. MadeFrom(old, f, before)'
      BY <2>4, <3>4 DEF MadeFrom
    <3> QED BY <2>2, <3>1, <3>2, <3>5
  <2> QED BY <2>9, <2>10
<1>8. GreetingsFit' /\ HolidaysFit'
  BY <1>1, <1>4 DEF GreetingsFit, HolidaysFit, UnderWay
<1> QED BY <1>6, <1>7, <1>8 DEF FilesInv

\* An entry that is refused is not listed.
LEMMA RefuseEntryFits ==
    ASSUME FilesInv, RefuseEntry
    PROVE  FilesInv'
<1>1. /\ CommandFits /\ command.status = "running" /\ command.kind \in {"routings", "routing"} /\ command.rows = {}
      /\ EntryLeft /\ ~Entry.valid
      /\ UNCHANGED <<routings, holidays>>
      /\ IF command.kind = "routings" THEN GoesOn ELSE Goes("failed")
  BY DEF RefuseEntry, AtRouting, FilesInv
<1>2. CASE command.kind # "routings"
  BY <1>1, <1>2, NothingAppliedFits
<1>3. CASE command.kind = "routings"
  <2> PICK f, k : f = command.file /\ k = command.next
    OBVIOUS
  <2>1. command' = [command EXCEPT !.next = @ + 1]
    BY <1>1, <1>3 DEF GoesOn
  <2>2. /\ k \in 1 .. Len(f) /\ DOMAIN f = 1 .. Len(f) /\ k \in Nat /\ Len(f) \in Nat
        /\ ~f[k].valid
    BY <1>1, EntryIs DEF Entry
  <2>3. /\ command'.kind = command.kind /\ command'.status = command.status /\ command'.rows = {}
        /\ command'.file = f /\ command'.next = k + 1
    BY <1>1, <2>1 DEF CommandFits
  <2>4. CommandFits'
    <3>1. k + 1 \in Nat \ {0} /\ k + 1 <= Len(f) + 1
      BY <2>2
    <3> QED BY <1>1, <2>1, <2>3, <3>1 DEF CommandFits
  <2>5. RoutingsFit'
    <3>1. SUFFICES ASSUME UnderWay({"routings", "routing"})',
                          NEW g, g = command'.file, NEW l, l = command'.next, NEW t \in TargetsOf(g),
                          NEW kept, kept = ActiveRows(t)' \ command'.rows,
                          NEW made, made = ListedBefore(g, t, l)
                   PROVE  MadeFrom(kept, g, made)'
      BY DEF RoutingsFit
    <3>2. g = f /\ l = k + 1
      BY <2>3, <3>1
    <3>3. kept = ActiveRows(t) \ command.rows
      BY <1>1, <2>3, <3>1 DEF ActiveRows, RowsOf
    <3>4. made = ListedBefore(f, t, k)
      BY <2>2, <3>1, <3>2 DEF ListedBefore, Listed
    <3>5. RoutingsFit /\ UnderWay({"routings", "routing"}) /\ t \in TargetsOf(f)
      BY <1>1, <3>1, <3>2 DEF FilesInv, UnderWay
    <3>6. MadeFrom(kept, f, made)
      BY ONLY <3>3, <3>4, <3>5, f = command.file, k = command.next, RoutingsAre
    <3> QED BY <1>1, <3>2, <3>6 DEF MadeFrom
  <2>6. GreetingsFit' /\ HolidaysFit'
    BY <1>1, <2>3 DEF GreetingsFit, HolidaysFit, UnderWay
  <2> QED BY <2>4, <2>5, <2>6 DEF FilesInv
<1> QED BY <1>2, <1>3

\* A greeting is set for the routing of a number in service, or is there already.
LEMMA UpdateGreetingsFits ==
    ASSUME FilesInv, UpdateGreetings
    PROVE  FilesInv'
<1>1. PICK f \in GreetingFiles, fromConfig \in BOOLEAN :
         /\ ~fromConfig => Len(f) = 1 /\ f[1].message # NoMessage
         /\ \/ fromConfig /\ Begin(Start("greetings", f))
            \/ ~fromConfig /\ ActiveRows(f[1].target) = {}
                   /\ Begin([Start("greetings", f) EXCEPT !.status = "failed"])
            \/ ~fromConfig /\ \E r \in ActiveRows(f[1].target) :
                   Begin(IF routings[r].message = f[1].message
                            THEN [Start("greetings", f) EXCEPT !.next = 2]
                            ELSE Start("greetings", f))
  BY DEF UpdateGreetings
<1>2. f \in Files /\ Len(f) \in Nat
  BY FileIsSequence DEF Files
<1>3. ASSUME NEW s \in {"running", "failed"}, Begin([Start("greetings", f) EXCEPT !.status = s])
      PROVE  FilesInv'
  <2> DEFINE c == [Start("greetings", f) EXCEPT !.status = s]
  <2>1. /\ c = [kind |-> "greetings", status |-> s, file |-> f, next |-> 1, rows |-> {}, planned |-> {}]
        /\ Begin(c)
    BY <1>3 DEF Start
  <2> HIDE DEF c
  <2>2. CommandFits'
    BY <1>2, <2>1 DEF Begin, FilesInv, CommandFits
  <2> QED BY <2>1, <2>2, BeginsFit
<1>4. ASSUME Begin(Start("greetings", f))
      PROVE  FilesInv'
  <2>1. [Start("greetings", f) EXCEPT !.status = "running"] = Start("greetings", f)
    BY DEF Start
  <2> QED BY <1>3, <1>4, <2>1
<1>5. ASSUME ~fromConfig, NEW r \in ActiveRows(f[1].target), routings[r].message = f[1].message,
             Begin([Start("greetings", f) EXCEPT !.next = 2])
      PROVE  FilesInv'
  <2> DEFINE c == [Start("greetings", f) EXCEPT !.next = 2]
  <2>1. /\ c = [kind |-> "greetings", status |-> "running", file |-> f, next |-> 2, rows |-> {}, planned |-> {}]
        /\ Begin(c)
    BY <1>5 DEF Start
  <2> HIDE DEF c
  <2>2. command' = c /\ routings' = routings /\ Len(f) = 1
    BY <1>1, <1>5, <2>1 DEF Begin
  <2>3. CommandFits'
    <3>1. CommandFits /\ f \in GreetingFiles /\ 2 \in Nat \ {0} /\ 2 <= Len(f) + 1
      BY <1>2, <2>2 DEF FilesInv
    <3> QED BY <1>2, <2>1, <2>2, <3>1 DEF CommandFits
  <2>4. GreetingsFit'
    <3>1. SUFFICES ASSUME NEW t, f[1].target = t, Cardinality(ActiveRows(t)') = 1, NEW x \in ActiveRows(t)'
                   PROVE  routings'[x].message = f[1].message
      BY <2>1, <2>2 DEF GreetingsFit
    <3>2. ActiveRows(t)' = ActiveRows(t) /\ r \in ActiveRows(t)
      BY <1>5, <2>2, <3>1 DEF ActiveRows, RowsOf
    <3>3. x = r
      BY <2>2, <3>1, <3>2, ActiveRowsAre, FS_Singleton DEF FilesInv
    <3> QED BY <1>5, <2>2, <3>3
  <2>5. RoutingsFit' /\ HolidaysFit'
    BY <2>1, <2>2 DEF RoutingsFit, HolidaysFit, UnderWay
  <2> QED BY <2>3, <2>4, <2>5 DEF FilesInv
<1> QED BY <1>1, <1>3, <1>4, <1>5

LEMMA StopAtEntryFits ==
    ASSUME FilesInv, StopAtEntry
    PROVE  FilesInv'
BY NothingAppliedFits DEF StopAtEntry, Running

\* What a greeting that is set overrides are the entries before it.
LEMMA SetGreetingFits ==
    ASSUME FilesInv, SetGreeting
    PROVE  FilesInv'
<1> PICK f, k : f = command.file /\ k = command.next
  OBVIOUS
<1>1. /\ CommandFits /\ command.status = "running" /\ command.kind = "greetings" /\ command.rows = {}
      /\ k \in 1 .. Len(f) /\ DOMAIN f = 1 .. Len(f) /\ k \in Nat /\ Len(f) \in Nat
      /\ Entry = f[k] /\ f[k] \in ToSet(f) /\ f \in GreetingFiles
      /\ holidays' = holidays
  BY EntryIs DEF SetGreeting, Running, FilesInv, CommandFits
<1>2. CASE ActiveRows(Entry.target) = {}
  BY <1>1, <1>2, NothingAppliedFits DEF SetGreeting
<1>3. CASE ActiveRows(Entry.target) # {}
  <2>1. PICK r \in ActiveRows(f[k].target) :
           /\ routings' = [routings EXCEPT ![r].message = f[k].message]
           /\ command' = [command EXCEPT !.next = @ + 1]
    BY <1>1, <1>3 DEF SetGreeting, GoesOn
  <2>2. r \in DOMAIN routings /\ routings[r].target = f[k].target /\ routings \in Seq(Routing)
    BY <1>1, <2>1, ActiveRowsAre DEF CommandFits
  <2>3. f[k].message \in {e.message : e \in EntriesOf(RoutingFiles) \cup EntriesOf(GreetingFiles)}
    BY <1>1 DEF EntriesOf
  <2>4. /\ routings' \in Seq(Routing) /\ DOMAIN routings' = DOMAIN routings
        /\ \A x \in DOMAIN routings : /\ routings'[x].target = routings[x].target
                                      /\ routings'[x].active = routings[x].active
                                      /\ x # r => routings'[x].message = routings[x].message
        /\ routings'[r].message = f[k].message
    <3>1. routings[r] \in Routing
      BY <2>2
    <3>2. [routings[r] EXCEPT !.message = f[k].message] \in Routing
      BY <2>3, <3>1 DEF Routing
    <3>3. routings' = [routings EXCEPT ![r] = [routings[r] EXCEPT !.message = f[k].message]]
      BY <2>1
    <3>4. \A x \in DOMAIN routings : routings[x] \in Routing
      BY <2>2
    <3>5. routings' \in Seq(Routing) /\ DOMAIN routings' = DOMAIN routings
      BY <2>2, <3>2, <3>3
    <3> QED BY <2>2, <3>1, <3>3, <3>4, <3>5 DEF Routing
  <2>5. /\ command'.kind = command.kind /\ command'.status = command.status /\ command'.rows = {}
        /\ command'.file = f /\ command'.next = k + 1
    BY <1>1, <2>1 DEF CommandFits
  <2>6. CommandFits'
    <3>1. k + 1 \in Nat \ {0} /\ k + 1 <= Len(f) + 1
      BY <1>1
    <3> QED BY <1>1, <2>1, <2>4, <2>5, <3>1 DEF CommandFits
  <2>7. \A t : ActiveRows(t)' = ActiveRows(t)
    BY <2>4 DEF ActiveRows, RowsOf
  <2>8. GreetingsFit'
    <3>1. SUFFICES ASSUME NEW i \in 1 .. k, NEW t \in TargetsOf(f), f[i].target = t,
                          \A j \in i + 1 .. k : f[j].target # t,
                          Cardinality(ActiveRows(t)) = 1, NEW x \in ActiveRows(t)
                   PROVE  routings'[x].message = f[i].message
      <4>1. \A l : l = k + 1 => l - 1 = k
        BY <1>1
      <4> QED BY <2>5, <2>7, <4>1 DEF GreetingsFit
    <3>2. CASE i = k
      <4>1. x = r
        BY <1>1, <2>1, <3>1, <3>2, ActiveRowsAre, FS_Singleton
      <4> QED BY <2>4, <3>2, <4>1
    <3>3. CASE i < k
      <4>1. f[k].target # t /\ i \in 1 .. k - 1 /\ \A j \in i + 1 .. k - 1 : f[j].target # t
        BY <1>1, <3>1, <3>3
      <4>2. routings[x].message = f[i].message
        BY <1>1, <3>1, <4>1 DEF FilesInv, GreetingsFit, UnderWay
      <4>3. x \in DOMAIN routings /\ x # r
        BY <1>1, <2>2, <3>1, <4>1, ActiveRowsAre
      <4> QED BY <2>4, <4>2, <4>3
    <3> QED BY <1>1, <3>2, <3>3
  <2>9. RoutingsFit' /\ HolidaysFit'
    BY <1>1, <2>5 DEF RoutingsFit, HolidaysFit, UnderWay
  <2> QED BY <2>6, <2>8, <2>9 DEF FilesInv
<1> QED BY <1>2, <1>3

LEMMA CreateHolidayHoursFits ==
    ASSUME FilesInv, CreateHolidayHours
    PROVE  FilesInv'
<1>1. PICK f \in HolidayFiles : Begin(Start("holidays", f))
  BY DEF CreateHolidayHours
<1>2. f \in Files /\ Len(f) \in Nat
  BY FileIsSequence DEF Files
<1> DEFINE c == Start("holidays", f)
<1>3. /\ c = [kind |-> "holidays", status |-> "running", file |-> f, next |-> 1, rows |-> {}, planned |-> {}]
      /\ Begin(c)
  BY <1>1 DEF Start
<1> HIDE DEF c
<1>4. CommandFits'
  BY <1>2, <1>3 DEF Begin, FilesInv, CommandFits
<1> QED BY <1>3, <1>4, BeginsFit

\* An entry is left when each of its queues has its holiday.
LEMMA AddHolidayFits ==
    ASSUME FilesInv, AddHoliday
    PROVE  FilesInv'
<1> PICK f, k, planned : f = command.file /\ k = command.next /\ planned = command.planned
  OBVIOUS
<1>1. /\ CommandFits /\ command.status = "running" /\ command.kind = "holidays" /\ command.rows = {}
      /\ k \in 1 .. Len(f) /\ k \in Nat /\ Len(f) \in Nat
      /\ Entry = f[k] /\ Applicable(Entry) /\ routings' = routings
  BY EntryIs DEF AddHoliday, Running, FilesInv, CommandFits
<1>2. PICK q \in ToSet(f[k].queues) \ planned :
         IF <<q, f[k].date>> \in holidays
            THEN Goes("failed") /\ UNCHANGED holidays
            ELSE /\ holidays' = holidays \cup {<<q, f[k].date>>}
                 /\ command' = IF ToSet(f[k].queues) \ planned = {q}
                                  THEN [command EXCEPT !.planned = {}, !.next = @ + 1]
                                  ELSE [command EXCEPT !.planned = @ \cup {q}]
  BY <1>1 DEF AddHoliday
<1>3. CASE <<q, f[k].date>> \in holidays
  BY <1>1, <1>2, <1>3, NothingAppliedFits
<1>4. ASSUME <<q, f[k].date>> \notin holidays
      PROVE  FilesInv'
  <2>1. /\ holidays' = holidays \cup {<<q, f[k].date>>}
        /\ \A i \in 1 .. k - 1 : \A p \in ToSet(f[i].queues) : <<p, f[i].date>> \in holidays
        /\ \A p \in planned : <<p, f[k].date>> \in holidays
    BY <1>1, <1>2, <1>4 DEF FilesInv, HolidaysFit, UnderWay
  <2>2. CASE ToSet(f[k].queues) \ planned = {q}
    <3>1. command' = [command EXCEPT !.planned = {}, !.next = @ + 1]
      BY <1>2, <1>4, <2>2
    <3>2. /\ command'.kind = command.kind /\ command'.status = command.status /\ command'.rows = {}
          /\ command'.file = f /\ command'.next = k + 1 /\ command'.planned = {}
      BY <1>1, <3>1 DEF CommandFits
    <3>3. CommandFits'
      <4>1. k + 1 \in Nat \ {0} /\ k + 1 <= Len(f) + 1
        BY <1>1
      <4> QED BY <1>1, <3>1, <3>2, <4>1 DEF CommandFits
    <3>4. \A i \in 1 .. k : \A p \in ToSet(f[i].queues) : <<p, f[i].date>> \in holidays'
      <4>1. \A p \in ToSet(f[k].queues) : p \in planned \/ p = q
        BY <2>2
      <4>2. \A i \in 1 .. k : i = k \/ i \in 1 .. k - 1
        BY <1>1
      <4> QED BY <2>1, <4>1, <4>2
    <3>5. HolidaysFit'
      <4>1. \A l : l = k + 1 => l - 1 = k
        BY <1>1
      <4> QED BY <3>2, <3>4, <4>1 DEF HolidaysFit
    <3>6. RoutingsFit' /\ GreetingsFit'
      BY <1>1, <3>2 DEF RoutingsFit, GreetingsFit, UnderWay
    <3> QED BY <3>3, <3>5, <3>6 DEF FilesInv
  <2>3. CASE ToSet(f[k].queues) \ planned # {q}
    <3>1. command' = [command EXCEPT !.planned = @ \cup {q}]
      BY <1>2, <1>4, <2>3
    <3>2. /\ command'.kind = command.kind /\ command'.status = command.status /\ command'.rows = {}
          /\ command'.file = f /\ command'.next = k /\ command'.planned = planned \cup {q}
      BY <1>1, <3>1 DEF CommandFits
    <3>3. q \in Queues
      BY <1>1, <1>2 DEF Applicable
    <3>4. CommandFits'
      BY <1>1, <3>1, <3>2, <3>3 DEF CommandFits
    <3>5. HolidaysFit'
      BY <1>1, <2>1, <3>2 DEF HolidaysFit, Entry
    <3>6. RoutingsFit' /\ GreetingsFit'
      BY <1>1, <3>2 DEF RoutingsFit, GreetingsFit, UnderWay
    <3> QED BY <3>4, <3>5, <3>6 DEF FilesInv
  <2> QED BY <2>2, <2>3
<1> QED BY <1>3, <1>4

LEMMA RefuseHolidayFits ==
    ASSUME FilesInv, RefuseHoliday
    PROVE  FilesInv'
BY NothingAppliedFits DEF RefuseHoliday, Running

LEMMA CutShortFits ==
    ASSUME FilesInv, CutShort
    PROVE  FilesInv'
BY NothingAppliedFits DEF CutShort

\* A command ends past the last entry of its file, with no row left to take out.
LEMMA FinishFits ==
    ASSUME FilesInv, Finish
    PROVE  FilesInv'
<1>1. /\ CommandFits /\ command.status = "running" /\ ~EntryLeft
      /\ command.rows = {} /\ command.kind \in {"routings", "routing", "greetings", "holidays"}
      /\ command' = [command EXCEPT !.status = "done"]
      /\ routings' = routings /\ holidays' = holidays
  BY DEF Finish, AtRouting, Goes, FilesInv, CommandFits
<1>2. command.next = Len(command.file) + 1
  <2>1. command.file \in Files /\ command.next \in Nat \ {0} /\ command.next <= Len(command.file) + 1
    BY <1>1 DEF CommandFits
  <2> QED BY <1>1, <2>1, FileIsSequence DEF EntryLeft
<1>3. /\ command'.kind = command.kind /\ command'.status = "done" /\ command'.rows = {}
      /\ command'.file = command.file /\ command'.next = command.next /\ command'.planned = command.planned
  BY <1>1 DEF CommandFits
<1>4. CommandFits'
  BY <1>1, <1>2, <1>3 DEF CommandFits
<1>5. \A t : ActiveRows(t)' = ActiveRows(t)
  BY <1>1 DEF ActiveRows, RowsOf
<1>6. RoutingsFit'
  <2>1. SUFFICES ASSUME UnderWay({"routings", "routing"})',
                        NEW f, f = command'.file, NEW k, k = command'.next, NEW t \in TargetsOf(f),
                        NEW kept, kept = ActiveRows(t)' \ command'.rows,
                        NEW made, made = ListedBefore(f, t, k)
                 PROVE  MadeFrom(kept, f, made)'
    BY DEF RoutingsFit
  <2>2. f = command.file /\ k = command.next /\ kept = ActiveRows(t) \ command.rows
    BY <1>1, <1>3, <1>5, <2>1
  <2>3. RoutingsFit /\ UnderWay({"routings", "routing"}) /\ made = ListedBefore(f, t, k)
    BY <1>1, <1>3, <2>1 DEF FilesInv, UnderWay
  <2>4. MadeFrom(kept, f, made)
    BY ONLY <2>2, <2>3, t \in TargetsOf(f), RoutingsAre
  <2> QED BY <1>1, <2>4 DEF MadeFrom
<1>7. GreetingsFit'
  BY <1>1, <1>3, <1>5 DEF FilesInv, GreetingsFit, UnderWay
<1>8. HolidaysFit'
  BY <1>1, <1>3 DEF FilesInv, HolidaysFit, UnderWay, Entry
<1> QED BY <1>4, <1>6, <1>7, <1>8 DEF FilesInv

LEMMA FilesInvHolds == ProvisioningSpec => []FilesInv
<1>1. ASSUME ProvisioningInit
      PROVE  FilesInv
  <2>1. /\ routings = <<>>
        /\ command = [kind |-> "none", status |-> "done", file |-> <<>>, next |-> 1, rows |-> {}, planned |-> {}]
    BY <1>1 DEF ProvisioningInit, Start
  <2>2. CommandFits
    BY <2>1 DEF CommandFits, Files
  <2> QED BY <2>1, <2>2 DEF FilesInv, RoutingsFit, GreetingsFit, HolidaysFit, UnderWay
<1>2. ASSUME FilesInv, [ProvisioningNext]_provisioningVars
      PROVE  FilesInv'
  <2>1. CASE UNCHANGED provisioningVars
    BY <1>2, <2>1, NothingAppliedFits DEF provisioningVars
  <2>2. ASSUME ProvisioningNext
        PROVE  FilesInv'
    BY <1>2, <2>2, CreateRoutingsFits, InactivateFits, CreateGreetingFits, AddInboundRoutingFits, RefuseEntryFits,
       UpdateGreetingsFits, StopAtEntryFits, SetGreetingFits, CreateHolidayHoursFits, AddHolidayFits, RefuseHolidayFits,
       FinishFits, CutShortFits DEF ProvisioningNext
  <2> QED BY <1>2, <2>1, <2>2
<1> QED BY <1>1, <1>2, PTL DEF ProvisioningSpec

\* A command that comes to its end has done what its file says, whatever commands
\* before it were cut short or refused, and wherever (create_inbound_routings,
\* update_greeting_message_from_config, create_holiday_hours_from_config).
THEOREM CommandsDoAsListedHolds == ProvisioningSpec => []CommandsDoAsListed
<1>1. ASSUME FilesInv
      PROVE  CommandsDoAsListed
  <2> PICK f, k : f = command.file /\ k = command.next
    OBVIOUS
  <2>1. SUFFICES ASSUME command.status = "done"
                 PROVE  /\ command.kind \in {"routings", "routing"} => RoutingsAsListed(f)
                        /\ command.kind = "greetings" => GreetingsAsListed(f)
                        /\ command.kind = "holidays" => HolidaysAsListed(f)
    BY DEF CommandsDoAsListed
  <2>2. /\ CommandFits /\ command.rows = {} /\ f \in Files /\ k = Len(f) + 1
        /\ DOMAIN f = 1 .. Len(f) /\ Len(f) \in Nat
    BY <1>1, <2>1, FileIsSequence DEF FilesInv, CommandFits
  <2>3. ASSUME command.kind \in {"routings", "routing"}
        PROVE  RoutingsAsListed(f)
    <3>1. SUFFICES ASSUME NEW t \in TargetsOf(f)
                   PROVE  /\ Cardinality(ActiveRows(t)) = Cardinality(Listed(f, t))
                          /\ {routings[r].message : r \in ActiveRows(t)} = {f[i].message : i \in Listed(f, t)}
      BY DEF RoutingsAsListed
    <3>2. PICK kept, made : kept = ActiveRows(t) /\ made = Listed(f, t)
      OBVIOUS
    <3>3. kept = ActiveRows(t) \ command.rows
      BY <2>2, <3>2
    <3>4. made = ListedBefore(f, t, k)
      BY <2>2, <3>2 DEF ListedBefore, Listed
    <3>5. RoutingsFit /\ UnderWay({"routings", "routing"})
      BY <1>1, <2>1, <2>3 DEF FilesInv, UnderWay
    <3>6. MadeFrom(kept, f, made)
      BY ONLY <3>3, <3>4, <3>5, f = command.file, k = command.next, t \in TargetsOf(f), RoutingsAre
    <3>7. {routings[r].message : r \in kept} = {f[i].message : i \in made}
      BY <3>6 DEF MadeFrom
    <3> QED BY <3>2, <3>6, <3>7 DEF MadeFrom
  <2>4. ASSUME command.kind = "greetings"
        PROVE  GreetingsAsListed(f)
    <3>1. SUFFICES ASSUME NEW i \in DOMAIN f, NEW t, t = f[i].target,
                          \A j \in i + 1 .. Len(f) : f[j].target # t, Cardinality(ActiveRows(t)) = 1,
                          NEW r \in ActiveRows(t)
                   PROVE  routings[r].message = f[i].message
      BY DEF GreetingsAsListed
    <3>2. i \in 1 .. k - 1 /\ t \in TargetsOf(f) /\ \A j \in i + 1 .. k - 1 : f[j].target # t
      BY <2>2, <3>1 DEF TargetsOf
    <3> QED BY <1>1, <2>1, <2>4, <3>1, <3>2 DEF FilesInv, GreetingsFit, UnderWay
  <2>5. ASSUME command.kind = "holidays"
        PROVE  HolidaysAsListed(f)
    <3>1. DOMAIN f = 1 .. k - 1
      BY <2>2
    <3> QED BY <1>1, <2>1, <2>5, <3>1 DEF FilesInv, HolidaysFit, HolidaysAsListed, UnderWay
  <2> QED BY <2>3, <2>4, <2>5
<1> QED BY <1>1, FilesInvHolds, PTL

=============================================================================
