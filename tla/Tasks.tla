-------------------------------- MODULE Tasks --------------------------------
(***************************************************************************)
(* The todo list: task templates, the instances generated from them for a   *)
(* month, and what is done with an instance.  Showing the list generates    *)
(* too, and no handler takes a lock: a request reads, decides, and writes   *)
(* at its commit.                                                          *)
(*                                                                         *)
(* Months are numbered from a January on.  Each has two dates: 2m - 1, the  *)
(* due day of month m or before it, and 2m, after it.                       *)
(***************************************************************************)
EXTENDS Requests, Naturals, FiniteSets

CONSTANTS
  Template,
  DueMonth,    \* due_month of a yearly template, 0 for NULL
  MaxMonth,    \* bound on the months
  MaxRows      \* bound on the instances

ASSUME MonthAssumption == MaxMonth \in Nat \ {0} /\ DueMonth \in 0 .. 12 /\ MaxRows \in Nat

VARIABLES
  template,    \* task_templates
  inst,        \* task_instances of the templates, by template and period
  today,
  taskReq      \* requests in progress: what each has read

taskVars == <<template, inst, today, taskReq>>

-----------------------------------------------------------------------------
(* Instances *)

TaskMonth == 1 .. MaxMonth
MonthOf(date) == (date + 1) \div 2
DueDay(m) == 2 * m - 1

Frequency == {"monthly", "quarterly", "yearly"}

\* on: is_active and auto_generate.
NoTemplate == [exists |-> FALSE, system |-> FALSE, on |-> FALSE, frequency |-> "monthly"]
TemplateRow == [exists : BOOLEAN, system : BOOLEAN, on : BOOLEAN, frequency : Frequency]

\* A month, a quarter or a year, each numbered from 1 on.
PeriodsTo(frequency, m) ==
  CASE frequency = "monthly" -> m
    [] frequency = "quarterly" -> (m - 1) \div 3 + 1
    [] frequency = "yearly" -> (m - 1) \div 12 + 1

PeriodOf(frequency, m) == [unit |-> frequency, n |-> PeriodsTo(frequency, m)]

Period == {PeriodOf(f, m) : f \in Frequency, m \in TaskMonth}

\* pending stands for in_progress too, completed for skipped: no handler tells them apart.
Open == {"pending", "overdue"}
Settled == {"completed", "archived"}

NoInstance == [status |-> "absent", due |-> 0]
InstanceRow ==
  [status : Open \cup Settled, due : 1 .. DueDay(3 * PeriodsTo("quarterly", MaxMonth))]
    \cup {NoInstance}

\* One row per template and period: uq_task_instance_template_period.
Key == Template \X Period
Instances == {k \in Key : inst[k] # NoInstance}
OpenInstances(t) == {k \in Instances : k[1] = t /\ inst[k].status \in Open}

-----------------------------------------------------------------------------
(* Generation: which period a template gets in a month, and when it is due *)

Due(frequency, m) == IF frequency = "quarterly" THEN DueDay(m + 2) ELSE DueDay(m)

Generates(frequency, m) ==
  \/ frequency = "monthly"
  \/ frequency = "quarterly" /\ m % 3 = 1
  \/ frequency = "yearly" /\ DueMonth \in {0, ((m - 1) % 12) + 1}

\* Mutant: the guard against a second unfinished instance is dropped.
WantedAlways(t, backfill) == template[t].exists /\ template[t].on

\* Outside of a backfill, a template with an unfinished instance gets no other.
Wanted(t, backfill) ==
  /\ template[t].exists /\ template[t].on
  /\ backfill \/ OpenInstances(t) = {}

\* The rows to insert, with their due dates: each period once, at its first month.
NewInstances(months, backfill) ==
  LET months_(k) == {m \in months : /\ Generates(template[k[1]].frequency, m)
                                    /\ PeriodOf(template[k[1]].frequency, m) = k[2]}
      keys == {k \in Key \ Instances : Wanted(k[1], backfill) /\ months_(k) # {}}
  IN [k \in keys |->
        Due(template[k[1]].frequency,
            CHOOSE m \in months_(k) : \A o \in months_(k) : m <= o)]

\* Mutant: rows of every status are marked.
LateAnyStatus(status) == status # "absent"

Late(status) == status = "pending"

\* The rows to mark overdue, with the status read: those past their due date, new ones
\* included, whose period is not the month (one of the months) generated for.
LateInstances(months, new) ==
  LET other(k) == \/ k[2].unit # "monthly"
                  \/ \E m \in months : m # k[2].n /\ (k \in DOMAIN new => m > k[2].n)
      due(k) == IF k \in DOMAIN new THEN new[k] ELSE inst[k].due
  IN [k \in {k \in Instances \cup DOMAIN new :
               /\ k \in DOMAIN new \/ Late(inst[k].status)
               /\ due(k) < today /\ other(k)} |->
        IF k \in DOMAIN new THEN "pending" ELSE inst[k].status]

-----------------------------------------------------------------------------
(* Requests *)

Decision == [op : {"complete", "archive"}, key : Key, status : Open \cup Settled]

\* spared: the templates left out because the request read an unfinished instance of theirs.
Generation(r) ==
  /\ taskReq[r].op \in {"read", "marked"}
  /\ DOMAIN taskReq[r].new \subseteq Key /\ taskReq[r].spared \subseteq Template
  /\ taskReq[r].op = "read" => taskReq[r].months \subseteq TaskMonth
  /\ taskReq[r].op = "marked" => DOMAIN taskReq[r].late \subseteq Key

TasksTypeOK ==
  /\ template \in [Template -> TemplateRow]
  /\ inst \in [Key -> InstanceRow]
  /\ today \in 1 .. 2 * MaxMonth
  /\ \A r \in Request :
       taskReq[r] = Idle \/ taskReq[r] \in Decision \/ Generation(r)

TasksInit ==
  /\ template = [t \in Template |-> NoTemplate]
  /\ inst = [k \in Key |-> NoInstance]
  /\ today = 1
  /\ taskReq = [r \in Request |-> Idle]

EndTask(r) == taskReq' = [taskReq EXCEPT ![r] = Idle]

ReadTemplates(r, months, backfill) ==
  /\ taskReq[r] = Idle
  /\ Cardinality(Instances \cup DOMAIN NewInstances(months, backfill)) <= MaxRows
  /\ taskReq' = [taskReq EXCEPT ![r] =
       [op |-> "read", months |-> months, new |-> NewInstances(months, backfill),
        spared |-> {t \in Template : ~backfill /\ OpenInstances(t) # {}}]]
  /\ UNCHANGED <<template, inst, today>>

\* The list of any month generates for it; a backfill goes from a month to the current one.
Generate(r) ==
  \/ \E m \in TaskMonth : ReadTemplates(r, {m}, FALSE)
  \/ \E m \in 1 .. MonthOf(today) : ReadTemplates(r, m .. MonthOf(today), TRUE)

MarkOverdue(r) ==
  /\ taskReq[r].op = "read"
  /\ taskReq' = [taskReq EXCEPT ![r] =
       [op |-> "marked", new |-> taskReq[r].new, spared |-> taskReq[r].spared,
        late |-> LateInstances(taskReq[r].months, taskReq[r].new)]]
  /\ UNCHANGED <<template, inst, today>>

\* The insert of a row that another request has committed meanwhile raises: see Abort.
FinishGenerate(r) ==
  LET new == taskReq[r].new
      late == taskReq[r].late
  IN
  /\ taskReq[r].op = "marked"
  /\ DOMAIN new \cap Instances = {}
  /\ Cardinality(Instances \cup DOMAIN new) <= MaxRows
  /\ inst' = [k \in Key |->
       [status |-> IF k \in DOMAIN late THEN "overdue"
                   ELSE IF k \in DOMAIN new THEN "pending" ELSE inst[k].status,
        due |-> IF k \in DOMAIN new THEN new[k] ELSE inst[k].due]]
  /\ EndTask(r)
  /\ UNCHANGED <<template, today>>

\* complete_instance (skip_instance) and archive_instance decide on the row they load.
TaskAllows(op, status) == IF op = "archive" THEN status = "completed" ELSE status \in Open

Decide(r) ==
  /\ taskReq[r] = Idle
  /\ \E op \in {"complete", "archive"}, k \in Instances :
       /\ TaskAllows(op, inst[k].status)
       /\ taskReq' = [taskReq EXCEPT ![r] = [op |-> op, key |-> k, status |-> inst[k].status]]
  /\ UNCHANGED <<template, inst, today>>

Outcome(op) == IF op = "archive" THEN "archived" ELSE "completed"

FinishDecide(r) ==
  /\ taskReq[r].op \in {"complete", "archive"}
  /\ inst' = [inst EXCEPT ![taskReq[r].key].status = Outcome(taskReq[r].op)]
  /\ EndTask(r)
  /\ UNCHANGED <<template, today>>

\* A check or a unique constraint fails, the client goes away: get_db rolls back.
AbortTask(r) ==
  /\ taskReq[r] # Idle
  /\ EndTask(r)
  /\ UNCHANGED <<template, inst, today>>

\* update_instance looks at nothing: any status.
PatchInstance(k) ==
  /\ k \in Instances
  /\ \E s \in Open \cup Settled : inst' = [inst EXCEPT ![k].status = s]
  /\ UNCHANGED <<template, today, taskReq>>

\* create_instance may name a template and a period of it.
CreateInstance(k) ==
  /\ k \notin Instances /\ template[k[1]].exists /\ k[2].unit = template[k[1]].frequency
  /\ Cardinality(Instances) < MaxRows
  /\ inst' = [inst EXCEPT ![k] = [status |-> "pending", due |-> DueDay(k[2].n)]]
  /\ UNCHANGED <<template, today, taskReq>>

-----------------------------------------------------------------------------
(* Templates and time *)

\* create_template, called by its route.
CreateTemplate(t) ==
  /\ ~template[t].exists
  /\ \E f \in Frequency, on \in BOOLEAN :
       template' = [template EXCEPT ![t] =
         [exists |-> TRUE, system |-> FALSE, on |-> on, frequency |-> f]]
  /\ UNCHANGED <<inst, today, taskReq>>

\* seed_compliance_tasks: the system templates that are not there yet.
SeedTemplates(new) ==
  /\ \A t \in new : ~template[t].exists
  /\ \E f \in [new -> Frequency] :
       template' = [t \in Template |->
         IF t \in new
         THEN [exists |-> TRUE, system |-> TRUE, on |-> TRUE, frequency |-> f[t]]
         ELSE template[t]]
  /\ UNCHANGED <<inst, today, taskReq>>

\* The updates modelled switch a template on or off; its frequency stays.
UpdateTemplate(t) ==
  /\ template[t].exists
  /\ \E on \in BOOLEAN : template' = [template EXCEPT ![t].on = on]
  /\ UNCHANGED <<inst, today, taskReq>>

DeleteTemplate(t) ==
  /\ template[t].exists /\ ~template[t].system
  /\ template' = [template EXCEPT ![t].on = FALSE]
  /\ UNCHANGED <<inst, today, taskReq>>

NextDate ==
  /\ today < 2 * MaxMonth
  /\ today' = today + 1
  /\ UNCHANGED <<template, inst, taskReq>>

TemplateNext ==
  \/ \E new \in SUBSET Template : SeedTemplates(new)
  \/ \E t \in Template : CreateTemplate(t) \/ UpdateTemplate(t) \/ DeleteTemplate(t)

TasksNext ==
  \/ \E r \in Request :
       Generate(r) \/ MarkOverdue(r) \/ FinishGenerate(r)
         \/ Decide(r) \/ FinishDecide(r) \/ AbortTask(r)
  \/ \E k \in Key : PatchInstance(k) \/ CreateInstance(k)
  \/ TemplateNext
  \/ NextDate

TasksSpec == TasksInit /\ [][TasksNext]_taskVars

-----------------------------------------------------------------------------
(* Properties *)

\* An instance that was completed, skipped or archived is open again only by a PATCH, or by
\* a generation that read it before it was settled and marks it overdue over that.
ReopenNeedsOverlap ==
  [][inst' # inst => \A k \in Key :
       inst[k].status \in Settled /\ inst'[k].status \in Open =>
         \/ taskReq' = taskReq
         \/ \E r \in Request :
              /\ taskReq[r].op = "marked" /\ taskReq'[r] = Idle
              /\ k \in DOMAIN taskReq[r].late /\ taskReq[r].late[k] # inst[k].status]_taskVars

\* Showing the list gives a template a second unfinished instance only if the template had
\* none when the request looked, which another request has changed since.
SecondOpenNeedsOverlap ==
  [][\A t \in Template, r \in Request :
       /\ taskReq[r].op = "marked" /\ taskReq'[r] = Idle /\ inst' # inst
       /\ Cardinality(OpenInstances(t)) = 1 /\ Cardinality(OpenInstances(t)') = 2
       => t \notin taskReq[r].spared
            \/ \E k \in OpenInstances(t)' \ OpenInstances(t) : k \in DOMAIN taskReq[r].late]_taskVars
=============================================================================
