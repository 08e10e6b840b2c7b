------------------------------ MODULE Provisioning ------------------------------
(***************************************************************************)
(* How projects come to be, other than by hand: from a deal won in a CRM   *)
(* (salesforce.go, hubspot.go and the two create workers of worker/main.go)*)
(* from a template (templates.go), and with tasks imported from another    *)
(* tool (imports.go).                                                      *)
(*                                                                         *)
(* A webhook and a staff request are one transaction whose reads nobody    *)
(* changes before its writes; a worker's transaction looks the customer up *)
(* at one step and writes at another.  River, which hands the jobs out, is *)
(* external: it runs a job again when it failed or was left running, and   *)
(* gives it up after so many attempts.                                     *)
(***************************************************************************)
EXTENDS Importer

CONSTANTS
    SfDeals, HsDeals,   \* opportunities and deals that are won
    Accounts,           \* names of accounts, which customers are matched by
    AccountOf,          \* the account of each deal
    Secrets,            \* webhook secrets
    Contents,           \* what templates may hold: sequences of tasks
    Files,              \* what is imported: sequences of lines
    MaxAttempts,        \* runs River gives a job, 25 in the code
    MaxTemplates,       \* bound on the template rows
    MaxProjects,        \* bound on the projects; CRM projects may exceed it
    MaxLines,           \* bound on the lines imported to a project that still imports
    MaxMishaps,         \* bound on the crashes and the successes River never hears of
    None

Deals == SfDeals \cup HsDeals

ASSUME DealsAssumption ==
    /\ SfDeals \cap HsDeals = {} /\ {"template", "import"} \cap Deals = {}
    /\ AccountOf \in [Deals -> Accounts]
ASSUME FilesAssumption ==
    /\ Contents \subseteq Seq([required : BOOLEAN, visible : BOOLEAN])
    /\ Files \subseteq Seq(Lines)
ASSUME BoundsAssumption == MaxAttempts \in Nat \ {0} /\ MaxTemplates \in Nat /\ MaxMishaps \in Nat

VARIABLES
    secret,     \* workspace_integrations: the secret of each provider, if any
    logged,     \* integration_sync_log
    job,        \* the create job of each deal
    customer,   \* rows of customers, by their name
    project,    \* rows of projects, with their tasks
    template,   \* rows of templates
    mishaps     \* crashes, and successes River never hears of, so far

vars == <<secret, logged, job, customer, project, template, mishaps>>

Providers == {"salesforce", "hubspot"}
ProviderOf(d) == IF d \in SfDeals THEN "salesforce" ELSE "hubspot"

TemplateIds == 0..MaxTemplates
NoJob == [at |-> "none", tries |-> 0, found |-> 0, absent |-> FALSE, again |-> 0]

(* Of a job, `again` counts the runs after one that had committed, and      *)
(* `absent` says that there was no customer when its run looked; of a       *)
(* customer, `raced` says that its run missed one inserted meanwhile.  Of a *)
(* project, `tasks` are those of its template and `imported` those of its   *)
(* imports, each at its line of the files one after another; `ok` and       *)
(* `quarantined` sum what the audit rows of the imports say.                *)
Ended == {"completed", "discarded", "dropped"}
Job == [at : {"none", "available", "running", "committed", "stuck", "lost"} \cup Ended,
        tries : 0..MaxAttempts, found : Nat, absent : BOOLEAN,
        again : 0..MaxMishaps]
Customer == [name : Accounts, raced : BOOLEAN]
Task == [required : BOOLEAN, visible : BOOLEAN, status : Statuses]
Project == [customer : Nat, from : Deals \cup {"template", "import"}, template : TemplateIds,
            tasks : Seq(Task), imported : SUBSET [line : Nat, task : Task],
            ok : Nat, quarantined : Nat, lines : Nat]
Template == [content : Contents, lineage : TemplateIds, version : Nat, active : BOOLEAN,
             usage : Nat]

TypeOK ==
    /\ secret \in [Providers -> Secrets \cup {None}]
    /\ logged \subseteq Deals
    /\ job \in [Deals -> Job]
    /\ customer \in Seq(Customer)
    /\ project \in Seq(Project)
    /\ template \in Seq(Template)
    /\ mishaps \in 0..MaxMishaps

Init ==
    /\ secret = [p \in Providers |-> None]
    /\ logged = {}
    /\ job = [d \in Deals |-> NoJob]
    /\ customer \in {<<>>} \cup {<<[name |-> a, raced |-> FALSE]>> : a \in Accounts}
    /\ project = <<>>
    /\ template = <<>>
    /\ mishaps = 0

Put(d, j) == job' = [job EXCEPT ![d] = j]
CustomersNamed(a) == {c \in DOMAIN customer : customer[c].name = a}
ProjectsOf(d) == {i \in DOMAIN project : project[i].from = d}
NewProject(c, from, t, tasks) ==
    [customer |-> c, from |-> from, template |-> t, tasks |-> tasks, imported |-> {},
     ok |-> 0, quarantined |-> 0, lines |-> 0]

-----------------------------------------------------------------------------
(* The integration settings and the webhooks.                               *)

(* PUT replaces the secret; no endpoint deletes it.  The default template   *)
(* lends a project no more than its name and description.                   *)
PutSettings(p, s) ==
    /\ secret' = [secret EXCEPT ![p] = s]
    /\ UNCHANGED <<logged, job, customer, project, template, mishaps>>

PutSFSettings(s) == PutSettings("salesforce", s)
PutHSSettings(s) == PutSettings("hubspot", s)

(* hs_webhook_secret reads the row of HubSpot; sf_webhook_secret has no     *)
(* condition on the provider and returns whichever row comes first.         *)
SecretsRead(p) ==
    {secret[q] : q \in IF p = "hubspot" THEN {p} ELSE Providers} \ {None}

(* Mutant: the conflict on (provider, external_id) is not looked at.        *)
DeliverAgain(d, sig) ==
    /\ sig \in SecretsRead(ProviderOf(d))
    /\ logged' = logged \cup {d}
    /\ job' = [job EXCEPT ![d].at = "available", ![d].tries = 0]
    /\ UNCHANGED <<secret, customer, project, template, mishaps>>

(* A won deal, signed with sig, is logged and its job enqueued; delivered   *)
(* again it is answered "duplicate".  Other stages are ignored.             *)
Deliver(d, sig) ==
    /\ sig \in SecretsRead(ProviderOf(d))
    /\ d \notin logged
    /\ logged' = logged \cup {d}
    /\ Put(d, [NoJob EXCEPT !.at = "available"])
    /\ UNCHANGED <<secret, customer, project, template, mishaps>>

SfWebhook(d, sig) == d \in SfDeals /\ Deliver(d, sig)
HsWebhook(d, sig) == d \in HsDeals /\ Deliver(d, sig)

-----------------------------------------------------------------------------
(* SFProjectCreateWorker and HSProjectCreateWorker, and River around them.  *)

(* Mutant: the customer is not looked for.                                  *)
StartBlind(d) ==
    /\ job[d].at = "available"
    /\ LET p == ProviderOf(d) IN
       IF secret[p] = None
       THEN Put(d, [job[d] EXCEPT !.at = "dropped"])
       ELSE Put(d, [job[d] EXCEPT !.at = "running", !.tries = @ + 1, !.found = 0,
                                  !.absent = CustomersNamed(AccountOf[d]) = {}])
    /\ UNCHANGED <<secret, logged, customer, project, template, mishaps>>

(* The run reads the settings, without which it drops the job, and looks    *)
(* the customer up; of several of one name it takes any.                    *)
Start(d) ==
    /\ job[d].at = "available"
    /\ LET p == ProviderOf(d)
           named == CustomersNamed(AccountOf[d]) IN
       IF secret[p] = None
       THEN Put(d, [job[d] EXCEPT !.at = "dropped"])
       ELSE \E c \in IF named = {} THEN {0} ELSE named :
                Put(d, [job[d] EXCEPT !.at = "running", !.tries = @ + 1, !.found = c,
                                      !.absent = named = {}])
    /\ UNCHANGED <<secret, logged, customer, project, template, mishaps>>

(* The customer, if none was found, the project, its audit row and the      *)
(* Slack job, in one transaction.  A template's use is not counted.         *)
Provisioned(d) ==
    /\ job[d].at = "running"
    /\ LET a == AccountOf[d]
           found == job[d].found # 0
           c == IF found THEN job[d].found ELSE Len(customer) + 1 IN
       /\ customer' = IF found THEN customer
              ELSE Append(customer, [name |-> a, raced |-> job[d].absent /\ CustomersNamed(a) # {}])
       /\ project' = Append(project, NewProject(c, d, 0, <<>>))
    /\ UNCHANGED <<secret, logged, template>>

Commit(d) ==
    /\ Provisioned(d)
    /\ Put(d, [job[d] EXCEPT !.at = "committed"])
    /\ UNCHANGED mishaps

SFProjectCreate(d) == d \in SfDeals /\ (Start(d) \/ Commit(d))
HSProjectCreate(d) == d \in HsDeals /\ (Start(d) \/ Commit(d))

(* River notes that the run succeeded.                                      *)
Complete(d) ==
    /\ job[d].at = "committed"
    /\ Put(d, [job[d] EXCEPT !.at = "completed"])
    /\ UNCHANGED <<secret, logged, customer, project, template, mishaps>>

(* Mutant: a job is never given up.                                         *)
RetriedForever(j) == [j EXCEPT !.at = "available"]

Retried(j) == [j EXCEPT !.at = IF j.tries = MaxAttempts THEN "discarded" ELSE "available"]

(* A statement fails, the transaction is rolled back.                       *)
Fail(d) ==
    /\ job[d].at = "running"
    /\ Put(d, Retried(job[d]))
    /\ UNCHANGED <<secret, logged, customer, project, template, mishaps>>

(* The transaction is committed and the answer to COMMIT lost: the run has  *)
(* failed, and another will not know.                                       *)
CommitUnheard(d) ==
    /\ mishaps < MaxMishaps
    /\ mishaps' = mishaps + 1
    /\ Provisioned(d)
    /\ Put(d, [Retried(job[d]) EXCEPT !.again = @ + 1])

(* River cannot note the success: the job stays marked as running.          *)
NotNoted(d) ==
    /\ mishaps < MaxMishaps
    /\ mishaps' = mishaps + 1
    /\ job[d].at = "committed"
    /\ Put(d, [job[d] EXCEPT !.at = "lost", !.again = @ + 1])
    /\ UNCHANGED <<secret, logged, customer, project, template>>

(* The worker's process ends: what it ran stays marked as running.          *)
Crash ==
    /\ mishaps < MaxMishaps
    /\ mishaps' = mishaps + 1
    /\ job' = [d \in Deals |->
           CASE job[d].at = "running" -> [job[d] EXCEPT !.at = "stuck"]
             [] job[d].at = "committed" -> [job[d] EXCEPT !.at = "lost", !.again = @ + 1]
             [] OTHER -> job[d]]
    /\ UNCHANGED <<secret, logged, customer, project, template>>

(* Mutant: only a job of the first run is rescued.                          *)
RescueOnce(d) ==
    /\ job[d].at \in {"stuck", "lost"} /\ job[d].tries = 1
    /\ Put(d, Retried(job[d]))
    /\ UNCHANGED <<secret, logged, customer, project, template, mishaps>>

(* River rescues it after an hour.                                          *)
Rescue(d) ==
    /\ job[d].at \in {"stuck", "lost"}
    /\ Put(d, Retried(job[d]))
    /\ UNCHANGED <<secret, logged, customer, project, template, mishaps>>

-----------------------------------------------------------------------------
(* Templates.                                                               *)

CreateTemplate(content) ==
    LET t == Len(template) + 1 IN
    /\ t <= MaxTemplates
    /\ template' = Append(template,
           [content |-> content, lineage |-> t, version |-> 0, active |-> TRUE,
            usage |-> 0])
    /\ UNCHANGED <<secret, logged, job, customer, project, mishaps>>

(* The next patch version of any version, active or not.                    *)
NewTemplateVersion(t) ==
    /\ t \in DOMAIN template /\ Len(template) < MaxTemplates
    /\ template' = Append([template EXCEPT ![t].active = FALSE],
           [template[t] EXCEPT !.version = @ + 1, !.active = TRUE, !.usage = 0])
    /\ UNCHANGED <<secret, logged, job, customer, project, mishaps>>

(* The arguments of the INSERT are swapped: required is given the template's*)
(* customer_visible, and customer_visible its required.                     *)
TaskOf(x) ==
    [required |-> x.visible, visible |-> x.required, status |-> "todo"]

CreateFromTemplate(t, c) ==
    /\ t \in DOMAIN template /\ c \in DOMAIN customer
    /\ Len(project) < MaxProjects
    /\ project' = Append(project, NewProject(c, "template", t,
           [i \in DOMAIN template[t].content |-> TaskOf(template[t].content[i])]))
    /\ template' = [template EXCEPT ![t].usage = @ + 1]
    /\ UNCHANGED <<secret, logged, job, customer, mishaps>>

-----------------------------------------------------------------------------
(* Imports: into a project there is, or into a new draft.                   *)

ImportedRow(n, row) ==
    [line |-> n, task |-> [required |-> FALSE, visible |-> FALSE, status |-> row.status]]

(* The tasks whose INSERT the database takes: it refuses a title of more    *)
(* than 255 characters.                                                     *)
Taken(parsed) == {k \in DOMAIN parsed.tasks : parsed.tasks[k].title # "overlong"}

(* Mutant: the loop goes on without the task, as the branch on the error    *)
(* that adds to the quarantined means to, but nothing is taken off.         *)
GoesOn(parsed) == FALSE

(* A refused statement aborts the transaction, whatever that branch meant.  *)
Aborts(parsed) == Taken(parsed) # DOMAIN parsed.tasks

(* The tasks of a file of so many lines are added, and its audit row.       *)
Imported(p, parsed, lines) ==
    [p EXCEPT !.imported = @ \cup
                  {ImportedRow(p.lines + i, parsed.tasks[i]) : i \in Taken(parsed)},
              !.ok = @ + parsed.ok, !.quarantined = @ + parsed.quarantined,
              !.lines = @ + lines]

(* One transaction: nothing is imported of a file that aborts it, nor by a  *)
(* dry run.                                                                 *)
Import(i, c, source, file) ==
    LET parsed == Parsed(source, file) IN
    /\ ~Aborts(parsed)
    /\ \/ /\ i = 0 /\ c \in DOMAIN customer
          /\ Len(project) < MaxProjects
          /\ project' = Append(project,
                 Imported(NewProject(c, "import", 0, <<>>), parsed, Len(file)))
       \/ /\ i \in DOMAIN project /\ c = project[i].customer
          /\ project[i].lines < MaxLines
          /\ project' = [project EXCEPT ![i] = Imported(project[i], parsed, Len(file))]
    /\ UNCHANGED <<secret, logged, job, customer, template, mishaps>>

-----------------------------------------------------------------------------
Works(d) == SFProjectCreate(d) \/ HSProjectCreate(d) \/ Complete(d) \/ Rescue(d)

Next ==
    \/ \E s \in Secrets : PutSFSettings(s) \/ PutHSSettings(s)
    \/ \E d \in Deals, sig \in Secrets : SfWebhook(d, sig) \/ HsWebhook(d, sig)
    \/ \E d \in Deals : Works(d) \/ Fail(d) \/ CommitUnheard(d) \/ NotNoted(d)
    \/ Crash
    \/ \E content \in Contents : CreateTemplate(content)
    \/ \E t \in TemplateIds : NewTemplateVersion(t)
    \/ \E t \in TemplateIds, c \in DOMAIN customer : CreateFromTemplate(t, c)
    \/ \E i \in 0..Len(project), c \in DOMAIN customer, source \in Sources, file \in Files :
           Import(i, c, source, file)

(* River has free workers in the end and the leader that rescues jobs.      *)
Spec == Init /\ [][Next]_vars /\ \A d \in Deals : WF_vars(Works(d))

-----------------------------------------------------------------------------
(* Properties.                                                              *)

(* Deliveries of one deal, however often repeated, make one project: "dupli-*)
(* cate webhook deliveries dedupe to one project" (salesforce.go:8-9). Only *)
(* a run that had committed, and ended before River knew, makes another in  *)
(* the next run: the workers do not look for the deal in external_refs.     *)
ProjectPerDeal ==
    \A d \in Deals : Cardinality(ProjectsOf(d)) <= (IF d \in logged THEN 1 ELSE 0) + job[d].again

(* A deal whose delivery was answered, and whose every later one is a dupli-*)
(* cate, gets its project in the end: "a crashed API can't lose the create  *)
(* (outbox)" (salesforce.go:9-10), nor does a crashed worker, unless River  *)
(* gives its job up or the provider of the deal was never configured.       *)
Onboarded ==
    \A d \in Deals :
        d \in logged ~> ProjectsOf(d) # {} \/ job[d].at \in {"discarded", "dropped"}

(* The deals of one account belong to one customer, but for runs that       *)
(* looked before another one's insert was committed (main.go:691-704).      *)
OneCustomer ==
    \A a \in Accounts : Cardinality({c \in CustomersNamed(a) : ~customer[c].raced}) <= 1

(* What is reported of projects is what there is: usage_count counts those  *)
(* made of this very version, not of its predecessors (templates.go:211-219,*)
(* 322), and the audit rows of a project's imports tell of as many tasks as *)
(* it got and of every line of the files once (imports.go:126-131).         *)
CountsAgree ==
    /\ \A t \in DOMAIN template : template[t].usage =
           Cardinality({i \in DOMAIN project :
               project[i].from = "template" /\ project[i].template = t})
    /\ \A i \in DOMAIN project :
           /\ project[i].ok = Cardinality(project[i].imported)
           /\ project[i].ok + project[i].quarantined = project[i].lines

-----------------------------------------------------------------------------
(* Claims that the code does not keep, each run by hand.                    *)

(* The tasks of a project have the flags their template gives them: the     *)
(* fields `required` and `customer_visible` (templates.go:14-15).           *)
TemplateFlagsKept ==
    \A i \in DOMAIN project : project[i].from = "template" =>
        LET content == template[project[i].template].content IN
        \A k \in DOMAIN content :
            /\ project[i].tasks[k].required = content[k].required
            /\ project[i].tasks[k].visible = content[k].visible

(* "copies the template as the next semver and flips active"                *)
(* (templates.go:188): one version of each is active.                       *)
OneActive ==
    \A t, u \in DOMAIN template :
        template[t].lineage = template[u].lineage /\ template[t].active
            /\ template[u].active => t = u

(* "duplicate webhook deliveries dedupe to one project, and a crashed API   *)
(* can't lose the create" (salesforce.go:8-10): nor does a crash of the     *)
(* worker make a second.                                                    *)
OneProject == \A d \in Deals : Cardinality(ProjectsOf(d)) <= 1

(* "integration removed between enqueue and run - drop" (main.go:684): no   *)
(* job is dropped of an integration that was there when it was enqueued.    *)
NothingDropped == \A d \in Deals : job[d].at # "dropped"

=============================================================================
