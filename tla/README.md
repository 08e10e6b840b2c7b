# OpenLane in TLA+

A formal model of the OpenLane server (`src/apps/api`, Go over PostgreSQL) and of
the part of the background worker (`src/apps/worker`) that works on the same
tables: modules that translate the handlers, TLC configurations that check them on
small instances, and TLAPS proofs of what matters most for every instance.

`PROJECT.json` holds the same project as data: the components, the runs with their
properties, a seeded mistake for each property, the source lines each definition
stands for, the hazards of the code and the theorems.

## 1. The system

OpenLane runs customer onboarding projects. Staff use a web application over a
JSON API, customers a portal reached by a link, and a worker runs jobs from a
queue. All state is in PostgreSQL; a process keeps none between requests, except a
connection pool and rate limits. A handler opens a transaction on one pooled
connection, runs statements at READ COMMITTED and commits. So the hard behaviour
of the program is in five places:

- **between the statements of a handler.** Each statement has a snapshot of its own.
  A handler that reads a status, decides in Go and writes `UPDATE ... WHERE id = $1`
  acts on what it read, not on what is there. `decideTime`, `patchInvoice`,
  `patchTask`, `patchProject`, `jiraWebhook`, `configApprove`, `refreshSession` and
  `consumeMagicLink` are of this form.
- **after the commit.** Notification, automations, the Jira push and the budget check
  run after the transaction, on other connections, and are lost if the process ends.
- **in two statements that must agree**, such as the `billed` and `mark` parts of the
  invoice statement, which find their rows at different instants.
- **on the pool**: a request that holds a connection and waits for a second one.
- **with those outside**: Jira, the CRMs and clients repeat what was not answered, the
  queue runs a job again, a language model answers what it likes.

### Components

| Component | State | Operations | What makes it correct |
| --- | --- | --- | --- |
| Time entries (`time.go`) | `time_entries` | log, list | only loggable entries are written |
| Time approvals (`timeapprovals.go`) | `status`, `reject_reason`, audit rows | submit, approve, reject | only the author submits, only another manager, or the static token, decides, the audit rows explain the status |
| Rate cards (`ratecards.go`) | `rate_cards` | create, patch, delete | rates are immutable |
| Invoices (`invoices.go`) | `invoices`, `line_items` | generate, patch (send, pay, void, notes) | no entry lost, none on two invoices and no status replaced but by requests that raced |
| Budget alerts (`budget.go`) | `budget_hours`, `budget_alert_level` | check after each entry, reset by a patch | a band crossed is announced, and once, but for the causes the code leaves open |
| Notifications (`notify.go`, `river.go`) | settings columns, queued jobs | `notifyEvent`, enqueue | connections are returned and requests answered, unless all connections are held by those who wait for another |
| Automations (`automations.go`) | rules, runs | CRUD, `fireAutomations` | same, and a rule runs once for an event |
| Tasks (`tasks.go`) | `tasks`, audit rows | create, patch, delete | the state machine of 8.1, required fields, one announcement for a completion |
| Projects (`projects.go`) | `projects` | create, patch, delete | the gates of 6.3, the go-live date |
| Portal (`portal.go`) | `portal_links`, tasks, approvals | link, revoke, complete, decide | a contact acts only on what it is shown |
| Jira sync (`jira.go`, worker) | `task_links`, `last_synced_at`, jobs | link, webhook, push | a change that no other overlaps reaches the other side and does not come back |
| Approvals and proposals (`approvals.go`, `mcpwrite.go`, `mcpapprove.go`) | `approvals` | request, propose, decide, reopen | a proposal is executed at most once, by a manager's decision |
| Config sheets (`configagent.go`) | sheets | draft, approve and execute | executed once |
| Migration (`migrationagent.go`) | plans with their mapping, preview and result | suggest, approve, delete | a field is fed by one column of the file, every row is accounted for, what was shown is what is done |
| Sessions and login (`auth.go`, `sso.go`) | login tokens, sessions, SSO settings | ask for a link, log in, refresh, sign out | a rotated token has one successor, an ended family stays ended, the throttle holds |
| User provisioning (`scim.go`) | users, memberships | create, patch, delete | who is deactivated gets no session, and comes back only when SCIM says so |
| CRM provisioning (`salesforce.go`, `hubspot.go`, worker) | sync log, jobs, customers, projects | webhook, job | a won deal makes one project in the end, an account one customer |
| Templates, imports (`templates.go`, `imports.go`, `importer/`) | templates, projects and tasks | version, apply, import | what is counted is what there is |
| Resourcing (`resourcing.go`, `resourcingagent.go`) | allocations | allocate, suggest | - |
| Reports (`margins.go`, `metrics.go`, `signals.go`, `search.go`, `qbexport.go`) | none | read | - |
| Language-model agents, files, docs, forms, chat, settings, web application | content | store, read | - |

They interact through the tables and by calls: `logTime` starts `checkBudgetAlert`;
`patchTask`, the portal, projects and approvals call `notifyEvent`, which enqueues a
Slack job and fires automations; `generateInvoice` reads and marks what the approvals
decided; `patchTask` queues a Jira push and `jiraWebhook` writes the same task;
`configApprove` and an approved proposal write tasks, budgets and time entries;
`refreshSession`, `consumeMagicLink` and `ssoCallback` read the membership that SCIM
writes; the CRM webhooks leave jobs in the queue the create workers empty.

## 2. Modules

| Module | Models | Composition |
| --- | --- | --- |
| `Timesheet` | logging time and deciding on it | state of the entries; extended by `Billing` |
| `Billing` | rate cards and invoices over the entries | extends `Timesheet` |
| `BillingPromise` | what approvals and invoicing promise: every request at one instant, but for what an overtaken one writes | abstract; `Billing` implements it |
| `BudgetAlerts` | the budget check and every writer of a budget or of hours | - |
| `NotifyPool` | the connections a request and its notification take | - |
| `TaskStatus` | the statuses of a task and the moves staff and Jira may make | extended by the next two |
| `ProjectTasks` | a project, its tasks and everybody who writes their status | extends `TaskStatus` |
| `JiraSync` | a linked task, its Jira issue, and the jobs and events between them | extends `TaskStatus` |
| `Proposals` | approvals, what agents propose, ratings, drafts of the two agents that draft | - |
| `ProposalPromise` | what approvals, ratings and drafts promise, every request at one instant | abstract; `Proposals` implements it |
| `Members` | users, memberships, SSO and SCIM settings and who writes them | extended by `Sessions` |
| `Sessions` | login links, sessions and logins over the members | extends `Members` |
| `Importer` | what the importer makes of a line of a CSV file | extended by `Provisioning` |
| `Provisioning` | projects made from won deals, templates and imports | extends `Importer` |
| `Migration` | what the migration agent makes of a file | drafts and decisions on them are in `Proposals` |
| `BillingProofs`, `BudgetProofs`, `PoolProofs`, `ProjectProofs`, `ProposalProofs`, `JiraProofs`, `SessionProofs`, `ImportProofs` | proofs | extend the modules they prove about: `BillingProofs` has `Timesheet` too, `ImportProofs` has `Provisioning` and `Migration`, which share no variable |
| `MCTimesheet`, `MCBilling`, `MCBudgetAlerts`, `MCNotifyPool`, `MCProjectTasks`, `MCProposals`, `MCJiraSync`, `MCSessions`, `MCProvisioning`, `MCMigration` | values for TLC | extend the module they check |

Definitions whose comment begins with "Mutant:" are not part of the
model: each is the definition it precedes with a mistake in it, and shows that a run
would notice.

### How state and actions correspond to the code

- A row is a record or a function from row identities; a column that no decision
  reads is left out. A row that does not exist yet has a life or status `"none"`.
- A handler is one action if it reads and writes in one guarded statement (rate
  cards, `createTask`, `completePortalTask`, `deleteTask`, the CRM webhooks), and otherwise one action
  for each statement after which another request can commit. What the request has
  read is kept per handler (`treq`, `breq`, `op`, `check`, `req`, `prov`, `job`); `Idle`
  is no request.
- What a transaction writes, it writes in its last step: nobody sees it before.
- Authorisation and the early returns are guards. A request that is refused changes
  nothing and has no step of its own, except where an earlier statement has already
  been a step (`CountTasks`, `BillAbort`).
- Validation of formats, paging, wording and the tenant filter of row level security
  are left out: each module describes one workspace.
- A crash, a client that goes away or a failing database ends a request between two
  steps: `DecideAbort`, `BillAbort`, `CheckLost`, `Abandon`, `Fail`, `Crash`. Before the commit
  nothing was written; after it the rest of the tail is lost.

**Histories.** Where the code lets two requests overlap and nothing stops the second, the
model lets them too. Properties that such races break are stated of everything else: a
history variable (`raced`, `excuse`, `repeated`, `outrun`, `doubled`, `overlaps`) notes
what a race has touched, at the step where it happens, and the property excepts that and
nothing more. No theorem assumes that requests come one after another. Of the runs,
`billing_windows` has one request at a time, for it is about periods and prices, and
`jira_sync` serves one comment at a time, for that is the hypothesis of its theorem
(`OneDelivery`). The races themselves are shown by the configurations run by hand (section 3).

**Timesheet.** `status` and `reason` are the entry, `audit` the set of its audit rows
(action and actor), `treq` a decision between its SELECT and its UPDATE. The rows are a
set because `created_at` is `now()`, the beginning of a transaction, which says nothing
of the order of two decisions that overlap. `MayDecide` is the switch of
`decideTime`: the author submits a draft or rejected entry, a manager who is not the
author approves or rejects a submitted one. The static token has an admin's role and no
user (`auth.go:512`), so it decides too, and its audit row has no actor: `by` is `None`. `MarkInvoiced` is the `mark` part of the
invoice statement.

**Billing.** `generateInvoice` is `GenCount`, `GenGap`, `GenSnapshot` and `GenCommit`:
the count of the approved time, the search for a role without a rate, the snapshot of
the `billed` query with the price of each line, and the write. PostgreSQL evaluates
`billed` on the snapshot, and `mark` looks at each row again when it updates it, so
`GenCommit` bills what the snapshot held and marks what is still approved. The NOT
NULL constraints stop an invoice without lines or subtotal (`Insertable`). Amounts
are abstracted to the card that prices a line. `patchInvoice` is `PatchRead` and
`PatchWrite`. A decision, a patch or an invoice that is written on another status than
its request has read puts the entry or invoice into `raced`; in `BillingPromise` the same
steps are `OverwriteEntry`, `OverwriteInvoice` and the part of `Generate` that bills what
is no longer approved.

**BudgetAlerts.** One project. `check[g]` is a goroutine of `checkBudgetAlert` between
its read, its guarded UPDATE and its notification. `sent` counts the calls of
`notifyEvent` for a band of the budget as it is now, `queued` those that pass the
settings gate; a check that has read an older budget is not `current` and its call does
not count. `excuse` is a history variable: why a band may be unannounced. Three causes
(`lost`, `changed`, `imported`) end with the next entry logged; `silenced`, a level that
stands for a call that was not made of this budget, lasts until a check raises the
level or a patch resets it. `repeated` are the bands that two checks decided on at one
level, or that a completing patch re-armed. Every call about a budget is dropped by the
gate of `notifyEvent` (`AlertsQueued` in `BudgetClaims`): what `NoMissedBand` says is that
the call is made. `PatchBudget` has the two CASE expressions of
`patchProject`, `ConfigBudget` is the config sheet, `ImportTime` the calendar import.

**NotifyPool.** `owner` says who holds each connection, `pc` where a request is: in
its transaction, reading settings with one connection, enqueueing with a second one,
firing rules, running a `slack_message` rule with a second one. The pool itself
(pgxpool) is external: it hands a free connection to somebody who waits, and fails only
when it cannot open one. There are more processes than connections, as the server puts no
bound on its requests, so the pool can come to a `Standstill`; the run and the theorem say
what it takes.

**ProjectTasks.** One project; `op[h]` is a request of handler h after its read. The
data of a task is what its transitions ask for: whether required fields are named and
set, whether customers see it, whether it must be finished. A field a request leaves
out is `Null`, and `Given` is COALESCE. `heard` counts the announcements of a
completion up to two, `golive` is the number of the completion that set the date.
`audit[t]` is the status told by the audit row of the latest date, which is when its
transaction began. A transaction may have begun any time before its first
statement: at a write that makes the latest row, any of the others in flight may turn out
to be older (`late`), and what such a one writes leaves the trail telling another status
(`outrun`). `raced` are the requests since whose read another has changed the count or the
status they go by, `doubled` the tasks whose completion such a request has announced.

**Proposals.** One project. A decision is one guarded UPDATE, so `DecidePortalApproval`
and `DecideStaffApproval` are one action each, the second with the payload it executes
in the same transaction. `Null` as `by` is the static token, which has no user:
`decided_by` references contacts, so `Decide` is for contacts and `Null` only, and a
manager's session is refused by PostgreSQL. `described` tells whether the description
can be read into a string, which `decideStaffApproval` needs. `opened` counts how often an
approval has become pending, `executed` what was made of its payload. A rating is its
SELECT (`ReadRated`), its INSERT with the look for an open escalation (`InsertRating`;
the unique key makes a second one wait) and its commit. A draft is kept by `KeepDraft`
some time after the switch was read (`AskModel`), and approved by `ReadDraft` and
`ApproveDraft`; status `"executed"` is `executed` of a sheet and `done` of a migration.
`ProposalPromise` forgets the requests: `Promise` maps an approval to its status and to
whether it has been decided before, the escalations to how many were made, and leaves the
other columns as they are. What the code does not keep (one execution of a sheet, one open
escalation) is not promised; the claims at the end of section 3 are about that.

**JiraSync.** One task and one issue. `behind` and `moved` stand for the order of
`tasks.updated_at`, `task_links.last_synced_at` and `now()`, which in PostgreSQL is the
beginning of the transaction: a worker or a comment handler that commits after another
change has been made writes a `last_synced_at` older than that change. `jobs` is River's
queue, `worker` a job between the guard, the POST to Jira and the commit; `FailJob` is
every error that makes River run it again. `events` and `posts` are what Jira has sent
and may send again (`again`). Jira itself is external: it moves an issue along `Flow`,
sends an event of every change, also of one of another field, and repeats an event that
was not answered. `last` remembers whose change the other side still owes, and `overlaps` how many changes
were made, since that one began, before all was at rest again; a change made while nothing
is in flight starts at none (`Changed`). `Calm` is that there were none, and `InStep`,
`SkippedIsKnown` and `TakenOver` are about a calm change, whatever overlapped before it. Deleting a
task changes nothing that the push or the webhook look at, except `updated_at`
(`PatchOther`). The two statements of the status webhook are one action here and two in
`ProjectTasks`.

**Members and Sessions.** `member` is the membership of an email address in the
workspace with its `deactivated_at`; `users` are global, and so are SSO subjects, so
some exist before. `scimCreate` looks for the user in one statement and inserts in
another (`ScimCreateRead`, `ScimCreateInsert`): two of them, or one and an SSO login,
may find nobody. `LinkIdentity` is the transaction of `ssoCallback`. A login link is
minted by `RequestMagicLink` (the counts of the throttle) and `MintLink` (the insert).
One request in a hundred goes on to `SweepLinks` and `SweepSessions`, two statements after
the commit, also a request that minted nothing (`RequestNoLink`); the application's role
may delete these rows by the grants of `00006_login_throttle_index.sql:8-9`. An address
is counted as it is typed (`email = $1`) and matched everywhere else by `lower()`:
`Spellings` are the ways to type one mailbox, and each has a count of its own. A link is consumed by `ConsumeRead` and
`Consume`, whose UPDATE joins the membership and does not ask for `used_at` again.
`refreshSession` is `RefreshRead`, `RefreshRole` and `Rotate`; a revoked token ends the
family in `RefreshRead`. A logout revokes the row and the family in two statements that
commit by themselves. `raced` and `active` are history: what changed between the read
and the write of the request that made a row, and whether it saw its user active;
`ended` are the families a logout or a repeated token has ended. What `ssoCallback`
hands out has no row in `sessions`, so `st` has the value `"unstored"`. Time is `age`: how
many of its limits a row has passed.

**Importer and Provisioning.** A line is what an adapter looks at: its title cell, its
completion date and its status word, from which `Adapted` and `Accepted` make a task
or a quarantined line as each of the three adapters does. The lists of a parsed file are
functions of its line numbers: the code keeps the lines in order, and nothing depends on
more than that. A project's `imported` tasks are at their lines of its files, one after
another, and `ok`, `quarantined` and `lines` sum what the audit rows of the imports say.
`Import` is one action: one transaction, in which a title that is too long makes everything fail, and a dry run is
rolled back. A won deal is a row of `integration_sync_log`, unique by its event, and a
job in the same transaction (`Deliver`); the worker's transaction is `Start` (settings,
customer by name) and `Commit` (customer, project, Slack job), and River notes the
success afterwards (`Complete`). River is external: a job that failed, or that a crash
left running, is run again until `MaxAttempts`. It runs a committed job again without a
crash too, when the answer to COMMIT is lost (`CommitUnheard`) or the success cannot be
noted (`NotNoted`); `mishaps` bounds these and the crashes. `again` counts the runs that follow one
that had committed, `raced` marks a customer inserted by a run that had missed another
one's insert. Either CRM's secret may sign for Salesforce, as `sf_webhook_secret` reads
whichever row comes first. `TaskOf` has the two flags the wrong way round, as the
arguments of the INSERT have.

**Migration.** A file has headers and rows of cells, a cell one of nine kinds. The
mapping is guessed by name and then completed from the model's answer; Go ranges over
maps in any order, so `Mappings` is the set of what may come out. `BuildPreview` and
`MigrationApprove` transform rows with the same operators (`CellOut`, `RowOut`), the
second also leaving out duplicates and collecting the quarantine. Result and quarantine
are functions of the row numbers of the file, for both lists in the code are in its order.

## 3. Runs

Twelve questions; each property holds, with the exceptions its histories name. A `.cfg` that PROJECT.json does not
list is described at the end.

| Run | Instance | What it shows |
| --- | --- | --- |
| `billing_concurrent` | 2 handlers, 2 entries of a manager, the static token, 2 invoices, 1 card | Whatever overtakes what: an invoiced entry is on an invoice, no invoice is empty, an invoice's trail explains its status; an entry is billed twice, and billing departs from `BillingPromise`, only by what is written on a status another request has replaced. |
| `billing_windows` | 1 handler, 2 users, 2 days, notes, a card | Seen from the entries, billing is nothing but `TimesheetSpec`, with periods, prices and patches. |
| `decisions` | 2 handlers, 2 entries, 3 members, the static token | Whatever decision replaces whatever, the audit rows of an entry explain its status by somebody entitled to it. |
| `budget_concurrent` | 3 checks, 8 hours, budgets of 5 and 10, 1 import, 2 patches (also completing), 1 sheet | A band crossed is announced, the level stands for an announcement and a band is announced once, each but for named causes; a slow check takes no level back. |
| `pool` | 4 processes, 3 connections, 1 rule, fair | The pool stands still only when each connection is held by a process of its own that has committed and waits for a second one; short of that, who notifies is answered. |
| `tasks_concurrent` | 2 handlers, 1 task | A done task has its completion date; the latest row of the trail tells the status unless its writer was overtaken by date; gates hold at the write, and a completion is announced once, but for a request raced between its read and its write. |
| `proposals_concurrent` | 2 handlers, 2 approvals, a sheet, a migration | A payload is executed at most once for each opening, a low rating is followed up, each execution of a draft is on the trail, and `Proposals` implements `ProposalPromise`: only what was decided is rated, nothing is rated twice, a decision stands until it is reopened. |
| `jira_sync` | 2 jobs, 1 worker, 1 comment, 1 overlapping change, fair | Whatever fails, is repeated or overlapped before: of a change that none overlaps, nothing is skipped that Jira does not know and with fair retries the other side takes it over; a comment is mirrored once. |
| `sessions_rotate` | 1 user, 1 link, 3 sessions, 2 handlers | A rotated token is dead and its successor its user's; two sessions of a family are live, or two logins come of a link, only for requests that raced each other; an ended family stays ended but for a refresh under way; no session begins for who is not active. |
| `sign_in` | 2 users, 2 links, 2 IPs, SSO, SCIM, 2 handlers | The throttle of an address, as it is typed, and of an IP is passed only by requests that counted together; no login and no late insert brings a deactivated member back. |
| `provisioning` | 2 deals of 1 account, 2 attempts, a mishap, 2 templates, 2 files, fair | A delivery makes one project but for a run after one that had committed, an account gets one customer but for runs that raced, counters tell what there is, and every delivered deal gets its project. |
| `migration` | 3 kinds of file of 3 rows, 63 answers, 2 rows shown | The mapping is sound, every row is in the result or quarantined for a reason, the preview tells what will be done, no cell runs as a formula. |

**Bounds.** Two handlers are enough for every pair of a read and a write of another
request; the properties of concurrent runs are proved for any number, so the bound
only limits the search for mistakes. Two entries let an invoice lose one of its lines
and keep the other; two invoices are what double billing needs. `OneRaced` goes no
further once a second entry or invoice has been caught in a race: the first is what the
properties except, and everything else is still held to them. In `billing_concurrent`
the entries are a manager's, whom the static token approves; periods and prices are in
`billing_windows`, several members in `decisions`. Three checks let one
write between the read and the write of a second while a third notifies; eight hours
over a budget of five pass all three bands, and over ten two of them; two patches are a
budget and its replacement, with checks of the first still running. Three
connections for four processes let all three be taken by processes that wait for a second,
and leave one outside. In `tasks_concurrent` one task is enough for a gate to pass and
fail, and for two requests to meet on its status and its trail; required fields guard a
request by itself and are in the theorems and in `TasksClaims`. In `Proposals` two
approvals let one rating meet another, and two openings are one reopening; `OneKind`
keeps approvals and drafts apart, which share nothing but the handlers and the two
switches, and `OneReopened` lets one approval be reopened and not both. The theorems
need neither. In `jira_sync` a second job is what a change needs that overtakes a push;
`MaxOverlaps` of one lets one change of any kind be made while another is under way, and
then calm ones follow what it has left behind; every workflow transition is offered, and
none from a status to itself. In `Sessions` three rows are a login, its rotation and a
second rotation
that raced it, and one user and one link suffice for what families and links promise;
`sign_in` needs a second user, so that a person may be linked to one and another be
created, and has one session, since the throttle and the membership do not look at
them. Its limits are one link per address and one per IP, and its two links may be of one
address from two IPs or of two addresses from one, so either limit can be passed; the
code's are five and ten. In `Provisioning` the two deals are of one account, so that their runs
compete for its customer; two attempts are one retry, and one mishap is enough to leave
a committed run behind and to use that retry up. One of its two files has a title that
the database refuses, so that an import is rolled back. In `Migration` three rows are two
equal ones and a third between, before or behind them, and one more than is shown; the
headers are the field itself, one in another case, one that mentions it, one that mentions two, and
the answers help, repeat a field, or name what does not exist. Deadlock is checked
except where an instance has used up its bounds and the system rests, and in `Pool.cfg`,
where the standstill is one (the `.cfg` says so).

Three runs have a view. `RotateView` and `SignInView` take a link that is past the hour of the
throttle, and that no request has read, for one that is gone: it can be consumed by
nobody, counts no more, and can only be swept. `SignInView` also leaves of a session only
that it was begun, for neither links nor members read more of it. `Read` leaves out the jobs, how often a
project was completed and the columns of a deleted project, which no guard reads and
no property of the run speaks of.

**Fairness.** `NotifyPool`, `JiraSync` and `Provisioning` have liveness properties. In `NotifyPool`, `WF(Work(p))`: a process that
waits for nothing goes on. `SF(Obtain(p))`: pgxpool keeps those who wait in a queue and
serves them in turn, so who waits while connections keep coming free gets one. Clients
may give up, new requests need not arrive, and failures need not happen. The pool is
smaller than the processes, so `Answered` is about the time until a standstill.

In `JiraSync`, `Progress` says that the worker goes on (`WF`), and that what River or
Jira repeats after a failure succeeds in the end (`SF` on the steps of a job that follow
its guard and on an event's last delivery). River retries a job that returned an error
with a growing delay and Jira repeats an event that was not answered: both for a limited
number of times, so the assumption is that an outage ends before the last of them.
People need not change anything, and one that does, while a change is under way, ends
what `TakenOver` says of that change.

In `Provisioning`, `WF(Works(d))`: River has a free worker for a job in the end, a worker
that has begun goes on unless it fails or crashes, and the leader rescues what a crash
left running. Failures, crashes and unheard successes may come at any time; a job they use up is discarded,
and `Onboarded` says so. Nobody need deliver anything.

**Counterexamples run by hand.** These `.cfg` files state claims of a document or a
comment that an interleaving or a second code path breaks; `tlc -config X.cfg M`
shows the behaviour. A file with several claims has one active and the others in
comments: put the claim of interest in its place. They are kept beside the runs as
documentation.

| Config (module) | Property: the claim | Why it fails |
| --- | --- | --- |
| `TimesheetClaims` (MCTimesheet) | `InvoicedIsFinal`: "entries move there on generation so the same window can never be billed twice" (`00023_invoices.sql:29`) | a decision read before the invoice and written after it takes an entry out of invoiced |
|  | `DecidesSubmittedOnly`: only submitted entries are decided | both decisions read `submitted` |
| `BudgetClaims` (MCBudgetAlerts) | `AlertsQueued`: budget alerts ride the notify rail with their own settings gate (`00022_budget_alerts.sql:2-4`) | the gate of `notifyEvent` knows no budget event |
|  | `EachBandOnce`: "each band fires exactly once" | the rows affected are not read, so two checks announce one band; and with one check, a completing patch keeps the budget and resets the level |
|  | `LevelReached`: the level is a threshold the hours have reached | a check of the old budget writes after the patch that reset the level |
|  | `NoEntryMissesBand`: the same of every entry, however it is written | imports start no check |
|  | `GrowthRearms`: the level is reset when the budget grows | the config sheet writes `budget_hours` only |
| `PoolExhausted` (MCNotifyPool) | `ConnsShortLived`: "pool conns are short-lived here" (`notify.go:52-53`) | each process holds a connection and waits for another, for ever |
| `TasksClaims` (MCProjectTasks) | `DoneLeftByReopening`: done to todo with a reason is the only exit from done (`tasks.go:323`) | done to blocked to todo asks for none |
|  | `WaivedIsTerminal`: waived is terminal | waived to blocked is allowed |
|  | `NeverStartedWithout`: work cannot start with required fields unset | portal, webhook and creation do not ask |
|  | `PushedWithChange`: jobs are inserted with the data they serve | the push follows the commit |
|  | `GatesAlwaysKept`: completion needs all required tasks done | a task is created between count and write |
|  | `AnnouncedOnce`: one announcement for a completion | a title patch races the portal |
|  | `LatestRowTells`: the trail, read by date, tells the status | the last to write had begun first |
| `BillingClaims` (MCBilling) | `ConsumedAreMarked`: the consumed entries are marked in the same transaction | rejected between `billed` and `mark` |
|  | `NotesLockedOnceSent`: notes are locked once sent | patched on a status read earlier |
|  | `VoidIsFinal`: void has no way out | paid on a status read earlier |
|  | `BilledOnce`: no entry is on two invoices | both take their snapshot before either marks |
| `UnpricedLine` (MCBilling) | `EveryLinePriced`: every billed role has a rate | the card goes between gap check and bill |
| `RetroactiveRate` (MCBilling) | `PricedByCardInForce`: past hours keep the card they were logged against | `effective_from` is never read |
| `ProposalClaims` (MCProposals) | `SheetExecutedOnce`: "state machine draft→executed (re-approve 404)" (`configagent.go:160`) | two approvals read the draft, and the rows affected are not read |
|  | `TrailTellsMigrations`: an audit row for an execution | the second approval changes no row and is audited |
|  | `ApprovedIsExecuted`: a proposal is executed when it is approved | the portal approves it and executes nothing |
|  | `NoTwins`: no second row for a pending proposal (`mcpwrite.go:21`) | two agents look before either inserts |
|  | `OneOpenEscalation`: one open escalation (`00012_csat.sql:82`) | two ratings look before either commits |
|  | `LowFindsOpen`: a low rating finds or opens an escalation | the one it found is closed before it commits |
|  | `NothingWhileDisabled`: kill switch | it is read before the model is asked |
|  | `ManagersDecide`: a manager approves and the payload is executed (`mcpwrite.go:16-17`) | `decided_by` references contacts (`00011_approvals.sql:16`): PostgreSQL refuses a session's user |
| `JiraClaims` (MCJiraSync) | `AlwaysInStep`: both sides end in step | two changes at once overtake one another |
|  | `MirroredOnce`: "dedupe: jira comment id", with two handlers | two deliveries are served at once |
|  | `CompletedInJira`: two-way sync | a contact's completion queues no push |
|  | `AllSkippedKnown`: what the guard of the push skips is what Jira sent (`main.go:141`) | an event about anything else moves `last_synced_at` past the change |
| `SessionsClaims` (MCSessions) | `TokensAreStored`: "link or JIT ..., issue session" (`sso.go:506`) | an SSO login's refresh token has no row, so it cannot be refreshed |
|  | `ThrottleExact`: "5/email/hr" (`auth.go:126`) | two requests count before either inserts |
|  | `MailboxLimited`: the same of a mailbox, of requests that do not race | an address is counted as typed and matched without case, so each spelling has a count of its own |
|  | `SingleUse`: "Token is single-use" (`openapi.yaml:1357`) | two requests read it unused |
|  | `FamilyKilled`: "reuse of a rotated token kills the family" (`auth.go:278`) | a refresh that has read its row goes on |
| `ProvisioningClaims` (MCProvisioning) | `TemplateFlagsKept`: a task has the flags of its template (`templates.go:14-15`) | the two arguments of the INSERT are swapped |
|  | `OneActive`: a new version takes over (`templates.go:188`) | a version of a version that is not active leaves two active |
|  | `OneProject`: one project for a deal (`salesforce.go:8-10`) | the worker does not look whether a run before it had committed, and its commit may go unheard |
|  | `NothingDropped`: a job is dropped only when the integration was removed (`main.go:684`) | a Salesforce webhook verifies with HubSpot's secret while Salesforce has none |
| `MigrationClaims` (MCMigration) | `ColumnsExist`: "execution is code" (`migrationagent.go:20-21`) | a guessed column is the key in lower case, and so may be the model's: the file has no such header and the field stays empty |
|  | `GuessStands`: "best-guess stands" (`migrationagent.go:172`) | the columns of a guess and of the answer are one map: a later field takes the column |
|  | `OneLeadingPlus`: "one leading +" (`migrationagent.go:507`) | a plus between digits is kept and another one put before it |
|  | `PreviewForetells`: the preview shows the errors (`migrationagent.go:602`) | it does not look for duplicates |

## 4. Proofs

All proofs are for every value of the constants that satisfies the assumptions of the
modules (which TLC evaluates on every run). The provers used are Z3, Zenon and LS4.
The assumptions are that identities of different kinds differ (a session is not a login
link, a deal is not the word "import"), that bounds are natural numbers, that the templates and
files there may be are sequences of what such a file may hold, that lower case is
idempotent, and that two headers of one file are not the same in lower case. The last one
is not checked by the code: `parseCSV` takes a file with two such headers, and the map
from lower case to header keeps one of them; about such files nothing is claimed. Sets of
identities, users, files and answers may be infinite, except where an assumption says that they are not.
No theorem assumes that requests follow one another. Where a race breaks a property, the
property itself excepts what its history variable names, and the theorem is about the
specification with all races in it. The one theorem with a hypothesis is
`CommentMirroredOnce`, and its hypothesis is about Jira.

| Theorem | Says | Invariant and argument |
| --- | --- | --- |
| `TimesheetCorrect`, `TimesheetAuthorized`, `TimesheetReason`, `DraftLeftBySubmission` | the entries with any number of concurrent decisions, by members or the static token | `TimesheetInv`: types, the audit rows, the reason, and that a decision in flight was allowed when it was read and remains so as far as authorisation goes: a manager's is about time that its author has submitted |
| `BillingCorrect`, `NoHourLost`, `InvoicesBillSomething`, `TrailExplains` | billing with any number of handlers | `BillingInv` adds `InFlightBillable`: what a request between two statements carries has a price, and a payment in flight is of an invoice that was sent. It is needed because the write trusts what was read |
| `BillingImplementsTimesheet` | `Spec => TimesheetSpec` | every billing step is a step of the timesheet or leaves it alone |
| `DoubleBillingNeedsRace`, `BillingKeepsPromise` | any number of handlers: an entry is on two invoices only if it is in `raced`, and billing implements `BillingPromise` | `BilledStaysInvoiced`, a part of `BillingInv`: what no race has touched stays invoiced once it is billed, so no snapshot that is still current holds it. A write on the status that was read is a step of the promise's table, any other an overwrite |
| `BudgetCorrect`, `BandsAnnounced`, `LevelIsAnnounced`, `LevelRises` | any number of checks, patches and sheets | `BudgetInv`: a running check carries a level it decided on; unless one of its causes is in `excuse`, the band reached is at the level or pending in a check of this budget (`BandPending`), and the level was or is about to be announced (`LevelTracks`); `BandMonotone` is the arithmetic |
| `SecondAlertNeedsRace` | any number of checks: a band of one budget is announced twice only if it is in `repeated` | `TwiceInv` adds that any other band was announced once at most or is about to be by one check (`OnceOnly`), and that the level keeps later checks away |
| `PoolCorrect`, `StandstillNeedsAll` | any number of processes and connections: what a standstill takes | `PoolInv`: a process holds two connections only while it enqueues, and none before it has acquired its first; so who holds one and waits is past its commit and holds no other |
| `ProjectCorrect`, `DoneCompleted`, `TrailTells`, `GoLiveFirst` | any number of handlers and tasks, transactions that begin in any order | `Correct`, the conjunction, is inductive: a row by one that began before the latest row's changes the task and not the latest row, which is what `outrun` notes |
| `ProposalCorrect`, `ProposalsTyped`, `ExecutedOncePerOpening`, `RatingsFollowDecisions`, `LowRatingsEscalated`, `EffectsTrailed` | any number of handlers, approvals and drafts | `ProposalInv`: the rating a request carries is of an approval that was decided; who opened no escalation saw one made; a rating that is not committed holds its key alone, so the low ones can be counted; a draft that is being approved exists |
| `ProposalsKeepPromise` | any number of handlers, approvals and drafts: `Proposals` implements `ProposalPromise` | from `ProposalInv`, one lemma for each action that the promise sees (`AskKept`, `DecisionKept`, `ReopeningKept`, `RatingKept`, `DraftKept`), and the others change nothing it sees. A rating is the step that needs the invariant: it writes what it read two steps before |
| `SessionsCorrect`, `SessionsTyped`, `OneSuccession`, `EndedFamiliesDead`, `OnlyMembersBegin`, `ScimAloneReactivates` | any number of requests, users, links and sessions | `SessionInv`: a member has a row in `users` (so an insert never meets a deactivated one), a refresh between its reads and its write had a live token of an active member, and a family is named after a session, so a family that has ended is never begun anew. Every action is shown to do to a session one of few things (`Keeps`, `Begins`, `Ends`), and `SessionStep` concludes from these alone |
| `ForksAreRaces`, `ThrottleKept` | a family has two live sessions, or a link two logins, only of requests that overlapped; the links of an address, as it was typed, or an IP pass the limit by no more than such requests | `CountInv`: what a handler saw of a link it is to write is still noted in its request, a link that a session is of is consumed, and so on. The sets are compared before and after: each action either leaves what is counted alone (`KeepsLink`, `SteadyRows`) or adds one row to one set, and says of that row whether it raced |
| `JiraCorrect`, `JiraTyped`, `SidesInStep`, `NothingSkipped` | any number of workers, jobs, handlers and overlapping changes, and any workflow in Jira | `WorkInv`: no two workers run one job. `CalmInv`: while nothing overlaps the last change (`Calm`), `SyncInv`: there is one job at most and it pushes the task's status; what is in flight tells the status of the side that changed last; either the issue is there already or the job or event that will move it is there (`PushOwed`, `EventOwed`). A change that makes the system calm again finds it at rest, so nothing of what overlapped before is left but the two statuses and dates, which `SyncInv` takes as they are |
| `CommentMirroredOnce` | a comment becomes one message when its deliveries do not overlap | `MirrorInv`: who found no message is to insert the first. The hypothesis `[]OneDelivery` is about Jira, and `JiraClaims` shows that it is needed |
| `ProvisioningCorrect`, `OneProjectPerDelivery`, `OneCustomerPerAccount` | any number of deals, accounts, attempts, crashes, unheard commits, templates and imports | `ProvisioningInv`: a deal has at most as many projects as runs of its job committed, which is `again` while the job is not committed and one more while it is; a deal that was not delivered has no job; a run that found no customer saw none |
| `ProvisioningTyped`, `CountsKept` | any files, templates and number of imports | `TypeInv` adds that a job that waits has attempts left and that a run is repeated after one that had committed no more often than there were mishaps. `CountsInv`: what is imported to a project lies within the lines counted, so the lines of the next file are new, and the accepted and quarantined lines of a file partition it (`FileParsed`). The rows a template has are finite and an action adds one to one of them |
| `MappingsSound`, `EveryRowAccounted`, `PreviewKept`, `ResultsSafe` | any file, headers and answer of the model, any number of rows shown | `MigrationInv`: the mapping is one `Mappings` may make of the file and the answer, the preview is what `RowOut` makes of the first rows, and result and quarantine what it makes of all. The first of several equal rows without errors is kept (`FirstKept`, by the least element of a set of numbers) |
| `ProjectGates`, `SecondCallNeedsRace` | any number of requests at once: gates of the project, and one announcement for a completion, but for raced requests | `RaceInv`: what a request that is not in `raced` read of its task is still so (`StillAsRead`), the tasks it counted still pass (`StillPassed`), and a completion nobody raced for was announced once or is about to be by one request (`NewsInv`) |

The type invariants of `Billing`, `BudgetAlerts`, `NotifyPool`, `ProjectTasks`, `JiraSync`
and `Sessions` are conjuncts of `BillingCorrect`, `BudgetCorrect`, `PoolCorrect`,
`ProjectCorrect`, `JiraCorrect` and `SessionsCorrect`, and of no run. So are a few properties that hold by a short argument (a reject reason while
rejected, a draft left only by submission, go-live as the first completion). That what is
rated was decided (`RatingsFollowDecisions`) is part of `ProposalPromise`.

Only model-checked: liveness (`Answered`, `TakenOver`, `Onboarded`), for fairness is
outside the prover. Every invariant and action property of a run is a theorem.

## 5. Not modelled

- Row level security and routing (`server.go`): which rows a request can see. Every
  module describes one workspace.
- Reports and search (`margins.go`, `metrics.go`, `signals.go`, `search.go`,
  `qbexport.go`): they read, compute and change nothing.
- Amounts on an invoice. Lines and subtotal are rounded by PostgreSQL's numeric
  arithmetic, each for itself; which card prices a line is modelled, its product is not.
- Resourcing: single inserts and deletes. Capacity is computed when it is read and
  guards no write, so no state depends on the order of two of them.
- The reminders and digests of the worker and the delivery to Slack: they send what
  they read and keep a mark no other part reads.
- Portal links and the portal's session cookie: single guarded writes, and a token that
  is read. What a contact does with them is in `ProjectTasks` and `Proposals`.
- Conditions of automation rules, and the history of their runs: they decide nothing
  another part reads. Rules as users of connections are in `NotifyPool`.
- Content (files, documents, forms, chat, settings): storage of single rows.
- The language-model agents that only answer: prompts and answers of an external
  service. Those whose answers are acted on are in `Proposals` and `Migration`.
- Signatures: the access token, the state of an SSO login and webhook signatures are
  verified or not; keys and their caches are left out.
- The web application, a client of the API, and the running of schema migrations.

## 6. What is left

1. **Promises of Sessions and Provisioning**: a family of tokens with one live member, and a
   deal that becomes one project, as abstract specifications that hold but for the races
   and crashes the invariants name.
2. **InvoiceMath**: rounding of lines and subtotal over bounded inputs.
