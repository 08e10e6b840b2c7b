------------------------------- MODULE NotifyPool -------------------------------
(***************************************************************************)
(* The connection pool of the API under notifyEvent (notify.go) and the    *)
(* automations it fires (automations.go).                                  *)
(*                                                                         *)
(* A handler commits its own transaction and then notifies.  notifyEvent   *)
(* holds a pool connection while enqueueSlackEvent begins a transaction,   *)
(* which takes a second one; a slack_message automation does the same.     *)
(* All of this runs under context.WithoutCancel: nothing but a free        *)
(* connection ends the wait.  The goroutine of checkBudgetAlert has the    *)
(* shape of a handler: a short transaction, then notifyEvent.              *)
(***************************************************************************)
EXTENDS Integers

CONSTANTS
    Procs,      \* requests and goroutines that notify
    Conns,      \* the connections the pool may have open
    Pool,       \* the owner of a connection that is free
    MaxRules    \* bound on the slack_message automations an event matches

ASSUME PoolAssumption == Pool \notin Procs

VARIABLES
    pc,     \* where each process is
    owner,  \* who holds each connection
    rules   \* per process, the matching automations still to run

vars == <<pc, owner, rules>>

TypeOK ==
    /\ pc \in [Procs -> {"idle", "begin", "tx", "notify", "settings", "enqueue", "insert",
                         "fire", "rules", "ruletx"}]
    /\ owner \in [Conns -> Procs \cup {Pool}]
    /\ rules \in [Procs -> Nat]

Init ==
    /\ pc = [p \in Procs |-> "idle"]
    /\ owner = [c \in Conns |-> Pool]
    /\ rules = [p \in Procs |-> 0]

Move(p, from, to) ==
    /\ pc[p] = from
    /\ pc' = [pc EXCEPT ![p] = to]

Free == {c \in Conns : owner[c] = Pool}

Acquire(p) == \E c \in Free : owner' = [owner EXCEPT ![c] = p]

(* Everything p holds goes back to the pool. *)
Release(p) == owner' = [c \in Conns |-> IF owner[c] = p THEN Pool ELSE owner[c]]

-----------------------------------------------------------------------------
(* A request arrives; its transaction waits for a connection as long as the *)
(* client does.                                                             *)
Arrive(p) == Move(p, "idle", "begin") /\ UNCHANGED <<owner, rules>>
BeginTx(p) == Move(p, "begin", "tx") /\ Acquire(p) /\ UNCHANGED rules
GiveUp(p) == Move(p, "begin", "idle") /\ UNCHANGED <<owner, rules>>

(* Mutant: the event is announced before the transaction is committed. *)
NotifyFirst(p) ==
    \/ Move(p, "tx", "notify") /\ UNCHANGED <<owner, rules>>
    \/ Move(p, "tx", "idle") /\ Release(p) /\ UNCHANGED rules

(* It commits, and has an event to announce, or ends.                       *)
EndTx(p) ==
    /\ \/ Move(p, "tx", "notify")
       \/ Move(p, "tx", "idle")
    /\ Release(p)
    /\ UNCHANGED rules

(* notifyEvent: a connection for the settings.                              *)
AcquireSettings(p) == Move(p, "notify", "settings") /\ Acquire(p) /\ UNCHANGED rules

(* The workspace wants the event on Slack: the connection is kept.          *)
WantsSlack(p) == Move(p, "settings", "enqueue") /\ UNCHANGED <<owner, rules>>

(* It does not, or the query failed: on to the automations.                 *)
NoSlack(p) == Move(p, "settings", "fire") /\ Release(p) /\ UNCHANGED rules

(* enqueueSlackEvent: the second connection.                                *)
BeginEnqueue(p) == Move(p, "enqueue", "insert") /\ Acquire(p) /\ UNCHANGED rules

(* The job is committed or the insert failed, and the deferred Release runs.*)
Enqueued(p) == Move(p, "insert", "fire") /\ Release(p) /\ UNCHANGED rules

(* fireAutomations: a connection, and the rules that match and have a       *)
(* webhook to post to.                                                      *)
AcquireRules(p) ==
    /\ Move(p, "fire", "rules")
    /\ Acquire(p)
    /\ \E n \in 0..MaxRules : rules' = [rules EXCEPT ![p] = n]

(* runAutomation, slack_message: a second connection again.                 *)
BeginRule(p) ==
    /\ rules[p] > 0
    /\ Move(p, "rules", "ruletx")
    /\ Acquire(p)
    /\ UNCHANGED rules

(* Mutant: the loop runs the same rule again. *)
RuleAgain(p) ==
    /\ Move(p, "ruletx", "rules")
    /\ \E c \in Conns :
          /\ owner[c] = p
          /\ owner' = [d \in Conns |-> IF owner[d] = p /\ d # c THEN Pool ELSE owner[d]]
    /\ UNCHANGED rules

(* The rule's transaction ends; of the process's connections one is kept.   *)
RuleDone(p) ==
    /\ Move(p, "ruletx", "rules")
    /\ \E c \in Conns :
          /\ owner[c] = p
          /\ owner' = [d \in Conns |-> IF owner[d] = p /\ d # c THEN Pool ELSE owner[d]]
    /\ rules' = [rules EXCEPT ![p] = @ - 1]

(* No rule is left: the deferred Release runs.                              *)
RulesDone(p) ==
    /\ rules[p] = 0
    /\ Move(p, "rules", "idle")
    /\ Release(p)
    /\ UNCHANGED rules

(* A connection that must be opened cannot be: the step that wanted it, or  *)
(* the rule, is skipped.  Waiting for one that is in use does not fail.     *)
AcquireFails(p) ==
    /\ Free # {}
    /\ \/ Move(p, "notify", "fire") /\ UNCHANGED <<owner, rules>>
       \/ Move(p, "enqueue", "fire") /\ Release(p) /\ UNCHANGED rules
       \/ Move(p, "fire", "idle") /\ UNCHANGED <<owner, rules>>
       \/ /\ rules[p] > 0 /\ Move(p, "rules", "rules")
          /\ rules' = [rules EXCEPT ![p] = @ - 1]
          /\ UNCHANGED owner

-----------------------------------------------------------------------------
(* Steps of a process that wait for nothing. *)
Work(p) ==
    EndTx(p) \/ WantsSlack(p) \/ NoSlack(p) \/ Enqueued(p) \/ RuleDone(p) \/ RulesDone(p)

(* Steps that need a free connection. *)
Obtain(p) ==
    BeginTx(p) \/ AcquireSettings(p) \/ BeginEnqueue(p) \/ AcquireRules(p) \/ BeginRule(p)

Next == \E p \in Procs : Arrive(p) \/ GiveUp(p) \/ Work(p) \/ Obtain(p) \/ AcquireFails(p)

Spec == Init /\ [][Next]_vars

(* A process does its work, and the pool serves those who wait in turn.     *)
Fairness == \A p \in Procs : WF_vars(Work(p)) /\ SF_vars(Obtain(p))

FairSpec == Spec /\ Fairness

-----------------------------------------------------------------------------
Waiting(p) ==
    \/ pc[p] \in {"begin", "notify", "enqueue", "fire"}
    \/ pc[p] = "rules" /\ rules[p] > 0

(* No connection is free, nor held by a process that can go on.             *)
Standstill == \A c \in Conns : owner[c] # Pool /\ Waiting(owner[c])

(* The pool comes to a standstill only when each connection is held by a    *)
(* process of its own that is past its commit and waits for a second one,   *)
(* in enqueueSlackEvent or a slack_message rule: it takes as many           *)
(* notifications at once as there are connections, and no request that      *)
(* still has a transaction open plays a part (notify.go:84,                 *)
(* automations.go:354).                                                     *)
StandstillTakesAll ==
    Standstill =>
        /\ \A c \in Conns : pc[owner[c]] \in {"enqueue", "rules"}
        /\ \A c, d \in Conns : owner[c] = owner[d] => c = d

(* "pool conns are short-lived here" (notify.go): a connection taken is     *)
(* returned.                                                                *)
ConnsShortLived == \A c \in Conns : owner[c] # Pool ~> owner[c] = Pool

(* A request that has committed is answered, since notifying, which cannot  *)
(* be cancelled, comes to an end, or the pool to a standstill (notify.go,   *)
(* automations.go).                                                         *)
Answered == \A p \in Procs : pc[p] = "notify" ~> pc[p] = "idle" \/ Standstill
=============================================================================
