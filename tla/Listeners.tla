------------------------------ MODULE Listeners ------------------------------
(***************************************************************************)
(* task_manager.py: the list of background tasks and the payments that are *)
(* handed to the invoice listeners among them.  Two consumers take paid    *)
(* invoices from a queue each and put them on the queue of every listed    *)
(* listener; a permanent task is started again when it raises; a task of a *)
(* listed name replaces it; a heartbeat removes the tasks that are done.   *)
(***************************************************************************)
EXTENDS Naturals, SequencesExt

VARIABLES tmTasks,    \* the list: [name, done], in order
          tmNext,     \* the next payment to be announced
          tmCentral,  \* invoice_queue and internal_invoice_queue
          tmQueue,    \* the queue of each listener
          tmRuns,     \* what each listener is doing: a payment, or Waiting
          tmGot,      \* history: the payments each listener has handled
          tmExcused   \* history: those it raised on, or that its replacement dropped

vars == <<tmTasks, tmNext, tmCentral, tmQueue, tmRuns, tmGot, tmExcused>>

Payments == 1..2              \* bound: how many payments are announced
Sources == {"invoice", "internal"}
Hooks == {"core", "ext"}      \* listed at startup; by an extension, each time it starts
Jobs == {"job1", "job2"}      \* tasks that end
Waiting == 0

Init ==
    /\ tmTasks = <<[name |-> "core", done |-> FALSE]>> /\ tmNext = 1
    /\ tmCentral = [s \in Sources |-> << >>] /\ tmQueue = [h \in Hooks |-> << >>]
    /\ tmRuns = [h \in Hooks |-> Waiting]
    /\ tmGot = [h \in Hooks |-> << >>] /\ tmExcused = [h \in Hooks |-> {}]

Listed == {tmTasks[i].name : i \in DOMAIN tmTasks}

(* create_task: a task of that name is cancelled, and the new one appended. *)
CreateTask(name) ==
    tmTasks' = Append(SelectSeq(tmTasks, LAMBDA t : t.name # name), [name |-> name, done |-> FALSE])

(* register_invoice_listener: what the replaced listener had queued or was    *)
(* handling is dropped with it.                                               *)
Register(h) ==
    /\ CreateTask(h)
    /\ tmExcused' = [tmExcused EXCEPT ![h] =
                       @ \union ToSet(tmQueue[h]) \union ({tmRuns[h]} \ {Waiting})]
    /\ tmQueue' = [tmQueue EXCEPT ![h] = << >>] /\ tmRuns' = [tmRuns EXCEPT ![h] = Waiting]
    /\ UNCHANGED <<tmNext, tmCentral, tmGot>>

StartJob(j) == CreateTask(j) /\ UNCHANGED <<tmNext, tmCentral, tmQueue, tmRuns, tmGot, tmExcused>>

EndJob(j) ==
    /\ \E i \in DOMAIN tmTasks :
         /\ tmTasks[i] = [name |-> j, done |-> FALSE]
         /\ tmTasks' = [tmTasks EXCEPT ![i].done = TRUE]
    /\ UNCHANGED <<tmNext, tmCentral, tmQueue, tmRuns, tmGot, tmExcused>>

(* _heart_beat removes from the list while it goes through it: the task after *)
(* a removed one is not looked at.                                            *)
Swept[i \in 0..Len(tmTasks)] == i # 0 /\ tmTasks[i].done /\ ~Swept[i - 1]
Kept[i \in 0..Len(tmTasks)] ==
    IF i = 0 THEN << >> ELSE IF Swept[i] THEN Kept[i - 1] ELSE Append(Kept[i - 1], tmTasks[i])
HeartBeat ==
    /\ \E i \in DOMAIN tmTasks : tmTasks[i].done
    /\ tmTasks' = Kept[Len(tmTasks)]
    /\ UNCHANGED <<tmNext, tmCentral, tmQueue, tmRuns, tmGot, tmExcused>>

(* A backend's stream, or an internal payment, announces a paid invoice. *)
Announce(s) ==
    /\ tmNext \in Payments /\ tmNext' = tmNext + 1
    /\ tmCentral' = [tmCentral EXCEPT ![s] = Append(@, tmNext)]
    /\ UNCHANGED <<tmTasks, tmQueue, tmRuns, tmGot, tmExcused>>

(* _invoice_listener_consumer and _internal_invoice_listener_consumer: to     *)
(* every task that has an invoice queue, in one step.                         *)
DispatchedToFirst(p) ==
    [h \in Hooks |-> IF h = tmTasks[1].name THEN Append(tmQueue[h], p) ELSE tmQueue[h]]
Dispatched(p) == [h \in Hooks |-> IF h \in Listed THEN Append(tmQueue[h], p) ELSE tmQueue[h]]
Consume(s) ==
    /\ tmCentral[s] # << >>
    /\ tmQueue' = Dispatched(Head(tmCentral[s]))
    /\ tmCentral' = [tmCentral EXCEPT ![s] = Tail(@)]
    /\ UNCHANGED <<tmTasks, tmNext, tmRuns, tmGot, tmExcused>>

(* _invoice_listener_worker, one payment at a time. *)
Take(h) ==
    /\ tmRuns[h] = Waiting /\ tmQueue[h] # << >>
    /\ tmRuns' = [tmRuns EXCEPT ![h] = Head(tmQueue[h])]
    /\ tmQueue' = [tmQueue EXCEPT ![h] = Tail(@)]
    /\ UNCHANGED <<tmTasks, tmNext, tmCentral, tmGot, tmExcused>>

Handle(h) ==
    /\ tmRuns[h] \in Payments
    /\ tmGot' = [tmGot EXCEPT ![h] = Append(@, tmRuns[h])]
    /\ tmRuns' = [tmRuns EXCEPT ![h] = Waiting]
    /\ UNCHANGED <<tmTasks, tmNext, tmCentral, tmQueue, tmExcused>>

(* _catch_everything_and_restart: the payment is not put back, and the worker *)
(* waits for the next.                                                        *)
Raise(h) ==
    /\ tmRuns[h] \in Payments
    /\ tmExcused' = [tmExcused EXCEPT ![h] = @ \union {tmRuns[h]}]
    /\ tmRuns' = [tmRuns EXCEPT ![h] = Waiting]
    /\ UNCHANGED <<tmTasks, tmNext, tmCentral, tmQueue, tmGot>>

Next ==
    \/ Register("ext")
    \/ \E h \in Hooks : Take(h) \/ Handle(h) \/ Raise(h)
    \/ \E j \in Jobs : StartJob(j) \/ EndJob(j)
    \/ HeartBeat
    \/ \E s \in Sources : Announce(s) \/ Consume(s)

(* A listener's worker does what it can. *)
Works(h) == Take(h) \/ Handle(h) \/ Raise(h)

TypeOK ==
    /\ \A i \in DOMAIN tmTasks : tmTasks[i] \in [name : Hooks \union Jobs, done : BOOLEAN]
    /\ tmNext \in Nat /\ tmCentral \in [Sources -> Seq(Payments)] /\ tmQueue \in [Hooks -> Seq(Payments)]
    /\ tmRuns \in [Hooks -> Payments \union {Waiting}]
    /\ tmGot \in [Hooks -> Seq(Payments)] /\ tmExcused \in [Hooks -> SUBSET Payments]

(* A payment announced while a listener is registered is handled by it in the *)
(* end, or is one it raised on or its replacement dropped (task_manager.py    *)
(* 444-450, 485-493), whatever tasks come and go and whatever the heartbeat   *)
(* removes from the list meanwhile; nothing is handled twice.                 *)
ListenersAreTold ==
    /\ \A p \in Payments, h \in Hooks :
         (h \in Listed /\ \E s \in Sources : p \in ToSet(tmCentral[s]))
             ~> p \in ToSet(tmGot[h]) \union tmExcused[h]
    /\ [](\A h \in Hooks : IsInjective(tmGot[h]))
    /\ \A j \in Jobs : ([name |-> j, done |-> TRUE] \in ToSet(tmTasks))
                         ~> ([name |-> j, done |-> TRUE] \notin ToSet(tmTasks))
=============================================================================
