----------------------------- MODULE Invocations -----------------------------
(***************************************************************************)
(* Invocations of a WASM extension (core/wasm_ext/wasm/invoke.py and the   *)
(* handles of core/services/extensions.py): a request runs the export on a *)
(* thread, which calls the host back on the event loop; it is stopped by a *)
(* timeout, an administrator or the deactivation of the extension.  Each   *)
(* invocation has a handle in memory while it is run, and a row of history.*)
(***************************************************************************)
EXTENDS Naturals, FiniteSets

VARIABLES wiTask,     \* where the request of each invocation is
          wiThread,   \* where its thread is
          wiHandles,  \* the invocations with a handle
          wiStopped,  \* those whose handle says stop_requested
          wiBound,    \* those whose store is attached to the handle
          wiCut,      \* those whose store is interrupted
          wiCalls,    \* the host calls counted by the handle
          wiRow,      \* the status in the row
          wiMarked,   \* _wasm_invocations_marked_stale
          wiActive,   \* the extension is active, in its row
          wiAdmin,    \* the administrator's request: [at, todo, last]
          wiUndone,   \* history: rows a stop has written after they were final
          wiLoose,    \* history: those that were attached and called without a handle
          wiMissed    \* history: those being started while a deactivation ran

vars == <<wiTask, wiThread, wiHandles, wiStopped, wiBound, wiCut, wiCalls, wiRow,
          wiMarked, wiActive, wiAdmin, wiUndone, wiLoose, wiMissed>>
memory == <<wiHandles, wiStopped, wiBound, wiCut, wiCalls>>
history == <<wiUndone, wiLoose, wiMissed>>

Ids == {1, 2}
Limit == 1        \* wasm_runtime_max_concurrent_invocations_per_extension
MaxCalls == 1     \* wasm_runtime_max_host_calls
Idle == [at |-> "idle", todo |-> {}, last |-> FALSE]
Final == {"completed", "failed", "stopped", "timeout", "abandoned"}
Starting == {"ready", "insert", "created"}
Saving == {"completed", "failed", "stopped", "timeout"}

Init ==
    /\ wiTask = [i \in Ids |-> "idle"] /\ wiThread = [i \in Ids |-> "none"]
    /\ wiHandles = {} /\ wiStopped = {} /\ wiBound = {} /\ wiCut = {}
    /\ wiCalls = [i \in Ids |-> 0] /\ wiRow = [i \in Ids |-> "none"]
    /\ wiMarked = FALSE /\ wiActive = TRUE /\ wiAdmin = Idle
    /\ wiUndone = {} /\ wiLoose = {} /\ wiMissed = {}

Goes(i, from, to) == wiTask[i] = from /\ wiTask' = [wiTask EXCEPT ![i] = to]

-----------------------------------------------------------------------------
(* _active_installed_extension, in invoke_wasm_extension_export. *)
Request(i) ==
    /\ wiActive /\ Goes(i, "idle", "ready")
    /\ wiMissed' = (IF wiAdmin.last THEN wiMissed \union {i} ELSE wiMissed)
    /\ UNCHANGED <<wiThread, memory, wiRow, wiMarked, wiActive, wiAdmin, wiUndone, wiLoose>>

(* mark_stale_wasm_invocations *)
NotAbandoned == wiRow
Abandoned == [j \in Ids |-> IF wiRow[j] = "running" THEN "abandoned" ELSE wiRow[j]]

(* start_wasm_invocation: the first one of the process marks what the last    *)
(* one left running; then the handles are counted.                            *)
Check(i) ==
    /\ Goes(i, "ready", IF Cardinality(wiHandles) < Limit THEN "insert" ELSE "refused")
    /\ wiMarked' = TRUE
    /\ wiRow' = (IF wiMarked THEN wiRow ELSE Abandoned)
    /\ UNCHANGED <<wiThread, memory, wiActive, wiAdmin, history>>

Insert(i) ==
    /\ Goes(i, "insert", "created") /\ wiRow' = [wiRow EXCEPT ![i] = "running"]
    /\ UNCHANGED <<wiThread, memory, wiMarked, wiActive, wiAdmin, history>>

Start(i) ==
    /\ Goes(i, "created", "wait") /\ wiHandles' = wiHandles \union {i}
    /\ wiThread' = [wiThread EXCEPT ![i] = "queued"]
    /\ UNCHANGED <<wiStopped, wiBound, wiCut, wiCalls, wiRow, wiMarked, wiActive, wiAdmin, history>>

(* The stop flag of the handles is, and their stores are interrupted. *)
Interrupt(ids) ==
    /\ wiStopped' = wiStopped \union (ids \intersect wiHandles)
    /\ wiCut' = wiCut \union (ids \intersect wiHandles \intersect wiBound)

(* The execution time is over: the invocation is stopped, and has two seconds *)
(* more to come back.                                                         *)
TimesOut(i) ==
    /\ Goes(i, "wait", "grace") /\ Interrupt({i})
    /\ UNCHANGED <<wiThread, wiHandles, wiBound, wiCalls, wiRow, wiMarked, wiActive, wiAdmin, history>>

(* finish_wasm_invocation takes the handle away, and saves the row. *)
Ends(i, from, status) ==
    /\ Goes(i, from, status) /\ wiHandles' = wiHandles \ {i}
    /\ wiStopped' = wiStopped \ {i} /\ wiCalls' = [wiCalls EXCEPT ![i] = 0]
    /\ UNCHANGED <<wiThread, wiBound, wiCut, wiRow, wiMarked, wiActive, wiAdmin, history>>

Back(i) == wiThread[i] \in {"returned", "raised"}
Returns(i) ==
    \/ /\ Back(i)
       /\ Ends(i, "wait", IF i \in wiStopped THEN "stopped"
                          ELSE IF wiThread[i] = "raised" THEN "failed" ELSE "completed")
    \/ Back(i) /\ Ends(i, "grace", "timeout")
GivesUpBack(i) == Back(i) /\ Ends(i, "grace", "timeout")
GivesUp(i) == Ends(i, "grace", "timeout")

Save(i) ==
    /\ wiTask[i] \in Saving /\ wiTask' = [wiTask EXCEPT ![i] = "done"]
    /\ wiRow' = [wiRow EXCEPT ![i] = wiTask[i]]
    /\ UNCHANGED <<wiThread, memory, wiMarked, wiActive, wiAdmin, history>>

-----------------------------------------------------------------------------
(* The thread, of the pool of asyncio.to_thread: it attaches its store to the *)
(* handle if there is one still, and interrupts it if it is to stop.          *)
AttachOnly(i) == wiCut' = wiCut
Attach(i) == wiCut' = (IF i \in wiHandles \intersect wiStopped THEN wiCut \union {i} ELSE wiCut)
ThreadStarts(i) ==
    /\ wiThread[i] = "queued" /\ wiThread' = [wiThread EXCEPT ![i] = "wasm"]
    /\ wiBound' = wiBound \union (wiHandles \intersect {i}) /\ Attach(i)
    /\ UNCHANGED <<wiTask, wiHandles, wiStopped, wiCalls, wiRow, wiMarked, wiActive, wiAdmin, history>>

(* record_wasm_invocation_host_call counts; the call above the limit raises,  *)
(* and the thread ends.  An interrupted store traps before it calls again.    *)
CallsLeft(i) == wiCalls[i] < MaxCalls
HostCall(i) ==
    /\ wiThread[i] = "wasm" /\ i \notin wiCut
    /\ i \in wiHandles => CallsLeft(i)
    /\ wiThread' = [wiThread EXCEPT ![i] = "host"]
    /\ wiCalls' = (IF i \in wiHandles THEN [wiCalls EXCEPT ![i] = @ + 1] ELSE wiCalls)
    /\ wiLoose' = wiLoose \union (({i} \intersect wiBound) \ wiHandles)
    /\ UNCHANGED <<wiTask, wiHandles, wiStopped, wiBound, wiCut, wiRow, wiMarked, wiActive, wiAdmin,
                   wiUndone, wiMissed>>

HostReturns(i) ==
    /\ wiThread[i] = "host" /\ wiThread' = [wiThread EXCEPT ![i] = "wasm"]
    /\ UNCHANGED <<wiTask, memory, wiRow, wiMarked, wiActive, wiAdmin, history>>

ThreadEnds(i) ==
    /\ wiThread[i] = "wasm"
    /\ \E end \in {"returned", "raised"} :
         /\ i \in wiCut => end = "raised"
         /\ wiThread' = [wiThread EXCEPT ![i] = end]
    /\ wiBound' = wiBound \ {i} /\ wiCut' = wiCut \ {i}
    /\ UNCHANGED <<wiTask, wiHandles, wiStopped, wiCalls, wiRow, wiMarked, wiActive, wiAdmin, history>>

-----------------------------------------------------------------------------
(* stop_wasm_invocation for an invocation, or for each one that has a handle  *)
(* when deactivate_extension asks.  The row is read after the flag is set, and *)
(* written back, as it was read, if the invocation was running.               *)
AdminBegins ==
    /\ wiAdmin = Idle /\ wiActive
    /\ \/ \E i \in Ids : wiAdmin' = [at |-> "stop", todo |-> {i}, last |-> FALSE] /\ UNCHANGED wiMissed
       \/ /\ wiAdmin' = [at |-> IF wiHandles = {} THEN "end" ELSE "stop",
                          todo |-> wiHandles, last |-> TRUE]
          /\ wiMissed' = wiMissed \union {i \in Ids : wiTask[i] \in Starting}
    /\ UNCHANGED <<wiTask, wiThread, memory, wiRow, wiMarked, wiActive, wiUndone, wiLoose>>

First == CHOOSE i \in wiAdmin.todo : TRUE
AfterFirst == [wiAdmin EXCEPT !.todo = @ \ {First},
                              !.at = IF wiAdmin.todo # {First} THEN "stop"
                                     ELSE IF wiAdmin.last THEN "end" ELSE "idle"]

StopFlags ==
    /\ wiAdmin.at = "stop" /\ wiAdmin' = [wiAdmin EXCEPT !.at = "read"]
    /\ Interrupt({First})
    /\ UNCHANGED <<wiTask, wiThread, wiHandles, wiBound, wiCalls, wiRow, wiMarked, wiActive, history>>

StopReads ==
    /\ wiAdmin.at = "read"
    /\ wiAdmin' = (IF wiRow[First] = "running" THEN [wiAdmin EXCEPT !.at = "write"] ELSE AfterFirst)
    /\ UNCHANGED <<wiTask, wiThread, memory, wiRow, wiMarked, wiActive, history>>

StopWrites ==
    /\ wiAdmin.at = "write" /\ wiAdmin' = AfterFirst
    /\ wiRow' = [wiRow EXCEPT ![First] = "running"]
    /\ wiUndone' = (IF wiRow[First] \in Final THEN wiUndone \union {First} ELSE wiUndone)
    /\ UNCHANGED <<wiTask, wiThread, memory, wiMarked, wiActive, wiLoose, wiMissed>>

Deactivate ==
    /\ wiAdmin.at = "end" /\ wiAdmin' = Idle /\ wiActive' = FALSE
    /\ UNCHANGED <<wiTask, wiThread, memory, wiRow, wiMarked, history>>

(* The process ends: the rows, and what is deactivated, are what is left. *)
Restart ==
    /\ wiTask' = [i \in Ids |-> IF wiTask[i] = "idle" THEN "idle" ELSE "done"]
    /\ wiThread' = [i \in Ids |-> "none"]
    /\ wiHandles' = {} /\ wiStopped' = {} /\ wiBound' = {} /\ wiCut' = {}
    /\ wiCalls' = [i \in Ids |-> 0] /\ wiMarked' = FALSE /\ wiAdmin' = Idle
    /\ UNCHANGED <<wiRow, wiActive, history>>

Next == \/ \E i \in Ids : \/ Request(i) \/ Check(i) \/ Insert(i) \/ Start(i)
                          \/ TimesOut(i) \/ Returns(i) \/ GivesUp(i) \/ Save(i)
                          \/ ThreadStarts(i) \/ HostCall(i) \/ HostReturns(i) \/ ThreadEnds(i)
        \/ AdminBegins \/ StopFlags \/ StopReads \/ StopWrites \/ Deactivate
        \/ Restart

-----------------------------------------------------------------------------
TypeOK ==
    /\ wiTask \in [Ids -> {"idle", "wait", "grace", "refused", "done"} \union Starting \union Saving]
    /\ wiThread \in [Ids -> {"none", "queued", "wasm", "host", "returned", "raised"}]
    /\ wiHandles \subseteq Ids /\ wiStopped \subseteq Ids
    /\ wiBound \subseteq Ids /\ wiCut \subseteq wiBound
    /\ wiCalls \in [Ids -> 0..MaxCalls]
    /\ wiRow \in [Ids -> {"none", "running"} \union Final]
    /\ wiMarked \in BOOLEAN /\ wiActive \in BOOLEAN
    /\ wiAdmin \in [at : {"idle", "stop", "read", "write", "end"}, todo : SUBSET Ids, last : BOOLEAN]
    /\ wiUndone \subseteq Ids /\ wiLoose \subseteq Ids /\ wiMissed \subseteq Ids

(* What the history calls running is: it is being started, run or saved, or a *)
(* stop that had read it before it ended has written it again.                *)
HistoryIsTrue ==
    wiMarked => \A i \in Ids : wiRow[i] = "running" =>
        \/ wiTask[i] \in {"created", "wait", "grace"} \union Saving
        \/ i \in wiUndone

(* A call that is counted by nobody comes only from a thread that began after *)
(* its request had given it up; and an extension that is deactivated runs     *)
(* nothing but what is stopped, or was being started meanwhile.               *)
StopsHold ==
    /\ wiLoose = {}
    /\ ~wiActive => wiHandles \subseteq wiStopped \union wiMissed

(* An invocation gives its place back, whatever its thread does. *)
SlotsComeBack == \A i \in Ids : i \in wiHandles ~> i \notin wiHandles
=============================================================================
