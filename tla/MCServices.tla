----------------------------- MODULE MCServices -----------------------------
(* The adapters of the funding sources, and the services of which something  *)
(* must happen in the end: each by itself, a behaviour is of one part.  The   *)
(* part "C" is AdapterCalls, with every adapter.                              *)
EXTENDS AdapterCalls

AllAdapters == DOMAIN PayTable

VARIABLES part,   \* the component this behaviour is of
          holdRow, holdNode, holdExpired, holdTask, holdCopy, holdEvent,
          trLedger, trNode, trIn, trOut, trSource, trWatch, trAdmin, trMade, trGap, trExcess,
          wiTask, wiThread, wiHandles, wiStopped, wiBound, wiCut, wiCalls, wiRow,
          wiMarked, wiActive, wiAdmin, wiUndone, wiLoose, wiMissed

H == INSTANCE HoldInvoices
T == INSTANCE Treasury
I == INSTANCE Invocations

Parts == {"C", "H", "T", "I"}
hVars == <<holdRow, holdNode, holdExpired, holdTask, holdCopy, holdEvent>>
tVars == <<trLedger, trNode, trIn, trOut, trSource, trWatch, trAdmin, trMade, trGap, trExcess>>
iVars == <<wiTask, wiThread, wiHandles, wiStopped, wiBound, wiCut, wiCalls, wiRow,
           wiMarked, wiActive, wiAdmin, wiUndone, wiLoose, wiMissed>>
allVars == <<part, vars, hVars, tVars, iVars>>

ServicesInit ==
    /\ part \in Parts
    /\ Init
    /\ H!Init
    /\ T!Init
    /\ I!Init

(* A step of one part leaves the others alone. *)
CStep(step) == part = "C" /\ step /\ UNCHANGED <<part, hVars, tVars, iVars>>
HStep(step) == part = "H" /\ step /\ UNCHANGED <<part, vars, tVars, iVars>>
TStep(step) == part = "T" /\ step /\ UNCHANGED <<part, vars, hVars, iVars>>
IStep(step) == part = "I" /\ step /\ UNCHANGED <<part, vars, hVars, tVars>>

ServicesNext == CStep(Next) \/ HStep(H!Next) \/ TStep(T!Next) \/ IStep(I!Next)

(* Every task is scheduled and every wait with a timeout ends; the node does  *)
(* not fail for ever.  (The actions of AdapterCalls are off in a behaviour of *)
(* another part: no adapter is configured.)                                   *)
ServicesFairness ==
    /\ Fairness
    /\ WF_hVars(part = "H" /\ H!Read("check")) /\ WF_hVars(part = "H" /\ H!CheckWrites)
    /\ SF_hVars(part = "H" /\ H!CheckLearns) /\ WF_hVars(part = "H" /\ H!Ends)
    /\ WF_tVars(part = "T" /\ T!WatchStarts) /\ SF_tVars(part = "T" /\ T!WatchLearns)
    /\ WF_tVars(part = "T" /\ T!WatchDecides)
    /\ WF_tVars(part = "T" /\ T!Credit) /\ WF_tVars(part = "T" /\ T!Sent)
    /\ \A i \in I!Ids : /\ WF_iVars(part = "I" /\ I!TimesOut(i))
                        /\ WF_iVars(part = "I" /\ I!GivesUp(i))

ServicesSpec == ServicesInit /\ [][ServicesNext]_allVars /\ ServicesFairness

(* Type correctness of every component. *)
ServicesTypes ==
    /\ part \in Parts
    /\ TypeOK
    /\ H!TypeOK
    /\ T!TypeOK
    /\ I!TypeOK

(* A hold invoice is credited only when the node settled it, and whatever the
   node settled is credited, by settle, by the stream or by the check
   (payments.py 1080-1114): HoldInvoices.CreditIsSettled, SettledIsCredited. *)
HoldsSettle == []H!CreditIsSettled /\ H!SettledIsCredited

(* The watchdog changes to the void wallet only for a debt there was, and for
   every debt that lasts (funding_source.py 12-67); an administrator's debit
   overdraws a wallet by no more than what was spent between the endpoint's
   reading of it and the lock (payments.py 484-547):
   Treasury.SwitchIsJustified, DebtSwitches, OverdraftIsTheGap. *)
TreasuryIsRight ==
    /\ [](T!SwitchIsJustified /\ T!OverdraftIsTheGap)
    /\ T!DebtSwitches

(* The history of invocations calls none running that is not, unless a stop
   wrote back a row it had read before; a stopped invocation calls the host no
   more, and a deactivated extension runs none that is not stopped; whatever
   the guest does, its invocation gives back the place it takes among the
   concurrent ones (services/extensions.py 315-396, wasm/invoke.py 102-178):
   Invocations.HistoryIsTrue, StopsHold, SlotsComeBack. *)
InvocationsAreRight ==
    /\ [](I!HistoryIsTrue /\ I!StopsHold)
    /\ I!SlotsComeBack
=============================================================================
