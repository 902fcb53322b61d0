--------------------------- MODULE InvoiceStreams ---------------------------
(***************************************************************************)
(* The paid_invoices_stream of the funding sources, and                    *)
(* fundingsource_invoice_producer, which consumes it and is started again  *)
(* with a new stream when it raises; the process may be restarted once.    *)
(* The kinds of stream, as StreamTable gives them for the adapters:        *)
(*   push    the node sends what is paid while the connection is open      *)
(*   queue   a listener puts what is paid in a queue of this process       *)
(*   latest  the node is asked for what was paid after an index, which is  *)
(*           the latest one when the process starts                        *)
(*   replay  the same, from the first one when the process starts          *)
(*   poll    the pending invoices are asked for in turn; one that is paid  *)
(*           is removed when its consumer comes back for the next          *)
(*   copied  the same, over a copy of the list                             *)
(*   window  the first ones of the list are asked for together; one that   *)
(*           is paid is removed, and the list saved, before it is given    *)
(***************************************************************************)
EXTENDS Adapters, Naturals, Sequences, SequencesExt

VARIABLES stKind,     \* the kind of stream the configured backend has
          stPaid,     \* the invoices the node has settled, in order
          stPending,  \* pending_invoices
          stBatch,    \* copied: the copy; window: those of the answer that are paid
          stAt,       \* polls: the position the loop is at; index: last_pay_index
          stWire,     \* push: sent and not read yet; queue: the queue
          stUp,       \* push: the connection is open
          stHeld,     \* the invoice the consumer is handling, or Nothing
          stRaised,   \* the consumer has raised and waits to be started again
          stRestarts, \* how often the process was started again
          stBooked,   \* the invoices it has booked
          stExcused   \* history: those it may miss

vars == <<stKind, stPaid, stPending, stBatch, stAt, stWire, stUp, stHeld, stRaised,
          stRestarts, stBooked, stExcused>>

Kinds == {StreamTable[a] : a \in DOMAIN StreamTable} \ {"silent"}
Invoices == 1..3
Window == 2        \* bound: how many pending invoices one request asks for
MaxRestarts == 1   \* bound
Nothing == 0
Polls == stKind \in {"poll", "copied", "window"}
Indexed == stKind \in {"latest", "replay"}

Init ==
    /\ stKind \in Kinds
    /\ stPaid = << >> /\ stPending = IF Polls THEN <<1, 2, 3>> ELSE << >>
    /\ stBatch = << >> /\ stAt = IF Polls THEN 1 ELSE 0
    /\ stWire = << >> /\ stUp = (stKind = "queue") /\ stHeld = Nothing /\ stRaised = FALSE
    /\ stRestarts = 0 /\ stBooked = {} /\ stExcused = {}

Reading == stHeld = Nothing /\ ~stRaised

Pay(i) ==
    /\ i \notin ToSet(stPaid) /\ stPaid' = Append(stPaid, i)
    /\ stWire' = IF stUp THEN Append(stWire, i) ELSE stWire
    /\ stExcused' = IF stKind = "push" /\ ~stUp THEN stExcused \union {i} ELSE stExcused
    /\ UNCHANGED <<stKind, stPending, stBatch, stAt, stUp, stHeld, stRaised, stRestarts, stBooked>>

(* push: the connection, and what it has brought. *)
Open ==
    /\ stKind = "push" /\ Reading /\ ~stUp /\ stUp' = TRUE
    /\ UNCHANGED <<stKind, stPaid, stPending, stBatch, stAt, stWire, stHeld, stRaised, stRestarts,
                   stBooked, stExcused>>
Drop ==
    /\ stKind = "push" /\ stUp /\ stUp' = FALSE
    /\ stWire' = << >> /\ stExcused' = stExcused \union ToSet(stWire)
    /\ UNCHANGED <<stKind, stPaid, stPending, stBatch, stAt, stHeld, stRaised, stRestarts, stBooked>>
WireNext ==
    /\ Reading /\ stWire # << >>
    /\ stHeld' = Head(stWire) /\ stWire' = Tail(stWire)
    /\ UNCHANGED <<stKind, stPaid, stPending, stBatch, stAt, stUp, stRaised, stRestarts, stBooked, stExcused>>

(* waitanyinvoice answers with the next payment after the index, which is     *)
(* kept before the payment is handed out.                                     *)
LatestOf(at) == Len(stPaid)
NextOf(at) == at + 1
IndexNext ==
    /\ Indexed /\ Reading /\ stAt < Len(stPaid)
    /\ stAt' = NextOf(stAt) /\ stHeld' = stPaid[NextOf(stAt)]
    /\ UNCHANGED <<stKind, stPaid, stPending, stBatch, stWire, stUp, stRaised, stRestarts, stBooked, stExcused>>

-----------------------------------------------------------------------------
(* The loop goes by position through the list, which it and its consumer      *)
(* change, through a copy of it, or through the paid ones of an answer.       *)
Round == IF stKind = "poll" THEN stPending ELSE stBatch

RoundOf(pending) ==
    IF stKind = "window" THEN SelectSeq(SubSeq(pending, 1, Min({Window, Len(pending)})), LAMBDA i : i \in ToSet(stPaid))
    ELSE pending
PollAgainAtZero ==
    /\ Polls /\ Reading /\ stPending # << >> /\ stAt > Len(Round) /\ stAt' = 0
    /\ stBatch' = IF stKind = "poll" THEN << >> ELSE RoundOf(stPending)
    /\ UNCHANGED <<stKind, stPaid, stPending, stWire, stUp, stHeld, stRaised, stRestarts, stBooked, stExcused>>
PollAgain ==
    /\ Polls /\ Reading /\ stPending # << >> /\ stAt > Len(Round) /\ stAt' = 1
    /\ stBatch' = IF stKind = "poll" THEN << >> ELSE RoundOf(stPending)
    /\ UNCHANGED <<stKind, stPaid, stPending, stWire, stUp, stHeld, stRaised, stRestarts, stBooked, stExcused>>

Polled == Polls /\ Reading /\ stAt \in DOMAIN Round
PollPaid ==
    /\ Polled /\ Round[stAt] \in ToSet(stPaid)
    /\ stHeld' = Round[stAt]
    /\ stPending' = IF stKind = "window" THEN Remove(stPending, Round[stAt]) ELSE stPending
    /\ UNCHANGED <<stKind, stPaid, stBatch, stAt, stWire, stUp, stRaised, stRestarts, stBooked, stExcused>>
PollUnpaid ==
    /\ Polled /\ Round[stAt] \notin ToSet(stPaid) /\ stAt' = stAt + 1
    /\ UNCHANGED <<stKind, stPaid, stPending, stBatch, stWire, stUp, stHeld, stRaised, stRestarts,
                   stBooked, stExcused>>
(* One question fails and the loop goes on; that for a window fails whole.    *)
PollFails ==
    /\ Polled /\ stKind # "window" /\ stAt' = stAt + 1
    /\ UNCHANGED <<stKind, stPaid, stPending, stBatch, stWire, stUp, stHeld, stRaised, stRestarts,
                   stBooked, stExcused>>
AskFails ==
    /\ stKind = "window" /\ Reading /\ stPending # << >> /\ stAt > Len(Round) /\ stRaised' = TRUE
    /\ UNCHANGED <<stKind, stPaid, stPending, stBatch, stAt, stWire, stUp, stHeld, stRestarts, stBooked, stExcused>>

-----------------------------------------------------------------------------
(* The consumer comes back: what it was handed by a poll is removed now, and  *)
(* the loop goes on with the position after it.                               *)
ComesBack ==
    /\ stHeld' = Nothing
    /\ stPending' = IF stKind \in {"poll", "copied"} THEN Remove(stPending, stHeld) ELSE stPending
    /\ stAt' = IF Polls THEN stAt + 1 ELSE stAt

(* update_invoice_from_paid_invoices_stream: booked when the node confirms,   *)
(* and else left for a later check.                                           *)
Book ==
    /\ stHeld # Nothing /\ stBooked' = stBooked \union {stHeld} /\ ComesBack
    /\ UNCHANGED <<stKind, stPaid, stBatch, stWire, stUp, stRaised, stRestarts, stExcused>>
NotConfirmed ==
    /\ stHeld # Nothing /\ stExcused' = stExcused \union {stHeld} /\ ComesBack
    /\ UNCHANGED <<stKind, stPaid, stBatch, stWire, stUp, stRaised, stRestarts, stBooked>>

(* The consumer raises, for instance when the database is locked: its stream  *)
(* is given up with what the connection had brought, and with the invoice in  *)
(* hand unless that is still pending.                                         *)
InHand == IF stHeld = Nothing \/ stHeld \in ToSet(stPending) THEN {} ELSE {stHeld}
Lost == IF stKind = "push" THEN ToSet(stWire) ELSE {}
Raise ==
    /\ stHeld # Nothing /\ stRaised' = TRUE /\ stHeld' = Nothing
    /\ stUp' = (stUp /\ stKind # "push") /\ stWire' = IF stKind = "push" THEN << >> ELSE stWire
    /\ stAt' = (IF Polls THEN 1 ELSE stAt) /\ stBatch' = << >>
    /\ stExcused' = stExcused \union Lost \union InHand
    /\ UNCHANGED <<stKind, stPaid, stPending, stRestarts, stBooked>>
Again ==
    /\ stRaised /\ stRaised' = FALSE
    /\ UNCHANGED <<stKind, stPaid, stPending, stBatch, stAt, stWire, stUp, stHeld, stRestarts, stBooked, stExcused>>

(* A restart forgets the list, unless it is saved, the queue and the index,   *)
(* of which "replay" begins with the first payment and "latest" with the last. *)
Remembered == IF stKind = "window" THEN ToSet(stPending)
              ELSE IF stKind = "replay" THEN Invoices
              ELSE {}
Restart ==
    /\ stRestarts < MaxRestarts /\ stRestarts' = stRestarts + 1
    /\ stPending' = IF stKind = "window" THEN stPending ELSE << >>
    /\ stAt' = CASE Polls -> 1 [] stKind = "latest" -> Len(stPaid) [] OTHER -> 0
    /\ stBatch' = << >> /\ stWire' = << >> /\ stHeld' = Nothing /\ stRaised' = FALSE
    /\ stUp' = (stKind = "queue")
    /\ stExcused' = stExcused \union
          ((IF stKind = "latest" THEN ToSet(stPaid) ELSE Invoices) \ Remembered)
    /\ UNCHANGED <<stKind, stPaid, stBooked>>

Next ==
    \/ \E i \in Invoices : Pay(i)
    \/ Open \/ Drop \/ WireNext \/ IndexNext
    \/ PollPaid \/ PollFails \/ AskFails \/ PollUnpaid \/ PollAgain
    \/ Book \/ NotConfirmed \/ Raise \/ Again \/ Restart

(* The stream's next step, and the end of what its consumer is doing. *)
StreamReads == WireNext \/ IndexNext \/ PollUnpaid \/ Again
Ends == Book \/ NotConfirmed \/ Raise

TypeOK ==
    /\ stKind \in Kinds /\ \A s \in {stPaid, stPending, stBatch, stWire} : s \in Seq(Invoices)
    /\ stAt \in (IF Polls THEN 1..4 ELSE 0..3) /\ stHeld \in Invoices \union {Nothing}
    /\ \A b \in {stUp, stRaised} : b \in BOOLEAN
    /\ stRestarts \in 0..MaxRestarts
    /\ stBooked \subseteq Invoices /\ stExcused \subseteq Invoices

(* Strike asks for the first pending invoices only, and nothing but a payment *)
(* removes one: those behind as many unpaid ones are not asked for.           *)
Starved(i) ==
    /\ stKind = "window" /\ i \in ToSet(stPending)
    /\ \E n \in DOMAIN stPending : stPending[n] = i /\ n > Window

(* An invoice the node has settled is booked in the end, unless it was pushed *)
(* while the stream was down or given up, its consumer raised on it, the node *)
(* did not confirm it when asked, or the process forgot it in a restart       *)
(* (corelightning.py 83-90, 285-302, clnrest.py 109, 395-438, lndrest.py      *)
(* 320-340, strike.py 400-455, sparkl2.py 272-284, payments.py 1127-1167), or *)
(* waits at Strike behind unpaid ones.  A stream that polls loses nothing     *)
(* when the consumer raises, though it removes from the list it goes through. *)
SettledIsBooked ==
    []<>(\A i \in ToSet(stPaid) : i \in stBooked \union stExcused \/ Starved(i))
=============================================================================
