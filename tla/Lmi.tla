-------------------------------- MODULE Lmi --------------------------------
(***************************************************************************)
(* The Local Management Interface of one port in its Q.933 Annex A form.   *)
(* ANSI runs the same control over other information elements; what Cisco  *)
(* LMI does differently (no segments, no asynchronous STATUS) is left out. *)
(*                                                                         *)
(* A port always has the network role: it answers STATUS ENQUIRYs and      *)
(* watches for them with T392.  It has the user role too when its          *)
(* configuration enables polling: it sends an enquiry whenever T391        *)
(* expires.  Each role keeps the outcome of the last N393 events, newest   *)
(* first (the bits of dce_history and dte_history, TRUE an error).         *)
(*                                                                         *)
(* One record holds a port's context and its circuits:                     *)
(*   dceDown, dceErrors, dceSend, dceLastFull    the network role          *)
(*   segment, index                 how far a segmented report has come    *)
(*   dteOn, dteDown, dteErrors, dteSend, dteEcho, dteEvents, answered,     *)
(*   lastFull                                    the user role             *)
(*   psf, report        polls_since_full and last_report_type: both roles  *)
(*   t391, t392         the time left, T391Off when T391 does not run      *)
(*   table              the circuits of the port                            *)
(*   new, txsn          per circuit, the New flag and the number of the    *)
(*                      STATUS that carried it last                        *)
(*   active, reported   per circuit, what the far end says of it           *)
(* dte_seq_recv and dce_seq_recv hold the numbers of the enquiry that is   *)
(* being answered and nothing else: they are read from the message.        *)
(***************************************************************************)
EXTENDS Integers, SequencesExt, FiniteSetsExt

CONSTANTS
    Width,      \* bits of a sequence number and of dte_events (u8: 8)
    N391,       \* every N391-th poll asks for full status
    N392, N393, \* errors out of N393 events that take a role down
    T391, T392, \* the two intervals
    Circuits,   \* the PVCs there may be, by DLCI
    Room        \* circuits that fit one STATUS

\* The ranges the configuration admits; nothing checks N392 against N393.
ASSUME LmiAssumption ==
    /\ Width \in 2 .. 8
    /\ N391 \in 1 .. 255 /\ N392 \in 1 .. 10 /\ N393 \in 1 .. 10
    /\ T391 \in Nat \ {0} /\ T392 \in Nat \ {0}
    /\ Circuits \subseteq Nat /\ IsFiniteSet(Circuits)
    /\ Room \in Nat \ {0}

SeqMax == 2 ^ Width - 1
T391Off == T391 + 1

Inc(n) == IF n = SeqMax THEN 1 ELSE n + 1

AllErrors == [i \in 1 .. N393 |-> TRUE]

\* A port after its configuration was read: whether it polls, its circuits.
InitState(polls, table) ==
    [dceDown |-> TRUE, dceErrors |-> AllErrors, dceSend |-> 0, dceLastFull |-> FALSE,
     segment |-> FALSE, index |-> 1,
     dteOn |-> polls, dteDown |-> TRUE, dteErrors |-> AllErrors, dteSend |-> 0, dteEcho |-> 0,
     dteEvents |-> 0, answered |-> FALSE, lastFull |-> FALSE,
     psf |-> N391, report |-> "full",
     t391 |-> IF polls THEN T391 ELSE T391Off, t392 |-> T392,
     table |-> table,
     new |-> [c \in Circuits |-> c \in table], txsn |-> [c \in Circuits |-> 0],
     active |-> [c \in Circuits |-> c \in table], reported |-> [c \in Circuits |-> FALSE]]

LinkUp(l) == ~l.dceDown /\ ~(l.dteOn /\ l.dteDown)

Enquiry(l, report) ==
    [type |-> "enquiry", report |-> report, send |-> l.dteSend, recv |-> l.dteEcho, items |-> {}]
Status(report, send, recv, items) ==
    [type |-> "status", report |-> report, send |-> send, recv |-> recv, items |-> items]
Item(c, act, isNew) == [dlci |-> c, active |-> act, new |-> isNew]

\* A handler's outcome: the context after it and the messages it sends.
Outcome(l, out) == [l |-> l, out |-> out]

-----------------------------------------------------------------------------
(* The window of events *)

Record(errors, err) == <<err>> \o SubSeq(errors, 1, N393 - 1)
Bad(errors) == Cardinality({i \in 1 .. N393 : errors[i]}) >= N392
\* Mutant: recovery asks for a whole window without errors.
Clean_WholeWindow(errors) == \A i \in 1 .. N393 : ~errors[i]

Clean(errors) == \A i \in 1 .. N393 : i <= N392 => ~errors[i]

\* Mutant: a role that is down stays down.
Judge_NoRecovery(down, errors) == down \/ Bad(errors)

\* Whether a role is down after an event that left these errors.
Judge(down, errors) == Bad(errors) \/ (down /\ ~Clean(errors))

-----------------------------------------------------------------------------
(* The network role *)

ResetDce(l) ==
    [l EXCEPT !.psf = 0, !.dceErrors = AllErrors, !.segment = FALSE, !.index = 1,
              !.dceLastFull = FALSE, !.t392 = T392]

\* No enquiry came within T392.
OnT392(l) ==
    LET errors == Record(l.dceErrors, TRUE)
    IN IF Bad(errors) THEN ResetDce([l EXCEPT !.dceDown = TRUE])
       ELSE [l EXCEPT !.dceErrors = errors, !.t392 = T392]

\* Where a circuit stands in a report, which names them in the order of their
\* DLCIs.
Place(table, c) == Cardinality({d \in table : d <= c})

\* The reply to an enquiry numbered `recv`; reachable says which circuits
\* lead to a destination that works.
BuildStatus(l, full, recv, reachable) ==
    LET send == Inc(l.dceSend)
        first == IF l.segment THEN l.index ELSE 1
        count == Cardinality(l.table)
        last == Min({first + Room - 1, count})
        more == last < count
        \* The circuit that no longer fits is stamped before the size test.
        stamped == {c \in l.table : Place(l.table, c) \in first .. last + 1}
        named == {c \in l.table : Place(l.table, c) \in first .. last}
        items == {Item(c, LinkUp(l) /\ reachable[c], l.new[c]) : c \in named}
        sent == [l EXCEPT !.dceSend = send, !.dceLastFull = full]
    IN IF ~full THEN Outcome(sent, <<Status("liv", send, recv, {})>>)
       ELSE Outcome([sent EXCEPT
                        !.txsn = [c \in Circuits |-> IF l.new[c] /\ c \in stamped THEN send ELSE @[c]],
                        !.segment = more,
                        !.index = IF more THEN last + 1 ELSE 1],
                    <<Status(IF more THEN "cont" ELSE "full", send, recv, items)>>)

\* The far end's enquiry does not carry the number of our last STATUS.
Mismatch(l, m) == m.recv # l.dceSend /\ ~(l.dceDown /\ m.recv = 0)

\* Mutant: any number acknowledges every STATUS sent so far.
Acknowledge_Any(l, n) == [l EXCEPT !.new = [c \in Circuits |-> @[c] /\ ~(n # 0 /\ l.txsn[c] # 0)]]

Acknowledge(l, n) ==
    [l EXCEPT !.new = [c \in Circuits |-> @[c] /\ ~(n # 0 /\ l.txsn[c] = n)]]

\* Mutant: an enquiry does not restart T392.
OnEnquiry_KeepsT392(l, m, reachable) ==
    LET err == Mismatch(l, m)
        errors == Record(l.dceErrors, err)
        judged == [Acknowledge(l, m.recv) EXCEPT
                      !.report = m.report, !.dceErrors = errors, !.dceDown = Judge(@, errors)]
        fresh == IF m.report = "full" THEN [judged EXCEPT !.segment = FALSE, !.index = 1] ELSE judged
        full == m.report \in {"full", "cont"} \/ (err /\ l.dceLastFull)
    IN BuildStatus(fresh, full, m.send, reachable)

OnEnquiry(l, m, reachable) ==
    LET err == Mismatch(l, m)
        errors == Record(l.dceErrors, err)
        judged == [Acknowledge(l, m.recv) EXCEPT
                      !.report = m.report, !.dceErrors = errors,
                      !.dceDown = Judge(@, errors), !.t392 = T392]
        fresh == IF m.report = "full" THEN [judged EXCEPT !.segment = FALSE, !.index = 1] ELSE judged
        full == m.report \in {"full", "cont"} \/ (err /\ l.dceLastFull)
    IN BuildStatus(fresh, full, m.send, reachable)

\* The far end is told of a change of a circuit at once, unless the link is
\* down.
AsyncStatus(l, c, act) ==
    IF l.dceDown THEN <<>> ELSE <<Status("async", 0, 0, {Item(c, act, FALSE)})>>

AddCircuit(l, c) ==
    Outcome([l EXCEPT !.table = @ \cup {c}, !.new[c] = TRUE, !.txsn[c] = 0,
                      !.active[c] = TRUE, !.reported[c] = FALSE], <<>>)

\* What is left of a deleted circuit is given one value.
DeleteCircuit(l, c) ==
    Outcome([l EXCEPT !.table = @ \ {c}, !.new[c] = FALSE, !.txsn[c] = 0,
                      !.active[c] = FALSE, !.reported[c] = FALSE], AsyncStatus(l, c, FALSE))

-----------------------------------------------------------------------------
(* The user role *)

\* The poll that T391 ends was answered or not; the first has none before it.
Supervise(l) ==
    LET errors == Record(l.dteErrors, ~l.answered)
        judged == [l EXCEPT !.dteErrors = errors, !.dteDown = Judge(@, errors)]
    IN CASE l.dteEvents = 0 -> l
         [] l.dteEvents # 0 /\ l.answered -> judged
         [] OTHER -> [judged EXCEPT !.psf = IF @ = 0 THEN N391 ELSE @, !.report = "full"]

\* Mutant: full status is asked for one poll late.
Poll_OneLate(l) ==
    LET full == l.psf > N391
        polled == [l EXCEPT
                      !.answered = FALSE, !.dteEvents = (@ + 1) % 2 ^ Width,
                      !.lastFull = full, !.dteSend = Inc(@),
                      !.reported = IF full THEN [c \in Circuits |-> FALSE] ELSE @,
                      !.t391 = T391, !.psf = IF full THEN 0 ELSE @ + 1]
        report == IF l.report = "cont" THEN "cont" ELSE IF full THEN "full" ELSE "liv"
    IN Outcome(polled, <<Enquiry(polled, report)>>)

Poll(l) ==
    LET full == l.psf >= N391
        polled == [l EXCEPT
                      !.answered = FALSE, !.dteEvents = (@ + 1) % 2 ^ Width,
                      !.lastFull = full, !.dteSend = Inc(@),
                      !.reported = IF full THEN [c \in Circuits |-> FALSE] ELSE @,
                      !.t391 = T391, !.psf = IF full THEN 0 ELSE @ + 1]
        report == IF l.report = "cont" THEN "cont" ELSE IF full THEN "full" ELSE "liv"
    IN Outcome(polled, <<Enquiry(polled, report)>>)

Expired(l) == l.t391 = 0 \/ l.t392 = 0

\* One visit of the timer loop: T392 before T391.
PollTimer(l) ==
    LET watched == IF l.t392 = 0 THEN OnT392(l) ELSE l
    IN IF watched.t391 = 0 THEN Poll(Supervise(watched)) ELSE Outcome(watched, <<>>)

\* What a message says of our circuits is applied before it is judged.
Learn(l, m) ==
    LET said(c) == {i \in m.items : i.dlci = c /\ c \in l.table}
    IN [l EXCEPT !.report = m.report,
                 !.active = [c \in Circuits |-> IF said(c) = {} THEN @[c] ELSE \E i \in said(c) : i.active],
                 !.reported = [c \in Circuits |-> @[c] \/ said(c) # {}]]

\* Circuits a valid report should have named by now.
Due(m) ==
    CASE m.report = "full" -> Circuits
      [] m.report = "cont" -> {c \in Circuits : \E i \in m.items : c <= i.dlci}
      [] OTHER -> {}

Accept(l, m) ==
    [l EXCEPT !.dteEcho = m.send, !.answered = TRUE,
              !.active = [c \in Circuits |-> @[c] /\ (c \in Due(m) => l.reported[c])]]

Ignored(l, m) ==
    \/ m.report = "async"
    \/ l.lastFull /\ m.report = "liv"
    \/ m.recv # l.dteSend /\ ~(l.dteDown /\ m.recv = 0)

\* A report to be continued is followed by an enquiry at once.
OnStatus(l, m) ==
    LET learnt == Learn(l, m)
        accepted == Accept(learnt, m)
        continued == [accepted EXCEPT !.dteSend = Inc(@), !.lastFull = TRUE, !.t391 = T391]
    IN CASE Ignored(l, m) -> Outcome(learnt, <<>>)
         [] ~Ignored(l, m) /\ m.report = "cont" -> Outcome(continued, <<Enquiry(continued, "cont")>>)
         [] OTHER -> Outcome(accepted, <<>>)

HandleFrame(l, m, reachable) ==
    IF m.type = "enquiry" THEN OnEnquiry(l, m, reachable) ELSE OnStatus(l, m)
=============================================================================
