----------------------------- MODULE MCDataPath -----------------------------
(***************************************************************************)
(* Scenarios of three ports, of which B is an NNI: in each, a few frames   *)
(* come in by A and by B, numbered per circuit in the order they come.  A  *)
(* rate of 0 is one that the traffic of the scenario does not reach.       *)
(***************************************************************************)
EXTENDS DataPath

CONSTANTS A, B, C

MCPorts == {A, B, C}
MCNni == {B}

MCUiSeqs == {2}

\* The first octets of a frame that is no fragment, read as the header of one: a
\* UI frame (0x03) has a number that begins with 3, an XID is 0xAF 0x82, and an
\* I frame may be 0x00 0x00; SABME has one octet.
HeadOf(form) ==
    CASE form \in {"ui", "lmi"} -> [b |-> FALSE, e |-> FALSE, seq |-> 2]
      [] form = "sabme" -> NoHead
      [] form = "xid" -> [b |-> TRUE, e |-> FALSE, seq |-> 7]
      [] OTHER -> [b |-> FALSE, e |-> FALSE, seq |-> 0]

Frame(id, n, dlci, form) ==
    [dlci |-> dlci, form |-> form, part |-> FALSE, head |-> HeadOf(form), body |-> [i \in 1 .. n |-> <<id, i>>],
     de |-> FALSE, list |-> {}]
Like(f, b, e, seq) == [f EXCEPT !.head = [b |-> b, e |-> e, seq |-> seq]]
Part(id, i, dlci, b, e, seq) ==
    [Like(Frame(id, 1, dlci, "none"), b, e, seq) EXCEPT !.body = <<<<id, i>>>>, !.part = TRUE]
Cllm(id, list) == [Frame(id, 1, 1007, "xid") EXCEPT !.list = list]

Circuit == {<<<<A, 16>>, <<B, 17>>>>}
Free == [cir |-> 0, bc |-> 0, be |-> 0]
Calm == [rate |-> 0, limit |-> 0, cllm |-> FALSE]
From(a, b) == (A :> a) @@ (B :> b) @@ (C :> <<>>)
Sizes(a, b) == (A :> a) @@ (B :> b) @@ (C :> 0)
Group(mode, leaves) == <<[name |-> "group", mode |-> mode, root |-> <<A, 30>>, members |-> leaves]>>

Base ==
    [circuits |-> Circuit, groups |-> <<>>, tb |-> (<<A, 16>> :> Free) @@ (<<B, 17>> :> Free),
     inSize |-> Sizes(0, 0), outSize |-> Sizes(0, 0), cg |-> [p \in MCPorts |-> Calm],
     line |-> From(<<>>, <<>>), lossy |-> {}, flaky |-> {}, flaps |-> {}]

\* Two classes of frames share one bucket, and time passes.
Policed ==
    [Base EXCEPT !.tb = (<<A, 16>> :> [cir |-> 1, bc |-> 2, be |-> 1]) @@ (<<B, 17>> :> Free),
                 !.line = From(<<Frame(1, 1, 16, "ui"), Frame(2, 2, 16, "ui"), Frame(3, 1, 16, "other"),
                                 Frame(4, 1, 16, "ui"), [Frame(5, 1, 16, "ui") EXCEPT !.de = TRUE]>>,
                               <<Frame(6, 1, 17, "ui")>>)]

\* Fragments on a port that is not set up for them; some are lost.  The second
\* frame has a middle fragment that looks like a UI frame.
Fragments ==
    [Base EXCEPT !.line = From(<<Part(1, 1, 16, TRUE, FALSE, 7), Part(1, 2, 16, FALSE, TRUE, 0),
                                 Part(2, 1, 16, TRUE, FALSE, 1), Part(2, 2, 16, FALSE, FALSE, 2),
                                 Part(2, 3, 16, FALSE, TRUE, 3), Frame(3, 1, 16, "xid")>>, <<>>),
                 !.lossy = {A}]

\* Fragments on a port that is set up for them, cut anew on the way out.
Recut ==
    [Base EXCEPT !.inSize = Sizes(1, 0), !.outSize = Sizes(0, 2),
                 !.line = From(<<Part(1, 1, 16, TRUE, FALSE, 6), Part(1, 2, 16, FALSE, FALSE, 7),
                                 Part(1, 3, 16, FALSE, TRUE, 0), Part(2, 1, 16, TRUE, TRUE, 1),
                                 Part(3, 1, 16, TRUE, FALSE, 2), Part(3, 2, 16, FALSE, TRUE, 3)>>, <<>>),
                 !.lossy = {A}]

\* More control frames than the queue holds, from two ports.
Busy ==
    [Base EXCEPT !.line = From(<<Frame(1, 1, 0, "lmi"), Frame(2, 1, 16, "other"), Frame(3, 1, 16, "other"),
                                 Frame(4, 1, 16, "ui"), Frame(5, 1, 5, "ui"), Frame(6, 1, 16, "other")>>,
                               <<Frame(7, 1, 17, "ui"), Frame(8, 1, 17, "sabme"), Frame(9, 1, 17, "ui"),
                                 Frame(10, 1, 1015, "sabme"), Frame(11, 1, 1023, "other")>>)]

Groups ==
    {[Base EXCEPT !.groups = Group(g[1], g[2]), !.circuits = g[3],
                  !.tb = (<<A, 30>> :> [cir |-> 1, bc |-> 1, be |-> 1]) @@ @,
                  !.line = From(<<Frame(1, 1, 30, "ui"), Frame(2, 1, 30, "other"), Frame(3, 1, 16, "ui")>>,
                                <<Frame(4, 1, 17, "ui"), Frame(5, 1, 31, "ui")>>),
                  !.flaps = {B}, !.flaky = {C}] :
        g \in {<<"oneway", <<<<B, 17>>>>, Circuit>>, <<"twoway", <<<<B, 31>>, <<C, 32>>>>, Circuit>>,
               <<"nway", <<<<B, 31>>, <<B, 33>>, <<C, 32>>>>, {}>>}}

\* Congestion by rate, at the port the frames come from, and by failing writes.
Congested ==
    [Base EXCEPT !.cg = (A :> [rate |-> 2, limit |-> 0, cllm |-> TRUE]) @@ (B :> [rate |-> 2, limit |-> 1, cllm |-> FALSE])
                          @@ (C :> Calm),
                 !.flaky = {B},
                 !.line = From([i \in 1 .. 5 |-> Frame(i, 1, 16, "ui")], <<Cllm(6, {17}), Frame(7, 1, 17, "ui")>>)]

\* Frames that look like fragments, and one too short for that (DISC).  The XID is
\* kept as the beginning of a frame, and the next I frame fits it.
Lookalikes ==
    [Base EXCEPT !.line = From(<<Frame(1, 1, 16, "xid"), Like(Frame(2, 2, 16, "other"), FALSE, TRUE, 0),
                                 Frame(3, 1, 16, "ui"), [Frame(4, 1, 16, "other") EXCEPT !.head = NoHead]>>,
                               <<Like(Frame(5, 2, 17, "other"), TRUE, TRUE, 1),
                                 Like(Frame(6, 1, 17, "other"), FALSE, TRUE, 2)>>)]

\* Whole frames on ports that are set up for fragments: one fits those it meets.
Whole ==
    [Base EXCEPT !.inSize = Sizes(1, 1),
                 !.line = From(<<Part(1, 1, 16, TRUE, FALSE, 1), Frame(2, 2, 16, "ui"), Part(1, 2, 16, FALSE, TRUE, 3)>>,
                               <<Frame(3, 2, 17, "ui"), Frame(4, 1, 17, "other")>>)]

\* Both threads cut up frames of one circuit.
Cut ==
    [Base EXCEPT !.outSize = Sizes(0, 1), !.flaky = {B},
                 !.line = From(<<Frame(1, 2, 16, "other"), Frame(2, 2, 16, "ui"), Frame(3, 1, 16, "ui")>>, <<>>)]

MCScenarios == {Policed, Fragments, Recut, Busy, Congested, Lookalikes, Whole, Cut} \cup Groups
=============================================================================
