------------------------------ MODULE DataPath ------------------------------
(***************************************************************************)
(* The way of a frame through the switch: src/src/switching/fr_switch.c    *)
(* and the loops of src/src/main.c.  The fast thread takes frames from the *)
(* lines and switches UI frames itself; the others go through the control  *)
(* queue to the slow thread, which also polls the timers.  No lock keeps   *)
(* the two off the same circuit.  A thread does its work on a user frame   *)
(* in steps, so that the other may come in between: it takes the frame,    *)
(* and reads the reassembly context if the frame may be a fragment; writes *)
(* the context; reads the token bucket; writes it and sends the frame, or  *)
(* reads the number for its fragments; writes that; and sends each of them.*)
(***************************************************************************)
EXTENDS Fragment, Policer, Multicast, VcTable

CONSTANTS
    Ports,       \* ports
    Nni,         \* those of type NNI
    Signalling,  \* those with the SVC service
    QueueSize,   \* slots of the control queue (256)
    CllmLife,    \* seconds a CLLM message holds (11)
    Scenarios    \* configurations, each with the frames that come in

ASSUME DataPathAssumption == QueueSize \in Nat /\ QueueSize > 1 /\ CllmLife \in Nat

\* Frames: a piece of the payload is the number of the frame that it came with,
\* and its place there.
Frames == [dlci : Nat, form : STRING, part : BOOLEAN, head : [b : BOOLEAN, e : BOOLEAN, seq : Nat],
           body : Seq(Nat \X Nat), de : BOOLEAN, list : SUBSET Nat]

\* What comes in on a line is a finite sequence of frames, none too long
\* (fr_parse_frame).
ASSUME LineAssumption ==
    \A c \in Scenarios :
        /\ DOMAIN c.line = Ports
        /\ \A p \in Ports : /\ c.line[p] \in Seq(Range(c.line[p]))
                            /\ \A f \in Range(c.line[p]) : f \in Frames /\ Len(f.body) <= MaxPieces

Threads == {"fast", "slow"}

VARIABLES
    conf,     \* the configuration, with its tables
    line,     \* per port, the frames still to come
    queue,    \* the control queue
    job,      \* per thread, the user frame it has in hand, and what it has read for it
    reasm,    \* per entry, the reassembly context
    number,   \* per entry, the sequence number of its next fragment
    bucket,   \* per entry, and per group (by its root), the token bucket
    cg,       \* per port, the congestion state
    peer,     \* per entry and end of a group, seconds since the CLLM message that marked it
    lapf,     \* the DLCIs with a LAPF entity
    down,     \* ports whose LMI link is down
    out,      \* per port, the frames sent
    credit,   \* per bucket, what an ideal bucket would still let pass
    over,     \* buckets that let more pass than that
    torn,     \* buckets that both threads had read before one wrote
    raced,    \* entries where both threads joined fragments, or made them, at once
    excused   \* frames lost for a reason the service allows

vars == <<conf, line, queue, job, reasm, number, bucket, cg, peer, lapf, down, out, credit, over, torn, raced, excused>>

-----------------------------------------------------------------------------
(* The control queue: a ring of slots, of which one stays free.  What a     *)
(* slot holds after a pop is never read.                                   *)

Empty == <<>>
QueueInit == [slot |-> [n \in 0 .. QueueSize - 1 |-> Empty], head |-> 0, tail |-> 0]

\* Mutant: all slots are used, so that a full queue looks like an empty one.
Full_AllSlots(q) == q.head = q.tail /\ q.slot[q.tail] # Empty

Full(q) == (q.head + 1) % QueueSize = q.tail

Push(q, x) == [q EXCEPT !.slot[q.head] = x, !.head = (@ + 1) % QueueSize]

Drained(q) == q.head = q.tail
First(q) == q.slot[q.tail]
Pop(q) == [q EXCEPT !.slot[q.tail] = Empty, !.tail = (@ + 1) % QueueSize]

-----------------------------------------------------------------------------
(* Configuration. *)

Points(table) == DOMAIN table.lut

Configure(c) ==
    LET table == FoldSet(LAMBDA a, t : AddPvc(t, a[1], a[2]), EmptyTable, c.circuits)
        AddAll(groups, g) ==
            FoldLeft(LAMBDA gs, x : AddMember(gs, Points(table), g.name, x),
                     AddGroup(groups, Points(table), g.name, g.mode, g.root), g.members)
    IN [lut |-> table.lut, groups |-> FoldLeft(AddAll, <<>>, c.groups),
        tb |-> c.tb, inSize |-> c.inSize, outSize |-> c.outSize, cg |-> c.cg,
        line |-> c.line, lossy |-> c.lossy, flaky |-> c.flaky, flaps |-> c.flaps]

\* Each circuit and each group has a bucket, and each circuit leads to a port;
\* what is configured has its type.
ASSUME ScenarioAssumption ==
    \A c \in {Configure(d) : d \in Scenarios} :
        /\ DOMAIN c.lut \cup {g.root : g \in Range(c.groups)} \subseteq DOMAIN c.tb
        /\ c.groups \in Seq(Range(c.groups))
        /\ \A g \in Range(c.groups) : g.members \in Seq(Range(g.members))
        /\ \A x \in DOMAIN c.lut : c.lut[x][1] \in Ports
        /\ \A k \in DOMAIN c.tb : c.tb[k] \in [cir : Nat, bc : Nat, be : Nat]
        /\ c.outSize \in [Ports -> Nat]
        /\ c.cg \in [Ports -> [rate : Nat, limit : Nat, cllm : BOOLEAN]]
        /\ c.flaps \subseteq Ports

Entries == DOMAIN conf.lut
Roots == {g.root : g \in Range(conf.groups)}
GroupEnds == UNION {EndsOf(g) : g \in Range(conf.groups)}

Quiet == CllmLife + 2
Idle == [step |-> "none", at |-> <<>>]

Init ==
    /\ conf \in {Configure(c) : c \in Scenarios}
    /\ line = conf.line
    /\ queue = QueueInit /\ job = [t \in Threads |-> Idle]
    /\ reasm = [x \in Entries |-> NoReasm] /\ number = [x \in Entries |-> 0]
    /\ bucket = [k \in DOMAIN conf.tb |-> IF k \in Roots THEN GroupBucket(conf.tb[k]) ELSE Bucket(conf.tb[k])]
    /\ cg = [p \in Ports |-> CongestionInit(conf.cg[p])]
    /\ peer = [x \in Entries \cup GroupEnds |-> Quiet]
    /\ lapf = {} /\ down = {} /\ out = [p \in Ports |-> <<>>]
    /\ credit = [k \in DOMAIN conf.tb |-> [committed |-> bucket[k].bc, total |-> Size(bucket[k])]]
    /\ over = {} /\ torn = {} /\ raced = {} /\ excused = {}

-----------------------------------------------------------------------------
(* Classification by DLCI and first payload octet. *)

IsUi(f) == Control(f) \in {"ui", "lmi"}
Reserved == (1 .. 15) \cup (1008 .. 1022)

Admitted(p, f) ==
    CASE f.dlci = 1023 -> IsUi(f)
      [] f.dlci = 1007 -> Control(f) = "xid"
      [] f.dlci = 1015 -> p \in Nni
      [] OTHER -> f.dlci \notin Reserved

\* Mutant: the fast thread does the work itself when the queue has no room.
ToControl_WithRoom(f) == (f.dlci \in {0, 1023, 1007, 1015} \/ ~IsUi(f)) /\ ~Full(queue)

ToControl(f) == f.dlci \in {0, 1023, 1007, 1015} \/ ~IsUi(f)

Id(f) == f.body[1][1]
Excuse(f) == excused' = excused \cup {Id(f)}

\* A frame is heard by the LMI, by a LAPF entity (one is made for the DLCI when
\* SABME comes), or by the CLLM; only what is left is user traffic.
OpensLapf(x, f) ==
    Control(f) = "sabme" /\ (x[2] = 0 => x[1] \in Signalling) /\ (x[2] = 1015 => x[1] \in Nni)

Heard(x, f) ==
    \/ x[2] \in {0, 1023} /\ f.form = "lmi"
    \/ x \in lapf \/ OpensLapf(x, f)
    \/ x[2] = 1007

-----------------------------------------------------------------------------
(* From the line to the token bucket. *)

CircuitIsActive(x) ==
    LET y == conf.lut[x]
    IN /\ x[1] \notin down /\ y[1] \notin down
       /\ \A g \in Range(conf.groups) : DependsOn(g, x, y) => EndIsActive(g, g.root, Nni, down)

\* Another thread has a frame of x in hand, in one of these steps.
Meets(t, x, steps) == \E u \in Threads \ {t} : job[u].at = x /\ job[u].step \in steps

Raced(t, x, steps) == IF Meets(t, x, steps) THEN raced \cup {x} ELSE raced

\* vfrs_switch_frame up to the policer.  "late" are the frames a timeout broke.
Lookup(t, x, f, late) ==
    LET g == GroupAt(conf.groups, x)
        expired == {y \in EndsOf(g) : g # NoGroup /\ peer[y] = CllmLife + 1}
        active == IF g # NoGroup THEN EndIsActive(g, x, Nni, down) ELSE x \in Entries /\ CircuitIsActive(x)
        reads == [step |-> "police", at |-> x, frame |-> f,
                  tb |-> IF g # NoGroup THEN bucket[g.root] ELSE TbUpdate(bucket[x])]
    IN /\ peer' = [y \in DOMAIN peer |-> IF y \in expired THEN Quiet ELSE peer[y]]
       /\ job' = [job EXCEPT ![t] = IF active THEN reads ELSE Idle]
       /\ torn' = IF active /\ g = NoGroup /\ Meets(t, x, {"police"}) THEN torn \cup {x} ELSE torn
       /\ excused' = excused \cup late \cup (IF active THEN {} ELSE {Id(f)})

\* On a circuit set up for fragments every frame is read as one, on any other
\* circuit every frame that shows B or E.
ReadAsPart(x, f) ==
    x \in Entries /\ f.head # NoHead /\ (conf.inSize[x[1]] > 0 \/ f.head.b \/ f.head.e)

\* User traffic is dropped when the line's LMI link is down.
UserFrame(t, x, f) ==
    IF x[1] \in down THEN Excuse(f) /\ UNCHANGED <<peer, job, torn, raced>>
    ELSE IF ~ReadAsPart(x, f) THEN Lookup(t, x, f, {}) /\ UNCHANGED raced
    ELSE /\ job' = [job EXCEPT ![t] = [step |-> "join", at |-> x, frame |-> f, ctx |-> reasm[x]]]
         /\ raced' = Raced(t, x, {"join"})
         /\ UNCHANGED <<peer, torn, excused>>

\* A frame that the reassembly refuses is switched as it is.
Join(t) ==
    LET x == job[t].at
        ctx == job[t].ctx
        r == Reassemble(ctx, job[t].frame)
        late == IF TimedOut(ctx) THEN {Id(ctx.frame)} ELSE {}
    IN /\ job[t].step = "join"
       /\ reasm' = [reasm EXCEPT ![x] = r.ctx]
       /\ IF r.how = "kept"
          THEN excused' = excused \cup late /\ job' = [job EXCEPT ![t] = Idle] /\ UNCHANGED <<peer, torn>>
          ELSE Lookup(t, x, r.frame, late)
       /\ UNCHANGED <<conf, line, queue, number, bucket, cg, lapf, down, out, credit, over, raced>>

Received(p) == line' = [line EXCEPT ![p] = Tail(@)]

FastReceive(p) ==
    LET f == Head(line[p])
    IN /\ job["fast"] = Idle /\ line[p] # <<>> /\ Received(p)
       /\ UNCHANGED <<conf, reasm, number, bucket, cg, lapf, down, out, credit, over>>
       /\ \/ /\ Admitted(p, f) /\ ~ToControl(f)
             /\ IF <<p, f.dlci>> \in lapf THEN UNCHANGED <<peer, job, torn, raced, excused>>
                ELSE UserFrame("fast", <<p, f.dlci>>, f)
             /\ UNCHANGED queue
          \/ /\ Admitted(p, f) /\ ToControl(f)
             /\ IF Full(queue) THEN Excuse(f) /\ UNCHANGED queue
                ELSE queue' = Push(queue, [port |-> p, frame |-> f]) /\ UNCHANGED excused
             /\ UNCHANGED <<peer, job, torn, raced>>
          \/ /\ ~Admitted(p, f)
             /\ UNCHANGED <<queue, peer, job, torn, raced, excused>>

\* cllm_handle_frame: the circuits of this port that the message lists are
\* congested at the far end, the others are not.  The mark is on the way there.
MarkPeers(p, list) ==
    LET Mark(x) == IF x[2] \in list THEN 0 ELSE Quiet
    IN peer' = [y \in DOMAIN peer |->
                  IF y \in Entries THEN (IF conf.lut[y][1] = p THEN Mark(conf.lut[y]) ELSE peer[y])
                  ELSE IF y[1] = p THEN Mark(y) ELSE peer[y]]

SlowReceive ==
    LET p == First(queue).port
        f == First(queue).frame
        x == <<p, f.dlci>>
    IN /\ job["slow"] = Idle /\ ~Drained(queue)
       /\ queue' = Pop(queue)
       /\ UNCHANGED <<conf, line, reasm, number, bucket, cg, down, out, credit, over>>
       /\ IF Heard(x, f)
          THEN /\ lapf' = IF OpensLapf(x, f) THEN lapf \cup {x} ELSE lapf
               /\ IF x[2] = 1007 /\ x \notin lapf THEN MarkPeers(p, f.list) ELSE UNCHANGED peer
               /\ UNCHANGED <<job, torn, raced, excused>>
          ELSE UserFrame("slow", x, f) /\ UNCHANGED lapf

-----------------------------------------------------------------------------
(* From the token bucket to the lines. *)

\* What the port gives to its line: the frame, or its fragments.
Rewritten(f, y, de) == [f EXCEPT !.dlci = y[2], !.de = @ \/ de]

IsCut(f, y) == conf.outSize[y[1]] > 0 /\ Len(f.body) > conf.outSize[y[1]]

\* The writes that may fail, of those to ports[1], ports[2], ...
Failing(ports) == SUBSET {i \in DOMAIN ports : ports[i] \in conf.flaky}

Written(outs, ports, frames, lost) ==
    FoldLeftDomain(LAMBDA o, i : IF i \in lost THEN o ELSE [o EXCEPT ![ports[i]] = Append(@, frames[i])], outs, ports)

\* cgst_handle_write_failure and _success, after each write.
Reported(c, ports, lost) ==
    FoldLeftDomain(LAMBDA s, i : [s EXCEPT ![ports[i]] = IF i \in lost THEN WriteFailure(@) ELSE WriteSuccess(@)],
                   c, ports)

\* An ideal bucket with the parameters of k: n pieces pass, judged "how".  Best
\* effort has no bucket to conform to.
Charge(k, n, how) ==
    LET c == credit[k]
        Less(m) == IF m >= n THEN m - n ELSE 0
        short == c.total < n \/ (how = "committed" /\ c.committed < n)
    IN IF how = "discard" \/ BestEffort(bucket[k]) THEN UNCHANGED <<credit, over>>
       ELSE /\ credit' = [credit EXCEPT ![k] = [committed |-> IF how = "committed" THEN Less(@.committed) ELSE @.committed,
                                                total |-> Less(@.total)]]
            /\ over' = IF short THEN over \cup {k} ELSE over

Polices(t) == job[t].step = "police" /\ UNCHANGED <<conf, line, queue, reasm, number, peer, lapf, down, torn>>
Finished(t) == job' = [job EXCEPT ![t] = Idle]

\* A frame of a circuit: dropped, sent, or cut up.
Forward(t) ==
    LET x == job[t].at
        f == job[t].frame
        y == conf.lut[x]
        v == Police(job[t].tb, Len(f.body), f.de, cg[x[1]].congested)
        counted == [cg EXCEPT ![x[1]] = Counted(@)]
        frame == Rewritten(f, y, v.how = "excess")
    IN /\ ~IsGroupEnd(conf.groups, x) /\ Polices(t)
       /\ bucket' = [bucket EXCEPT ![x] = v.tb]
       /\ Charge(x, Len(f.body), v.how)
       /\ IF v.how = "discard"
          THEN Excuse(f) /\ cg' = counted /\ Finished(t) /\ UNCHANGED <<out, raced>>
          ELSE IF IsCut(f, y)
          THEN /\ job' = [job EXCEPT ![t] = [step |-> "cut", at |-> x,
                                            frames |-> CutUp(frame, conf.outSize[y[1]], number[x])]]
               /\ raced' = Raced(t, x, {"cut", "send"})
               /\ cg' = counted /\ UNCHANGED <<out, excused>>
          ELSE \E lost \in Failing(<<y[1]>>) :
                 /\ out' = Written(out, <<y[1]>>, <<frame>>, lost)
                 /\ cg' = Reported(counted, <<y[1]>>, lost)
                 /\ IF lost # {} THEN Excuse(f) ELSE UNCHANGED excused
                 /\ Finished(t) /\ UNCHANGED raced

\* The number of the circuit's next fragment is written, all at once.
Number(t) ==
    LET frames == job[t].frames
    IN /\ job[t].step = "cut"
       /\ number' = [number EXCEPT ![job[t].at] = NextSeq(frames[Len(frames)].head.seq)]
       /\ job' = [job EXCEPT ![t].step = "send"]
       /\ UNCHANGED <<conf, line, queue, reasm, bucket, cg, peer, lapf, down, out, credit, over, torn, raced, excused>>

\* One fragment is sent.  When one cannot be written, that is not noticed.
Transmit(t) ==
    LET to == conf.lut[job[t].at][1]
        frames == job[t].frames
    IN /\ job[t].step = "send"
       /\ \E lost \in Failing(<<to>>) :
              /\ out' = Written(out, <<to>>, frames, lost)
              /\ IF lost # {} THEN Excuse(frames[1]) ELSE UNCHANGED excused
       /\ IF Len(frames) > 1 THEN job' = [job EXCEPT ![t].frames = Tail(@)] /\ UNCHANGED cg
          ELSE Finished(t) /\ cg' = Reported(cg, <<to>>, {})
       /\ UNCHANGED <<conf, line, queue, reasm, number, bucket, peer, lapf, down, credit, over, torn, raced>>

\* A frame of a group: a leaf of a one-way group has no say, and a two-way leaf
\* none while the root's link is down.  Writes to the leaves of a root are not
\* reported.
Replicate(t) ==
    LET x == job[t].at
        f == job[t].frame
        g == GroupAt(conf.groups, x)
        refused == x # g.root /\ (g.mode = "oneway" \/ (g.mode = "twoway" /\ g.root[1] \in down))
        v == Police(TbUpdate(bucket[g.root]), Len(f.body), f.de, cg[x[1]].congested)
        counted == [cg EXCEPT ![x[1]] = Counted(@)]
        ends == Copies(g, x, down)
        frames == [i \in DOMAIN ends |-> Rewritten(f, ends[i], v.how = "excess")]
        to == [i \in DOMAIN ends |-> ends[i][1]]
    IN /\ IsGroupEnd(conf.groups, x) /\ Polices(t) /\ Finished(t)
       /\ UNCHANGED raced
       /\ IF refused THEN Excuse(f) /\ UNCHANGED <<bucket, cg, out, credit, over>>
          ELSE /\ bucket' = [bucket EXCEPT ![g.root] = v.tb]
               /\ Charge(g.root, Len(f.body), v.how)
               /\ IF v.how = "discard" THEN Excuse(f) /\ cg' = counted /\ UNCHANGED out
                  ELSE \E lost \in Failing(to) :
                         /\ out' = Written(out, to, frames, lost)
                         /\ cg' = IF g.mode # "nway" /\ x = g.root THEN counted ELSE Reported(counted, to, lost)
                         /\ IF lost # {} \/ ends # Copies(g, x, {}) THEN Excuse(f) ELSE UNCHANGED excused

-----------------------------------------------------------------------------
(* Timers, time and the lines. *)

\* Mutant: looks for expired marks only while this port is congested itself.
Expired_WhenCongested(p) ==
    {y \in DOMAIN peer : /\ peer[y] = CllmLife + 1 /\ cg[p].congested
                         /\ y[1] = p \/ (y \in Entries /\ conf.lut[y][1] = p)}

\* cgst_poll_timer.  The marks of this port's circuits expire, in both
\* directions; a congested port tells its far end about its circuits.
Expired(p) ==
    {y \in DOMAIN peer : /\ peer[y] = CllmLife + 1
                         /\ y[1] = p \/ (y \in Entries /\ conf.lut[y][1] = p)}

AtPort(p) == {y[2] : y \in {z \in Entries \cup GroupEnds : z[1] = p}}

Message(list) ==
    [dlci |-> 1007, form |-> "xid", part |-> FALSE, head |-> NoHead, body |-> <<<<0, 1>>>>, de |-> FALSE, list |-> list]

PollDue(p) ==
    /\ job["slow"] = Idle /\ Drained(queue)
    /\ Expired(p) # {} \/ cg[p].age > 0 \/ (CllmDue(cg[p]) /\ AtPort(p) # {})

\* The loop drains the queue, then polls every port; a control frame that comes
\* while it polls waits, as if it had come after.
Poll(p) ==
    LET checked == RateCheck(cg[p])
        list == AtPort(p)
    IN /\ PollDue(p)
       /\ peer' = [y \in DOMAIN peer |-> IF y \in Expired(p) THEN Quiet ELSE peer[y]]
       /\ cg' = [cg EXCEPT ![p] = CllmTimer(checked, list # {})]
       /\ out' = IF CllmDue(checked) /\ list # {} THEN [out EXCEPT ![p] = Append(@, Message(list))] ELSE out
       /\ UNCHANGED <<conf, line, queue, job, reasm, bucket, lapf, down, number, credit, over, torn, raced, excused>>

ReasmOlder(c) == [c EXCEPT !.age = IF c.busy /\ c.age <= ReasmLife THEN @ + 1 ELSE @]

\* A second passes.  A frame is through in less, once it is taken.
Tick ==
    /\ \A t \in Threads : job[t] = Idle
    /\ bucket' = [k \in DOMAIN bucket |-> Older(bucket[k])]
    /\ reasm' = [x \in Entries |-> ReasmOlder(reasm[x])]
    /\ cg' = [p \in Ports |-> CongestionOlder(cg[p])]
    /\ peer' = [y \in DOMAIN peer |-> IF peer[y] <= CllmLife THEN peer[y] + 1 ELSE peer[y]]
    /\ credit' = [k \in DOMAIN credit |->
                    LET q == bucket[k]
                        Refill(m, max) == IF m + q.cir < max THEN m + q.cir ELSE max
                    IN [committed |-> Refill(credit[k].committed, q.bc), total |-> Refill(credit[k].total, Size(q))]]
    /\ <<bucket, reasm, cg, peer, credit>> # <<bucket', reasm', cg', peer', credit'>>
    /\ UNCHANGED <<conf, line, queue, job, lapf, down, out, number, over, torn, raced, excused>>

\* A frame is lost on the line.
Lose(p) ==
    /\ p \in conf.lossy /\ line[p] # <<>> /\ Received(p)
    /\ Excuse(Head(line[p]))
    /\ UNCHANGED <<conf, queue, job, reasm, bucket, cg, peer, lapf, down, out, number, credit, over, torn, raced>>

\* The LMI takes the link of a port down, or up again.
Flap(p) ==
    /\ p \in conf.flaps
    /\ down' = IF p \in down THEN down \ {p} ELSE down \cup {p}
    /\ UNCHANGED <<conf, line, queue, job, reasm, bucket, cg, peer, lapf, out, number, credit, over, torn, raced, excused>>

Next ==
    \/ \E p \in Ports : FastReceive(p) \/ Poll(p) \/ Lose(p) \/ Flap(p)
    \/ SlowReceive \/ Tick
    \/ \E t \in Threads : Join(t) \/ Forward(t) \/ Number(t) \/ Transmit(t) \/ Replicate(t)

\* The threads run and time passes.  The first four are weak fairness of
\* receiving, polling and going on, with what enables them written out.
Fairness ==
    /\ \A p \in Ports : []<>(job["fast"] # Idle \/ line[p] = <<>>) \/ []<><<FastReceive(p)>>_vars
    /\ \A p \in Ports : []<>~PollDue(p) \/ []<><<Poll(p)>>_vars
    /\ []<>(job["slow"] # Idle \/ Drained(queue)) \/ []<><<SlowReceive>>_vars
    /\ \A t \in Threads : \/ []<>(job[t] = Idle)
                          \/ []<><<Join(t) \/ Forward(t) \/ Number(t) \/ Transmit(t) \/ Replicate(t)>>_vars
    /\ WF_vars(Tick)

Spec == Init /\ [][Next]_vars /\ Fairness

-----------------------------------------------------------------------------
(* Properties. *)

Point(p, f) == <<p, f.dlci>>
Came == UNION {{Point(p, f) : f \in Range(conf.line[p])} : p \in Ports}
FramesFrom(x) == SelectSeq(conf.line[x[1]], LAMBDA f : f.dlci = x[2])
Pieces(f) == Range(f.body)
Own(p) == SelectSeq(out[p], LAMBDA f : f.dlci # 1007)
Origin(f) == CHOOSE x \in Came : \E g \in Range(FramesFrom(x)) : Id(g) = Id(f)

PiecesOf(x, id) == UNION {Pieces(g) : g \in {h \in Range(FramesFrom(x)) : Id(h) = id}}

Buckets == DOMAIN conf.tb

\* The types, and what the routines keep: a bucket never holds more than Bc + Be,
\* the window of the ring is where the frames are.
TypeOK ==
    /\ \A p \in Ports : cg[p].frames \in Nat /\ cg[p].congested \in BOOLEAN /\ cg[p].fails \in 0 .. cg[p].limit
    /\ \A k \in Buckets : bucket[k].tokens \in 0 .. Size(bucket[k]) /\ bucket[k].age \in 0 .. MaxIdle
    /\ queue.head \in 0 .. QueueSize - 1 /\ queue.tail \in 0 .. QueueSize - 1
    /\ \A x \in Entries : reasm[x].expected \in 0 .. FragMod - 1 /\ Len(reasm[x].frame.body) <= MaxPieces
    /\ \A y \in DOMAIN peer : peer[y] \in 0 .. Quiet
    /\ down \subseteq Ports /\ over \cup torn \subseteq Buckets /\ \A x \in Entries : number[x] \in 0 .. FragMod - 1

\* The frames that left as they are meant to: not those of a circuit where the
\* threads raced, nor one with a frame in it that was taken for a fragment and
\* lost its first octets.
Damaged(f) == \E i \in DOMAIN f.body : f.body[i][2] = 0
Sound(p) == SelectSeq(Own(p), LAMBDA f : Origin(f) \notin raced /\ ~Damaged(f))

\* The payload of a frame that leaves is a part of the payload of one frame that
\* came, in its order and without a gap: fragments of different frames are never
\* joined, whatever is lost between them (fr_fragment.c).
Unmixed ==
    \A p \in Ports : \A f \in Range(Sound(p)) :
        \A i \in DOMAIN f.body : f.body[i] = <<Id(f), f.body[1][2] + i - 1>>

\* Frames of one class, UI or not, leave a circuit in the order they came, though
\* two threads work on it and one of them has a queue before it (fr_switch.c).
InOrder ==
    LET Class(f) == IsUi(CHOOSE g \in Range(FramesFrom(Origin(f))) : f.body[1] \in Pieces(g))
        Before(f, g) == Id(f) < Id(g) \/ (Id(f) = Id(g) /\ f.body[1][2] < g.body[1][2])
    IN \A p \in Ports : \A i, j \in DOMAIN Sound(p) :
           LET f == Sound(p)[i]
               g == Sound(p)[j]
           IN i < j /\ f.dlci = g.dlci /\ Origin(f) = Origin(g) /\ Class(f) = Class(g) => Before(f, g)

\* No end gets a piece twice, and none gets back what it sent, when a frame is
\* copied to the ends of a group.
OneCopyEach ==
    \A p \in Ports : \A i, j \in DOMAIN Own(p) :
        LET f == Own(p)[i]
            g == Own(p)[j]
        IN /\ Origin(f) # Point(p, f)
           /\ i # j /\ f.dlci = g.dlci /\ Origin(f) \notin raced => Pieces(f) \cap Pieces(g) = {}

\* Over no stretch of time does a circuit or a group pass more than Bc + Be and
\* what CIR gives in that time, nor more than Bc and CIR without DE, except where
\* both threads had read one bucket before either wrote it (cgst_mgnt.c).
Conforms == over \subseteq torn

\* What the far end puts together of the frames it was sent.
FarEnd(y) ==
    LET Take(s, f) ==
            IF ~f.part THEN [s EXCEPT !.got = @ \cup {f.body}]
            ELSE LET r == Reassemble(s.ctx, f)
                 IN [ctx |-> r.ctx, got |-> IF r.how = "complete" THEN s.got \cup {r.frame.body} ELSE s.got]
    IN FoldLeft(Take, [ctx |-> NoReasm, got |-> {}], SelectSeq(out[y[1]], LAMBDA f : f.dlci = y[2])).got

Destinations(x) ==
    IF IsGroupEnd(conf.groups, x) THEN Range(Copies(GroupAt(conf.groups, x), x, {}))
    ELSE IF x \in Entries THEN {conf.lut[x]} ELSE {}

\* The frames read as fragments that are none, or that the fast thread takes.
Misread(x) == {f \in Range(FramesFrom(x)) : ReadAsPart(x, f) /\ (~f.part \/ IsUi(f))}
Begins(f) == f.head.b /\ ~f.head.e

\* What the switch is to carry: user frames, not those of a DLCI where LAPF ends,
\* whole or in fragments that the port is set up to join, or in at most two; not
\* those of fragments among which comes a misread frame; and of the misread ones
\* those that do not show B, where nothing comes that they can be joined to.
Carried(x, id) ==
    /\ x \notin lapf \cup raced
    /\ \A f \in Range(FramesFrom(x)) : Id(f) = id =>
           /\ Admitted(x[1], f)
           /\ f.part => Misread(x) = {} /\ (conf.inSize[x[1]] > 0 \/ Cardinality(PiecesOf(x, id)) <= 2)
           /\ ~f.part => f \notin Misread(x) \/ (~f.head.b /\ \A g \in Range(FramesFrom(x)) : ~Begins(g))
    /\ \A y \in Destinations(x) : conf.outSize[y[1]] > 0 =>
           Cardinality(PiecesOf(x, id)) <= MaxFragments * conf.outSize[y[1]]

AtRest == queue.head = queue.tail /\ \A t \in Threads : job[t] = Idle

\* Nothing vanishes: once the threads are at rest, every frame that came and that
\* no loss, full queue, policer, timeout, failed write or link that was down
\* excuses is whole at each end it was for, also when it was cut up on the way.
Delivered ==
    AtRest /\ (\A p \in Ports : line[p] = <<>>) =>
        \A x \in Came : \A id \in {Id(f) : f \in Range(FramesFrom(x))} \ excused :
            Carried(x, id) => \A y \in Destinations(x) :
                \E b \in FarEnd(y) : Range(b) = PiecesOf(x, id)

\* The ring with its two indices is a bounded queue (port_queue.c).
Held == [i \in 1 .. (queue.head - queue.tail + QueueSize) % QueueSize |->
            queue.slot[(queue.tail + i - 1) % QueueSize]]
Arrivals == UNION {UNION {{[port |-> p, frame |-> f] : f \in Range(c.line[p])} : p \in Ports} : c \in Scenarios}
Queue == INSTANCE CtrlQueue WITH items <- Held, Item <- Arrivals, Cap <- QueueSize - 1
QueueIsFifo == Queue!Spec

\* A port does not stay congested when its traffic ends, if the rate at which it
\* clears is not zero (cgst_poll_timer).
CongestionEnds ==
    \A p \in Ports : []<>(cg[p].rate < 2 \/ ~cg[p].congested)

\* What a CLLM message said does not hold for ever.
NoticeEnds == []<>(\A y \in DOMAIN peer : peer[y] = Quiet)
=============================================================================
