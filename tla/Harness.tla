------------------------------ MODULE Harness ------------------------------
(***************************************************************************)
(* The generated harness, compiler/harness/v3gen.py and generator.py, and  *)
(* the table of the target's globals that state_table.py puts in its IR.   *)
(* The same C runs in the persistent loop of a fuzzer that feeds it texts  *)
(* and in the native engine that calls it frame by frame and takes         *)
(* checkpoints. The aim of all of it: an execution depends on its input    *)
(* alone.                                                                  *)
(*                                                                         *)
(* Left out: the symbolic driver, which starts as a new process and        *)
(* replays its prefix; the export of checkpoints, which nothing reads (no  *)
(* query of a campaign passes a state file); the opt-in output trace,      *)
(* state dump and timing, which only write to files of their own; and      *)
(* malloc failures, which abort.                                           *)
(***************************************************************************)
EXTENDS Naturals, Sequences, SequencesExt, FiniteSets

CONSTANTS
  IR,             \* the globals of the prepared IR: [name, kind, attr]
  Optimizations,  \* what the target compile may make of them
  Written,        \* names of the globals that the target writes
  Limit,          \* SEMANTIST_LOOP_BACKEDGES_PER_SCAN
  Period,         \* SEMANTIST_SCAN_PERIOD_NS
  Shared,         \* the shared records an input may start with
  Frames,         \* frames of the engine: [in, buf, io, dt]
  MaxEvents       \* of each process, the bound on the scans and IN_OUT
                  \* writes of one execution

Processes == {"loop", "engine"}

ASSUME LimitAssumption == Limit \in Nat /\ Period \in Nat
ASSUME BoundAssumption == \A p \in Processes : MaxEvents[p] \in Nat
(* The target writes the two globals of its model below, and only globals  *)
(* that it defines. Its compile keeps what is written: whole or in pieces. *)
ASSUME WrittenAssumption ==
  /\ {<<"sum">>, <<"link">>} \subseteq Written
  /\ \A w \in Written : \E g \in IR : g.name = w /\ g.kind = "global" /\ g.attr = "plain"
ASSUME OptimizerAssumption ==
  \A opt \in Optimizations : \A w \in Written :
    \E g \in opt : g.kind = "global" /\ g.attr = "plain" /\ IsPrefix(w, g.name)

(* Frames have passed the ranges of their types.                           *)
ASSUME FramesAssumption == Frames \subseteq [in : Nat, buf : {0, 1}, io : {0, 1}, dt : Nat]

VARIABLES
  kind,      \* "FUNCTION_BLOCK" or "FUNCTION"
  table,     \* __semantist_state_regions, as names
  host,      \* the processes of this behaviour
  pc,        \* of each process: "down", "idle", "run" or "aborted"
  mem,       \* of each process: its globals and semantist_harness_state
  snap,      \* semantist_state_snapshot, or NoRecord
  exec,      \* the text execution: current cycle, frame and dt
  hist,      \* what this execution has been given so far
  blob       \* a checkpoint in the engine's memory

hvars == <<kind, table, host, pc, mem, snap, exec, hist, blob>>

Words == 0 .. 1

(* A word of memory is a number or an address: a place in a process.       *)
Number(v) == [home |-> "none", place |-> <<>>, value |-> v]
Address(p, place) == [home |-> p, place |-> place, value |-> 0]
Null == Number(0)

(* A name is the sequence of its parts between dots.                       *)
Names == {g.name : g \in IR}

WritableGlobals(ir) == {g.name : g \in {d \in ir : d.kind = "global" /\ d.attr = "plain"}}

(* Mutant: the pieces that scalar replacement makes of a global are        *)
(* overlooked.                                                             *)
SurvivesWhole(name, opt) == name \in WritableGlobals(opt)

Survives(name, opt) == \E n \in WritableGlobals(opt) : IsPrefix(name, n)

StateTable(opt) == {n \in WritableGlobals(IR) : Survives(n, opt)}

(* The state object: the instance of a function block, backing storage of  *)
(* IN_OUT and pointer parameters, the result of a function, the clock.     *)
Zeroed == [in |-> 0, acc |-> 0, vtable |-> Null, io |-> Null, buf |-> Null,
           ioStore |-> 0, bufStore |-> 0, result |-> 0,
           clock |-> 0, index |-> 0, ticks |-> 0, initialized |-> FALSE, exceeded |-> FALSE]

(* A process as it is loaded.                                              *)
Image == [glob |-> [n \in Names |-> Null], state |-> Zeroed]
Held(glob) == [n \in table |-> glob[n]]
Put(glob, held) == [n \in Names |-> IF n \in DOMAIN held THEN held[n] ELSE glob[n]]
NoRecord == <<>>

(* The first input of a process records the globals of the table, every    *)
(* later one starts from that record.                                      *)
StateReset(m, s) == IF s = NoRecord THEN m ELSE [m EXCEPT !.glob = Put(m.glob, s[1])]
Recorded(m, s) == IF s = NoRecord THEN <<Held(m.glob)>> ELSE s

(* The constructor, then the addresses of the backing storage.             *)
Construct(p) ==
  IF kind = "FUNCTION" THEN Zeroed
  ELSE [Zeroed EXCEPT !.vtable = Address(p, <<"vtable">>),
                      !.io = Address(p, <<"store", "io">>), !.buf = Address(p, <<"store", "buf">>)]

(* Shared records are taken in turn until one is refused: an __INIT that   *)
(* is not cold or a value that its type does not have. A function has no   *)
(* shared parameters, so records of its IN_OUT arguments are passed over.  *)
Refused(r) == r.value \notin Words /\ (r.name = "__INIT" \/ kind = "FUNCTION_BLOCK")
Accepted(shared) == \A i \in DOMAIN shared : ~Refused(shared[i])
OfInOut(r) == r.name = "io"
ApplyShared(state, shared) ==
  LET bad == {i \in DOMAIN shared : Refused(shared[i])}
      good == IF bad = {} THEN shared
              ELSE SubSeq(shared, 1, (CHOOSE i \in bad : \A j \in bad : i <= j) - 1)
      values == SelectSeq(good, OfInOut) IN
  IF kind = "FUNCTION" \/ values = <<>> THEN state
  ELSE [state EXCEPT !.ioStore = Last(values).value]

SemantistInit(m, s, p, shared) ==
  [StateReset(m, s) EXCEPT
     !.state = [ApplyShared(Construct(p), shared) EXCEPT !.initialized = Accepted(shared)]]

(* Mutant: the ticks of the scans before count as well.                    *)
ScanTicksAdd(state) == state.ticks

ScanTicks(state) == 0

ApplyFrame(state, p, frame) ==
  LET stored == [state EXCEPT !.bufStore = frame.buf] IN
  IF kind = "FUNCTION" THEN stored
  ELSE [stored EXCEPT !.in = frame.in, !.buf = Address(p, <<"store", "buf">>)]

(* What the target is called with: the fields of the instance, or the      *)
(* arguments of the function, whose pointers are made for the call.        *)
Arguments(state, p, frame) ==
  IF kind = "FUNCTION"
  THEN [in |-> frame.in, io |-> Address(p, <<"store", "io">>), buf |-> Address(p, <<"store", "buf">>)]
  ELSE [in |-> state.in, io |-> state.io, buf |-> state.buf]

(* A target. It has a global that counts, one that keeps an address, an    *)
(* instance variable, and writes through its IN_OUT parameter. It takes as *)
(* many back edges as its input says; __semantist_loop_tick ends it at the *)
(* first one past the limit.                                               *)
Target(m, p, args) ==
  LET st == m.state
      total == m.glob[<<"sum">>].value
      ticks == ScanTicks(st) + args.in
      sum == (total + args.in + st.bufStore) % 2
      seen == (st.ioStore + sum) % 2
      kept == IF args.in = 1 THEN args.io
              ELSE IF st.bufStore = 1 THEN Address(p, <<"outside">>) ELSE m.glob[<<"link">>] IN
  IF ticks > Limit
  THEN [m EXCEPT !.state = [st EXCEPT !.ticks = Limit + 1, !.exceeded = TRUE]]
  ELSE [glob |-> [m.glob EXCEPT ![<<"sum">>] = Number(sum), ![<<"link">>] = kept],
        state |-> [st EXCEPT !.ticks = ticks, !.ioStore = seen,
                             !.acc = IF kind = "FUNCTION" THEN 0 ELSE (@ + seen) % 2,
                             !.result = IF kind = "FUNCTION" THEN seen ELSE 0]]

SemantistStep(m, p, frame, dt) ==
  LET begun == [m.state EXCEPT !.clock = @ + dt, !.index = @ + 1]
      applied == ApplyFrame(begun, p, frame) IN
  Target([m EXCEPT !.state = applied], p, Arguments(applied, p, frame))

(* An IN_OUT record of a frame goes straight to the backing storage.       *)
WriteInOut(m, v) == IF kind = "FUNCTION" THEN m ELSE [m EXCEPT !.state.ioStore = v]

NoFrame == [in |-> 0, buf |-> 0]
NoText == [cycle |-> 0, frame |-> NoFrame, dt |-> Period]
NoHistory == [shared |-> <<>>, events |-> <<>>]

InOutEvent(v) == [op |-> "io", io |-> v, frame |-> NoFrame, dt |-> 0]
StepEvent(frame, dt) == [op |-> "step", io |-> 0, frame |-> frame, dt |-> dt]

Give(p, e) == hist' = [hist EXCEPT ![p].events = Append(@, e)]
Room(p, n) == Len(hist[p].events) + n <= MaxEvents[p]

HInit ==
  /\ kind \in {"FUNCTION_BLOCK", "FUNCTION"}
  /\ \E opt \in Optimizations : table = StateTable(opt)
  /\ host \in {{"loop"}, {"engine"}}
  /\ pc = [p \in Processes |-> "down"]
  /\ mem = [p \in Processes |-> Image]
  /\ snap = [p \in Processes |-> NoRecord]
  /\ exec = NoText
  /\ hist = [p \in Processes |-> NoHistory]
  /\ blob = NoRecord

(* A process is loaded, also after the one before was aborted. The engine  *)
(* loses its checkpoints with its memory.                                  *)
Load(p) ==
  /\ p \in host /\ pc[p] \in {"down", "aborted"}
  /\ pc' = [pc EXCEPT ![p] = "idle"]
  /\ mem' = [mem EXCEPT ![p] = Image]
  /\ snap' = [snap EXCEPT ![p] = NoRecord]
  /\ hist' = [hist EXCEPT ![p] = NoHistory]
  /\ blob' = IF p = "engine" THEN NoRecord ELSE blob
  /\ UNCHANGED <<kind, table, host, exec>>

Initialize(p, m, s, shared) ==
  /\ mem' = [mem EXCEPT ![p] = SemantistInit(m, s, p, shared)]
  /\ snap' = [snap EXCEPT ![p] = Recorded(m, s)]
  /\ hist' = [hist EXCEPT ![p] = [shared |-> shared, events |-> <<>>]]
  /\ pc' = [pc EXCEPT ![p] = IF Accepted(shared) THEN "run" ELSE "idle"]

(* semantist_harness_execute for the next input of the persistent loop:    *)
(* the state is reset, and again by semantist_init.                        *)
LoopInput ==
  /\ pc["loop"] = "idle"
  /\ \E shared \in Shared :
       Initialize("loop", StateReset(mem["loop"], snap["loop"]),
                  Recorded(mem["loop"], snap["loop"]), shared)
  /\ exec' = NoText
  /\ UNCHANGED <<kind, table, host, blob>>

(* The scan of the frame that was gathered.                                *)
Scan(p, frame, dt, next) ==
  LET m == SemantistStep(mem[p], p, frame, dt) IN
  /\ mem' = [mem EXCEPT ![p] = m]
  /\ Give(p, StepEvent(frame, dt))
  /\ pc' = [pc EXCEPT ![p] = IF m.state.exceeded THEN "aborted" ELSE next]
  /\ UNCHANGED <<kind, table, host, snap, blob>>

(* A record of another cycle than the one before: that one is executed     *)
(* first. The frame keeps the values it has, dt does not. (Cycle 0 stands  *)
(* for the -1 of an execution that has not met a frame record.)            *)
NextCycle ==
  /\ pc["loop"] = "run" /\ Room("loop", 1)
  /\ \/ /\ exec.cycle > 0
        /\ Scan("loop", exec.frame, exec.dt, "run")
     \/ /\ exec.cycle = 0
        /\ UNCHANGED <<kind, table, host, pc, mem, snap, hist, blob>>
  /\ exec' = [exec EXCEPT !.cycle = @ + 1, !.dt = Period]

(* A record of the current cycle, read by semantist_parse_frame. A __DT    *)
(* comes no further than the loop over the records.                        *)
TakeRecord ==
  /\ pc["loop"] = "run" /\ exec.cycle > 0
  /\ \/ /\ \E v \in 0 .. Limit + 1 : exec' = [exec EXCEPT !.frame.in = v]
        /\ UNCHANGED <<mem, hist>>
     \/ /\ \E v \in Words : exec' = [exec EXCEPT !.frame.buf = v]
        /\ UNCHANGED <<mem, hist>>
     \/ /\ \E f \in Frames : exec' = [exec EXCEPT !.dt = f.dt]
        /\ UNCHANGED <<mem, hist>>
     \/ /\ Room("loop", 1)
        /\ \E v \in Words : /\ mem' = [mem EXCEPT !["loop"] = WriteInOut(@, v)]
                            /\ Give("loop", InOutEvent(v))
        /\ UNCHANGED exec
  /\ UNCHANGED <<kind, table, host, pc, snap, blob>>

(* A record whose value its type does not have ends the execution between  *)
(* two scans; a bad __DT does so before the scan that it would start.      *)
RefuseRecord ==
  /\ pc["loop"] = "run"
  /\ pc' = [pc EXCEPT !["loop"] = "idle"]
  /\ exec' = NoText
  /\ UNCHANGED <<kind, table, host, mem, snap, hist, blob>>

(* The end of the text executes the last frame, or one of zeros when there *)
(* was none.                                                               *)
EndOfText ==
  /\ pc["loop"] = "run" /\ Room("loop", 1)
  /\ Scan("loop", exec.frame, exec.dt, "idle")
  /\ exec' = NoText

(* The engine parses its testcase before it calls the harness.             *)
EngineInput ==
  /\ pc["engine"] \in {"idle", "run"}
  /\ \E shared \in {s \in Shared : Accepted(s)} :
       Initialize("engine", mem["engine"], snap["engine"], shared)
  /\ UNCHANGED <<kind, table, host, exec, blob>>

(* execute_frame: every action field is given, the IN_OUT ones too.        *)
GiveFrame(p, f) ==
  LET m == SemantistStep(WriteInOut(mem[p], f.io), p, [in |-> f.in, buf |-> f.buf], f.dt) IN
  /\ pc[p] = "run" /\ Room(p, 2)
  /\ mem' = [mem EXCEPT ![p] = m]
  /\ hist' = [hist EXCEPT ![p].events =
                @ \o <<InOutEvent(f.io), StepEvent([in |-> f.in, buf |-> f.buf], f.dt)>>]
  /\ pc' = [pc EXCEPT ![p] = IF m.state.exceeded THEN "aborted" ELSE "run"]
  /\ UNCHANGED <<kind, table, host, snap, exec, blob>>

EngineFrame == \E f \in Frames : GiveFrame("engine", f)

Checkpoint(m) == [glob |-> Held(m.glob), state |-> m.state]
SemantistRestore(m, b) == [glob |-> Put(m.glob, b.glob), state |-> b.state]

(* The longest prefix of the testcase that has a checkpoint; the state was *)
(* initialised with the same shared records before.                        *)
Restore ==
  /\ pc["engine"] = "run" /\ blob # NoRecord
  /\ hist["engine"] = [shared |-> blob[1].hist.shared, events |-> <<>>]
  /\ mem' = [mem EXCEPT !["engine"] = SemantistRestore(@, blob[1].bytes)]
  /\ hist' = [hist EXCEPT !["engine"] = blob[1].hist]
  /\ UNCHANGED <<kind, table, host, pc, snap, exec, blob>>

(* At a depth that is kept the state goes to the cache.                    *)
Store ==
  /\ pc["engine"] = "run" /\ hist["engine"].events # <<>>
  /\ blob' = <<[bytes |-> Checkpoint(mem["engine"]), hist |-> hist["engine"]]>>
  /\ UNCHANGED <<kind, table, host, pc, mem, snap, exec, hist>>

HNext ==
  \/ \E p \in Processes : Load(p)
  \/ LoopInput \/ NextCycle \/ TakeRecord \/ RefuseRecord \/ EndOfText
  \/ EngineInput \/ EngineFrame \/ Store \/ Restore

HSpec == HInit /\ [][HNext]_hvars

(* What a process that was just loaded is like when it has been given the  *)
(* input of h and nothing else.                                            *)
Cold(p, h) ==
  FoldLeft(LAMBDA m, e : IF e.op = "io" THEN WriteInOut(m, e.io)
                         ELSE SemantistStep(m, p, e.frame, e.dt),
           SemantistInit(Image, NoRecord, p, h.shared), h.events)

(* "An execution in a persistent or in-process loop starts from the same   *)
(* state as a fresh process" (state_table.py 4-5), and stays there: the    *)
(* memory that a target can read, globals and addresses included, is the   *)
(* one of a new process given the same records, whatever ran before in     *)
(* this one, refused half-way or restored over.                            *)
ExecutionsAreCold ==
  \A p \in host : mem[p].state.initialized => mem[p] = Cold(p, hist[p])

(* A scan is aborted for its own back edges: the count is neither carried  *)
(* over from the scans before nor from a checkpoint, so an input is never  *)
(* reported as a hang for what its earlier frames did, and none that loops *)
(* too long completes (v3gen.py 383-393, 834-837).                         *)
AbortsAreOwed ==
  \A p \in host :
    LET past == hist[p].events IN
    /\ pc[p] = "aborted" => Last(past).frame.in > Limit
    /\ \A i \in DOMAIN past :
         past[i].op = "step" /\ past[i].frame.in > Limit => pc[p] = "aborted" /\ i = Len(past)
=============================================================================
