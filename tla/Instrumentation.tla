----------------------------- MODULE Instrumentation -----------------------------
(***************************************************************************)
(* SystemInstrumentation of evaluation/instrumentation.py: the session     *)
(* facade with its timers and counters, and the ResourceMonitor, whose     *)
(* sampler is a thread of its own.                                         *)
(*                                                                         *)
(* The main thread and the samplers share monitoring and peak without a    *)
(* lock.  A sampler reads the memory of the process, compares it with the  *)
(* peak and stores it in three steps; the main thread does the same for    *)
(* its final sample.  stop waits for the sampler for half a second at most *)
(* and goes on without it.                                                 *)
(*                                                                         *)
(* The three timers are not started and stopped together: the session      *)
(* timer runs before the monitor reads the memory, primes the CPU counter  *)
(* and starts its thread, the timers of the rates after that, and at the   *)
(* end the session timer stops before the join and those of the rates      *)
(* after it.  Time may pass at every such point.                           *)
(***************************************************************************)
EXTENDS Metrics

CONSTANTS
  MaxSessions,    \* bound: sessions on one instrumentation
  MaxClock,       \* bound: ticks of the performance counter
  MaxRecords,     \* bound: observations over all sessions
  Rss,            \* resident set sizes that occur
  Observations    \* <<slow, outcome of the action taken>> that occur

ASSUME InstrumentationAssumption ==
  /\ MaxSessions \in Nat /\ MaxClock \in Nat /\ MaxRecords \in Nat
  /\ Rss \subseteq Nat \ {0} /\ Rss # {}
  /\ Observations \subseteq BOOLEAN \X {"none", "repaired", "failed"}

Timers == {"session", "throughput", "bandwidth"}
Samplers == 1 .. MaxSessions

VARIABLES
  clock,          \* perf_counter_ns
  timer,          \* the three ExecutionTimers
  monitoring,     \* ResourceMonitor._monitoring
  peak,           \* ResourceMonitor.peak_rss_bytes
  sampled,        \* a CPU sample was taken since start
  sampler,        \* the sampler threads
  main,           \* where the main thread stands
  session,        \* sessions started
  counts,         \* records, telemetry bytes and actions
  summary         \* what end_session returned last

\* History: the largest memory read since start, whether a stop gave up, and of
\* the last session when it was called for, when its records began and ceased
\* to come, and how many had been observed before it.
VARIABLES seen, gaveUp, mark

monitorVars == <<monitoring, peak, sampled, sampler, seen>>
vars == <<clock, timer, monitorVars, main, session, counts, summary, gaveUp, mark>>

FreshTimer == [start |-> 0, elapsed |-> 0, running |-> FALSE]
FreshCounts == [records |-> 0, bytes |-> 0, observations |-> 0, slow |-> 0,
                actions |-> 0, failures |-> 0]
NoSummary == [elapsed |-> 0, throughput |-> 0, bandwidth |-> 0, peak |-> 0,
              energy |-> 0, cost |-> 0, sloRate |-> 0]

Init ==
  /\ clock = 0
  /\ timer = [t \in Timers |-> FreshTimer]
  /\ monitoring = FALSE /\ peak = 0 /\ sampled = FALSE
  /\ sampler = [s \in Samplers |-> [pc |-> "none", rss |-> 0]]
  /\ main = [pc |-> "idle", rss |-> 0]
  /\ session = 0
  /\ counts = FreshCounts
  /\ summary = NoSummary
  /\ seen = 0 /\ gaveUp = FALSE
  /\ mark = [began |-> 0, opened |-> 0, closed |-> 0, before |-> 0]

Live == {s \in Samplers : sampler[s].pc \notin {"none", "done"}}

(* Where the main thread can stand: outside of a session, in start_session, *)
(* among the records, and in end_session.                                   *)
MainPoints == {"idle", "measure", "launch", "throughput", "bandwidth", "running",
               "joining", "compare", "store", "reporting", "closing"}

TypeOK ==
  /\ clock \in 0 .. MaxClock /\ session \in 0 .. MaxSessions
  /\ timer \in [Timers -> [start : 0 .. MaxClock, elapsed : 0 .. MaxClock,
                           running : BOOLEAN]]
  /\ peak \in Rss \cup {0} /\ seen \in Rss \cup {0}
  /\ monitoring \in BOOLEAN /\ sampled \in BOOLEAN /\ gaveUp \in BOOLEAN
  /\ sampler \in [Samplers ->
       [pc : {"none", "check", "read", "compare", "store", "sleep", "done"},
        rss : Rss \cup {0}]]
  /\ main \in [pc : MainPoints, rss : Rss \cup {0}]
  /\ mark \in [began : 0 .. MaxClock, opened : 0 .. MaxClock,
               closed : 0 .. MaxClock, before : Nat]

-------------------------------------------------------------------------------
(* ExecutionTimer: start, stop, elapsed_ms; time adds up over starts.      *)
Started(t) == [t EXCEPT !.start = clock, !.running = TRUE]

Stopped(t) ==
  IF t.running
    THEN [t EXCEPT !.elapsed = @ + (clock - t.start), !.running = FALSE]
    ELSE t

(* Time passes at every point of a session.                                *)
Tick ==
  /\ main.pc # "idle" /\ clock < MaxClock
  /\ clock' = clock + 1
  /\ UNCHANGED <<timer, monitorVars, main, session, counts, summary, gaveUp, mark>>

Ingested(c) == [c EXCEPT !.records = @ + 1, !.bytes = @ + 8]

(* ActionCounter.record_latency and record_action.                         *)
Timed(c, slow) ==
  [c EXCEPT !.observations = @ + 1, !.slow = @ + (IF slow THEN 1 ELSE 0)]

Acted(c, outcome) ==
  CASE outcome = "none"     -> c
    [] outcome = "repaired" -> [c EXCEPT !.actions = @ + 1]
    [] outcome = "failed"   -> [c EXCEPT !.actions = @ + 1, !.failures = @ + 1]

(* start_session.  The session timer starts first.                         *)
StartSession ==
  /\ main.pc = "idle" /\ session < MaxSessions
  /\ timer' = [timer EXCEPT !["session"] = Started(@)]
  /\ session' = session + 1
  /\ main' = [pc |-> "measure", rss |-> 0]
  /\ mark' = [mark EXCEPT !.began = clock, !.before = counts.observations]
  /\ UNCHANGED <<clock, monitorVars, counts, summary, gaveUp>>

(* ResourceMonitor.start: the samples are forgotten, and the peak is the   *)
(* memory of the moment.                                                   *)
MeasureBaseline ==
  /\ main.pc = "measure"
  /\ \E rss \in Rss : peak' = rss /\ seen' = rss
  /\ sampled' = FALSE
  /\ main' = [main EXCEPT !.pc = "launch"]
  /\ UNCHANGED <<clock, timer, monitoring, sampler, session, counts, summary,
                 gaveUp, mark>>

(* The flag is raised and a new sampler starts.                            *)
LaunchSampler ==
  /\ main.pc = "launch"
  /\ monitoring' = TRUE
  /\ sampler' = [sampler EXCEPT ![session].pc = "check"]
  /\ main' = [main EXCEPT !.pc = "throughput"]
  /\ UNCHANGED <<clock, timer, peak, sampled, seen, session, counts, summary,
                 gaveUp, mark>>

(* Mutant of StartThroughput: the records of the last session stay. *)
StartThroughputCounting ==
  /\ main.pc = "throughput"
  /\ timer' = [timer EXCEPT !["throughput"] = Started(@)]
  /\ main' = [main EXCEPT !.pc = "bandwidth"]
  /\ UNCHANGED <<clock, monitorVars, session, counts, summary, gaveUp, mark>>

(* ThroughputCounter.start: the records are set back, the time of the      *)
(* timer is not.                                                           *)
StartThroughput ==
  /\ main.pc = "throughput"
  /\ counts' = [counts EXCEPT !.records = 0]
  /\ timer' = [timer EXCEPT !["throughput"] = Started(@)]
  /\ main' = [main EXCEPT !.pc = "bandwidth"]
  /\ UNCHANGED <<clock, monitorVars, session, summary, gaveUp, mark>>

(* BandwidthAccountant.start, likewise; then the records come.             *)
StartBandwidth ==
  /\ main.pc = "bandwidth"
  /\ counts' = [counts EXCEPT !.bytes = 0]
  /\ timer' = [timer EXCEPT !["bandwidth"] = Started(@)]
  /\ main' = [main EXCEPT !.pc = "running"]
  /\ mark' = [mark EXCEPT !.opened = clock]
  /\ UNCHANGED <<clock, monitorVars, session, summary, gaveUp>>

(* What a runner reports of an evaluated record.                           *)
Observe(slow, outcome) ==
  /\ main.pc = "running" /\ counts.observations < MaxRecords
  /\ counts' = Acted(Timed(Ingested(counts), slow), outcome)
  /\ UNCHANGED <<clock, timer, monitorVars, main, session, summary, gaveUp, mark>>

-------------------------------------------------------------------------------
(* The sampler thread: _monitor_loop.                                      *)

Move(s, pc) ==
  sampler' = [sampler EXCEPT ![s] =
    [pc |-> pc, rss |-> IF pc = "store" THEN sampler[s].rss ELSE 0]]

CheckFlag(s) ==
  /\ sampler[s].pc = "check"
  /\ Move(s, IF monitoring THEN "read" ELSE "done")
  /\ UNCHANGED <<monitoring, peak, sampled, seen>>

(* The CPU is read first; a sample of zero is not kept.                    *)
ReadUsage(s) ==
  /\ sampler[s].pc = "read"
  /\ \E rss \in Rss :
       /\ sampler' = [sampler EXCEPT ![s] = [pc |-> "compare", rss |-> rss]]
       /\ seen' = Max({seen, rss})
  /\ sampled' \in {sampled, TRUE}
  /\ UNCHANGED <<monitoring, peak>>

(* psutil refuses: the loop is left.                                       *)
ReadFails(s) ==
  /\ sampler[s].pc = "read"
  /\ Move(s, "done")
  /\ UNCHANGED <<monitoring, peak, sampled, seen>>

ComparePeak(s) ==
  /\ sampler[s].pc = "compare"
  /\ Move(s, IF sampler[s].rss > peak THEN "store" ELSE "sleep")
  /\ UNCHANGED <<monitoring, peak, sampled, seen>>

StorePeak(s) ==
  /\ sampler[s].pc = "store"
  /\ peak' = sampler[s].rss
  /\ Move(s, "sleep")
  /\ UNCHANGED <<monitoring, sampled, seen>>

WakeUp(s) ==
  /\ sampler[s].pc = "sleep"
  /\ Move(s, "check")
  /\ UNCHANGED <<monitoring, peak, sampled, seen>>

Sample(s) ==
  /\ CheckFlag(s) \/ ReadUsage(s) \/ ReadFails(s) \/ ComparePeak(s)
       \/ StorePeak(s) \/ WakeUp(s)
  /\ UNCHANGED <<clock, timer, main, session, counts, summary, gaveUp, mark>>

-------------------------------------------------------------------------------
(* Mutant of EndSession: the flag stays up. *)
EndSessionFlagUp ==
  /\ main.pc = "running"
  /\ timer' = [timer EXCEPT !["session"] = Stopped(@)]
  /\ main' = [main EXCEPT !.pc = "joining"]
  /\ mark' = [mark EXCEPT !.closed = clock]
  /\ UNCHANGED <<clock, monitorVars, session, counts, summary, gaveUp>>

(* end_session up to the join: the session timer, and it alone, is stopped *)
(* and the flag is lowered.                                                *)
EndSession ==
  /\ main.pc = "running"
  /\ timer' = [timer EXCEPT !["session"] = Stopped(@)]
  /\ monitoring' = FALSE
  /\ main' = [main EXCEPT !.pc = "joining"]
  /\ mark' = [mark EXCEPT !.closed = clock]
  /\ UNCHANGED <<clock, peak, sampled, sampler, seen, session, counts, summary,
                 gaveUp>>

(* Mutant of Join: the main thread does not wait. *)
JoinNot ==
  /\ main.pc = "joining"
  /\ \E rss \in Rss : main' = [pc |-> "compare", rss |-> rss]
                      /\ seen' = Max({seen, rss})
  /\ UNCHANGED <<clock, timer, monitoring, peak, sampled, sampler, session,
                 counts, summary, gaveUp, mark>>

(* stop: the sampler of this session is over, and memory is read once more. *)
Join ==
  /\ main.pc = "joining" /\ sampler[session].pc = "done"
  /\ \E rss \in Rss : main' = [pc |-> "compare", rss |-> rss]
                      /\ seen' = Max({seen, rss})
  /\ UNCHANGED <<clock, timer, monitoring, peak, sampled, sampler, session,
                 counts, summary, gaveUp, mark>>

(* The sampler did not end within half a second.                           *)
JoinTimesOut ==
  /\ main.pc = "joining" /\ sampler[session].pc # "done"
  /\ \E rss \in Rss : main' = [pc |-> "compare", rss |-> rss]
                      /\ seen' = Max({seen, rss})
  /\ gaveUp' = TRUE
  /\ UNCHANGED <<clock, timer, monitoring, peak, sampled, sampler, session,
                 counts, summary, mark>>

FinalCompare ==
  /\ main.pc = "compare"
  /\ main' = [main EXCEPT !.pc = IF main.rss > peak THEN "store" ELSE "reporting"]
  /\ UNCHANGED <<clock, timer, monitorVars, session, counts, summary, gaveUp, mark>>

FinalStore ==
  /\ main.pc = "store"
  /\ peak' = main.rss
  /\ main' = [main EXCEPT !.pc = "reporting"]
  /\ UNCHANGED <<clock, timer, monitoring, sampled, sampler, seen, session, counts,
                 summary, gaveUp, mark>>

(* The rest of end_session.  The throughput is taken after the join.        *)
StopThroughput ==
  /\ main.pc = "reporting"
  /\ timer' = [timer EXCEPT !["throughput"] = Stopped(@)]
  /\ main' = [main EXCEPT !.pc = "closing"]
  /\ UNCHANGED <<clock, monitorVars, session, counts, summary, gaveUp, mark>>

RecordsPerSec(t) == Rate(counts.records, t["throughput"].elapsed)
BytesPerSec(t)   == Rate(counts.bytes, t["bandwidth"].elapsed)
EnergyOf(t)      == Energy(IF sampled THEN 100 ELSE 0, t["session"].elapsed)

(* calculate_operational_recovery_cost of the ActionCounter.               *)
Cost == OperationalRecoveryCost(counts.actions, counts.observations, counts.slow,
                                Ratio(counts.failures, counts.actions))

(* The bandwidth last; the summary is made of what is there.               *)
Report ==
  /\ main.pc = "closing"
  /\ timer' = [timer EXCEPT !["bandwidth"] = Stopped(@)]
  /\ summary' = [ elapsed |-> timer'["session"].elapsed,
                  throughput |-> RecordsPerSec(timer'),
                  bandwidth |-> BytesPerSec(timer'),
                  peak |-> peak, energy |-> EnergyOf(timer'), cost |-> Cost,
                  sloRate |-> SloViolationRate(counts.observations, counts.slow) ]
  /\ main' = [pc |-> "idle", rss |-> 0]
  /\ UNCHANGED <<clock, monitorVars, session, counts, gaveUp, mark>>

MainStep ==
  \/ StartSession \/ MeasureBaseline \/ LaunchSampler
  \/ StartThroughput \/ StartBandwidth
  \/ \E o \in Observations : Observe(o[1], o[2])
  \/ EndSession \/ Join \/ JoinTimesOut \/ FinalCompare \/ FinalStore
  \/ StopThroughput \/ Report

Next == Tick \/ MainStep \/ \E s \in Samplers : Sample(s)

(* The operating system runs every thread that can run; nothing obliges    *)
(* the main program to end a session or to start another.                  *)
Fairness == \A s \in Samplers : WF_vars(Sample(s))

Spec == Init /\ [][Next]_vars /\ Fairness

-------------------------------------------------------------------------------
(* ResourceMonitor without a lock: as long as every stop has seen its      *)
(* sampler end, there is one sampler at most, none between sessions, and   *)
(* the peak reported is the largest memory that was read since start.      *)
PeakCovers ==
  ~ gaveUp =>
    /\ Cardinality(Live) <= 1
    /\ main.pc = "idle" => Live = {} /\ peak = seen

(* The rates of end_session are taken over times that begin and end        *)
(* elsewhere than the elapsed time reported beside them.  To within a unit *)
(* of the rounding: a throughput and a bandwidth never exceed what the     *)
(* records of this very session come to over the time they came in - also  *)
(* in a second session on the same object, whose counters are set back and *)
(* whose timers are not.  On a fresh object, as every runner uses it, they *)
(* are no less than the records over the whole of the session, from the    *)
(* call of start_session to the return of end_session, join included.      *)
RatesBracketed ==
  main.pc = "idle" =>
    LET records == counts.observations - mark.before
        span    == mark.closed - mark.opened
        whole   == clock - mark.began
    IN  /\ (summary.throughput - 1) * span <= 1000 * records
        /\ (summary.bandwidth - 1) * span <= 8000 * records
        /\ session = 1 /\ span > 0 =>
             /\ (summary.throughput + 1) * whole >= 1000 * records
             /\ (summary.bandwidth + 1) * whole >= 8000 * records

(* stop gives up on a sampler, it does not leave it behind: every session  *)
(* that is being ended leads to a moment without any sampler, unless        *)
(* another session is started.                                             *)
SamplersEnd ==
  \A n \in Samplers :
    (main.pc = "joining" /\ session = n) ~> (Live = {} \/ session > n)
===============================================================================
