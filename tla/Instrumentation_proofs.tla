------------------------ MODULE Instrumentation_proofs ------------------------
(***************************************************************************)
(* The peak and the rates of SystemInstrumentation, for any number of      *)
(* sessions, ticks and memory sizes.                                       *)
(*                                                                         *)
(* PeakCovers is not inductive: it says nothing while a session is on.     *)
(* PeakInv says that only the sampler of this session lives, and that a    *)
(* memory size that was read and is not in the peak yet is in the hands of *)
(* that sampler or of the main thread.                                     *)
(*                                                                         *)
(* RatesBracketed compares a rate with times it is not computed from.      *)
(* TimerInv says at which points of the session each timer runs, RateInv   *)
(* how the time on a timer compares with the time the records come in and  *)
(* with the time since start_session, and what the counters hold.          *)
(***************************************************************************)
EXTENDS Instrumentation, ProofLemmas, FiniteSetTheorems

Others == {"throughput", "bandwidth"}

(* The points of start_session, of end_session, and those where a timer    *)
(* runs.                                                                   *)
Starting == {"measure", "launch", "throughput", "bandwidth"}
Ending   == {"joining", "compare", "store", "reporting", "closing"}

On(k) ==
  IF k = "session" THEN Starting \cup {"running"}
  ELSE IF k = "throughput"
    THEN {"bandwidth", "running", "joining", "compare", "store", "reporting"}
    ELSE {"running"} \cup Ending

(* The time on a timer, that of a running one included.                    *)
Booked(t, now) == t.elapsed + (IF t.running THEN now - t.start ELSE 0)

Time(k) == Booked(timer[k], clock)

TimerInv ==
  \A k \in Timers : /\ timer[k].start <= clock /\ Time(k) <= clock
                    /\ timer[k].running <=> main.pc \in On(k)

RateInv ==
  /\ mark.began <= clock
  /\ session = 0 => main.pc = "idle" /\ \A k \in Others : Time(k) = 0
  /\ main.pc = "running" =>
       mark.opened <= clock /\ \A k \in Others : clock - mark.opened <= Time(k)
  /\ main.pc \in Ending =>
       /\ mark.opened <= mark.closed
       /\ \A k \in Others : mark.closed - mark.opened <= Time(k)
  /\ session = 1 /\ main.pc # "idle" =>
       \A k \in Others : Time(k) <= clock - mark.began
  /\ main.pc \in Starting => counts.observations = mark.before
  /\ main.pc \in On("throughput") \cup {"closing"} =>
       counts.records = counts.observations - mark.before
  /\ main.pc \in On("bandwidth") =>
       counts.bytes = 8 * (counts.observations - mark.before)

Counts == [records : Nat, bytes : Nat, observations : Nat, slow : Nat,
           actions : Nat, failures : Nat]

Handed == {"compare", "store"}

(* The points where the sampler of the session may live.                   *)
Sampling == {"throughput", "bandwidth", "running", "joining"}

PeakInv ==
  /\ main.pc # "idle" => session \in Samplers
  /\ ~ gaveUp =>
       /\ \A s \in Samplers :
            /\ s # session => sampler[s].pc \in {"none", "done"}
            /\ main.pc \notin Sampling =>
                 sampler[s].pc \in {"none", "done"}
            /\ s = session /\ sampler[s].pc \in Handed => sampler[s].rss <= seen
            /\ s = session /\ sampler[s].pc \in Handed /\ peak # seen =>
                 sampler[s].rss = seen
            /\ s = session /\ main.pc \in Sampling
                 /\ sampler[s].pc \notin Handed => peak = seen
            /\ s = session /\ sampler[s].pc = "store" => sampler[s].rss > peak
       /\ peak <= seen
       /\ main.pc \in {"idle", "launch", "reporting", "closing"} => peak = seen
       /\ main.pc \in Handed => main.rss <= seen /\ (peak # seen => main.rss = seen)
       /\ main.pc = "store" => main.rss > peak

InstrumentationInv ==
  TypeOK /\ counts \in Counts /\ TimerInv /\ RateInv /\ PeakInv /\ RatesBracketed

-------------------------------------------------------------------------------
(* Memory sizes are numbers.                                               *)
LEMMA RssTypes ==
  /\ Rss \cup {0} \subseteq Nat /\ \A r \in Rss : r \in Int
  /\ MaxSessions \in Nat /\ MaxClock \in Nat /\ MaxRecords \in Nat
BY InstrumentationAssumption

(* The largest memory seen, with one more reading.                         *)
LEMMA Reading ==
  ASSUME NEW a \in Rss \cup {0}, NEW r \in Rss
  PROVE  /\ Max({a, r}) \in Rss /\ Max({a, r}) >= a /\ Max({a, r}) >= r
         /\ Max({a, r}) \in {a, r}
<1>1. a \in Int /\ r \in Int /\ a >= 0 /\ r > 0
  BY InstrumentationAssumption
<1>2. Max({a, r}) \in {a, r} /\ Max({a, r}) >= a /\ Max({a, r}) >= r
  BY <1>1, MaxOfTwo, Zenon
<1> QED BY <1>1, <1>2

(* The initial state.                                                      *)
LEMMA InitialInv == Init => InstrumentationInv
<1> SUFFICES ASSUME Init PROVE InstrumentationInv
  OBVIOUS
<1>1. TypeOK /\ counts \in Counts
  <2>1. 0 \in 0 .. MaxClock /\ 0 \in 0 .. MaxSessions BY RssTypes
  <2>2. timer \in [Timers -> [start : 0 .. MaxClock, elapsed : 0 .. MaxClock,
                              running : BOOLEAN]]
    BY <2>1 DEF Init, FreshTimer
  <2>3. counts \in Counts BY DEF Init, FreshCounts, Counts
  <2>4. mark \in [began : 0 .. MaxClock, opened : 0 .. MaxClock,
                  closed : 0 .. MaxClock, before : Nat]
    BY <2>1 DEF Init
  <2>5. main \in [pc : MainPoints, rss : Rss \cup {0}] BY DEF Init, MainPoints
  <2> QED BY <2>1, <2>2, <2>3, <2>4, <2>5 DEF Init, TypeOK
<1>2. TimerInv /\ RateInv
  <2>1. \A k \in Timers : timer[k].start = 0 /\ ~ timer[k].running /\ Time(k) = 0
    BY DEF Init, FreshTimer, Time, Booked
  <2>2. main.pc = "idle" /\ clock = 0 /\ mark.began = 0 /\ Others \subseteq Timers
    BY DEF Init, Others, Timers
  <2> QED BY <2>1, <2>2 DEF TimerInv, RateInv, On, Starting, Ending
<1>3. PeakInv
  BY DEF Init, PeakInv, Handed
<1>4. RatesBracketed
  BY DEF Init, RatesBracketed, FreshCounts, NoSummary
<1> QED BY <1>1, <1>2, <1>3, <1>4 DEF InstrumentationInv

-------------------------------------------------------------------------------
(* The peak.                                                               *)

(* A step of a sampler.                                                    *)
LEMMA SamplePeak ==
  ASSUME TypeOK, PeakInv, NEW s \in Samplers, Sample(s)
  PROVE  PeakInv'
<1> SUFFICES ASSUME ~ gaveUp PROVE PeakInv'
  BY DEF PeakInv, Sample
<1>1. UNCHANGED <<gaveUp, main, session>> BY DEF Sample
<1>2. /\ sampler \in [Samplers ->
           [pc : {"none", "check", "read", "compare", "store", "sleep", "done"},
            rss : Rss \cup {0}]]
      /\ peak \in Int /\ seen \in Int /\ main.rss \in Int
      /\ sampler[s].rss \in Int
      /\ seen \in Rss \cup {0}
  BY RssTypes DEF TypeOK
<1>3. s = session /\ main.pc \in Sampling
  BY DEF PeakInv, Sample, CheckFlag, ReadUsage, ReadFails, ComparePeak, StorePeak,
         WakeUp
<1>4. /\ sampler[s].pc \in Handed => sampler[s].rss <= seen
      /\ sampler[s].pc \in Handed /\ peak # seen => sampler[s].rss = seen
      /\ sampler[s].pc \notin Handed => peak = seen
      /\ sampler[s].pc = "store" => sampler[s].rss > peak
      /\ peak <= seen
      /\ \A t \in Samplers : t # s => sampler[t].pc \in {"none", "done"}
  BY <1>3 DEF PeakInv
<1>5. ASSUME NEW e, sampler' = [sampler EXCEPT ![s] = e],
             peak' \in Int, seen' \in Int, peak' <= seen',
             e.pc \in Handed => /\ e.rss <= seen'
                                /\ peak' # seen' => e.rss = seen',
             e.pc \notin Handed => peak' = seen',
             e.pc = "store" => e.rss > peak'
      PROVE  PeakInv'
  <2>1. sampler'[s] = e /\ \A t \in Samplers : t # s => sampler'[t] = sampler[t]
    BY <1>2, <1>5
  <2>2. main'.pc \in Sampling /\ session' = s
    BY <1>1, <1>3
  <2> QED BY <1>4, <1>5, <2>1, <2>2 DEF PeakInv, Handed, Sampling
<1>6. CASE CheckFlag(s) \/ ReadFails(s) \/ WakeUp(s)
  <2>1. PICK pc \in {"read", "done", "check"} :
          sampler' = [sampler EXCEPT ![s] = [pc |-> pc, rss |-> 0]]
    BY <1>6 DEF CheckFlag, ReadFails, WakeUp, Move
  <2>2. UNCHANGED <<peak, seen>> /\ sampler[s].pc \notin Handed
    BY <1>6 DEF CheckFlag, ReadFails, WakeUp, Handed
  <2> QED BY <1>2, <1>4, <1>5, <2>1, <2>2 DEF Handed
<1>7. CASE ReadUsage(s)
  <2>1. PICK r \in Rss :
          /\ sampler' = [sampler EXCEPT ![s] = [pc |-> "compare", rss |-> r]]
          /\ seen' = Max({seen, r})
    BY <1>7 DEF ReadUsage
  <2>2. peak' = peak /\ peak = seen
    BY <1>4, <1>7 DEF ReadUsage, Handed
  <2>3. r \in Int /\ seen' \in Int /\ seen' >= seen /\ seen' >= r
        /\ seen' \in {seen, r}
    BY <1>2, <2>1, Reading, RssTypes
  <2> DEFINE e == [pc |-> "compare", rss |-> r]
  <2>4. e.pc = "compare" /\ e.rss = r /\ e.pc \in Handed /\ e.pc # "store"
    BY DEF Handed
  <2>5. sampler' = [sampler EXCEPT ![s] = e] BY <2>1
  <2> HIDE DEF e
  <2>6. peak' \in Int /\ peak' <= seen' /\ e.rss <= seen'
        /\ (peak' # seen' => e.rss = seen')
    BY <1>2, <2>2, <2>3, <2>4
  <2> QED BY <1>5, <2>3, <2>4, <2>5, <2>6
<1>8. CASE ComparePeak(s)
  <2>1. UNCHANGED <<peak, seen>> /\ sampler[s].pc = "compare"
    BY <1>8 DEF ComparePeak
  <2>2. CASE sampler[s].rss > peak
    <3>1. sampler' = [sampler EXCEPT ![s] = [pc |-> "store", rss |-> sampler[s].rss]]
      BY <1>8, <2>2 DEF ComparePeak, Move
    <3> QED BY <1>2, <1>4, <1>5, <2>1, <2>2, <3>1 DEF Handed
  <2>3. CASE ~ sampler[s].rss > peak
    <3>1. sampler' = [sampler EXCEPT ![s] = [pc |-> "sleep", rss |-> 0]]
      BY <1>8, <2>3 DEF ComparePeak, Move
    <3> DEFINE e == [pc |-> "sleep", rss |-> 0]
    <3>2. e.pc \notin Handed /\ e.pc # "store" BY DEF Handed
    <3>3. sampler' = [sampler EXCEPT ![s] = e] BY <3>1
    <3> HIDE DEF e
    <3>4. sampler[s].pc \in Handed BY <2>1 DEF Handed
    <3>5. peak = seen BY <1>2, <1>4, <2>3, <3>4
    <3>6. peak' \in Int /\ seen' \in Int /\ peak' <= seen' /\ peak' = seen'
      BY <1>2, <2>1, <3>5
    <3> QED BY <1>5, <3>2, <3>3, <3>6
  <2> QED BY <2>2, <2>3
<1>9. CASE StorePeak(s)
  <2>1. /\ sampler' = [sampler EXCEPT ![s] = [pc |-> "sleep", rss |-> 0]]
        /\ seen' = seen /\ peak' = sampler[s].rss /\ sampler[s].pc = "store"
    BY <1>9 DEF StorePeak, Move
  <2> DEFINE e == [pc |-> "sleep", rss |-> 0]
  <2>2. e.pc \notin Handed /\ e.pc # "store" BY DEF Handed
  <2>3. sampler' = [sampler EXCEPT ![s] = e] BY <2>1
  <2> HIDE DEF e
  <2>4. sampler[s].pc \in Handed BY <2>1 DEF Handed
  <2>5. sampler[s].rss = seen BY <1>2, <1>4, <2>1, <2>4
  <2>6. peak' \in Int /\ seen' \in Int /\ peak' <= seen' /\ peak' = seen'
    BY <1>2, <2>1, <2>5
  <2> QED BY <1>5, <2>2, <2>3, <2>6
<1> QED BY <1>6, <1>7, <1>8, <1>9 DEF Sample

(* A step of the main thread.                                              *)
LEMMA MainPeak ==
  ASSUME TypeOK, PeakInv, MainStep \/ Tick PROVE PeakInv'
<1>1. /\ sampler \in [Samplers ->
           [pc : {"none", "check", "read", "compare", "store", "sleep", "done"},
            rss : Rss \cup {0}]]
      /\ peak \in Int /\ seen \in Int /\ main.rss \in Int
      /\ seen \in Rss \cup {0} /\ session \in 0 .. MaxSessions
  BY RssTypes DEF TypeOK
<1>2. CASE StartSession
  <2>1. /\ UNCHANGED <<sampler, peak, seen, gaveUp>>
        /\ main.pc = "idle" /\ main' = [pc |-> "measure", rss |-> 0]
        /\ session' = session + 1 /\ session < MaxSessions
    BY <1>2 DEF StartSession, monitorVars
  <2>2. session' \in Samplers
    BY <1>1, <2>1, RssTypes DEF Samplers
  <2> QED BY <2>1, <2>2 DEF PeakInv, Handed, Sampling
<1>10. CASE MeasureBaseline
  <2>1. PICK r \in Rss : peak' = r /\ seen' = r
    BY <1>10 DEF MeasureBaseline
  <2>2. /\ UNCHANGED <<sampler, session, gaveUp>>
        /\ main.pc = "measure" /\ main'.pc = "launch"
    BY <1>10 DEF MeasureBaseline, TypeOK
  <2>3. r \in Int BY <2>1, RssTypes
  <2> QED BY <2>1, <2>2, <2>3 DEF PeakInv, Handed, Sampling
<1>11. CASE LaunchSampler
  <2>1. /\ UNCHANGED <<peak, seen, session, gaveUp>>
        /\ main.pc = "launch" /\ main'.pc = "throughput"
        /\ sampler' = [sampler EXCEPT ![session].pc = "check"]
    BY <1>11 DEF LaunchSampler, TypeOK
  <2>2. session \in Samplers BY <2>1 DEF PeakInv
  <2>3. /\ sampler'[session].pc = "check"
        /\ \A t \in Samplers : t # session => sampler'[t] = sampler[t]
    BY <1>1, <2>1, <2>2
  <2> QED BY <2>1, <2>2, <2>3 DEF PeakInv, Handed, Sampling
<1>12. CASE StartThroughput \/ StartBandwidth
  <2>1. /\ UNCHANGED <<sampler, peak, seen, session, gaveUp>>
        /\ main.pc \in Sampling
        /\ main'.pc \in {"bandwidth", "running"}
    BY <1>12 DEF StartThroughput, StartBandwidth, monitorVars, TypeOK, Sampling
  <2> QED BY <2>1 DEF PeakInv, Handed, Sampling
<1>3. CASE Tick \/ \E o \in Observations : Observe(o[1], o[2])
  <2>1. UNCHANGED <<sampler, peak, seen, main, session, gaveUp>>
    BY <1>3 DEF Tick, Observe, monitorVars
  <2> QED BY <2>1 DEF PeakInv
<1>4. CASE EndSession
  <2>1. UNCHANGED <<sampler, peak, seen, session, gaveUp>>
        /\ main.pc = "running" /\ main' = [main EXCEPT !.pc = "joining"]
    BY <1>4 DEF EndSession
  <2>2. main'.pc = "joining" BY <2>1 DEF TypeOK
  <2> QED BY <2>1, <2>2 DEF PeakInv, Handed, Sampling
<1>5. CASE Join
  <2>1. PICK r \in Rss : main' = [pc |-> "compare", rss |-> r]
                         /\ seen' = Max({seen, r})
    BY <1>5 DEF Join
  <2>2. UNCHANGED <<sampler, peak, session, gaveUp>>
        /\ main.pc = "joining" /\ sampler[session].pc = "done"
    BY <1>5 DEF Join
  <2>3. r \in Int /\ seen' \in Int /\ seen' >= seen /\ seen' >= r
        /\ seen' \in {seen, r}
    BY <1>1, <2>1, Reading, RssTypes
  <2>4. ~ gaveUp => /\ \A s \in Samplers : sampler[s].pc \in {"none", "done"}
                    /\ peak = seen
    <3>1. session \in Samplers BY <2>2 DEF PeakInv
    <3> QED BY <2>2, <3>1 DEF PeakInv, Handed, Sampling
  <2> QED BY <1>1, <2>1, <2>2, <2>3, <2>4 DEF PeakInv, Handed, Sampling
<1>6. CASE JoinTimesOut
  BY <1>6 DEF JoinTimesOut, PeakInv
<1>7. CASE FinalCompare
  <2>1. /\ UNCHANGED <<sampler, peak, seen, session, gaveUp>>
        /\ main.pc = "compare"
        /\ main'.pc = IF main.rss > peak THEN "store" ELSE "reporting"
        /\ main'.rss = main.rss
    BY <1>7 DEF FinalCompare, monitorVars, TypeOK
  <2> QED BY <1>1, <2>1 DEF PeakInv, Handed, Sampling
<1>8. CASE FinalStore
  <2>1. /\ UNCHANGED <<sampler, seen, session, gaveUp>>
        /\ main.pc = "store" /\ peak' = main.rss
        /\ main'.pc = "reporting" /\ main'.rss = main.rss
    BY <1>8 DEF FinalStore, TypeOK
  <2> QED BY <1>1, <2>1 DEF PeakInv, Handed, Sampling
<1>9. CASE StopThroughput \/ Report
  <2>1. /\ UNCHANGED <<sampler, peak, seen, session, gaveUp>>
        /\ main.pc \in {"reporting", "closing"} /\ main'.pc \in {"idle", "closing"}
    BY <1>9 DEF StopThroughput, Report, monitorVars, TypeOK
  <2> QED BY <2>1 DEF PeakInv, Handed, Sampling
<1> QED BY <1>2, <1>3, <1>4, <1>5, <1>6, <1>7, <1>8, <1>9, <1>10, <1>11, <1>12
        DEF MainStep

-------------------------------------------------------------------------------
(* The timers and the rates.                                               *)

(* A quotient never exceeds its part of the dividend, and with one unit    *)
(* more it is no less than it.                                             *)
Below(a, e) == \A t \in Nat : t <= e => (Rate(a, e) - 1) * t <= 1000 * a
Above(a, e) == e > 0 => \A t \in Nat : e <= t => (Rate(a, e) + 1) * t >= 1000 * a

LEMMA RateBound ==
  ASSUME NEW a \in Nat, NEW e \in Nat PROVE Below(a, e) /\ Above(a, e)
<1>1. CASE e <= 0 \/ a = 0
  <2>1. Rate(a, e) = 0 BY <1>1 DEF Rate
  <2>2. \A t \in Nat : (0 - 1) * t <= 0 /\ (0 + 1) * t >= 0 OBVIOUS
  <2>3. a \in Nat /\ 1000 * a >= 0 /\ (e > 0 => a = 0 /\ 1000 * a = 0)
    BY <1>1
  <2>4. \A t \in Nat : t <= e => (0 - 1) * t <= 1000 * a BY <2>2, <2>3
  <2>5. e > 0 => \A t \in Nat : (0 + 1) * t >= 1000 * a BY <2>2, <2>3
  <2> QED BY <2>1, <2>4, <2>5 DEF Below, Above
<1>2. CASE e > 0 /\ a > 0
  <2> DEFINE b == 1000 * a
             q == b \div e
  <2>1. b \in Nat OBVIOUS
  <2>2. Rate(a, e) = q BY <1>2 DEF Rate
  <2> HIDE DEF b
  <2>3. q \in Nat /\ q * e <= b /\ (q + 1) * e >= b BY <1>2, <2>1
  <2> HIDE DEF q
  <2>4. ASSUME NEW t \in Nat, t <= e PROVE (q - 1) * t <= b
    <3>1. q * t <= q * e BY <2>3, <2>4
    <3>2. (q - 1) * t <= q * t BY <2>3, <2>4
    <3>3. q * t \in Int /\ q * e \in Int /\ (q - 1) * t \in Int BY <2>3, <2>4
    <3> QED BY <2>1, <2>3, <3>1, <3>2, <3>3
  <2>5. ASSUME NEW t \in Nat, e <= t PROVE (q + 1) * t >= b
    <3>1. (q + 1) * e <= (q + 1) * t BY <2>3, <2>5
    <3>2. (q + 1) * e \in Int /\ (q + 1) * t \in Int BY <2>3, <2>5
    <3> QED BY <2>1, <2>3, <3>1, <3>2
  <2> QED BY <2>2, <2>3, <2>4, <2>5 DEF b, Below, Above
<1> QED BY <1>1, <1>2

(* Starting a timer that is off and stopping one leave the booked time.    *)
LEMMA StartAndStop ==
  ASSUME clock \in Nat,
         NEW t \in [start : Nat, elapsed : Nat, running : BOOLEAN],
         t.start <= clock
  PROVE  /\ ~ t.running => Booked(Started(t), clock) = Booked(t, clock)
         /\ Booked(Stopped(t), clock) = Booked(t, clock)
         /\ Stopped(t).elapsed = Booked(t, clock)
         /\ Booked(t, clock) \in Nat /\ t.elapsed <= Booked(t, clock)
         /\ Started(t).running = TRUE /\ Stopped(t).running = FALSE
         /\ Started(t).elapsed = t.elapsed /\ Started(t).start = clock
         /\ Stopped(t).start = t.start
         /\ Started(t) = [start |-> clock, elapsed |-> t.elapsed, running |-> TRUE]
         /\ Stopped(t) = [start |-> t.start, elapsed |-> Booked(t, clock),
                          running |-> FALSE]
<1>1. Started(t) = [start |-> clock, elapsed |-> t.elapsed, running |-> TRUE]
  <2>1. t = [start |-> t.start, elapsed |-> t.elapsed, running |-> t.running]
    OBVIOUS
  <2>2. Started(t) = [t EXCEPT !.start = clock, !.running = TRUE] BY DEF Started
  <2> QED BY <2>1, <2>2
<1>2. Stopped(t) = [start |-> t.start, elapsed |-> Booked(t, clock),
                    running |-> FALSE]
  <2>1. CASE t.running BY <2>1 DEF Booked, Stopped
  <2>2. CASE ~ t.running
    <3>1. t = [start |-> t.start, elapsed |-> t.elapsed, running |-> t.running]
      OBVIOUS
    <3>2. t.running = FALSE /\ Booked(t, clock) = t.elapsed BY <2>2 DEF Booked
    <3>3. Stopped(t) = t BY <2>2 DEF Stopped
    <3> QED BY <3>1, <3>2, <3>3
  <2> QED BY <2>1, <2>2
<1>3. Booked(t, clock) \in Nat /\ t.elapsed <= Booked(t, clock)
  <2>1. CASE t.running BY <2>1 DEF Booked
  <2>2. CASE ~ t.running BY <2>2 DEF Booked
  <2> QED BY <2>1, <2>2
<1>4. ~ t.running => Booked(Started(t), clock) = Booked(t, clock)
  BY <1>1 DEF Booked
<1>5. Booked(Stopped(t), clock) = Booked(t, clock)
  <2>1. Booked(t, clock) + 0 = Booked(t, clock) BY <1>3
  <2> DEFINE b == Booked(t, clock)
  <2> HIDE DEF b
  <2>2. Booked([start |-> t.start, elapsed |-> b, running |-> FALSE], clock) = b + 0
    BY DEF Booked
  <2> QED BY <1>2, <2>1, <2>2 DEF b
<1> QED BY <1>1, <1>2, <1>3, <1>4, <1>5

(* The timers as a whole.                                                  *)
LEMMA TimerTypes ==
  ASSUME TypeOK, TimerInv
  PROVE  /\ clock \in Nat /\ MaxClock \in Nat /\ clock <= MaxClock
         /\ \A k \in Timers :
              /\ timer[k] \in [start : Nat, elapsed : Nat, running : BOOLEAN]
              /\ timer[k].start <= clock /\ Time(k) \in Nat /\ Time(k) <= clock
              /\ ~ timer[k].running => timer[k].elapsed = Time(k)
         /\ Others \subseteq Timers /\ "session" \in Timers
         /\ mark.began \in Nat /\ mark.opened \in Nat /\ mark.closed \in Nat
         /\ mark.before \in Nat /\ session \in Nat
<1>1. clock \in Nat /\ clock <= MaxClock /\ MaxClock \in Nat /\ session \in Nat
  BY RssTypes DEF TypeOK
<1>2. ASSUME NEW k \in Timers
      PROVE  /\ timer[k] \in [start : Nat, elapsed : Nat, running : BOOLEAN]
             /\ timer[k].start <= clock /\ Time(k) <= clock
  <2>1. 0 .. MaxClock \subseteq Nat OBVIOUS
  <2>2. timer \in [Timers -> [start : 0 .. MaxClock, elapsed : 0 .. MaxClock,
                              running : BOOLEAN]]
    BY DEF TypeOK
  <2> QED BY <1>2, <2>1, <2>2 DEF TimerInv
<1>3. \A k \in Timers : /\ Time(k) \in Nat
                        /\ ~ timer[k].running => timer[k].elapsed = Time(k)
  BY <1>1, <1>2, StartAndStop DEF Time, Booked
<1>4. mark.began \in Nat /\ mark.opened \in Nat /\ mark.closed \in Nat
      /\ mark.before \in Nat
  BY DEF TypeOK
<1> QED BY <1>1, <1>2, <1>3, <1>4 DEF Others, Timers

(* A timer that is started or stopped keeps the time it has booked, and so *)
(* do the others.                                                          *)
LEMMA TimerTurned ==
  ASSUME TypeOK, TimerInv, clock' = clock, NEW k \in Timers,
         \/ ~ timer[k].running /\ timer' = [timer EXCEPT ![k] = Started(@)]
         \/ timer' = [timer EXCEPT ![k] = Stopped(@)]
  PROVE  /\ timer' \in [Timers -> [start : 0 .. MaxClock, elapsed : 0 .. MaxClock,
                                   running : BOOLEAN]]
         /\ \A j \in Timers : /\ timer'[j].start <= clock
                              /\ Time(j)' = Time(j)
                              /\ j # k => timer'[j] = timer[j]
         /\ timer'[k] \in {Started(timer[k]), Stopped(timer[k])}
         /\ timer'[k] = Stopped(timer[k]) => timer'[k].elapsed = Time(k)
<1> DEFINE T == [start : 0 .. MaxClock, elapsed : 0 .. MaxClock, running : BOOLEAN]
<1>1. /\ clock \in Nat /\ MaxClock \in Nat /\ clock <= MaxClock
      /\ \A j \in Timers :
           /\ timer[j] \in [start : Nat, elapsed : Nat, running : BOOLEAN]
           /\ timer[j].start <= clock /\ Time(j) \in Nat /\ Time(j) <= clock
  BY TimerTypes
<1>2. timer \in [Timers -> T] BY DEF TypeOK
<1>3. \A j \in Timers : j # k => timer'[j] = timer[j] BY <1>2
<1>4. \/ ~ timer[k].running /\ timer'[k] = Started(timer[k])
      \/ timer'[k] = Stopped(timer[k])
  BY <1>2
<1> DEFINE t == timer[k]
<1>5. /\ ~ t.running => Booked(Started(t), clock) = Booked(t, clock)
      /\ Booked(Stopped(t), clock) = Booked(t, clock)
      /\ Stopped(t).elapsed = Booked(t, clock)
      /\ Started(t) = [start |-> clock, elapsed |-> t.elapsed, running |-> TRUE]
      /\ Stopped(t) = [start |-> t.start, elapsed |-> Booked(t, clock),
                       running |-> FALSE]
  BY <1>1, StartAndStop
<1>6. Booked(timer'[k], clock) = Time(k) /\ timer'[k].start <= clock
  BY <1>1, <1>4, <1>5 DEF Time
<1>7. timer'[k] \in T
  <2>1. /\ clock \in 0 .. MaxClock /\ t.start \in 0 .. MaxClock
        /\ t.elapsed \in 0 .. MaxClock /\ Booked(t, clock) \in 0 .. MaxClock
    BY <1>1, <1>2 DEF Time
  <2> HIDE DEF t
  <2>2. Started(t) \in T /\ Stopped(t) \in T BY <1>5, <2>1
  <2> QED BY <1>4, <2>2 DEF t
<1>8. timer' \in [Timers -> T] BY <1>2, <1>4, <1>7
<1>9. ASSUME NEW j \in Timers PROVE Time(j)' = Time(j) /\ timer'[j].start <= clock
  <2>1. CASE j = k BY <1>6, <2>1 DEF Time
  <2>2. CASE j # k BY <1>1, <1>3, <2>2 DEF Time
  <2> QED BY <2>1, <2>2
<1>10. timer'[k] = Stopped(timer[k]) => timer'[k].elapsed = Time(k)
  BY <1>5 DEF Time
<1> QED BY <1>3, <1>4, <1>8, <1>9, <1>10

(* A tick is booked by the timers that run.                                *)
LEMMA TimersTick ==
  ASSUME TypeOK, TimerInv, Tick
  PROVE  \A k \in Timers :
           /\ timer'[k].start <= clock'
           /\ Time(k)' = Time(k) + (IF timer[k].running THEN 1 ELSE 0)
<1>1. clock' = clock + 1 /\ timer' = timer BY DEF Tick
<1> TAKE k \in Timers
<1>2. /\ timer[k] \in [start : Nat, elapsed : Nat, running : BOOLEAN]
      /\ timer[k].start <= clock /\ clock \in Nat
  BY TimerTypes
<1>3. CASE timer[k].running BY <1>1, <1>2, <1>3 DEF Time, Booked
<1>4. CASE ~ timer[k].running BY <1>1, <1>2, <1>4 DEF Time, Booked
<1> QED BY <1>3, <1>4

(* The steps that turn a timer, and the timer.                             *)
LEMMA Turns ==
  ASSUME TypeOK, TimerInv,
         StartSession \/ StartThroughput \/ StartBandwidth \/ EndSession
           \/ StopThroughput \/ Report
  PROVE  /\ clock' = clock
         /\ \E k \in Timers :
              /\ \/ ~ timer[k].running /\ timer' = [timer EXCEPT ![k] = Started(@)]
                 \/ timer' = [timer EXCEPT ![k] = Stopped(@)]
              /\ timer'[k].running <=> main'.pc \in On(k)
              /\ \A j \in Timers \ {k} : main'.pc \in On(j) <=> main.pc \in On(j)
<1>1. /\ timer \in [Timers -> [start : 0 .. MaxClock, elapsed : 0 .. MaxClock,
                               running : BOOLEAN]]
      /\ main \in [pc : MainPoints, rss : Rss \cup {0}]
      /\ \A k \in Timers : timer[k].running <=> main.pc \in On(k)
      /\ \A k \in Timers : timer[k].running \in BOOLEAN
  BY DEF TypeOK, TimerInv
<1>2. \A k \in Timers : Started(timer[k]).running = TRUE
                        /\ Stopped(timer[k]).running = FALSE
  BY TimerTypes, StartAndStop
<1>3. \A k \in Timers : /\ [timer EXCEPT ![k] = Started(@)][k] = Started(timer[k])
                        /\ [timer EXCEPT ![k] = Stopped(@)][k] = Stopped(timer[k])
  BY <1>1
<1>4. CASE StartSession \/ EndSession
  <2>1. /\ clock' = clock
        /\ \/ /\ timer' = [timer EXCEPT !["session"] = Started(@)]
              /\ main.pc = "idle" /\ main'.pc = "measure"
           \/ /\ timer' = [timer EXCEPT !["session"] = Stopped(@)]
              /\ main.pc = "running" /\ main'.pc = "joining"
    BY <1>1, <1>4 DEF StartSession, EndSession
  <2>2. /\ "session" \in Timers
        /\ \A j \in Timers \ {"session"} : j = "throughput" \/ j = "bandwidth"
    BY DEF Timers
  <2> QED BY <1>1, <1>2, <1>3, <2>1, <2>2 DEF On, Starting, Ending
<1>5. CASE StartThroughput \/ StopThroughput
  <2>1. /\ clock' = clock
        /\ \/ /\ timer' = [timer EXCEPT !["throughput"] = Started(@)]
              /\ main.pc = "throughput" /\ main'.pc = "bandwidth"
           \/ /\ timer' = [timer EXCEPT !["throughput"] = Stopped(@)]
              /\ main.pc = "reporting" /\ main'.pc = "closing"
    BY <1>1, <1>5 DEF StartThroughput, StopThroughput
  <2>2. /\ "throughput" \in Timers
        /\ \A j \in Timers \ {"throughput"} : j = "session" \/ j = "bandwidth"
    BY DEF Timers
  <2> QED BY <1>1, <1>2, <1>3, <2>1, <2>2 DEF On, Starting, Ending
<1>6. CASE StartBandwidth \/ Report
  <2>1. /\ clock' = clock
        /\ \/ /\ timer' = [timer EXCEPT !["bandwidth"] = Started(@)]
              /\ main.pc = "bandwidth" /\ main'.pc = "running"
           \/ /\ timer' = [timer EXCEPT !["bandwidth"] = Stopped(@)]
              /\ main.pc = "closing" /\ main'.pc = "idle"
    BY <1>1, <1>6 DEF StartBandwidth, Report
  <2>2. /\ "bandwidth" \in Timers
        /\ \A j \in Timers \ {"bandwidth"} : j = "session" \/ j = "throughput"
    BY DEF Timers
  <2> QED BY <1>1, <1>2, <1>3, <2>1, <2>2 DEF On, Starting, Ending
<1> QED BY <1>4, <1>5, <1>6

(* The steps that leave the timers and the clock alone pass no point at    *)
(* which a timer is turned.                                                *)
Aside ==
  \/ MeasureBaseline \/ LaunchSampler
  \/ \E o \in Observations : Observe(o[1], o[2])
  \/ Join \/ JoinTimesOut \/ FinalCompare \/ FinalStore
  \/ \E s \in Samplers : Sample(s)
  \/ UNCHANGED vars

LEMMA StepsAside ==
  ASSUME TypeOK, Aside
  PROVE  /\ UNCHANGED <<clock, timer, session, summary, mark>>
         /\ \/ main'.pc = main.pc
            \/ main.pc \in {"measure", "launch"}
                 /\ main'.pc \in {"launch", "throughput"}
            \/ main.pc \in {"joining", "compare", "store"}
                 /\ main'.pc \in {"compare", "store", "reporting"}
<1>1. UNCHANGED <<clock, timer, session, summary, mark>>
  BY DEF Aside, MeasureBaseline, LaunchSampler, Observe, Join, JoinTimesOut,
         FinalCompare, FinalStore, Sample, vars
<1>2. CASE \/ \E o \in Observations : Observe(o[1], o[2])
           \/ \E s \in Samplers : Sample(s)
           \/ UNCHANGED vars
  BY <1>1, <1>2 DEF Observe, Sample, vars
<1>3. CASE MeasureBaseline \/ LaunchSampler
  BY <1>1, <1>3 DEF MeasureBaseline, LaunchSampler, TypeOK
<1>4. CASE Join \/ JoinTimesOut
  <2>1. PICK r \in Rss : main' = [pc |-> "compare", rss |-> r]
    BY <1>4 DEF Join, JoinTimesOut
  <2>2. main.pc = "joining" BY <1>4 DEF Join, JoinTimesOut
  <2> QED BY <1>1, <2>1, <2>2
<1>5. CASE FinalCompare \/ FinalStore
  BY <1>1, <1>5 DEF FinalCompare, FinalStore, TypeOK
<1> QED BY <1>2, <1>3, <1>4, <1>5 DEF Aside

(* Every step is one of these.                                             *)
LEMMA Steps ==
  ASSUME [Next]_vars
  PROVE  \/ StartSession \/ StartThroughput \/ StartBandwidth \/ EndSession
              \/ StopThroughput \/ Report
         \/ Tick \/ Aside
BY DEF Next, MainStep, Aside

(* Each step keeps the timers.                                             *)
LEMMA TimersKept ==
  ASSUME TypeOK, TimerInv, [Next]_vars
  PROVE  /\ TimerInv'
         /\ timer' \in [Timers -> [start : 0 .. MaxClock, elapsed : 0 .. MaxClock,
                                   running : BOOLEAN]]
<1>1. CASE StartSession \/ StartThroughput \/ StartBandwidth \/ EndSession
             \/ StopThroughput \/ Report
  <2>1. clock' = clock BY <1>1, Turns
  <2>2. PICK k \in Timers :
          /\ \/ ~ timer[k].running /\ timer' = [timer EXCEPT ![k] = Started(@)]
             \/ timer' = [timer EXCEPT ![k] = Stopped(@)]
          /\ timer'[k].running <=> main'.pc \in On(k)
          /\ \A j \in Timers \ {k} : main'.pc \in On(j) <=> main.pc \in On(j)
    BY <1>1, Turns
  <2>3. /\ timer' \in [Timers -> [start : 0 .. MaxClock, elapsed : 0 .. MaxClock,
                                  running : BOOLEAN]]
        /\ \A j \in Timers : /\ timer'[j].start <= clock
                             /\ Time(j)' = Time(j)
                             /\ j # k => timer'[j] = timer[j]
    BY <2>1, <2>2, TimerTurned
  <2>4. \A j \in Timers : Time(j) <= clock /\ (timer[j].running <=> main.pc \in On(j))
    BY DEF TimerInv
  <2> QED BY <2>1, <2>2, <2>3, <2>4 DEF TimerInv
<1>2. CASE Tick
  <2>1. \A k \in Timers :
          /\ timer'[k].start <= clock'
          /\ Time(k)' = Time(k) + (IF timer[k].running THEN 1 ELSE 0)
    BY <1>2, TimersTick
  <2>2. clock' = clock + 1 /\ timer' = timer /\ main' = main BY <1>2 DEF Tick
  <2>3. \A k \in Timers : Time(k) <= clock /\ Time(k) \in Nat /\ clock \in Nat
    BY TimerTypes
  <2>4. \A k \in Timers : Time(k)' <= clock' BY <2>1, <2>2, <2>3
  <2>5. \A k \in Timers : timer'[k].running <=> main'.pc \in On(k)
    BY <2>2 DEF TimerInv
  <2> QED BY <2>1, <2>2, <2>4, <2>5 DEF TimerInv, TypeOK
<1>3. CASE Aside
  <2>1. /\ UNCHANGED <<clock, timer>>
        /\ \/ main'.pc = main.pc
           \/ main.pc \in {"measure", "launch"}
                /\ main'.pc \in {"launch", "throughput"}
           \/ main.pc \in {"joining", "compare", "store"}
                /\ main'.pc \in {"compare", "store", "reporting"}
    BY <1>3, StepsAside
  <2>2. \A k \in Timers : main'.pc \in On(k) <=> main.pc \in On(k)
    BY <2>1 DEF On, Starting, Ending
  <2>3. \A k \in Timers : Time(k)' = Time(k) BY <2>1 DEF Time
  <2> QED BY <2>1, <2>2, <2>3 DEF TimerInv, TypeOK
<1> QED BY <1>1, <1>2, <1>3, Steps

-------------------------------------------------------------------------------
(* The counters are counters.                                              *)
LEMMA CountsKept ==
  ASSUME NEW c \in Counts, NEW slow \in BOOLEAN,
         NEW outcome \in {"none", "repaired", "failed"}
  PROVE  Acted(Timed(Ingested(c), slow), outcome) \in Counts
<1>1. ASSUME NEW b \in Counts, NEW r \in Nat, NEW t \in Nat
      PROVE  /\ [b EXCEPT !.records = r, !.bytes = t] \in Counts
             /\ [b EXCEPT !.observations = r, !.slow = t] \in Counts
             /\ [b EXCEPT !.actions = r, !.failures = t] \in Counts
             /\ [b EXCEPT !.actions = r] \in Counts
  BY DEF Counts
<1>2. Ingested(c) \in Counts
  <2>1. c.records + 1 \in Nat /\ c.bytes + 8 \in Nat BY DEF Counts
  <2> QED BY <1>1, <2>1, Zenon DEF Ingested
<1>3. Timed(Ingested(c), slow) \in Counts
  <2> DEFINE b == Ingested(c)
             k == IF slow THEN 1 ELSE 0
  <2> HIDE DEF b
  <2>1. b \in Counts BY <1>2 DEF b
  <2>2. b.observations + 1 \in Nat /\ b.slow + k \in Nat BY <2>1 DEF Counts
  <2>3. Timed(b, slow) \in Counts BY <1>1, <2>1, <2>2, Zenon DEF Timed
  <2> QED BY <2>3 DEF b
<1> DEFINE b == Timed(Ingested(c), slow)
<1> HIDE DEF b
<1>4. b \in Counts BY <1>3 DEF b
<1>5. b.actions + 1 \in Nat /\ b.failures + 1 \in Nat BY <1>4 DEF Counts
<1>6. Acted(b, outcome) \in Counts
  <2>1. CASE outcome = "none" BY <1>4, <2>1 DEF Acted
  <2>2. CASE outcome = "repaired"
    <3>1. Acted(b, outcome) = [b EXCEPT !.actions = @ + 1] BY <2>2 DEF Acted
    <3> QED BY <1>1, <1>4, <1>5, <3>1, Zenon
  <2>3. CASE outcome = "failed"
    <3>1. Acted(b, "failed") = [b EXCEPT !.actions = @ + 1, !.failures = @ + 1]
      BY SMT DEF Acted
    <3>2. [b EXCEPT !.actions = @ + 1, !.failures = @ + 1] \in Counts
      BY <1>1, <1>4, <1>5, Zenon
    <3> QED BY <2>3, <3>1, <3>2
  <2> QED BY <2>1, <2>2, <2>3
<1> QED BY <1>6 DEF b

(* What an observation adds to them.                                       *)
LEMMA Counted ==
  ASSUME NEW c \in Counts, NEW slow \in BOOLEAN,
         NEW outcome \in {"none", "repaired", "failed"}
  PROVE  LET d == Acted(Timed(Ingested(c), slow), outcome)
         IN  /\ d.records = c.records + 1 /\ d.bytes = c.bytes + 8
             /\ d.observations = c.observations + 1
<1>1. /\ Ingested(c).records = c.records + 1 /\ Ingested(c).bytes = c.bytes + 8
      /\ Ingested(c).observations = c.observations
      /\ Ingested(c) \in Counts
  <2>1. Ingested(c) =
          [records |-> c.records + 1, bytes |-> c.bytes + 8,
           observations |-> c.observations, slow |-> c.slow,
           actions |-> c.actions, failures |-> c.failures]
    <3>1. c = [records |-> c.records, bytes |-> c.bytes,
               observations |-> c.observations, slow |-> c.slow,
               actions |-> c.actions, failures |-> c.failures]
      BY DEF Counts
    <3>2. Ingested(c) = [c EXCEPT !.records = c.records + 1, !.bytes = c.bytes + 8]
      BY DEF Ingested
    <3> QED BY <3>1, <3>2
  <2>2. c.records + 1 \in Nat /\ c.bytes + 8 \in Nat BY DEF Counts
  <2> QED BY <2>1, <2>2 DEF Counts
<1> DEFINE b == Ingested(c)
           t == Timed(b, slow)
<1> HIDE DEF b
<1>2. b \in Counts /\ b.records = c.records + 1 /\ b.bytes = c.bytes + 8
      /\ b.observations = c.observations
  BY <1>1 DEF b
<1>3. t.records = b.records /\ t.bytes = b.bytes
      /\ t.observations = b.observations + 1 /\ t \in Counts
  <2> DEFINE k == IF slow THEN 1 ELSE 0
  <2>1. k \in Nat OBVIOUS
  <2>2. t = [b EXCEPT !.observations = @ + 1, !.slow = @ + k] BY DEF Timed
  <2> HIDE DEF k, t
  <2>3. t = [records |-> b.records, bytes |-> b.bytes,
             observations |-> b.observations + 1, slow |-> b.slow + k,
             actions |-> b.actions, failures |-> b.failures]
    BY <1>2, <2>2 DEF Counts
  <2>4. b.observations + 1 \in Nat /\ b.slow + k \in Nat BY <1>2, <2>1 DEF Counts
  <2> QED BY <1>2, <2>3, <2>4 DEF Counts
<1> HIDE DEF t
<1>4. Acted(t, outcome).records = t.records /\ Acted(t, outcome).bytes = t.bytes
      /\ Acted(t, outcome).observations = t.observations
  <2>1. CASE outcome = "none" BY <2>1 DEF Acted
  <2>2. CASE outcome = "repaired"
    <3>1. Acted(t, outcome) = [t EXCEPT !.actions = @ + 1] BY <2>2 DEF Acted
    <3> QED BY <1>3, <3>1 DEF Counts
  <2>3. CASE outcome = "failed"
    <3>1. Acted(t, "failed") = [t EXCEPT !.actions = @ + 1, !.failures = @ + 1]
      BY SMT DEF Acted
    <3> QED BY <1>3, <2>3, <3>1 DEF Counts
  <2> QED BY <2>1, <2>2, <2>3
<1> QED BY <1>2, <1>3, <1>4 DEF t, b

(* The type invariant but for the timers.                                  *)
LEMMA TypesKept ==
  ASSUME InstrumentationInv, [Next]_vars
  PROVE  TypeOK' /\ counts' \in Counts
<1> DEFINE P == {"none", "check", "read", "compare", "store", "sleep", "done"}
           S == [pc : P, rss : Rss \cup {0}]
           M == [pc : MainPoints, rss : Rss \cup {0}]
           K == [began : 0 .. MaxClock, opened : 0 .. MaxClock,
                 closed : 0 .. MaxClock, before : Nat]
<1>1. TypeOK /\ TimerInv /\ counts \in Counts BY DEF InstrumentationInv
<1>2. /\ clock \in 0 .. MaxClock /\ session \in 0 .. MaxSessions
      /\ peak \in Rss \cup {0} /\ seen \in Rss \cup {0}
      /\ monitoring \in BOOLEAN /\ sampled \in BOOLEAN /\ gaveUp \in BOOLEAN
      /\ sampler \in [Samplers -> S] /\ main \in M /\ mark \in K
  BY <1>1 DEF TypeOK
<1>3. timer' \in [Timers -> [start : 0 .. MaxClock, elapsed : 0 .. MaxClock,
                             running : BOOLEAN]]
  BY <1>1, TimersKept
<1> SUFFICES /\ clock' \in 0 .. MaxClock /\ session' \in 0 .. MaxSessions
             /\ peak' \in Rss \cup {0} /\ seen' \in Rss \cup {0}
             /\ monitoring' \in BOOLEAN /\ sampled' \in BOOLEAN
             /\ gaveUp' \in BOOLEAN
             /\ sampler' \in [Samplers -> S] /\ main' \in M /\ mark' \in K
             /\ counts' \in Counts
  BY <1>3 DEF TypeOK
<1>4. CASE StartSession
  <2>1. session' \in 0 .. MaxSessions
    BY <1>2, <1>4, RssTypes DEF StartSession
  <2>2. main' \in M BY <1>4 DEF StartSession, MainPoints
  <2>3. mark' \in K BY <1>1, <1>2, <1>4 DEF StartSession, Counts
  <2>4. UNCHANGED <<clock, peak, seen, monitoring, sampled, gaveUp, sampler, counts>>
    BY <1>4 DEF StartSession, monitorVars
  <2> QED BY <1>1, <1>2, <2>1, <2>2, <2>3, <2>4
<1>5. ASSUME NEW o \in Observations, Observe(o[1], o[2])
      PROVE  /\ UNCHANGED <<clock, session, peak, seen, monitoring, sampled,
                            gaveUp, sampler, main, mark>>
             /\ counts' \in Counts
  <2>1. o[1] \in BOOLEAN /\ o[2] \in {"none", "repaired", "failed"}
    BY InstrumentationAssumption
  <2>2. Acted(Timed(Ingested(counts), o[1]), o[2]) \in Counts
    BY <1>1, <2>1, CountsKept
  <2> QED BY <1>5, <2>2 DEF Observe, monitorVars
<1>6. CASE FinalCompare \/ FinalStore \/ StopThroughput \/ Report
  <2>1. main' \in M
    BY <1>2, <1>6 DEF FinalCompare, FinalStore, StopThroughput, Report, MainPoints
  <2>2. UNCHANGED <<clock, session, counts, seen, sampled, gaveUp, sampler,
                    monitoring, mark>>
        /\ peak' \in Rss \cup {0}
    BY <1>2, <1>6
       DEF FinalCompare, FinalStore, StopThroughput, Report, monitorVars
  <2> QED BY <1>1, <1>2, <2>1, <2>2
<1>7. CASE Join \/ JoinTimesOut
  <2>1. PICK r \in Rss : main' = [pc |-> "compare", rss |-> r]
                         /\ seen' = Max({seen, r})
    BY <1>7 DEF Join, JoinTimesOut
  <2>2. seen' \in Rss BY <1>2, <2>1, Reading
  <2>3. main' \in M BY <2>1 DEF MainPoints
  <2> QED BY <1>1, <1>2, <1>7, <2>2, <2>3 DEF Join, JoinTimesOut
<1>8. ASSUME NEW s \in Samplers, Sample(s)
      PROVE  /\ UNCHANGED <<clock, session, monitoring, gaveUp, main, counts, mark>>
             /\ peak' \in Rss \cup {0} /\ seen' \in Rss \cup {0}
             /\ sampled' \in BOOLEAN /\ sampler' \in [Samplers -> S]
  <2>1. UNCHANGED <<clock, session, monitoring, gaveUp, main, counts, mark>>
        /\ sampled' \in BOOLEAN
    BY <1>2, <1>8 DEF Sample, CheckFlag, ReadUsage, ReadFails, ComparePeak,
                      StorePeak, WakeUp
  <2>2. sampler[s].rss \in Rss \cup {0} BY <1>2, <1>8
  <2>3. CASE ReadUsage(s)
    <3>1. PICK r \in Rss :
            /\ sampler' = [sampler EXCEPT ![s] = [pc |-> "compare", rss |-> r]]
            /\ seen' = Max({seen, r})
      BY <2>3 DEF ReadUsage
    <3>2. seen' \in Rss BY <1>2, <3>1, Reading
    <3> QED BY <1>2, <2>1, <2>3, <3>1, <3>2 DEF ReadUsage
  <2>4. CASE CheckFlag(s) \/ ReadFails(s) \/ ComparePeak(s) \/ StorePeak(s)
             \/ WakeUp(s)
    <3>1. \E pc \in P : Move(s, pc)
      BY <2>4 DEF CheckFlag, ReadFails, ComparePeak, StorePeak, WakeUp
    <3>2. sampler' \in [Samplers -> S] BY <1>2, <2>2, <3>1 DEF Move
    <3>3. seen' = seen /\ peak' \in {peak, sampler[s].rss}
      BY <2>4 DEF CheckFlag, ReadFails, ComparePeak, StorePeak, WakeUp
    <3> QED BY <1>2, <2>1, <2>2, <3>2, <3>3
  <2> QED BY <1>8, <2>3, <2>4 DEF Sample
<1>9. CASE Tick
  <2>1. clock' \in 0 .. MaxClock BY <1>2, <1>9, RssTypes DEF Tick
  <2> QED BY <1>1, <1>2, <1>9, <2>1 DEF Tick, monitorVars
<1>10. CASE UNCHANGED vars BY <1>1, <1>2, <1>10 DEF vars, monitorVars
<1>11. CASE MeasureBaseline
  <2>1. main' \in M BY <1>2, <1>11 DEF MeasureBaseline, MainPoints
  <2> QED BY <1>1, <1>2, <1>11, <2>1 DEF MeasureBaseline
<1>12. CASE LaunchSampler
  <2>1. main' \in M BY <1>2, <1>12 DEF LaunchSampler, MainPoints
  <2>2. sampler' \in [Samplers -> S] BY <1>2, <1>12 DEF LaunchSampler
  <2> QED BY <1>1, <1>2, <1>12, <2>1, <2>2 DEF LaunchSampler
<1>13. CASE StartThroughput \/ StartBandwidth \/ EndSession
  <2>1. main' \in M
    BY <1>2, <1>13 DEF StartThroughput, StartBandwidth, EndSession, MainPoints
  <2>2. counts' \in Counts
    BY <1>1, <1>13 DEF StartThroughput, StartBandwidth, EndSession, Counts
  <2>3. mark' \in K
    BY <1>2, <1>13 DEF StartThroughput, StartBandwidth, EndSession
  <2>4. UNCHANGED <<clock, session, peak, seen, sampled, gaveUp, sampler>>
        /\ monitoring' \in BOOLEAN
    BY <1>2, <1>13 DEF StartThroughput, StartBandwidth, EndSession, monitorVars
  <2> QED BY <1>2, <2>1, <2>2, <2>3, <2>4
<1> QED BY <1>1, <1>2, <1>4, <1>5, <1>6, <1>7, <1>8, <1>9, <1>10, <1>11, <1>12,
           <1>13
        DEF Next, MainStep

-------------------------------------------------------------------------------
(* The time on the timers of the rates, and the counters.                  *)

(* The steps that turn a timer.                                            *)
LEMMA TurnsRate ==
  ASSUME TypeOK, TimerInv, RateInv, counts \in Counts,
         StartSession \/ StartThroughput \/ StartBandwidth \/ EndSession
           \/ StopThroughput \/ Report
  PROVE  RateInv'
<1>1. /\ clock \in Nat /\ mark.began \in Nat /\ mark.opened \in Nat
      /\ mark.closed \in Nat /\ mark.before \in Nat /\ session \in Nat
      /\ \A k \in Others : Time(k) \in Nat
      /\ Others \subseteq Timers
  BY TimerTypes
<1>2. clock' = clock /\ \A k \in Others : Time(k)' = Time(k)
  <2>1. clock' = clock BY Turns
  <2>2. PICK k \in Timers :
          \/ ~ timer[k].running /\ timer' = [timer EXCEPT ![k] = Started(@)]
          \/ timer' = [timer EXCEPT ![k] = Stopped(@)]
    BY Turns
  <2> QED BY <1>1, <2>1, <2>2, TimerTurned
<1>3. /\ counts.records \in Nat /\ counts.bytes \in Nat
      /\ counts.observations \in Nat /\ main \in [pc : MainPoints, rss : Rss \cup {0}]
      /\ mark \in [began : 0 .. MaxClock, opened : 0 .. MaxClock,
                   closed : 0 .. MaxClock, before : Nat]
  BY DEF Counts, TypeOK
<1>4. CASE StartSession
  <2>1. /\ main.pc = "idle" /\ main'.pc = "measure" /\ session' = session + 1
        /\ mark'.began = clock /\ mark'.before = counts.observations
        /\ counts' = counts
    BY <1>3, <1>4 DEF StartSession
  <2>2. session' # 0 /\ (session' = 1 => session = 0) BY <1>1, <2>1
  <2>3. session = 0 => \A k \in Others : Time(k) = 0 BY DEF RateInv
  <2>4. clock' - mark'.began = 0 /\ mark'.began <= clock' BY <1>1, <1>2, <2>1
  <2> QED BY <1>1, <1>2, <2>1, <2>2, <2>3, <2>4 DEF RateInv, On, Starting, Ending
<1>5. CASE StartThroughput
  <2>1. /\ main.pc = "throughput" /\ main'.pc = "bandwidth"
        /\ mark' = mark /\ session' = session
        /\ counts'.records = 0 /\ counts'.observations = counts.observations
    BY <1>3, <1>5 DEF StartThroughput, Counts
  <2>2. counts.observations = mark.before BY <2>1 DEF RateInv, Starting
  <2>3. counts'.records = counts'.observations - mark'.before
    BY <1>1, <1>3, <2>1, <2>2
  <2> QED BY <1>1, <1>2, <2>1, <2>2, <2>3 DEF RateInv, On, Starting, Ending
<1>6. CASE StartBandwidth
  <2>1. /\ main.pc = "bandwidth" /\ main'.pc = "running"
        /\ session' = session /\ mark'.opened = clock
        /\ mark'.began = mark.began /\ mark'.before = mark.before
        /\ counts'.bytes = 0 /\ counts'.observations = counts.observations
        /\ counts'.records = counts.records
    BY <1>3, <1>6 DEF StartBandwidth, Counts
  <2>2. counts.observations = mark.before BY <2>1 DEF RateInv, Starting
  <2>3. /\ counts'.bytes = 8 * (counts'.observations - mark'.before)
        /\ clock' - mark'.opened = 0 /\ mark'.opened <= clock'
    BY <1>1, <1>2, <1>3, <2>1, <2>2
  <2>4. counts'.records = counts'.observations - mark'.before
    BY <2>1 DEF RateInv, On
  <2> QED BY <1>1, <1>2, <2>1, <2>2, <2>3, <2>4 DEF RateInv, On, Starting, Ending
<1>7. CASE EndSession
  <2>1. /\ main.pc = "running" /\ main'.pc = "joining"
        /\ session' = session /\ mark'.closed = clock
        /\ mark'.began = mark.began /\ mark'.before = mark.before
        /\ mark'.opened = mark.opened /\ counts' = counts
    BY <1>3, <1>7 DEF EndSession
  <2> QED BY <1>1, <1>2, <2>1 DEF RateInv, On, Starting, Ending
<1>8. CASE StopThroughput
  <2>1. /\ main.pc = "reporting" /\ main'.pc = "closing"
        /\ UNCHANGED <<session, mark, counts>>
    BY <1>3, <1>8 DEF StopThroughput
  <2> QED BY <1>1, <1>2, <2>1 DEF RateInv, On, Starting, Ending
<1>9. CASE Report
  <2>1. /\ main.pc = "closing" /\ main'.pc = "idle"
        /\ UNCHANGED <<session, mark, counts>>
    BY <1>3, <1>9 DEF Report
  <2> QED BY <1>1, <1>2, <2>1 DEF RateInv, On, Starting, Ending
<1> QED BY <1>4, <1>5, <1>6, <1>7, <1>8, <1>9

(* A tick.                                                                 *)
LEMMA TickRate ==
  ASSUME TypeOK, TimerInv, RateInv, Tick PROVE RateInv'
<1>1. /\ clock \in Nat /\ mark.began \in Nat /\ mark.opened \in Nat
      /\ mark.closed \in Nat
      /\ Others \subseteq Timers
  BY TimerTypes
<1>2. clock' = clock + 1 /\ UNCHANGED <<timer, main, session, counts, mark>>
      /\ main.pc # "idle"
  BY DEF Tick
<1>3. \A k \in Others : /\ Time(k) \in Nat
                        /\ Time(k)' \in {Time(k), Time(k) + 1}
                        /\ main.pc \in On(k) => Time(k)' = Time(k) + 1
  BY <1>1, TimersTick, TimerTypes DEF TimerInv
<1>4. main.pc = "running" => \A k \in Others : main.pc \in On(k)
  BY DEF On
<1>5. main.pc = "running" =>
        mark.opened <= clock' /\ \A k \in Others : clock' - mark.opened <= Time(k)'
  BY <1>1, <1>2, <1>3, <1>4 DEF RateInv
<1>6. main.pc \in Ending =>
        \A k \in Others : mark.closed - mark.opened <= Time(k)'
  BY <1>1, <1>3 DEF RateInv
<1>7. session = 1 => \A k \in Others : Time(k)' <= clock' - mark.began
  BY <1>1, <1>2, <1>3 DEF RateInv
<1>8. mark.began <= clock' /\ session # 0 BY <1>1, <1>2 DEF RateInv
<1> QED BY <1>2, <1>5, <1>6, <1>7, <1>8 DEF RateInv

(* The other steps: of them only an observation changes the counters.      *)
LEMMA AsideRate ==
  ASSUME TypeOK, RateInv, counts \in Counts, Aside PROVE RateInv'
<1>1. /\ UNCHANGED <<clock, timer, session, mark>>
      /\ \/ main'.pc = main.pc
         \/ main.pc \in {"measure", "launch"}
              /\ main'.pc \in {"launch", "throughput"}
         \/ main.pc \in {"joining", "compare", "store"}
              /\ main'.pc \in {"compare", "store", "reporting"}
  BY StepsAside
<1>2. \A k \in Others : Time(k)' = Time(k) BY <1>1 DEF Time
<1>3. /\ counts.records \in Nat /\ counts.bytes \in Nat
      /\ counts.observations \in Nat /\ mark.before \in Nat
  BY DEF Counts, TypeOK
<1>4. CASE counts' = counts
  BY <1>1, <1>2, <1>4 DEF RateInv, On, Starting, Ending
<1>5. ASSUME NEW o \in Observations, Observe(o[1], o[2]) PROVE RateInv'
  <2>1. o[1] \in BOOLEAN /\ o[2] \in {"none", "repaired", "failed"}
    BY InstrumentationAssumption
  <2>2. /\ counts'.records = counts.records + 1 /\ counts'.bytes = counts.bytes + 8
        /\ counts'.observations = counts.observations + 1
    BY <1>5, <2>1, Counted DEF Observe
  <2>3. main.pc = "running" /\ main'.pc = "running" BY <1>5 DEF Observe
  <2>4. /\ counts.records = counts.observations - mark.before
        /\ counts.bytes = 8 * (counts.observations - mark.before)
    BY <2>3 DEF RateInv, On
  <2>5. /\ counts'.records = counts'.observations - mark'.before
        /\ counts'.bytes = 8 * (counts'.observations - mark'.before)
    BY <1>1, <1>3, <2>2, <2>4
  <2> QED BY <1>1, <1>2, <2>3, <2>5 DEF RateInv, On, Starting, Ending
<1>6. counts' = counts \/ \E o \in Observations : Observe(o[1], o[2])
  BY DEF Aside, MeasureBaseline, LaunchSampler, Join, JoinTimesOut, FinalCompare,
         FinalStore, Sample, vars
<1> QED BY <1>4, <1>5, <1>6

(* The rates of a report, and what leaves them alone.                      *)
LEMMA RatesKept ==
  ASSUME InstrumentationInv, [Next]_vars PROVE RatesBracketed'
<1>1. TypeOK /\ TimerInv /\ RateInv /\ counts \in Counts /\ RatesBracketed
  BY DEF InstrumentationInv
<1>2. /\ clock \in Nat /\ mark.began \in Nat /\ mark.opened \in Nat
      /\ mark.closed \in Nat /\ mark.before \in Nat /\ session \in Nat
      /\ \A k \in Timers : Time(k) \in Nat /\ (~ timer[k].running =>
                                                 timer[k].elapsed = Time(k))
      /\ Others \subseteq Timers
  BY <1>1, TimerTypes
<1>3. CASE Report
  <2>1. /\ main.pc = "closing"
        /\ timer' = [timer EXCEPT !["bandwidth"] = Stopped(@)]
        /\ UNCHANGED <<clock, session, mark, counts>>
        /\ summary'.throughput = RecordsPerSec(timer')
        /\ summary'.bandwidth = BytesPerSec(timer')
    BY <1>3, Zenon DEF Report
  <2>2. /\ timer'["throughput"].elapsed = Time("throughput")
        /\ timer'["bandwidth"].elapsed = Time("bandwidth")
    <3>1. "throughput" \in Timers /\ "bandwidth" \in Timers BY DEF Timers
    <3>2. /\ timer'["throughput"] = timer["throughput"]
          /\ timer'["bandwidth"] = Stopped(timer["bandwidth"])
      BY <1>1, <2>1, <3>1 DEF TypeOK
    <3>3. ~ timer["throughput"].running BY <1>1, <2>1, <3>1 DEF TimerInv, On
    <3> QED BY <1>1, <1>2, <2>1, <3>1, <3>2, <3>3, TimerTurned
  <2> DEFINE r == counts.observations - mark.before
             span == mark.closed - mark.opened
             whole == clock - mark.began
             tp == Time("throughput")
             bw == Time("bandwidth")
  <2>3. /\ tp \in Nat /\ bw \in Nat /\ span \in Nat /\ whole \in Nat
        /\ span <= tp /\ span <= bw
        /\ session = 1 => tp <= whole /\ bw <= whole
    BY <1>1, <1>2, <2>1 DEF RateInv, Ending, Others
  <2>4. counts.records = r /\ counts.records \in Nat
    BY <1>1, <2>1 DEF RateInv, Counts
  <2>5. counts.bytes \in Nat BY <1>1 DEF Counts
  <2>6. counts.bytes = 8 * r BY <1>1, <2>1 DEF RateInv, On, Ending
  <2>7. r \in Nat /\ 1000 * counts.bytes = 8000 * r BY <2>4, <2>6
  <2>8. /\ summary'.throughput = Rate(r, tp)
        /\ summary'.bandwidth = Rate(counts.bytes, bw)
    BY <2>1, <2>2, <2>4 DEF RecordsPerSec, BytesPerSec
  <2> HIDE DEF r, span, whole, tp, bw
  <2>13. /\ Below(r, tp) /\ Above(r, tp)
         /\ Below(counts.bytes, bw) /\ Above(counts.bytes, bw)
    BY <2>3, <2>5, <2>7, RateBound
  <2>9. /\ (summary'.throughput - 1) * span <= 1000 * r
        /\ (summary'.bandwidth - 1) * span <= 1000 * counts.bytes
    BY <2>3, <2>8, <2>13 DEF Below
  <2>10. session = 1 /\ span > 0 =>
           /\ (summary'.throughput + 1) * whole >= 1000 * r
           /\ (summary'.bandwidth + 1) * whole >= 1000 * counts.bytes
    <3> SUFFICES ASSUME session = 1, span > 0
                 PROVE  /\ (summary'.throughput + 1) * whole >= 1000 * r
                        /\ (summary'.bandwidth + 1) * whole >= 1000 * counts.bytes
      OBVIOUS
    <3>1. tp > 0 /\ bw > 0 /\ tp <= whole /\ bw <= whole BY <2>3
    <3> QED BY <2>3, <2>8, <2>13, <3>1 DEF Above
  <2>11. /\ (summary'.throughput - 1) * span <= 1000 * r
         /\ (summary'.bandwidth - 1) * span <= 8000 * r
         /\ session' = 1 /\ span > 0 =>
              /\ (summary'.throughput + 1) * whole >= 1000 * r
              /\ (summary'.bandwidth + 1) * whole >= 8000 * r
    BY <2>1, <2>7, <2>9, <2>10
  <2>12. /\ counts'.observations - mark'.before = r
         /\ mark'.closed - mark'.opened = span /\ clock' - mark'.began = whole
    BY <2>1 DEF r, span, whole
  <2> QED BY <2>11, <2>12 DEF RatesBracketed
<1>4. CASE UNCHANGED <<main, summary, counts, mark, clock, session>>
  BY <1>1, <1>4 DEF RatesBracketed
<1>5. CASE main'.pc # "idle" BY <1>5 DEF RatesBracketed
<1>6. CASE StartSession \/ StartThroughput \/ StartBandwidth \/ EndSession
             \/ StopThroughput
  <2>1. main \in [pc : MainPoints, rss : Rss \cup {0}] BY <1>1 DEF TypeOK
  <2>2. main'.pc \in {"measure", "bandwidth", "running", "joining", "closing"}
    BY <1>6, <2>1 DEF StartSession, StartThroughput, StartBandwidth, EndSession,
                      StopThroughput
  <2> QED BY <1>5, <2>2
<1>7. CASE Tick BY <1>5, <1>7 DEF Tick
<1>8. CASE Aside
  <2>1. \/ main'.pc = main.pc
        \/ main'.pc \in {"launch", "throughput", "compare", "store", "reporting"}
    BY <1>1, <1>8, StepsAside
  <2>2. CASE main.pc = "idle" /\ main'.pc = "idle"
    <3>1. \/ UNCHANGED vars \/ \E s \in Samplers : Sample(s)
      BY <1>8, <2>2 DEF Aside, MeasureBaseline, LaunchSampler, Observe, Join,
                        JoinTimesOut, FinalCompare, FinalStore
    <3>2. UNCHANGED <<main, summary, counts, mark, clock, session>>
      BY <3>1 DEF vars, Sample
    <3> QED BY <1>4, <3>2
  <2> QED BY <1>5, <2>1, <2>2
<1> QED BY <1>3, <1>6, <1>7, <1>8, Steps

(* Every step keeps the times and the counters.                            *)
LEMMA RateKept ==
  ASSUME InstrumentationInv, [Next]_vars PROVE RateInv'
<1>1. TypeOK /\ TimerInv /\ RateInv /\ counts \in Counts
  BY DEF InstrumentationInv
<1> QED BY <1>1, Steps, TurnsRate, TickRate, AsideRate

(* Every step of the main thread or a sampler keeps the invariant.         *)
LEMMA InvariantKept == InstrumentationInv /\ [Next]_vars => InstrumentationInv'
<1> SUFFICES ASSUME InstrumentationInv, [Next]_vars PROVE InstrumentationInv'
  OBVIOUS
<1>1. TypeOK /\ TimerInv /\ RateInv /\ PeakInv BY DEF InstrumentationInv
<1>2. PeakInv'
  <2>1. CASE MainStep \/ Tick BY <1>1, <2>1, MainPeak
  <2>2. CASE \E s \in Samplers : Sample(s) BY <1>1, <2>2, SamplePeak
  <2>3. CASE UNCHANGED vars
    BY <1>1, <2>3 DEF vars, monitorVars, PeakInv
  <2> QED BY <2>1, <2>2, <2>3 DEF Next
<1> QED BY <1>1, <1>2, TypesKept, TimersKept, RateKept, RatesKept
        DEF InstrumentationInv

(* Every reachable state satisfies the invariant.                          *)
LEMMA Invariant == Spec => []InstrumentationInv
BY InitialInv, InvariantKept, PTL DEF Spec

(* Clock, timers, sampler threads and memory sizes are well typed, the     *)
(* time on every timer within the time that has passed.                    *)
THEOREM TypeCorrect == Spec => []TypeOK
<1>1. InstrumentationInv => TypeOK BY DEF InstrumentationInv
<1> QED BY <1>1, Invariant, PTL

(* stop and _monitor_loop: while every stop saw its sampler end, there is  *)
(* one sampler at most, none between sessions, and the peak reported is    *)
(* the largest memory read since start, whichever thread read it.          *)
THEOREM PeakReported == Spec => []PeakCovers
<1>1. InstrumentationInv => PeakCovers
  <2> SUFFICES ASSUME InstrumentationInv, ~ gaveUp PROVE PeakCovers
    BY DEF PeakCovers
  <2>1. PeakInv BY DEF InstrumentationInv
  <2>2. Live \subseteq {session} BY <2>1 DEF PeakInv, Live
  <2>3. Cardinality(Live) <= 1
    <3>1. IsFiniteSet({session}) /\ Cardinality({session}) = 1 BY FS_Singleton
    <3> QED BY <2>2, <3>1, FS_Subset
  <2>4. main.pc = "idle" => Live = {} /\ peak = seen
    BY <2>1 DEF PeakInv, Live, Sampling
  <2> QED BY <2>3, <2>4 DEF PeakCovers
<1> QED BY <1>1, Invariant, PTL

(* start_session and end_session: whatever time passes between the starts   *)
(* and the stops of the timers, a rate lies between the records over the    *)
(* whole of the session (on a fresh object) and the records over the time   *)
(* they came in (in every session).                                         *)
THEOREM RatesStayBracketed == Spec => []RatesBracketed
<1>1. InstrumentationInv => RatesBracketed BY DEF InstrumentationInv
<1> QED BY <1>1, Invariant, PTL

===============================================================================
