------------------------- MODULE ProgressReport_proofs -------------------------
(***************************************************************************)
(* Theorems about ProgressReport for any image, chunks, intervals, clock   *)
(* and widths of the C integers that ProgressReport assumes.               *)
(***************************************************************************)
EXTENDS ProgressReport, TLAPS

(* In a build whose int64_t holds 100 times any int the product is exact, so
   the percentage is one, and 100 only of the whole. *)
LEMMA PercentLemma ==
    ASSUME NEW read \in 0 .. ImageSize
    PROVE  /\ Percent(read, ImageSize) \in 0 .. 100
           /\ Percent(read, ImageSize) = 100 <=> read = ImageSize
<1>1. ImageSize \in Nat /\ ImageSize > 0 /\ LongMax \in Nat /\ 100 * ImageSize <= LongMax
  BY ImageSizeAssumption, WidthAssumption
<1>2. read * 100 \in 0 .. LongMax
  BY <1>1
<1>3. Signed(read * 100, LongMax) = read * 100
  <2>1. ASSUME NEW m \in Nat, NEW n \in 0 .. m PROVE Signed(n, m) = n
    BY <2>1 DEF Signed
  <2>. QED
    BY <1>1, <1>2, <2>1
<1>4. ASSUME NEW d \in Nat, d > 0, NEW r \in 0 .. d
      PROVE  /\ (r * 100) \div d \in 0 .. 100
             /\ (r * 100) \div d = 100 <=> r = d
  <2>1. PICK q \in Int : q = (r * 100) \div d /\ q * d <= r * 100 /\ r * 100 < q * d + d
    BY <1>4
  <2>2. q >= 0
    BY <1>4, <2>1
  <2>3. q <= 100
    BY <1>4, <2>1
  <2>4. q = 100 => r = d
    BY <1>4, <2>1
  <2>5. r = d => q = 100
    BY <1>4, <2>1
  <2>. QED
    BY <2>1, <2>2, <2>3, <2>4, <2>5
<1>. QED
  BY <1>1, <1>3, <1>4 DEF Percent

LEMMA PercentType ==
    ASSUME NEW total \in {Unknown, ImageSize}, NEW read \in 0 .. ImageSize
    PROVE  Percent(read, total) \in -1 .. 100
  BY PercentLemma, ImageSizeAssumption, WidthAssumption DEF Percent, Unknown

-----------------------------------------------------------------------------
(* The clock the throttle measures by is that of the report last heard, once
   there was one; a throttled chunk leaves both alone. *)
ClockOfReport ==
    /\ report.at <= now
    /\ pc \in {"downloading", "reporting"} =>
         IF progress_interval_ms = 0 THEN last_report_us = 0 ELSE last_report_us = report.at

(* What was heard is what Percent makes of the bytes it names. *)
ReportTrue == report # NoReport => report.percent = Percent(report.bytes, total_bytes)

IInv ==
    /\ TypeOK
    /\ ClockOfReport
    /\ ReportTrue
    /\ pc = "reporting" => read_bytes >= 0
    /\ pc = "verifying" => read_bytes = ImageSize
    /\ pc = "committing" => report # NoReport /\ report.bytes = ImageSize
    /\ SilenceBounded

(* The constants, as numbers. *)
LEMMA ConstantTypes ==
    /\ ImageSize \in Nat /\ ImageSize > 0
    /\ Horizon \in Nat
    /\ \A i \in Intervals \cup {0} : i \in Nat
    /\ \A d \in ChunkTimes : d \in Nat
    /\ \A n \in ChunkSizes : n \in Nat
  BY ImageSizeAssumption, WidthAssumption, HorizonAssumption, IntervalsAssumption,
     ChunksAssumption

LEMMA InitIInv ==
    ASSUME Init
    PROVE  IInv
  BY ConstantTypes DEF Init, IInv, TypeOK, ClockOfReport, ReportTrue, SilenceBounded, NoReport,
                   Reports, Unknown

LEMMA NextIInv ==
    ASSUME IInv, [Next]_vars
    PROVE  IInv'
<1>. USE ConstantTypes DEF IInv, TypeOK
<1>1. CASE DownloadImage
  BY <1>1 DEF DownloadImage, ClockOfReport, ReportTrue, SilenceBounded, NoReport, Reports, Unknown
<1>2. CASE Perform
  <2>1. PICK dt \in ChunkTimes : now + dt <= Horizon /\ now' = now + dt
    BY <1>2 DEF Perform
  <2>2. now' \in 0 .. Horizon /\ now' >= now
    BY <2>1
  <2>3. read_bytes' \in -1 .. ImageSize /\ (pc' = "reporting" => read_bytes' >= 0)
        /\ (pc' = "verifying" => read_bytes' = ImageSize)
    BY <1>2 DEF Perform
  <2>. QED
    BY <1>2, <2>2, <2>3 DEF Perform, ClockOfReport, ReportTrue, SilenceBounded, Reports
<1>3. CASE LoopReport
  <2>1. IntervalUs \in Nat /\ read_bytes \in 0 .. ImageSize
    BY <1>3 DEF IntervalUs, LoopReport
  <2>2. CASE progress_interval_ms # 0 /\ now - last_report_us < IntervalUs
    <3>. DEFINE elapsed == now - last_report_us
    <3>0. elapsed \in Int /\ ~(elapsed >= IntervalUs)
      BY <2>1, <2>2
    <3>1. /\ pc' = "downloading"
          /\ UNCHANGED <<progress_interval_ms, total_bytes, read_bytes, last_report_us, now,
                         report>>
      <4>. HIDE DEF elapsed, IInv, TypeOK
      <4>1. \/ /\ pc' = "downloading"
               /\ UNCHANGED <<last_report_us, report>>
            \/ progress_interval_ms = 0 \/ elapsed >= IntervalUs
        BY <1>3 DEF LoopReport, elapsed
      <4>. QED
        BY <1>3, <2>2, <3>0, <4>1 DEF LoopReport
    <3>2. last_report_us = report.at
      BY <1>3, <2>2 DEF LoopReport, ClockOfReport
    <3>. QED
      BY <2>2, <3>1, <3>2 DEF IntervalUs, ClockOfReport, ReportTrue, SilenceBounded
  <2>3. CASE progress_interval_ms = 0 \/ now - last_report_us >= IntervalUs
    <3>1. Percent(read_bytes, total_bytes) \in -1 .. 100
      BY <2>1, PercentType
    <3>2. /\ report' = [at |-> now, bytes |-> read_bytes,
                        percent |-> Percent(read_bytes, total_bytes), force |-> FALSE]
          /\ pc' \in {"downloading", "idle"}
          /\ last_report_us' = IF progress_interval_ms = 0 THEN last_report_us ELSE now
          /\ UNCHANGED <<progress_interval_ms, total_bytes, read_bytes, now>>
      BY <1>3, <2>1, <2>3 DEF LoopReport, Dispatch
    <3>3. report' \in Reports
      BY <2>1, <3>1, <3>2 DEF Reports
    <3>. QED
      BY <1>3, <2>1, <3>2, <3>3 DEF LoopReport, ClockOfReport, ReportTrue, SilenceBounded
  <2>. QED
    BY <1>3, <2>1, <2>2, <2>3
<1>4. CASE ForcedReport
  <2>1. read_bytes = ImageSize /\ Percent(read_bytes, total_bytes) \in -1 .. 100
    BY <1>4, PercentType DEF ForcedReport
  <2>2. /\ report' = [at |-> now, bytes |-> read_bytes,
                      percent |-> Percent(read_bytes, total_bytes), force |-> TRUE]
        /\ pc' \in {"committing", "idle"}
        /\ UNCHANGED <<progress_interval_ms, total_bytes, read_bytes, last_report_us, now>>
    BY <1>4 DEF ForcedReport, Dispatch
  <2>3. report' \in Reports /\ report' # NoReport
    BY <2>1, <2>2 DEF Reports, NoReport
  <2>. QED
    BY <2>1, <2>2, <2>3 DEF ClockOfReport, ReportTrue, SilenceBounded
<1>5. CASE Return
  BY <1>5 DEF Return, ClockOfReport, ReportTrue, SilenceBounded
<1>6. CASE UNCHANGED vars
  BY <1>6 DEF vars, ClockOfReport, ReportTrue, SilenceBounded
<1>. QED
  BY <1>1, <1>2, <1>3, <1>4, <1>5, <1>6 DEF Next

LEMMA IInvAlways == Spec => []IInv
<1>1. Init => IInv
  BY InitIInv
<1>2. IInv /\ [Next]_vars => IInv'
  BY NextIInv
<1>. QED
  BY <1>1, <1>2, PTL DEF Spec

(* Every variable has its type; the throttle and the percentage stay in range. *)
THEOREM TypeCorrect == Spec => []TypeOK
<1>1. IInv => TypeOK
  BY DEF IInv
<1>. QED
  BY <1>1, IInvAlways, PTL

(* For any image an int can count: a percentage is 0..100 exactly when the
   size is known, and 100 only with the last byte. *)
THEOREM PercentCorrect == Spec => []PercentHonest
<1>1. ASSUME IInv PROVE PercentHonest
  <2>1. CASE total_bytes = ImageSize /\ report # NoReport
    <3>1. report.bytes \in 0 .. ImageSize /\ report.percent = Percent(report.bytes, ImageSize)
      BY <1>1, <2>1 DEF IInv, TypeOK, Reports, ReportTrue
    <3>. QED
      BY <2>1, <3>1, PercentLemma, ConstantTypes DEF PercentHonest
  <2>2. CASE total_bytes = Unknown /\ report # NoReport
    BY <1>1, <2>2 DEF IInv, ReportTrue, PercentHonest, Percent, Unknown
  <2>. QED
    BY <1>1, <2>1, <2>2 DEF IInv, TypeOK, PercentHonest
<1>. QED
  BY <1>1, IInvAlways, PTL

(* The throttle never mutes the reports. *)
THEOREM NeverMuted == Spec => []SilenceBounded
<1>1. IInv => SilenceBounded
  BY DEF IInv
<1>. QED
  BY <1>1, IInvAlways, PTL

(* The whole image was reported before the commit. *)
THEOREM WholeReported == Spec => []LastWord
<1>1. ASSUME IInv PROVE LastWord
  <2>. SUFFICES ASSUME pc = "committing"
                PROVE  report.bytes = ImageSize /\ (total_bytes > 0 => report.percent = 100)
    BY DEF LastWord
  <2>1. report.bytes = ImageSize /\ report.percent = Percent(ImageSize, total_bytes)
        /\ total_bytes \in {Unknown, ImageSize}
    BY <1>1 DEF IInv, TypeOK, ReportTrue
  <2>. QED
    BY <2>1, PercentLemma, ConstantTypes DEF Unknown
<1>. QED
  BY <1>1, IInvAlways, PTL

(* Between two reports of the loop lies the interval, also past a throttled
   chunk: only a report moves the clock. *)
THEOREM GapAlwaysKept == Spec => GapKept
<1>1. ASSUME IInv, [Next]_vars,
             report' # report, report # NoReport, pc = "reporting"
      PROVE  report'.at - report.at >= progress_interval_ms * 1000
  <2>1. LoopReport /\ report'.at = now
    BY <1>1 DEF Next, vars, DownloadImage, Perform, LoopReport, ForcedReport, Return, Dispatch
  <2>2. /\ now \in Nat /\ report.at \in Nat /\ progress_interval_ms \in Nat
        /\ report.at <= now
        /\ progress_interval_ms # 0 => last_report_us = report.at
    BY <1>1, ConstantTypes DEF IInv, TypeOK, Reports, ClockOfReport
  <2>3. progress_interval_ms = 0 \/ now - last_report_us >= IntervalUs
    BY <1>1, <2>1 DEF LoopReport
  <2>. QED
    BY <2>1, <2>2, <2>3 DEF IntervalUs
<1>2. IInv /\ [Next]_vars =>
        [report' # report /\ report # NoReport /\ pc = "reporting"
           => report'.at - report.at >= progress_interval_ms * 1000]_vars
  BY <1>1
<1>. QED
  BY <1>2, IInvAlways, PTL DEF Spec, GapKept

-----------------------------------------------------------------------------
(* One report after another. *)

(* ota-api.h:57-65: within one update the reports event_cb hears go forward
   only, in time, in bytes and in per cent, so that a progress bar never jumps
   back - neither at a throttled chunk nor at the forced report of the end. *)
ProgressGoesForward ==
    [][report # NoReport /\ report' # NoReport =>
         /\ report'.at >= report.at
         /\ report'.bytes >= report.bytes
         /\ report'.percent >= report.percent]_vars

(* More bytes are not fewer per cent. *)
LEMMA PercentMonotone ==
    ASSUME NEW total \in {Unknown, ImageSize},
           NEW r \in 0 .. ImageSize, NEW s \in r .. ImageSize
    PROVE  Percent(r, total) <= Percent(s, total)
<1>1. ImageSize \in Nat /\ ImageSize > 0 /\ LongMax \in Nat /\ 100 * ImageSize <= LongMax
  BY ImageSizeAssumption, WidthAssumption
<1>2. CASE total = Unknown
  BY <1>2 DEF Percent, Unknown
<1>3. CASE total = ImageSize
  <2>1. ASSUME NEW m \in Nat, NEW n \in 0 .. m PROVE Signed(n, m) = n
    BY <2>1 DEF Signed
  <2>2. s \in 0 .. ImageSize /\ r * 100 \in 0 .. LongMax /\ s * 100 \in 0 .. LongMax
        /\ r * 100 <= s * 100
    BY <1>1
  <2>3. /\ Percent(r, total) = (r * 100) \div ImageSize
        /\ Percent(s, total) = (s * 100) \div ImageSize
    BY <1>1, <1>3, <2>1, <2>2 DEF Percent
  <2>4. ASSUME NEW d \in Nat, d > 0, NEW a \in Nat, NEW b \in Nat, a <= b
        PROVE  a \div d <= b \div d
    <3>1. PICK p \in Int : p = a \div d /\ p * d <= a
      BY <2>4
    <3>2. PICK q \in Int : q = b \div d /\ b < q * d + d
      BY <2>4
    <3>3. ASSUME p >= q + 1 PROVE FALSE
      <4>1. PICK k \in Nat : p = q + 1 + k
        BY <3>3
      <4>2. k * d >= 0 /\ p * d = q * d + d + k * d
        BY <4>1, <2>4
      <4>. QED
        BY <2>4, <3>1, <3>2, <4>2
    <3>. QED
      BY <3>1, <3>2, <3>3
  <2>. QED
    BY <1>1, <2>2, <2>3, <2>4
<1>. QED
  BY <1>2, <1>3

(* Nothing is reported before it is there. *)
ReportBehind == report # NoReport => report.bytes <= read_bytes

LEMMA ReportBehindNext ==
    ASSUME IInv, ReportBehind, [Next]_vars
    PROVE  ReportBehind'
<1>1. CASE Perform
  <2>1. read_bytes \in Int /\ read_bytes' \in Int /\ read_bytes' >= read_bytes
    BY <1>1, ConstantTypes DEF Perform, IInv, TypeOK
  <2>2. report' = report /\ report.bytes \in Int
    BY <1>1, ConstantTypes DEF Perform, IInv, TypeOK, Reports
  <2>. QED
    BY <2>1, <2>2 DEF ReportBehind
<1>2. CASE LoopReport \/ ForcedReport
  <2>1. read_bytes' = read_bytes /\ (report' = report \/ report'.bytes = read_bytes)
    BY <1>2 DEF LoopReport, ForcedReport, Dispatch
  <2>2. read_bytes \in Int
    BY DEF IInv, TypeOK
  <2>. QED
    BY <2>1, <2>2 DEF ReportBehind
<1>3. CASE DownloadImage \/ Return \/ UNCHANGED vars
  BY <1>3 DEF DownloadImage, Return, vars, ReportBehind
<1>. QED
  BY <1>1, <1>2, <1>3 DEF Next

(* A later report never shows less. *)
THEOREM NeverGoesBack == Spec => ProgressGoesForward
<1>1. Init => ReportBehind
  BY DEF Init, ReportBehind
<1>2. Spec => []ReportBehind
  BY <1>1, ReportBehindNext, IInvAlways, PTL DEF Spec
<1>3. ASSUME IInv, ReportBehind, [Next]_vars, report # NoReport, report' # NoReport
      PROVE  /\ report'.at >= report.at
             /\ report'.bytes >= report.bytes
             /\ report'.percent >= report.percent
  <2>0. report \in Reports /\ now \in Nat /\ report.at <= now
    BY <1>3, ConstantTypes DEF IInv, TypeOK, ClockOfReport
  <2>1. CASE report' = report
    BY <2>0, <2>1 DEF Reports
  <2>2. CASE report' # report
    <3>1. /\ report'.at = now /\ report'.bytes = read_bytes
          /\ report'.percent = Percent(read_bytes, total_bytes)
      BY <1>3, <2>2 DEF Next, vars, DownloadImage, Perform, LoopReport, ForcedReport, Return,
                        Dispatch
    <3>2. /\ report.bytes \in 0 .. ImageSize /\ read_bytes \in report.bytes .. ImageSize
          /\ total_bytes \in {Unknown, ImageSize}
          /\ report.percent = Percent(report.bytes, total_bytes)
      BY <1>3, ConstantTypes DEF IInv, TypeOK, Reports, ReportTrue, ReportBehind
    <3>3. Percent(report.bytes, total_bytes) <= Percent(read_bytes, total_bytes)
      BY <3>2, PercentMonotone
    <3>4. /\ Percent(report.bytes, total_bytes) \in -1 .. 100
          /\ Percent(read_bytes, total_bytes) \in -1 .. 100
      BY <3>2, PercentType
    <3>. QED
      BY <2>0, <3>1, <3>2, <3>3, <3>4
  <2>. QED
    BY <2>1, <2>2
<1>4. IInv /\ ReportBehind /\ [Next]_vars =>
        [report # NoReport /\ report' # NoReport =>
           /\ report'.at >= report.at
           /\ report'.bytes >= report.bytes
           /\ report'.percent >= report.percent]_vars
  BY <1>3
<1>. QED
  BY <1>2, <1>4, IInvAlways, PTL DEF Spec, ProgressGoesForward
=============================================================================
