---------------------------- MODULE ProgressReport ----------------------------
(***************************************************************************)
(* What an update tells its event_cb while it downloads:                   *)
(* ota_api_report_progress() (src/src/ota-api-report.c) as download_image()*)
(* (src/src/ota-api.c) calls it, once per chunk under the throttle of      *)
(* progress_interval_ms and once more, forced, at the end.  The C integer  *)
(* widths are kept: byte counts are int, the product is int64_t.           *)
(*                                                                         *)
(* External: esp_https_ota_perform() and the esp_timer clock.  The time    *)
(* event_cb takes passes together with that of the next chunk.             *)
(***************************************************************************)
EXTENDS Integers

CONSTANTS
    Intervals,    \* values of progress_interval_ms
    ImageSize,    \* bytes of the image
    ChunkSizes,   \* bytes one esp_https_ota_perform() may add
    ChunkTimes,   \* microseconds it may take
    Horizon,      \* bound on the clock, in microseconds
    IntMax,       \* INT_MAX of the build
    LongMax       \* INT64_MAX of the build

ASSUME IntervalsAssumption == Intervals \subseteq Nat
ASSUME ImageSizeAssumption == ImageSize \in 1 .. IntMax
ASSUME ChunksAssumption    == ChunkSizes \subseteq Nat /\ ChunkTimes \subseteq Nat
ASSUME HorizonAssumption   == Horizon \in Nat
ASSUME WidthAssumption     == /\ IntMax \in Nat
                              /\ LongMax \in Nat
                              /\ LongMax >= 100 * IntMax

Unknown   == -1
NoReport  == [at |-> 0, bytes |-> 0, percent |-> Unknown, force |-> FALSE]

VARIABLES
    pc,                     \* where download_image() is
    progress_interval_ms,   \* of this update's config
    total_bytes,            \* Content-Length, Unknown when there is none
    read_bytes,             \* esp_https_ota_get_image_len_read(); -1 before
                            \* the first chunk
    last_report_us,         \* local of download_image()
    now,                    \* esp_timer_get_time()
    report                  \* what event_cb heard last in this update

vars == <<pc, progress_interval_ms, total_bytes, read_bytes, last_report_us, now, report>>

-----------------------------------------------------------------------------

(* Two's complement conversion to a signed type whose maximum is max. *)
Signed(n, max) == ((n + max + 1) % (2 * (max + 1))) - (max + 1)

(* Mutant: the product is computed in int. *)
NarrowPercent(read, total) ==
    IF total > 0 THEN Signed(read * 100, IntMax) \div total ELSE -1

(* Mutant: the percentage is rounded up. *)
RoundedUpPercent(read, total) ==
    IF total > 0 THEN Signed(read * 100 + total - 1, LongMax) \div total ELSE -1

Percent(read, total) ==
    IF total > 0 THEN Signed(read * 100, LongMax) \div total ELSE -1

(* Mutant: the interval is multiplied in its own unsigned type. *)
NarrowInterval == (progress_interval_ms * 1000) % (2 * (IntMax + 1))

IntervalUs == progress_interval_ms * 1000

(* download_image() of the next update: fresh locals, the clock goes on. *)
DownloadImage ==
    /\ pc = "idle"
    /\ pc' = "downloading"
    /\ progress_interval_ms' \in Intervals
    /\ total_bytes' \in {Unknown, ImageSize}
    /\ read_bytes' = -1
    /\ last_report_us' = 0
    /\ report' = NoReport
    /\ UNCHANGED now

Init ==
    /\ pc = "idle"
    /\ progress_interval_ms = 0
    /\ total_bytes = Unknown
    /\ read_bytes = -1
    /\ last_report_us = 0
    /\ now \in {t \in ChunkTimes : t <= Horizon}
    /\ report = NoReport

(* esp_https_ota_perform(): a chunk, the end of the whole image, or an error
   or an abort that ends the download without another report. *)
Perform ==
    /\ pc = "downloading"
    /\ \E dt \in ChunkTimes : now + dt <= Horizon /\ now' = now + dt
    /\ \/ /\ pc' = "reporting"
          /\ \E n \in ChunkSizes :
               LET read == IF read_bytes = -1 THEN n ELSE read_bytes + n
               IN  read <= ImageSize /\ read_bytes' = read
       \/ /\ read_bytes = ImageSize
          /\ pc' = "verifying"
          /\ UNCHANGED read_bytes
       \/ /\ pc' = "idle"
          /\ UNCHANGED read_bytes
    /\ UNCHANGED <<progress_interval_ms, total_bytes, last_report_us, report>>

(* The callback hears the report; its verdict lets the download go on to
   label or ends it. *)
Dispatch(force, label) ==
    /\ report' = [at |-> now, bytes |-> read_bytes,
                  percent |-> Percent(read_bytes, total_bytes), force |-> force]
    /\ pc' \in {label, "idle"}

(* Mutant: the clock is restarted by a report that was throttled out. *)
RestartingReport ==
    /\ pc = "reporting"
    /\ last_report_us' = IF progress_interval_ms = 0 THEN last_report_us ELSE now
    /\ \/ /\ progress_interval_ms # 0
          /\ now - last_report_us < IntervalUs
          /\ pc' = "downloading"
          /\ UNCHANGED report
       \/ /\ progress_interval_ms = 0 \/ now - last_report_us >= IntervalUs
          /\ Dispatch(FALSE, "downloading")
    /\ UNCHANGED <<progress_interval_ms, total_bytes, read_bytes, now>>

(* ota_api_report_progress(force = false): inside the interval nothing is
   heard and the clock of the last report is left alone. *)
LoopReport ==
    /\ pc = "reporting"
    /\ \/ /\ progress_interval_ms # 0
          /\ now - last_report_us < IntervalUs
          /\ pc' = "downloading"
          /\ UNCHANGED <<last_report_us, report>>
       \/ /\ progress_interval_ms = 0 \/ now - last_report_us >= IntervalUs
          /\ last_report_us' = IF progress_interval_ms = 0 THEN last_report_us ELSE now
          /\ read_bytes >= 0
          /\ Dispatch(FALSE, "downloading")
    /\ UNCHANGED <<progress_interval_ms, total_bytes, read_bytes, now>>

(* Mutant: the final report is throttled like the others. *)
ThrottledFinal ==
    /\ pc = "verifying"
    /\ \/ /\ progress_interval_ms # 0
          /\ now - last_report_us < IntervalUs
          /\ pc' = "committing"
          /\ UNCHANGED report
       \/ /\ progress_interval_ms = 0 \/ now - last_report_us >= IntervalUs
          /\ Dispatch(TRUE, "committing")
    /\ UNCHANGED <<progress_interval_ms, total_bytes, read_bytes, last_report_us, now>>

(* ota_api_report_progress(force = true), once the image is complete. *)
ForcedReport ==
    /\ pc = "verifying"
    /\ read_bytes >= 0
    /\ Dispatch(TRUE, "committing")
    /\ UNCHANGED <<progress_interval_ms, total_bytes, read_bytes, last_report_us, now>>

(* download_image() has returned ESP_OK; the commit follows. *)
Return ==
    /\ pc = "committing"
    /\ pc' = "idle"
    /\ UNCHANGED <<progress_interval_ms, total_bytes, read_bytes, last_report_us,
                   now, report>>

Next == DownloadImage \/ Perform \/ LoopReport \/ ForcedReport \/ Return

Spec == Init /\ [][Next]_vars

-----------------------------------------------------------------------------
(* Properties *)

Reports == [at : 0 .. Horizon, bytes : 0 .. ImageSize, percent : -1 .. 100,
            force : BOOLEAN]

TypeOK ==
    /\ pc \in {"idle", "downloading", "reporting", "verifying", "committing"}
    /\ progress_interval_ms \in Intervals \cup {0}
    /\ total_bytes \in {Unknown, ImageSize}
    /\ read_bytes \in -1 .. ImageSize
    /\ last_report_us \in 0 .. Horizon
    /\ now \in 0 .. Horizon
    /\ report \in Reports

(* ota-api.h:64: a percentage is 0..100 exactly when the size is known, and
   100 is never shown before the last byte is there. *)
PercentHonest ==
    report # NoReport =>
        IF total_bytes > 0
        THEN /\ report.percent \in 0 .. 100
             /\ report.percent = 100 <=> report.bytes = ImageSize
        ELSE report.percent = -1

(* ota-api.h:111: progress_interval_ms is the least time between two of the
   reports the loop makes, whatever the chunks' sizes and times; the forced
   one at the end alone may follow at once. *)
GapKept ==
    [][report' # report /\ report # NoReport /\ pc = "reporting"
         => report'.at - report.at >= progress_interval_ms * 1000]_vars

(* The throttle thins the reports out and never mutes them: after every chunk
   the silence is shorter than the interval. *)
SilenceBounded ==
    pc = "downloading" /\ read_bytes >= 0
        => now - report.at < progress_interval_ms * 1000 \/ report.at = now

(* ota-api.c:102: a 100% report always lands before the commit, and it is the
   last thing event_cb may refuse. *)
LastWord ==
    pc = "committing" =>
        /\ report.bytes = ImageSize
        /\ total_bytes > 0 => report.percent = 100
=============================================================================
