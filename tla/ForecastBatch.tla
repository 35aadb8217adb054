--------------------------- MODULE ForecastBatch ---------------------------
(* The resumable fetch of past forecasts: fetch_historical_forecast_batch   *)
(* and fetch_raw_forecast_runs of historical_forecasts.py, for one station  *)
(* and model.  It keeps a raw file per run and one file of records, which   *)
(* is appended to at the end.                                               *)
EXTENDS RunTimes, SequencesExt

\* raw: a function from runs to [torn, days], what is in their files;
\* days maps days to a maximum or None.  answers: what the service gives
\* for each run, None for a failed request.
\* An existing file is read and nothing else; a fetched payload is written.
load_or_fetch_single_run_payload(raw, run, answers) ==
    IF run \in DOMAIN raw \/ answers[run] = None THEN raw
    ELSE [r \in DOMAIN raw \cup {run} |-> IF r = run THEN [torn |-> FALSE, days |-> answers[run]] ELSE raw[r]]

\* The record of one run, or None for the exceptions on the way to it.
parse_single_run_payload(raw, run, target, lead) ==
    IF run \notin DOMAIN raw THEN None
    ELSE IF raw[run].torn THEN None
    ELSE IF target \notin DOMAIN raw[run].days THEN None
    ELSE IF raw[run].days[target] = None THEN None
    ELSE [target |-> target, run |-> run, lead |-> lead, tmax |-> raw[run].days[target]]

\* The planned run, and after any exception the next one.
fetch_historical_forecast_record(raw, job, answers, offset) ==
    LET tries == _run_times_to_try_for_job(job, offset)
        Try(acc, x) ==
            LET now == load_or_fetch_single_run_payload(acc.raw, x[1], answers) IN
            IF acc.record # None THEN acc
            ELSE [raw |-> now, record |-> parse_single_run_payload(now, x[1], job.target, x[2])]
    IN  FoldLeft(Try, [raw |-> raw, record |-> None], tries)

record_key(r) == <<r.target, r.run>>
job_key(job) == <<job.target, job.run>>

\* The file of records: its whole lines and whether the last one is torn.
existing_record_keys(out) == {record_key(out.lines[i]) : i \in DOMAIN out.lines}

write_historical_forecasts_jsonl(out, batch) == [out EXCEPT !.lines = @ \o batch]

Counted(acc, job, got) ==
    IF got.record = None THEN [acc EXCEPT !.raw = got.raw, !.failed = @ + 1]
    ELSE IF record_key(got.record) \in acc.seen
    THEN [acc EXCEPT !.raw = got.raw, !.skipped = @ + 1]
    ELSE [acc EXCEPT !.raw = got.raw, !.batch = Append(@, got.record), !.fetched = @ + 1,
                     !.seen = @ \cup {job_key(job), record_key(got.record)}]

BatchJob(acc, job, answers, offset) ==
    IF job_key(job) \in acc.seen THEN [acc EXCEPT !.skipped = @ + 1]
    ELSE Counted(acc, job, fetch_historical_forecast_record(acc.raw, job, answers, offset))

Batched(disk, jobs, answers, offset) ==
    FoldLeft(LAMBDA acc, job : BatchJob(acc, job, answers, offset),
             [raw |-> disk.raw, seen |-> existing_record_keys(disk.out), batch |-> <<>>,
              fetched |-> 0, skipped |-> 0, failed |-> 0], jobs)

\* The file that was being written, the last of the new ones, is torn.
TornLast(raw, new) ==
    [r \in DOMAIN raw |-> [raw[r] EXCEPT !.torn = @ \/ (r \in new /\ r = Max(new))]]

DiesFetching(raw, job, answers, offset) ==
    LET dying == fetch_historical_forecast_record(raw, job, answers, offset).raw
    IN  TornLast(dying, DOMAIN dying \ DOMAIN raw)

DiesAppending(out, batch, k) ==
    [write_historical_forecasts_jsonl(out, SubSeq(batch, 1, Min({k - 1, Len(batch)})))
        EXCEPT !.torn = k <= Len(batch)]

Ended(disk, done, crash) ==
    [raw |-> done.raw,
     out |-> IF crash.at = "never" THEN write_historical_forecasts_jsonl(disk.out, done.batch)
             ELSE DiesAppending(disk.out, done.batch, crash.k)]

(* One call of the batch on what is on disk.  A torn line ends it before it *)
(* starts.  It may die while it writes the raw file of its k-th job, or     *)
(* while it appends, after k whole lines.                                   *)
fetch_historical_forecast_batch(disk, jobs, answers, offset, crash) ==
    LET first == IF crash.at = "fetch" THEN SubSeq(jobs, 1, crash.k - 1) ELSE jobs
        done == Batched(disk, first, answers, offset)
    IN  IF disk.out.torn THEN disk
        ELSE IF crash.at = "fetch"
        THEN [disk EXCEPT !.raw = DiesFetching(done.raw, jobs[crash.k], answers, offset)]
        ELSE Ended(disk, done, crash)

\* By their names alone: a torn file counts as fetched.
existing_raw_forecast_keys(raw) == DOMAIN raw

fetch_raw_forecast_runs(raw, runs, answers) ==
    FoldSet(LAMBDA run, acc : load_or_fetch_single_run_payload(acc, run, answers),
            raw, runs \ existing_raw_forecast_keys(raw))

----------------------------------------------------------------------------
\* What these promise

EmptyDisk == [raw |-> [r \in {} |-> None], out |-> [lines |-> <<>>, torn |-> FALSE]]

\* calls: [answers, crash], one after the other.
After(calls, jobs, offset) ==
    FoldLeft(LAMBDA disk, c : fetch_historical_forecast_batch(disk, jobs, c.answers, offset, c.crash),
             EmptyDisk, calls)

\* Every job has the record of the first of its runs that can be read.
Complete(disk, jobs, offset) ==
    \A k \in DOMAIN jobs :
        LET tries == _run_times_to_try_for_job(jobs[k], offset)
            Readable(x) == parse_single_run_payload(disk.raw, x[1], jobs[k].target, x[2]) # None
            Has(run) == \E i \in DOMAIN disk.out.lines :
                            record_key(disk.out.lines[i]) = <<jobs[k].target, run>>
        IN  \A i \in DOMAIN tries :
                (Readable(tries[i]) /\ \A j \in 1..i-1 : ~Readable(tries[j])) => Has(tries[i][1])

Faithful(lines, raw, offset) ==
    /\ \A i, j \in DOMAIN lines : record_key(lines[i]) = record_key(lines[j]) => i = j
    /\ \A i \in DOMAIN lines :
          /\ lines[i].run + lines[i].lead = LocalMidnight(lines[i].target, offset)
          /\ lines[i] = parse_single_run_payload(raw, lines[i].run, lines[i].target, lines[i].lead)

Resumed(disk, previous, last, jobs, offset) ==
    /\ Faithful(disk.out.lines, disk.raw, offset)
    /\ previous.out.torn => disk = previous
    /\ ~previous.out.torn /\ last.crash.at = "never" =>
          /\ Complete(disk, jobs, offset)
          /\ (\A r \in DOMAIN last.answers : last.answers[r] # None) =>
                \A k \in DOMAIN jobs : jobs[k].run \in DOMAIN disk.raw

CalledAgain(previous, last, jobs, offset) ==
    Resumed(fetch_historical_forecast_batch(previous, jobs, last.answers, offset, last.crash),
            previous, last, jobs, offset)

(* However often the batch dies and is called again, no forecast is stored  *)
(* twice and each says what its own run said of that day, at its own lead.  *)
(* Every planned forecast is there once a call succeeds with an answer for  *)
(* every run - its own, or the next run's if its day is null in the raw     *)
(* file - but for what a crash has torn: a raw file is never fetched again, *)
(* and a torn line of the records stops every later call.                   *)
BatchResumes(calls, jobs, offset) ==
    CalledAgain(After(SubSeq(calls, 1, Len(calls) - 1), jobs, offset), calls[Len(calls)], jobs, offset)

Kept(raw, now, runs, answers) ==
    /\ \A r \in DOMAIN raw : r \in DOMAIN now /\ now[r] = raw[r]
    /\ \A r \in runs : answers[r] # None => r \in DOMAIN now

FetchedOver(raw, runs, answers) == Kept(raw, fetch_raw_forecast_runs(raw, runs, answers), runs, answers)

(* The raw fetch leaves a file for every run it got an answer for, and      *)
(* changes none that was there, whole or torn.                              *)
RawFilesAreKept(calls, jobs, offset, answers) ==
    FetchedOver((After(calls, jobs, offset)).raw, {jobs[k].run : k \in DOMAIN jobs}, answers)
=============================================================================
