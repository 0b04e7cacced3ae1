--------------------------------- MODULE Logger ---------------------------------
(***************************************************************************)
(* The logger (src/logger.cc): threads that call Write, a worker thread    *)
(* that takes the queue in batches and writes them without the mutex, and  *)
(* the main thread, which calls Configure and ends the process.  Lines are *)
(* numbered in the order in which Write takes the mutex.                   *)
(*                                                                         *)
(* The worker reads options_ and file_stream_ without the lock under which *)
(* Configure replaces them: a data race.  Configure's two assignments are  *)
(* steps of their own, and the file operation of a line they overlap may   *)
(* have no effect (set disturbed).                                         *)
(***************************************************************************)
EXTENDS Naturals, Sequences, SequencesExt

CONSTANTS
    Writers,       \* threads that log
    Files,         \* values of LoggerOptions::file_path other than empty
    MaxWrites,     \* bound: calls of Write in one behaviour
    MaxConfigures, \* bound: calls of Configure in one behaviour
    None

ASSUME WritesAssumption == MaxWrites \in Nat
ASSUME ConfiguresAssumption == MaxConfigures \in Nat
ASSUME SinksAssumption == None \notin Files /\ "stderr" \notin Files \cup {None}
ASSUME WritersAssumption == None \notin Writers /\ "main" \notin Writers \cup {None}

VARIABLES
    options,       \* options_
    file_stream,   \* the file that file_stream_ has open, or None
    queue,         \* queue_
    stopping,      \* stopping_
    mutex,         \* who holds mutex_ across a step: a writer, "main" or None
    worker,        \* where Run is
    batch,         \* Run's batch: the lines not written yet
    pc,            \* where each writer is in the synchronous path of Write
    line,          \* the line a writer is in the middle of
    main,          \* where the main thread is in Configure or ~LoggerImpl
    next_options,  \* Configure's argument
    configures,    \* calls of Configure so far
    fate,          \* what Write did with each line
    disturbed,     \* lines whose writing overlapped an unsynchronised access
    lines          \* sink -> the lines written to it

configVars == <<options, file_stream, next_options, configures>>
queueVars == <<queue, stopping>>
workerVars == <<worker, batch>>
writerVars == <<pc, line, fate>>
outVars == <<disturbed, lines>>
vars == <<configVars, queueVars, mutex, workerVars, writerVars, main, outVars>>

Lines == 1..MaxWrites
Sinks == Files \cup {"stderr"}
Levels == 0..1
AllOptions == [async_enabled : BOOLEAN, stderr_enabled : BOOLEAN,
               file_path : Files \cup {None}, min_level : Levels]

\* What LoggerConfig::ToOptions makes of a configuration that BuildLoggerConfig
\* accepts: every sink setting names at least one sink.
Options == {o \in AllOptions : o.stderr_enabled \/ o.file_path # None}
DefaultOptions ==
    [async_enabled |-> TRUE, stderr_enabled |-> TRUE, file_path |-> None, min_level |-> 0]

Init ==
    /\ options = DefaultOptions /\ next_options = DefaultOptions
    /\ file_stream = None /\ configures = 0
    /\ queue = <<>> /\ stopping = FALSE
    /\ mutex = None
    /\ worker = "loop" /\ batch = <<>>
    /\ pc = [w \in Writers |-> "idle"] /\ line = [w \in Writers |-> 0]
    /\ main = "idle"
    /\ fate = <<>>
    /\ disturbed = {} /\ lines = [s \in Sinks |-> <<>>]

-----------------------------------------------------------------------------
(* WriteUnlocked, shared by writers and worker *)

\* The lines whose second half, the file, is being written right now.
InFile ==
    {l \in Lines : \/ \E w \in Writers : pc[w] = "file" /\ line[w] = l
                   \/ worker = "file" /\ Head(batch) = l}

\* options_.stderr_enabled and the line on std::cerr; from here on the line is
\* disturbed if somebody else uses or replaces file_stream_.
ToStderr(l) ==
    /\ lines' = IF options.stderr_enabled
                THEN [lines EXCEPT !["stderr"] = Append(@, l)] ELSE lines
    /\ disturbed' = disturbed
         \cup (IF main = "stream" THEN {l} ELSE {})
         \cup (IF InFile # {} /\ file_stream # None THEN {l} \cup InFile ELSE {})

\* file_stream_.is_open() and the line in the file.
ToFile(l) ==
    /\ disturbed' = IF main = "stream" THEN disturbed \cup {l} ELSE disturbed
    /\ \/ /\ file_stream # None
          /\ lines' = [lines EXCEPT ![file_stream] = Append(@, l)]
       \/ /\ file_stream = None \/ l \in disturbed'
          /\ UNCHANGED lines

-----------------------------------------------------------------------------
(* Write *)

NextLine == Len(fate) + 1

\* The filter at the entry of Write.
Accepts(level) == level >= options.min_level

\* Write takes the mutex; w can only do so before the logger is destroyed.
Enter(w) ==
    /\ pc[w] = "idle" /\ mutex = None
    /\ NextLine \in Lines /\ main # "destroyed"

Filter(w, level) ==
    /\ Enter(w) /\ ~Accepts(level)
    /\ fate' = Append(fate, "filtered")
    /\ UNCHANGED <<configVars, queueVars, mutex, workerVars, pc, line, main, outVars>>

\* The asynchronous path.  A line that comes after ~LoggerImpl has set
\* stopping_ is "late": the worker may have left already.  notify_one needs no
\* step: the worker also looks at the queue every kFlushInterval.
Enqueue(w, level) ==
    /\ Enter(w) /\ Accepts(level) /\ options.async_enabled
    /\ queue' = Append(queue, NextLine)
    /\ fate' = Append(fate, IF stopping THEN "late" ELSE "queued")
    /\ UNCHANGED <<configVars, stopping, mutex, workerVars, pc, line, main, outVars>>

\* The synchronous path, under the mutex until the file is flushed.
WriteSync(w, level) ==
    /\ Enter(w) /\ Accepts(level) /\ ~options.async_enabled
    /\ mutex' = w /\ pc' = [pc EXCEPT ![w] = "stderr"]
    /\ line' = [line EXCEPT ![w] = NextLine]
    /\ fate' = Append(fate, "sync")
    /\ UNCHANGED <<configVars, queueVars, workerVars, main, outVars>>

SyncStderr(w) ==
    /\ pc[w] = "stderr"
    /\ ToStderr(line[w])
    /\ pc' = [pc EXCEPT ![w] = "file"]
    /\ UNCHANGED <<configVars, queueVars, mutex, workerVars, line, fate, main>>

SyncFile(w) ==
    /\ pc[w] = "file"
    /\ ToFile(line[w])
    /\ pc' = [pc EXCEPT ![w] = "idle"] /\ mutex' = None
    /\ UNCHANGED <<configVars, queueVars, workerVars, line, fate, main>>

-----------------------------------------------------------------------------
(* The worker: Run and WriteBatch *)

\* Mutant: the queue is only written out at shutdown.
TakeBatch_AtExit ==
    /\ worker = "loop" /\ mutex = None
    /\ queue # <<>> /\ stopping
    /\ batch' = queue /\ queue' = <<>>
    /\ worker' = "stderr"
    /\ UNCHANGED <<configVars, stopping, mutex, writerVars, main, outVars>>

\* wait_for returns and the queue is not empty: the whole queue becomes the
\* batch, and the mutex is released while the batch is written.
TakeBatch ==
    /\ worker = "loop" /\ mutex = None
    /\ queue # <<>>
    /\ batch' = queue /\ queue' = <<>>
    /\ worker' = "stderr"
    /\ UNCHANGED <<configVars, stopping, mutex, writerVars, main, outVars>>

BatchStderr ==
    /\ worker = "stderr"
    /\ ToStderr(Head(batch))
    /\ worker' = "file"
    /\ UNCHANGED <<configVars, queueVars, mutex, batch, writerVars, main>>

\* Mutant: batch.clear() is missing, so the last line is part of the next batch too.
BatchFile_KeepsBatch ==
    /\ worker = "file"
    /\ ToFile(Head(batch))
    /\ batch' = Tail(batch)
    /\ queue' = IF Len(batch) > 1 THEN queue ELSE batch \o queue
    /\ worker' = IF Len(batch) > 1 THEN "stderr" ELSE "loop"
    /\ UNCHANGED <<configVars, stopping, mutex, writerVars, main>>

\* After the last line of the batch Run takes the mutex again.
BatchFile ==
    /\ worker = "file"
    /\ ToFile(Head(batch))
    /\ batch' = Tail(batch)
    /\ worker' = IF batch' = <<>> THEN "loop" ELSE "stderr"
    /\ UNCHANGED <<configVars, queueVars, mutex, writerVars, main>>

\* Mutant: the loop ends as soon as stopping_ is set.
Exit_Early ==
    /\ worker = "loop" /\ mutex = None
    /\ stopping
    /\ worker' = "exited"
    /\ UNCHANGED <<configVars, queueVars, mutex, batch, writerVars, main, outVars>>

Exit ==
    /\ worker = "loop" /\ mutex = None
    /\ stopping /\ queue = <<>>
    /\ worker' = "exited"
    /\ UNCHANGED <<configVars, queueVars, mutex, batch, writerVars, main, outVars>>

-----------------------------------------------------------------------------
(* The main thread: Configure and ~LoggerImpl *)

BeginConfigure ==
    /\ main = "idle" /\ mutex = None
    /\ configures < MaxConfigures
    /\ configures' = configures + 1

\* The directory or the file cannot be created: Configure returns an error and
\* has changed nothing.
ConfigureFails(o) ==
    /\ BeginConfigure
    /\ o.file_path # None
    /\ UNCHANGED <<options, file_stream, next_options, queueVars, mutex, workerVars, writerVars,
                   main, outVars>>

\* The new file is open; the lock is held until both assignments are done.
Configure(o) ==
    /\ BeginConfigure
    /\ mutex' = "main" /\ main' = "options" /\ next_options' = o
    /\ UNCHANGED <<options, file_stream, queueVars, workerVars, writerVars, outVars>>

AssignOptions ==
    /\ main = "options" /\ main' = "stream"
    /\ options' = next_options
    /\ disturbed' = disturbed \cup InFile
    /\ UNCHANGED <<file_stream, next_options, configures, queueVars, mutex, workerVars,
                   writerVars, lines>>

\* Moving a stream that is not open closes the old one.
AssignStream ==
    /\ main = "stream" /\ main' = "idle"
    /\ file_stream' = next_options.file_path
    /\ mutex' = None
    /\ disturbed' = disturbed \cup InFile
    /\ UNCHANGED <<options, next_options, configures, queueVars, workerVars, writerVars, lines>>

\* ~LoggerImpl up to join().
Destroy ==
    /\ main = "idle" /\ mutex = None
    /\ stopping' = TRUE /\ main' = "join"
    /\ UNCHANGED <<configVars, queue, mutex, workerVars, writerVars, outVars>>

\* join() returns.
Joined ==
    /\ main = "join" /\ worker = "exited"
    /\ main' = "destroyed"
    /\ UNCHANGED <<configVars, queueVars, mutex, workerVars, writerVars, outVars>>

-----------------------------------------------------------------------------
WriterStep(w) == SyncStderr(w) \/ SyncFile(w)
WorkerStep == TakeBatch \/ BatchStderr \/ BatchFile \/ Exit
MainStep == AssignOptions \/ AssignStream \/ Joined

Write(w) == \E level \in Levels : Filter(w, level) \/ Enqueue(w, level) \/ WriteSync(w, level)
Main == Destroy \/ \E o \in Options : Configure(o) \/ ConfigureFails(o)

\* Everything has been said: the process is gone.
Ended == main = "destroyed" /\ (\A w \in Writers : pc[w] = "idle") /\ UNCHANGED vars

Next ==
    \/ \E w \in Writers : Write(w) \/ WriterStep(w)
    \/ WorkerStep \/ MainStep \/ Main \/ Ended

\* Threads inside the logger go on running; whether anybody calls it is open.
Fairness == WF_vars(WorkerStep) /\ WF_vars(MainStep) /\ \A w \in Writers : WF_vars(WriterStep(w))

Spec == Init /\ [][Next]_vars /\ Fairness

-----------------------------------------------------------------------------
(* Properties *)

Fates == {"filtered", "queued", "late", "sync"}

\* Every variable stays in its type.
TypeOK ==
    /\ options \in Options /\ next_options \in Options
    /\ file_stream \in Files \cup {None}
    /\ configures \in 0..MaxConfigures
    /\ queue \in Seq(Lines) /\ batch \in Seq(Lines)
    /\ stopping \in BOOLEAN
    /\ mutex \in Writers \cup {"main", None}
    /\ worker \in {"loop", "stderr", "file", "exited"}
    /\ pc \in [Writers -> {"idle", "stderr", "file"}]
    /\ line \in [Writers -> 0..MaxWrites]
    /\ main \in {"idle", "options", "stream", "join", "destroyed"}
    /\ fate \in Seq(Fates) /\ Len(fate) <= MaxWrites
    /\ disturbed \subseteq Lines
    /\ lines \in [Sinks -> Seq(Lines)]

Written(l) == \E s \in Sinks : Contains(lines[s], l)
Undisturbed(l) == l \notin disturbed

\* In every sink the lines of one mode stand in the order of their Write calls,
\* each once, whatever batches the worker makes of them and however often
\* Configure changes the mode.  (A synchronous line may overtake queued ones.)
InOrder ==
    \A s \in Sinks : \A i, j \in DOMAIN lines[s] :
        LET l == lines[s][i]  m == lines[s][j] IN
        i < j /\ (fate[l] = "sync" <=> fate[m] = "sync") => l < m

\* When ~LoggerImpl returns, every line that Write accepted before is in some
\* sink: the queue is drained, also what arrived while the last batch was being
\* written.  Only a line that Configure replaces the sinks under can be lost.
NothingLost ==
    main = "destroyed" =>
        \A l \in DOMAIN fate : fate[l] = "queued" /\ Undisturbed(l) => Written(l)

\* A queued line is written in the end, although nothing but the worker's own
\* loop makes it look at the queue again.
EventuallyWritten ==
    \A l \in Lines :
        (l \in DOMAIN fate /\ fate[l] = "queued") ~> (Written(l) \/ l \in disturbed)
=============================================================================
