------------------------------- MODULE Logger_proof -------------------------------
(***************************************************************************)
(* Proofs about the logger: the order of the lines in a sink, and that     *)
(* nothing accepted is lost, for any number of threads, files, calls of    *)
(* Write and calls of Configure.                                           *)
(***************************************************************************)
EXTENDS Logger, TLAPS

Sync(l) == fate[l] = "sync"
Active(w) == pc[w] # "idle"

\* Who holds the mutex, and what goes with each place of the three kinds of thread.
\* options_ and file_stream_ name the same file except between Configure's assignments.
Control ==
    /\ \A w \in Writers : Active(w) => mutex = w
    /\ main \in {"options", "stream"} => mutex = "main"
    /\ main # "stream" => file_stream = options.file_path
    /\ main = "stream" => options = next_options
    /\ worker \in {"loop", "exited"} <=> batch = <<>>
    /\ worker = "exited" => stopping
    /\ main = "destroyed" => worker = "exited"

\* Every line anywhere in the logger is one that Write has numbered, on its own path.
Known ==
    /\ \A i \in 1..Len(queue) : queue[i] \in 1..Len(fate) /\ ~Sync(queue[i])
    /\ \A i \in 1..Len(batch) : batch[i] \in 1..Len(fate) /\ ~Sync(batch[i])
    /\ \A w \in Writers : Active(w) => line[w] \in 1..Len(fate) /\ Sync(line[w])
    /\ \A s \in Sinks : \A i \in 1..Len(lines[s]) : lines[s][i] \in 1..Len(fate)

\* The lines that wait stand in order, those of the batch before those of the queue.
Waiting ==
    /\ \A i, j \in 1..Len(queue) : i < j => queue[i] < queue[j]
    /\ \A i, j \in 1..Len(batch) : i < j => batch[i] < batch[j]
    /\ \A i \in 1..Len(batch), j \in 1..Len(queue) : batch[i] < queue[j]

\* A line in a sink is older than the lines of its kind that are still to be written
\* there.  The line being written may be on std::cerr already.
OlderThanQueue(l) == ~Sync(l) => \A j \in 1..Len(queue) : l < queue[j]
OlderThanBatch(s, l) ==
    ~Sync(l) => \A j \in 1..Len(batch) :
        l < batch[j] \/ (worker = "file" /\ s = "stderr" /\ j = 1 /\ l = batch[j])
OlderThanWriters(s, l) ==
    Sync(l) => \A w \in Writers : Active(w) =>
        l < line[w] \/ (pc[w] = "file" /\ s = "stderr" /\ l = line[w])
Behind ==
    \A s \in Sinks : \A i \in 1..Len(lines[s]) :
        /\ OlderThanQueue(lines[s][i])
        /\ OlderThanBatch(s, lines[s][i])
        /\ OlderThanWriters(s, lines[s][i])

\* InOrder, in terms of positions.
Sorted ==
    \A s \in Sinks : \A i, j \in 1..Len(lines[s]) :
        i < j /\ (Sync(lines[s][i]) <=> Sync(lines[s][j])) => lines[s][i] < lines[s][j]

\* A queued line waits, or is written, or was disturbed; while its file is being written
\* the line is on std::cerr or there is a file to write it to.  When the worker has left,
\* only lines that came too late are in the queue.
Kept ==
    /\ \A l \in 1..Len(fate) : fate[l] = "queued" =>
         \/ \E i \in 1..Len(queue) : queue[i] = l
         \/ \E i \in 1..Len(batch) : batch[i] = l
         \/ Written(l) \/ l \in disturbed
    /\ worker = "file" => \/ Written(batch[1]) \/ file_stream # None \/ batch[1] \in disturbed
    /\ worker = "exited" => \A i \in 1..Len(queue) : fate[queue[i]] = "late"

OrderInv == TypeOK /\ Control /\ Known /\ Waiting /\ Behind /\ Sorted
LoggerInv == OrderInv /\ Kept

USE WritesAssumption, ConfiguresAssumption

\* The sinks after a step that may write line l to sink t.
Grown(t, l) ==
    \A s \in Sinks :
        /\ \A i \in 1..Len(lines[s]) : i \in 1..Len(lines'[s]) /\ lines'[s][i] = lines[s][i]
        /\ \A i \in 1..Len(lines'[s]) :
             i \in 1..Len(lines[s]) \/ (s = t /\ i = Len(lines[s]) + 1 /\ lines'[s][i] = l)

\* What each half of WriteUnlocked does to the sinks.
LEMMA WriteGrows ==
    ASSUME TypeOK, NEW l \in Lines, NEW t,
           lines' = lines \/ (t \in Sinks /\ lines' = [lines EXCEPT ![t] = Append(@, l)])
    PROVE  lines' \in [Sinks -> Seq(Lines)] /\ Grown(t, l)
<1>0. lines \in [Sinks -> Seq(Lines)]
  BY DEF TypeOK
<1>1. CASE lines' = lines
  BY <1>0, <1>1 DEF Grown
<1>2. CASE t \in Sinks /\ lines' = [lines EXCEPT ![t] = Append(@, l)]
  <2>1. lines[t] \in Seq(Lines) /\ Append(lines[t], l) \in Seq(Lines)
    BY <1>0, <1>2
  <2>2. lines'[t] = Append(lines[t], l) /\ \A s \in Sinks \ {t} : lines'[s] = lines[s]
    BY <1>0, <1>2
  <2>3. lines' \in [Sinks -> Seq(Lines)]
    BY <1>0, <1>2, <2>1
  <2>4. ASSUME NEW s \in Sinks
        PROVE  /\ \A i \in 1..Len(lines[s]) : i \in 1..Len(lines'[s]) /\ lines'[s][i] = lines[s][i]
               /\ \A i \in 1..Len(lines'[s]) :
                    i \in 1..Len(lines[s]) \/ (s = t /\ i = Len(lines[s]) + 1 /\ lines'[s][i] = l)
    <3>1. CASE s = t
      BY <2>1, <2>2, <3>1
    <3>2. CASE s # t
      BY <2>2, <3>2
    <3> QED BY <3>1, <3>2
  <2> QED BY <2>3, <2>4 DEF Grown
<1> QED BY <1>1, <1>2

\* The two halves of a line: std::cerr, then the file that is open.
LEMMA StderrWrites ==
    ASSUME TypeOK, NEW l \in Lines, ToStderr(l)
    PROVE  /\ lines' \in [Sinks -> Seq(Lines)] /\ Grown("stderr", l)
           /\ disturbed \subseteq disturbed' /\ disturbed' \subseteq Lines
           /\ (options.stderr_enabled => Written(l)') /\ (main = "stream" => l \in disturbed')
<1>1. "stderr" \in Sinks
  BY DEF Sinks
<1>2. lines' \in [Sinks -> Seq(Lines)] /\ Grown("stderr", l)
  <2>1. lines' = lines \/ lines' = [lines EXCEPT !["stderr"] = Append(@, l)]
    BY DEF ToStderr
  <2> QED BY <1>1, <2>1, WriteGrows
<1>3. disturbed \subseteq disturbed' /\ disturbed' \subseteq Lines /\ (main = "stream" => l \in disturbed')
  BY DEF ToStderr, TypeOK, InFile
<1>4. ASSUME options.stderr_enabled PROVE Written(l)'
  <2>1. lines["stderr"] \in Seq(Lines) /\ lines'["stderr"] = Append(lines["stderr"], l)
    BY <1>1, <1>4 DEF ToStderr, TypeOK
  <2>2. /\ Len(lines["stderr"]) + 1 \in 1..Len(lines'["stderr"])
        /\ lines'["stderr"][Len(lines["stderr"]) + 1] = l
    BY <2>1
  <2> QED BY <1>1, <2>2 DEF Written, Contains
<1> QED BY <1>2, <1>3, <1>4

\* What a write to the file changes, whether or not the stream is open and undisturbed.
LEMMA FileWrites ==
    ASSUME TypeOK, NEW l \in Lines, ToFile(l)
    PROVE  /\ lines' \in [Sinks -> Seq(Lines)]
           /\ \E t \in Files \cup {None} : Grown(t, l)
           /\ disturbed \subseteq disturbed' /\ disturbed' \subseteq Lines
           /\ Written(l)' \/ file_stream = None \/ l \in disturbed'
<1>1. lines' \in [Sinks -> Seq(Lines)] /\ Grown(file_stream, l) /\ file_stream \in Files \cup {None}
  <2>1. file_stream \in Files \cup {None} /\ (file_stream # None => file_stream \in Sinks)
    BY DEF TypeOK, Sinks
  <2>2. lines' = lines \/ (file_stream \in Sinks /\ lines' = [lines EXCEPT ![file_stream] = Append(@, l)])
    BY <2>1 DEF ToFile
  <2> QED BY <2>1, <2>2, WriteGrows
<1>2. disturbed \subseteq disturbed' /\ disturbed' \subseteq Lines
  BY DEF ToFile, TypeOK
<1>3. ASSUME file_stream # None, l \notin disturbed' PROVE Written(l)'
  <2>1. file_stream \in Sinks /\ lines' = [lines EXCEPT ![file_stream] = Append(@, l)]
    BY <1>3 DEF ToFile, TypeOK, Sinks
  <2>2. lines[file_stream] \in Seq(Lines) /\ lines'[file_stream] = Append(lines[file_stream], l)
    BY <2>1 DEF TypeOK
  <2>3. PICK s \in Sinks : s = file_stream
    BY <2>1
  <2>4. Len(lines[s]) + 1 \in 1..Len(lines'[s]) /\ lines'[s][Len(lines[s]) + 1] = l
    BY <2>2, <2>3
  <2> QED BY <2>4 DEF Written, Contains
<1> QED BY <1>1, <1>2, <1>3

\* What is written stays written.
LEMMA WrittenStays ==
    ASSUME NEW t, NEW l, Grown(t, l), NEW m, Written(m)
    PROVE  Written(m)'
BY DEF Grown, Written, Contains

\* A line written behind the lines of its kind leaves the sinks sorted.
LEMMA SortedGrows ==
    ASSUME Sorted, Known, lines \in [Sinks -> Seq(Lines)], lines' \in [Sinks -> Seq(Lines)],
           fate' = fate, NEW t, NEW l, Grown(t, l),
           t \in Sinks => \A i \in 1..Len(lines[t]) : (Sync(lines[t][i]) <=> Sync(l)) => lines[t][i] < l
    PROVE  Sorted'
<1> SUFFICES ASSUME NEW s \in Sinks, NEW i \in 1..Len(lines'[s]), NEW j \in 1..Len(lines'[s]), i < j,
                    Sync(lines'[s][i]) <=> Sync(lines'[s][j])
             PROVE  lines'[s][i] < lines'[s][j]
  BY DEF Sorted, Sync
<1>1. Len(lines[s]) \in Nat /\ Len(lines'[s]) \in Nat
  OBVIOUS
<1>2. CASE j \in 1..Len(lines[s])
  <2>1. i \in 1..Len(lines[s])
    BY <1>1, <1>2
  <2>2. lines'[s][i] = lines[s][i] /\ lines'[s][j] = lines[s][j]
    BY <1>2, <2>1 DEF Grown
  <2> QED BY <1>2, <2>1, <2>2 DEF Sorted
<1>3. CASE j \notin 1..Len(lines[s])
  <2>1. s = t /\ j = Len(lines[s]) + 1 /\ lines'[s][j] = l
    BY <1>3 DEF Grown
  <2>2. i \in 1..Len(lines[s])
    BY <1>1, <2>1
  <2>3. lines'[s][i] = lines[s][i]
    BY <2>2 DEF Grown
  <2> QED BY <2>1, <2>2, <2>3
<1> QED BY <1>2, <1>3

\* Numbering a line does not touch the order of the others.
LEMMA SortedKept ==
    ASSUME Sorted, lines' = lines,
           \A s \in Sinks : \A i \in 1..Len(lines[s]) : fate'[lines[s][i]] = fate[lines[s][i]]
    PROVE  Sorted'
<1> SUFFICES ASSUME NEW s \in Sinks, NEW i \in 1..Len(lines[s]), NEW j \in 1..Len(lines[s]), i < j,
                    fate'[lines[s][i]] = "sync" <=> fate'[lines[s][j]] = "sync"
             PROVE  lines[s][i] < lines[s][j]
  BY DEF Sorted, Sync
<1> QED BY DEF Sorted, Sync

\* Behind, line by line.
LEMMA BehindFrom ==
    ASSUME \A s \in Sinks : \A i \in 1..Len(lines'[s]) : \A l : l = lines'[s][i] =>
             OlderThanQueue(l)' /\ OlderThanBatch(s, l)' /\ OlderThanWriters(s, l)'
    PROVE  Behind'
BY DEF Behind, OlderThanQueue, OlderThanBatch, OlderThanWriters, Sync, Active

\* Write numbers the line.
LEMMA Numbered ==
    ASSUME TypeOK, NEW w \in Writers, Enter(w), NEW x \in Fates, fate' = Append(fate, x)
    PROVE  /\ fate' \in Seq(Fates) /\ Len(fate') = Len(fate) + 1 /\ Len(fate') <= MaxWrites
           /\ Len(fate) \in Nat /\ NextLine = Len(fate) + 1
           /\ NextLine \in Lines /\ NextLine \in 1..Len(fate') /\ fate'[NextLine] = x
           /\ \A l \in 1..Len(fate) : l \in 1..Len(fate') /\ fate'[l] = fate[l] /\ l < NextLine
<1>1. fate \in Seq(Fates) /\ Len(fate) \in Nat /\ NextLine \in Lines /\ NextLine = Len(fate) + 1
  BY DEF TypeOK, Enter, NextLine
<1>2. fate' \in Seq(Fates) /\ Len(fate') = Len(fate) + 1
  BY <1>1
<1>3. Len(fate) + 1 <= MaxWrites
  BY <1>1 DEF Lines
<1>4. fate'[Len(fate) + 1] = x /\ \A l \in 1..Len(fate) : fate'[l] = fate[l]
  BY <1>1
<1> HIDE DEF NextLine
<1> QED BY <1>1, <1>2, <1>3, <1>4

\* The filter: only the numbering moves.
LEMMA FilterStep ==
    ASSUME LoggerInv, NEW w \in Writers, NEW level \in Levels, Filter(w, level)
    PROVE  LoggerInv'
<1>0. TypeOK /\ Control /\ Known /\ Waiting /\ Behind /\ Sorted /\ Kept
  BY DEF LoggerInv, OrderInv
<1>1. /\ UNCHANGED <<options, file_stream, next_options, configures, queue, stopping, mutex, worker,
                     batch, pc, line, main, disturbed, lines>>
      /\ fate' = Append(fate, "filtered") /\ Enter(w)
  BY DEF Filter, configVars, queueVars, workerVars, outVars
<1>2. "filtered" \in Fates
  BY DEF Fates
<1>3. /\ fate' \in Seq(Fates) /\ Len(fate') = Len(fate) + 1 /\ Len(fate') <= MaxWrites
      /\ Len(fate) \in Nat /\ fate'[Len(fate) + 1] = "filtered"
      /\ \A l \in 1..Len(fate) : l \in 1..Len(fate') /\ fate'[l] = fate[l]
  BY <1>0, <1>1, <1>2, Numbered
<1>4. TypeOK'
  BY <1>0, <1>1, <1>3 DEF TypeOK
<1>5. Control'
  BY <1>0, <1>1 DEF Control, Active
<1>6. Known'
  BY <1>0, <1>1, <1>3 DEF Known, Active, Sync
<1>7. Waiting'
  BY <1>0, <1>1 DEF Waiting
<1>8. Behind'
  <2>1. ASSUME NEW s \in Sinks, NEW i \in 1..Len(lines'[s]), NEW l, l = lines'[s][i]
        PROVE  OlderThanQueue(l)' /\ OlderThanBatch(s, l)' /\ OlderThanWriters(s, l)'
    <3>1. /\ l = lines[s][i] /\ i \in 1..Len(lines[s]) /\ fate'[l] = fate[l]
          /\ OlderThanQueue(l) /\ OlderThanBatch(s, l) /\ OlderThanWriters(s, l)
      BY <1>0, <1>1, <1>3, <2>1 DEF Behind, Known
    <3> QED BY <1>1, <3>1 DEF OlderThanQueue, OlderThanBatch, OlderThanWriters, Sync, Active
  <2> QED BY <2>1, BehindFrom
<1>9. Sorted'
  BY <1>0, <1>1, <1>3, SortedKept DEF Known
<1>10. Kept'
  <2>1. ASSUME NEW l \in 1..Len(fate'), fate'[l] = "queued"
        PROVE  \/ \E i \in 1..Len(queue) : queue[i] = l
               \/ \E i \in 1..Len(batch) : batch[i] = l
               \/ Written(l) \/ l \in disturbed
    <3>1. l \in 1..Len(fate)
      BY <1>3, <2>1
    <3> QED BY <1>0, <1>3, <2>1, <3>1 DEF Kept
  <2>2. \A i \in 1..Len(queue) : fate'[queue[i]] = fate[queue[i]]
    BY <1>0, <1>3 DEF Known
  <2> QED BY <1>0, <1>1, <2>1, <2>2 DEF Kept, Written
<1> QED BY <1>4, <1>5, <1>6, <1>7, <1>8, <1>9, <1>10 DEF LoggerInv, OrderInv

\* The asynchronous path: the new line is younger than every other.
LEMMA EnqueueStep ==
    ASSUME LoggerInv, NEW w \in Writers, NEW level \in Levels, Enqueue(w, level)
    PROVE  LoggerInv'
<1>0. TypeOK /\ Control /\ Known /\ Waiting /\ Behind /\ Sorted /\ Kept
  BY DEF LoggerInv, OrderInv
<1>1. PICK x \in Fates, n \in {NextLine} :
        /\ UNCHANGED <<options, file_stream, next_options, configures, stopping, mutex, worker,
                       batch, pc, line, main, disturbed, lines>>
        /\ fate' = Append(fate, x) /\ Enter(w) /\ x # "sync" /\ n = NextLine
        /\ (stopping => x = "late") /\ queue' = Append(queue, n)
  BY DEF Enqueue, configVars, workerVars, outVars, Fates
<1>2. /\ fate' \in Seq(Fates) /\ Len(fate') = Len(fate) + 1 /\ Len(fate') <= MaxWrites
      /\ Len(fate) \in Nat /\ n = Len(fate) + 1 /\ n \in Lines /\ n \in 1..Len(fate') /\ fate'[n] = x
      /\ \A l \in 1..Len(fate) : l \in 1..Len(fate') /\ fate'[l] = fate[l] /\ l < n
  BY <1>0, <1>1, Numbered
<1>3. /\ queue \in Seq(Lines) /\ queue' \in Seq(Lines)
      /\ \A i \in 1..Len(queue) : i \in 1..Len(queue') /\ queue'[i] = queue[i]
      /\ \A i \in 1..Len(queue') : i \in 1..Len(queue) \/ (i = Len(queue) + 1 /\ queue'[i] = n)
      /\ Len(queue) + 1 \in 1..Len(queue') /\ Len(queue) \in Nat
  BY <1>0, <1>1, <1>2 DEF TypeOK
<1>4. TypeOK'
  BY <1>0, <1>1, <1>2, <1>3 DEF TypeOK
<1>5. Control'
  BY <1>0, <1>1 DEF Control, Active
<1>6. Known'
  <2>1. \A i \in 1..Len(queue') : queue'[i] \in 1..Len(fate') /\ fate'[queue'[i]] # "sync"
    BY <1>0, <1>1, <1>2, <1>3 DEF Known, Sync
  <2> QED BY <1>0, <1>1, <1>2, <2>1 DEF Known, Active, Sync
<1>7. Waiting'
  <2>1. ASSUME NEW i \in 1..Len(queue'), NEW j \in 1..Len(queue'), i < j PROVE queue'[i] < queue'[j]
    <3>1. i \in 1..Len(queue)
      BY <1>3, <2>1
    <3>2. CASE j \in 1..Len(queue)
      BY <1>0, <1>3, <2>1, <3>1, <3>2 DEF Waiting
    <3>3. CASE j \notin 1..Len(queue)
      BY <1>0, <1>2, <1>3, <3>1, <3>3 DEF Known
    <3> QED BY <3>2, <3>3
  <2>2. ASSUME NEW i \in 1..Len(batch), NEW j \in 1..Len(queue') PROVE batch[i] < queue'[j]
    BY <1>0, <1>2, <1>3 DEF Waiting, Known
  <2> QED BY <1>0, <1>1, <2>1, <2>2 DEF Waiting
<1>8. Behind'
  <2>1. ASSUME NEW s \in Sinks, NEW i \in 1..Len(lines'[s]), NEW l, l = lines'[s][i]
        PROVE  OlderThanQueue(l)' /\ OlderThanBatch(s, l)' /\ OlderThanWriters(s, l)'
    <3>1. /\ l = lines[s][i] /\ i \in 1..Len(lines[s]) /\ fate'[l] = fate[l] /\ l < n
          /\ OlderThanQueue(l) /\ OlderThanBatch(s, l) /\ OlderThanWriters(s, l)
      BY <1>0, <1>1, <1>2, <2>1 DEF Behind, Known
    <3>2. OlderThanQueue(l)'
      BY <1>3, <3>1 DEF OlderThanQueue, Sync
    <3> QED BY <1>1, <3>1, <3>2 DEF OlderThanBatch, OlderThanWriters, Sync, Active
  <2> QED BY <2>1, BehindFrom
<1>9. Sorted'
  BY <1>0, <1>1, <1>2, SortedKept DEF Known
<1>10. Kept'
  <2>1. ASSUME NEW l \in 1..Len(fate'), fate'[l] = "queued"
        PROVE  \/ \E i \in 1..Len(queue') : queue'[i] = l
               \/ \E i \in 1..Len(batch) : batch[i] = l
               \/ Written(l) \/ l \in disturbed
    <3>1. CASE l \in 1..Len(fate)
      BY <1>0, <1>2, <1>3, <2>1, <3>1 DEF Kept
    <3>2. CASE l = n
      BY <1>3, <3>2
    <3> QED BY <1>2, <3>1, <3>2
  <2>2. ASSUME worker = "exited", NEW i \in 1..Len(queue') PROVE fate'[queue'[i]] = "late"
    <3>1. CASE i \in 1..Len(queue)
      BY <1>0, <1>2, <1>3, <2>2, <3>1 DEF Kept, Known
    <3>2. CASE i \notin 1..Len(queue)
      BY <1>0, <1>1, <1>2, <1>3, <2>2, <3>2 DEF Control
    <3> QED BY <3>1, <3>2
  <2> QED BY <1>0, <1>1, <2>1, <2>2 DEF Kept, Written
<1> QED BY <1>4, <1>5, <1>6, <1>7, <1>8, <1>9, <1>10 DEF LoggerInv, OrderInv

\* The synchronous path begins: the mutex keeps every other writer out.
LEMMA WriteSyncStep ==
    ASSUME LoggerInv, NEW w \in Writers, NEW level \in Levels, WriteSync(w, level)
    PROVE  LoggerInv'
<1>0. TypeOK /\ Control /\ Known /\ Waiting /\ Behind /\ Sorted /\ Kept
  BY DEF LoggerInv, OrderInv
<1>1. PICK n :
        /\ UNCHANGED <<options, file_stream, next_options, configures, queue, stopping, worker,
                       batch, main, disturbed, lines>>
        /\ fate' = Append(fate, "sync") /\ Enter(w) /\ n = NextLine /\ mutex = None
        /\ mutex' = w /\ pc' = [pc EXCEPT ![w] = "stderr"] /\ line' = [line EXCEPT ![w] = n]
  BY DEF WriteSync, Enter, configVars, queueVars, workerVars, outVars
<1>2. "sync" \in Fates
  BY DEF Fates
<1>3. /\ fate' \in Seq(Fates) /\ Len(fate') = Len(fate) + 1 /\ Len(fate') <= MaxWrites
      /\ Len(fate) \in Nat /\ n = Len(fate) + 1 /\ n \in Lines /\ n \in 1..Len(fate') /\ fate'[n] = "sync"
      /\ \A l \in 1..Len(fate) : l \in 1..Len(fate') /\ fate'[l] = fate[l] /\ l < n
  BY <1>0, <1>1, <1>2, Numbered
<1>4. \A v \in Writers : ~Active(v)
  BY <1>0, <1>1, WritersAssumption DEF Control
<1>5. /\ pc'[w] = "stderr" /\ line'[w] = n
      /\ \A v \in Writers \ {w} : pc'[v] = "idle"
  BY <1>0, <1>1, <1>4 DEF TypeOK, Active
<1>6. TypeOK'
  <2>1. n \in 0..MaxWrites
    BY <1>3 DEF Lines
  <2> QED BY <1>0, <1>1, <1>3, <2>1 DEF TypeOK
<1>7. Control'
  <2>1. \A v \in Writers : pc'[v] # "idle" => mutex' = v
    BY <1>1, <1>5
  <2>2. main \notin {"options", "stream"}
    BY <1>0, <1>1, WritersAssumption DEF Control, Enter
  <2> QED BY <1>0, <1>1, <2>1, <2>2 DEF Control, Active
<1>8. Known'
  <2>1. \A v \in Writers : pc'[v] # "idle" => line'[v] \in 1..Len(fate') /\ fate'[line'[v]] = "sync"
    BY <1>3, <1>5
  <2> QED BY <1>0, <1>1, <1>3, <2>1 DEF Known, Active, Sync
<1>9. Waiting'
  BY <1>0, <1>1 DEF Waiting
<1>10. Behind'
  <2>1. ASSUME NEW s \in Sinks, NEW i \in 1..Len(lines'[s]), NEW l, l = lines'[s][i]
        PROVE  OlderThanQueue(l)' /\ OlderThanBatch(s, l)' /\ OlderThanWriters(s, l)'
    <3>1. /\ l = lines[s][i] /\ i \in 1..Len(lines[s]) /\ fate'[l] = fate[l] /\ l < n
          /\ OlderThanQueue(l) /\ OlderThanBatch(s, l)
      BY <1>0, <1>1, <1>3, <2>1 DEF Behind, Known
    <3>2. OlderThanWriters(s, l)'
      BY <1>5, <3>1 DEF OlderThanWriters, Active
    <3> QED BY <1>1, <3>1, <3>2 DEF OlderThanQueue, OlderThanBatch, Sync
  <2> QED BY <2>1, BehindFrom
<1>11. Sorted'
  BY <1>0, <1>1, <1>3, SortedKept DEF Known
<1>12. Kept'
  <2>1. ASSUME NEW l \in 1..Len(fate'), fate'[l] = "queued"
        PROVE  \/ \E i \in 1..Len(queue) : queue[i] = l
               \/ \E i \in 1..Len(batch) : batch[i] = l
               \/ Written(l) \/ l \in disturbed
    <3>1. l \in 1..Len(fate)
      BY <1>3, <2>1
    <3> QED BY <1>0, <1>3, <2>1, <3>1 DEF Kept
  <2>2. \A i \in 1..Len(queue) : fate'[queue[i]] = fate[queue[i]]
    BY <1>0, <1>3 DEF Known
  <2> QED BY <1>0, <1>1, <2>1, <2>2 DEF Kept, Written
<1> QED BY <1>6, <1>7, <1>8, <1>9, <1>10, <1>11, <1>12 DEF LoggerInv, OrderInv

\* The sinks after a line was written: what has to be shown of the new one.
LEMMA GrowsOrder ==
    ASSUME TypeOK, Known, Behind, lines' \in [Sinks -> Seq(Lines)], fate' = fate,
           NEW t, NEW l \in 1..Len(fate), Grown(t, l),
           NEW s \in Sinks, NEW i \in 1..Len(lines'[s]), NEW m, m = lines'[s][i]
    PROVE  /\ m \in 1..Len(fate)
           /\ \/ m = l /\ s = t
              \/ OlderThanQueue(m) /\ OlderThanBatch(s, m) /\ OlderThanWriters(s, m)
<1>1. CASE i \in 1..Len(lines[s])
  <2>1. m = lines[s][i]
    BY <1>1 DEF Grown
  <2> QED BY <1>1, <2>1 DEF Behind, Known
<1>2. CASE i \notin 1..Len(lines[s])
  BY <1>2 DEF Grown
<1> QED BY <1>1, <1>2

\* A synchronous line goes to std::cerr: it is the youngest of its kind.
LEMMA SyncStderrStep ==
    ASSUME LoggerInv, NEW w \in Writers, SyncStderr(w)
    PROVE  LoggerInv'
<1>0. TypeOK /\ Control /\ Known /\ Waiting /\ Behind /\ Sorted /\ Kept
  BY DEF LoggerInv, OrderInv
<1>1. PICK l : l = line[w]
  OBVIOUS
<1>2. /\ UNCHANGED <<options, file_stream, next_options, configures, queue, stopping, mutex, worker,
                     batch, line, fate, main>>
      /\ ToStderr(l) /\ pc[w] = "stderr" /\ pc' = [pc EXCEPT ![w] = "file"]
  BY <1>1 DEF SyncStderr, configVars, queueVars, workerVars
<1>3. l \in 1..Len(fate) /\ l \in Lines /\ Sync(l) /\ \A v \in Writers \ {w} : pc[v] = "idle"
  BY <1>0, <1>1, <1>2 DEF Known, Control, Active, TypeOK, Lines
<1>4. /\ lines' \in [Sinks -> Seq(Lines)] /\ Grown("stderr", l)
      /\ disturbed \subseteq disturbed' /\ disturbed' \subseteq Lines
  BY <1>0, <1>2, <1>3, StderrWrites
<1>5. pc'[w] = "file" /\ \A v \in Writers \ {w} : pc'[v] = "idle"
  BY <1>0, <1>2, <1>3 DEF TypeOK
<1>6. TypeOK'
  BY <1>0, <1>2, <1>4 DEF TypeOK
<1>7. Control'
  BY <1>0, <1>2, <1>5 DEF Control, Active
<1>8. ASSUME NEW s \in Sinks, NEW i \in 1..Len(lines'[s]), NEW m, m = lines'[s][i]
      PROVE  /\ m \in 1..Len(fate)
             /\ \/ m = l /\ s = "stderr"
                \/ OlderThanQueue(m) /\ OlderThanBatch(s, m) /\ OlderThanWriters(s, m)
  BY <1>0, <1>2, <1>3, <1>4, <1>8, GrowsOrder
<1>9. Known'
  <2>1. \A v \in Writers : pc'[v] # "idle" => line[v] \in 1..Len(fate) /\ fate[line[v]] = "sync"
    BY <1>1, <1>3, <1>5 DEF Sync
  <2> QED BY <1>0, <1>2, <1>8, <2>1 DEF Known, Active, Sync
<1>10. Waiting'
  BY <1>0, <1>2 DEF Waiting
<1>11. Behind'
  <2>1. ASSUME NEW s \in Sinks, NEW i \in 1..Len(lines'[s]), NEW m, m = lines'[s][i]
        PROVE  OlderThanQueue(m)' /\ OlderThanBatch(s, m)' /\ OlderThanWriters(s, m)'
    <3>1. CASE m = l /\ s = "stderr"
      BY <1>1, <1>2, <1>3, <1>5, <3>1 DEF OlderThanQueue, OlderThanBatch, OlderThanWriters, Sync, Active
    <3>2. CASE OlderThanQueue(m) /\ OlderThanBatch(s, m) /\ OlderThanWriters(s, m)
      <4>1. OlderThanWriters(s, m)'
        BY <1>2, <1>5, <3>2 DEF OlderThanWriters, Sync, Active
      <4> QED BY <1>2, <3>2, <4>1 DEF OlderThanQueue, OlderThanBatch, Sync
    <3> QED BY <1>8, <2>1, <3>1, <3>2
  <2> QED BY <2>1, BehindFrom
<1>12. Sorted'
  <2>1. \A i \in 1..Len(lines["stderr"]) :
          (Sync(lines["stderr"][i]) <=> Sync(l)) => lines["stderr"][i] < l
    BY <1>0, <1>1, <1>2, <1>3 DEF Behind, OlderThanWriters, Active, Sinks
  <2> QED BY <1>0, <1>2, <1>4, <2>1, SortedGrows DEF TypeOK
<1>13. Kept'
  <2>1. \A m : Written(m) => Written(m)'
    BY <1>4, WrittenStays
  <2> QED BY <1>0, <1>2, <1>4, <2>1 DEF Kept
<1> QED BY <1>6, <1>7, <1>9, <1>10, <1>11, <1>12, <1>13 DEF LoggerInv, OrderInv

\* Its file, and the end of Write.
LEMMA SyncFileStep ==
    ASSUME LoggerInv, NEW w \in Writers, SyncFile(w)
    PROVE  LoggerInv'
<1>0. TypeOK /\ Control /\ Known /\ Waiting /\ Behind /\ Sorted /\ Kept
  BY DEF LoggerInv, OrderInv
<1>1. PICK l : l = line[w]
  OBVIOUS
<1>2. /\ UNCHANGED <<options, file_stream, next_options, configures, queue, stopping, worker,
                     batch, line, fate, main>>
      /\ ToFile(l) /\ pc[w] = "file" /\ pc' = [pc EXCEPT ![w] = "idle"] /\ mutex' = None
  BY <1>1 DEF SyncFile, configVars, queueVars, workerVars
<1>3. /\ l \in 1..Len(fate) /\ l \in Lines /\ Sync(l) /\ mutex = w
      /\ \A v \in Writers \ {w} : pc[v] = "idle"
  BY <1>0, <1>1, <1>2 DEF Known, Control, Active, TypeOK, Lines
<1>4. PICK t \in Files \cup {None} :
        /\ lines' \in [Sinks -> Seq(Lines)] /\ Grown(t, l)
        /\ disturbed \subseteq disturbed' /\ disturbed' \subseteq Lines
  BY <1>0, <1>2, <1>3, FileWrites
<1>5. \A v \in Writers : pc'[v] = "idle"
  BY <1>0, <1>2, <1>3 DEF TypeOK
<1>6. TypeOK'
  BY <1>0, <1>2, <1>4 DEF TypeOK
<1>7. Control'
  <2>1. main \notin {"options", "stream"}
    BY <1>0, <1>3, WritersAssumption DEF Control
  <2> QED BY <1>0, <1>2, <1>5, <2>1 DEF Control, Active
<1>8. ASSUME NEW s \in Sinks, NEW i \in 1..Len(lines'[s]), NEW m, m = lines'[s][i]
      PROVE  /\ m \in 1..Len(fate)
             /\ \/ m = l /\ s = t
                \/ OlderThanQueue(m) /\ OlderThanBatch(s, m) /\ OlderThanWriters(s, m)
  BY <1>0, <1>2, <1>3, <1>4, <1>8, GrowsOrder
<1>9. Known'
  BY <1>0, <1>2, <1>5, <1>8 DEF Known, Active, Sync
<1>10. Waiting'
  BY <1>0, <1>2 DEF Waiting
<1>11. Behind'
  <2>1. ASSUME NEW s \in Sinks, NEW i \in 1..Len(lines'[s]), NEW m, m = lines'[s][i]
        PROVE  OlderThanQueue(m)' /\ OlderThanBatch(s, m)' /\ OlderThanWriters(s, m)'
    <3>1. OlderThanWriters(s, m)'
      BY <1>5 DEF OlderThanWriters, Active
    <3>2. CASE m = l /\ s = t
      BY <1>2, <1>3, <3>1, <3>2 DEF OlderThanQueue, OlderThanBatch, Sync
    <3>3. CASE OlderThanQueue(m) /\ OlderThanBatch(s, m)
      BY <1>2, <3>1, <3>3 DEF OlderThanQueue, OlderThanBatch, Sync
    <3> QED BY <1>8, <2>1, <3>2, <3>3
  <2> QED BY <2>1, BehindFrom
<1>12. Sorted'
  <2>1. t \in Sinks => \A i \in 1..Len(lines[t]) :
          (Sync(lines[t][i]) <=> Sync(l)) => lines[t][i] < l
    BY <1>0, <1>1, <1>2, <1>3, <1>4, SinksAssumption DEF Behind, OlderThanWriters, Active
  <2> QED BY <1>0, <1>2, <1>4, <2>1, SortedGrows DEF TypeOK
<1>13. Kept'
  <2>1. \A m : Written(m) => Written(m)'
    BY <1>4, WrittenStays
  <2> QED BY <1>0, <1>2, <1>4, <2>1 DEF Kept
<1> QED BY <1>6, <1>7, <1>9, <1>10, <1>11, <1>12, <1>13 DEF LoggerInv, OrderInv

\* The queue becomes the batch.
LEMMA TakeBatchStep ==
    ASSUME LoggerInv, TakeBatch
    PROVE  LoggerInv'
<1>0. TypeOK /\ Control /\ Known /\ Waiting /\ Behind /\ Sorted /\ Kept
  BY DEF LoggerInv, OrderInv
<1>1. /\ UNCHANGED <<options, file_stream, next_options, configures, stopping, mutex, pc, line, fate,
                     main, disturbed, lines>>
      /\ worker = "loop" /\ worker' = "stderr" /\ queue # <<>> /\ batch' = queue /\ queue' = <<>>
  BY DEF TakeBatch, configVars, writerVars, outVars
<1>2. batch = <<>> /\ Len(<<>>) = 0
  BY <1>0, <1>1 DEF Control
<1>3. TypeOK'
  BY <1>0, <1>1 DEF TypeOK
<1>4. Control'
  BY <1>0, <1>1 DEF Control, Active
<1>5. Known'
  BY <1>0, <1>1, <1>2 DEF Known, Active, Sync
<1>6. Waiting'
  BY <1>0, <1>1, <1>2 DEF Waiting
<1>7. Behind'
  <2>1. ASSUME NEW s \in Sinks, NEW i \in 1..Len(lines'[s]), NEW l, l = lines'[s][i]
        PROVE  OlderThanQueue(l)' /\ OlderThanBatch(s, l)' /\ OlderThanWriters(s, l)'
    <3>1. OlderThanQueue(l) /\ OlderThanWriters(s, l)
      BY <1>0, <1>1, <2>1 DEF Behind
    <3>2. OlderThanQueue(l)'
      BY <1>1, <1>2 DEF OlderThanQueue
    <3>3. OlderThanBatch(s, l)'
      BY <1>1, <3>1 DEF OlderThanQueue, OlderThanBatch, Sync
    <3>4. OlderThanWriters(s, l)'
      BY <1>1, <3>1 DEF OlderThanWriters, Sync, Active
    <3> QED BY <3>2, <3>3, <3>4
  <2> QED BY <2>1, BehindFrom
<1>8. Sorted'
  BY <1>0, <1>1 DEF Sorted, Sync
<1>9. Kept'
  BY <1>0, <1>1, <1>2 DEF Kept, Written
<1> QED BY <1>3, <1>4, <1>5, <1>6, <1>7, <1>8, <1>9 DEF LoggerInv, OrderInv

\* The next line of the batch goes to std::cerr.
LEMMA BatchStderrStep ==
    ASSUME LoggerInv, BatchStderr
    PROVE  LoggerInv'
<1>0. TypeOK /\ Control /\ Known /\ Waiting /\ Behind /\ Sorted /\ Kept
  BY DEF LoggerInv, OrderInv
<1>1. batch \in Seq(Lines) /\ batch # <<>> /\ worker = "stderr"
  BY <1>0 DEF BatchStderr, Control, TypeOK
<1>2. PICK l : l = batch[1]
  OBVIOUS
<1>3. Head(batch) = l /\ l \in Lines /\ 1 \in 1..Len(batch) /\ Len(batch) \in Nat
  BY <1>1, <1>2
<1>4. /\ UNCHANGED <<options, file_stream, next_options, configures, queue, stopping, mutex,
                     batch, pc, line, fate, main>>
      /\ ToStderr(l) /\ worker' = "file"
  BY <1>3 DEF BatchStderr, configVars, queueVars, writerVars
<1>5. l \in 1..Len(fate) /\ ~Sync(l)
  BY <1>0, <1>2, <1>3 DEF Known
<1>6. /\ lines' \in [Sinks -> Seq(Lines)] /\ Grown("stderr", l)
      /\ disturbed \subseteq disturbed' /\ disturbed' \subseteq Lines
      /\ (options.stderr_enabled => Written(l)') /\ (main = "stream" => l \in disturbed')
  BY <1>0, <1>3, <1>4, StderrWrites
<1>7. TypeOK'
  BY <1>0, <1>4, <1>6 DEF TypeOK
<1>8. Control'
  BY <1>0, <1>1, <1>4 DEF Control, Active
<1>9. ASSUME NEW s \in Sinks, NEW i \in 1..Len(lines'[s]), NEW m, m = lines'[s][i]
      PROVE  /\ m \in 1..Len(fate)
             /\ \/ m = l /\ s = "stderr"
                \/ OlderThanQueue(m) /\ OlderThanBatch(s, m) /\ OlderThanWriters(s, m)
  BY <1>0, <1>4, <1>5, <1>6, <1>9, GrowsOrder
<1>10. Known'
  BY <1>0, <1>4, <1>9 DEF Known, Active, Sync
<1>11. Waiting'
  BY <1>0, <1>4 DEF Waiting
<1>12. Behind'
  <2>1. ASSUME NEW s \in Sinks, NEW i \in 1..Len(lines'[s]), NEW m, m = lines'[s][i]
        PROVE  OlderThanQueue(m)' /\ OlderThanBatch(s, m)' /\ OlderThanWriters(s, m)'
    <3>1. CASE m = l /\ s = "stderr"
      <4>1. OlderThanQueue(m)'
        BY <1>0, <1>2, <1>3, <1>4, <3>1 DEF OlderThanQueue, Waiting, Sync
      <4>2. ASSUME NEW j \in 1..Len(batch), j # 1 PROVE l < batch[j]
        <5>1. 1 < j
          BY <1>3, <4>2
        <5> QED BY <1>0, <1>2, <1>3, <5>1 DEF Waiting
      <4>3. OlderThanBatch(s, m)'
        BY <1>2, <1>4, <3>1, <4>2 DEF OlderThanBatch, Sync
      <4>4. OlderThanWriters(s, m)'
        BY <1>4, <1>5, <3>1 DEF OlderThanWriters, Sync
      <4> QED BY <4>1, <4>3, <4>4
    <3>2. CASE OlderThanQueue(m) /\ OlderThanBatch(s, m) /\ OlderThanWriters(s, m)
      <4>1. OlderThanQueue(m)'
        BY <1>4, <3>2 DEF OlderThanQueue, Sync
      <4>2. OlderThanBatch(s, m)'
        BY <1>1, <1>4, <3>2 DEF OlderThanBatch, Sync
      <4>3. OlderThanWriters(s, m)'
        BY <1>4, <3>2 DEF OlderThanWriters, Sync, Active
      <4> QED BY <4>1, <4>2, <4>3
    <3> QED BY <1>9, <2>1, <3>1, <3>2
  <2> QED BY <2>1, BehindFrom
<1>13. Sorted'
  <2>1. \A i \in 1..Len(lines["stderr"]) :
          (Sync(lines["stderr"][i]) <=> Sync(l)) => lines["stderr"][i] < l
    BY <1>0, <1>1, <1>2, <1>3, <1>5 DEF Behind, OlderThanBatch, Sinks
  <2> QED BY <1>0, <1>4, <1>6, <2>1, SortedGrows DEF TypeOK
<1>14. Kept'
  <2>1. \A m : Written(m) => Written(m)'
    BY <1>6, WrittenStays
  <2>2. Written(l)' \/ file_stream # None \/ l \in disturbed'
    <3>1. options.stderr_enabled \/ options.file_path # None
      BY <1>0 DEF TypeOK, Options
    <3> QED BY <1>0, <1>6, <3>1 DEF Control
  <2>3. Written(batch[1])' <=> Written(l)'
    BY <1>2, <1>4 DEF Written
  <2> QED BY <1>0, <1>2, <1>4, <1>6, <2>1, <2>2, <2>3 DEF Kept
<1> QED BY <1>7, <1>8, <1>10, <1>11, <1>12, <1>13, <1>14 DEF LoggerInv, OrderInv

\* Its file, and the step to the next line or back to the queue.
LEMMA BatchFileStep ==
    ASSUME LoggerInv, BatchFile
    PROVE  LoggerInv'
<1>0. TypeOK /\ Control /\ Known /\ Waiting /\ Behind /\ Sorted /\ Kept
  BY DEF LoggerInv, OrderInv
<1>1. batch \in Seq(Lines) /\ batch # <<>> /\ worker = "file"
  BY <1>0 DEF BatchFile, Control, TypeOK
<1>2. PICK l : l = batch[1]
  OBVIOUS
<1>3. Head(batch) = l /\ l \in Lines /\ 1 \in 1..Len(batch) /\ Len(batch) \in Nat
  BY <1>1, <1>2
<1>4. /\ UNCHANGED <<options, file_stream, next_options, configures, queue, stopping, mutex,
                     pc, line, fate, main>>
      /\ ToFile(l) /\ batch' = Tail(batch) /\ worker' \in {"loop", "stderr"}
      /\ (worker' = "loop" <=> batch' = <<>>)
  BY <1>3 DEF BatchFile, configVars, queueVars, writerVars
<1>5. /\ batch' \in Seq(Lines) /\ Len(batch') = Len(batch) - 1
      /\ \A j \in 1..Len(batch') : j + 1 \in 1..Len(batch) /\ 1 < j + 1 /\ j + 1 # 1 /\ batch'[j] = batch[j + 1]
      /\ \A j \in 1..Len(batch) : j = 1 \/ (j - 1 \in 1..Len(batch') /\ batch'[j - 1] = batch[j])
  BY <1>1, <1>3, <1>4
<1>6. l \in 1..Len(fate) /\ ~Sync(l)
  BY <1>0, <1>2, <1>3 DEF Known
<1>7. PICK t \in Files \cup {None} :
        /\ lines' \in [Sinks -> Seq(Lines)] /\ Grown(t, l)
        /\ disturbed \subseteq disturbed' /\ disturbed' \subseteq Lines
        /\ Written(l)' \/ file_stream = None \/ l \in disturbed'
  BY <1>0, <1>3, <1>4, FileWrites
<1>8. TypeOK'
  BY <1>0, <1>4, <1>5, <1>7 DEF TypeOK
<1>9. Control'
  BY <1>0, <1>1, <1>4 DEF Control, Active
<1>10. ASSUME NEW s \in Sinks, NEW i \in 1..Len(lines'[s]), NEW m, m = lines'[s][i]
       PROVE  /\ m \in 1..Len(fate)
              /\ \/ m = l /\ s = t
                 \/ OlderThanQueue(m) /\ OlderThanBatch(s, m) /\ OlderThanWriters(s, m)
  BY <1>0, <1>4, <1>6, <1>7, <1>10, GrowsOrder
<1>11. Known'
  <2>1. \A j \in 1..Len(batch') : batch'[j] \in 1..Len(fate) /\ ~Sync(batch'[j])
    BY <1>0, <1>5 DEF Known
  <2> QED BY <1>0, <1>4, <1>10, <2>1 DEF Known, Active, Sync
<1>12. Waiting'
  <2>1. ASSUME NEW i \in 1..Len(batch'), NEW j \in 1..Len(batch'), i < j PROVE batch'[i] < batch'[j]
    <3>1. i + 1 \in 1..Len(batch) /\ j + 1 \in 1..Len(batch) /\ i + 1 < j + 1
      BY <1>5, <2>1
    <3> QED BY <1>0, <1>5, <3>1 DEF Waiting
  <2>2. \A i \in 1..Len(batch'), j \in 1..Len(queue) : batch'[i] < queue[j]
    BY <1>0, <1>5 DEF Waiting
  <2> QED BY <1>0, <1>4, <2>1, <2>2 DEF Waiting
<1>13. Behind'
  <2>1. ASSUME NEW s \in Sinks, NEW i \in 1..Len(lines'[s]), NEW m, m = lines'[s][i]
        PROVE  OlderThanQueue(m)' /\ OlderThanBatch(s, m)' /\ OlderThanWriters(s, m)'
    <3>1. CASE m = l /\ s = t
      <4>1. OlderThanQueue(m)'
        BY <1>0, <1>2, <1>3, <1>4, <3>1 DEF OlderThanQueue, Waiting, Sync
      <4>2. OlderThanBatch(s, m)'
        BY <1>0, <1>2, <1>3, <1>5, <3>1 DEF OlderThanBatch, Waiting
      <4>3. OlderThanWriters(s, m)'
        BY <1>4, <1>6, <3>1 DEF OlderThanWriters, Sync
      <4> QED BY <4>1, <4>2, <4>3
    <3>2. CASE OlderThanQueue(m) /\ OlderThanBatch(s, m) /\ OlderThanWriters(s, m)
      <4>1. OlderThanQueue(m)'
        BY <1>4, <3>2 DEF OlderThanQueue, Sync
      <4>2. OlderThanBatch(s, m)'
        BY <1>4, <1>5, <3>2 DEF OlderThanBatch, Sync
      <4>3. OlderThanWriters(s, m)'
        BY <1>4, <3>2 DEF OlderThanWriters, Sync, Active
      <4> QED BY <4>1, <4>2, <4>3
    <3> QED BY <1>10, <2>1, <3>1, <3>2
  <2> QED BY <2>1, BehindFrom
<1>14. Sorted'
  <2>1. t \in Sinks => \A i \in 1..Len(lines[t]) :
          (Sync(lines[t][i]) <=> Sync(l)) => lines[t][i] < l
    BY <1>0, <1>2, <1>3, <1>6, <1>7, SinksAssumption DEF Behind, OlderThanBatch
  <2> QED BY <1>0, <1>4, <1>7, <2>1, SortedGrows DEF TypeOK
<1>15. Kept'
  <2>1. \A m : Written(m) => Written(m)'
    BY <1>7, WrittenStays
  <2>2. Written(l)' \/ l \in disturbed'
    BY <1>0, <1>1, <1>2, <1>7, <2>1 DEF Kept
  <2>3. ASSUME NEW m \in 1..Len(fate), fate[m] = "queued"
        PROVE  \/ \E i \in 1..Len(queue) : queue[i] = m
               \/ \E i \in 1..Len(batch') : batch'[i] = m
               \/ Written(m)' \/ m \in disturbed'
    <3>1. CASE \E i \in 1..Len(batch) : batch[i] = m
      <4>1. PICK i \in 1..Len(batch) : batch[i] = m
        BY <3>1
      <4>2. CASE i = 1
        <5>1. m = l
          BY <1>2, <4>1, <4>2
        <5> QED BY <2>2, <5>1
      <4>3. CASE i # 1
        BY <1>5, <4>1, <4>3
      <4> QED BY <4>2, <4>3
    <3> QED BY <1>0, <1>7, <2>1, <2>3, <3>1 DEF Kept
  <2> QED BY <1>4, <2>3 DEF Kept
<1> QED BY <1>8, <1>9, <1>11, <1>12, <1>13, <1>14, <1>15 DEF LoggerInv, OrderInv

\* The worker leaves, and the main thread's steps: no line moves.
LEMMA QuietStep ==
    ASSUME LoggerInv,
           \/ Exit \/ AssignOptions \/ AssignStream \/ Joined \/ Destroy
           \/ \E o \in Options : Configure(o) \/ ConfigureFails(o)
    PROVE  LoggerInv'
<1>0. TypeOK /\ Control /\ Known /\ Waiting /\ Behind /\ Sorted /\ Kept
  BY DEF LoggerInv, OrderInv
<1>1. UNCHANGED <<queue, batch, pc, line, fate, lines>>
      /\ (worker' = worker \/ (worker = "loop" /\ worker' = "exited" /\ queue = <<>>))
  BY DEF Exit, AssignOptions, AssignStream, Joined, Destroy, Configure, ConfigureFails,
         configVars, queueVars, workerVars, writerVars, outVars
<1>2. disturbed \subseteq disturbed' /\ disturbed' \subseteq Lines
  BY <1>0 DEF Exit, AssignOptions, AssignStream, Joined, Destroy, Configure, ConfigureFails,
         outVars, InFile, TypeOK
<1>3. TypeOK'
  <2>1. CASE Exit \/ Joined \/ Destroy
    BY <1>0, <2>1 DEF Exit, Joined, Destroy, TypeOK, configVars, queueVars, workerVars, writerVars, outVars
  <2>2. CASE AssignOptions \/ AssignStream
    <3>1. next_options.file_path \in Files \cup {None}
      BY <1>0 DEF TypeOK, Options, AllOptions
    <3> QED BY <1>0, <1>1, <1>2, <2>2, <3>1
            DEF AssignOptions, AssignStream, TypeOK, queueVars, workerVars, writerVars
  <2>3. CASE \E o \in Options : Configure(o) \/ ConfigureFails(o)
    <3>1. configures' \in 0..MaxConfigures
      BY <1>0, <2>3 DEF TypeOK, Configure, ConfigureFails, BeginConfigure
    <3> QED BY <1>0, <1>1, <2>3, <3>1
            DEF Configure, ConfigureFails, TypeOK, queueVars, workerVars, writerVars, outVars
  <2> QED BY <2>1, <2>2, <2>3
<1>4. Control'
  <2>1. CASE Exit \/ Joined \/ Destroy
    BY <1>0, <2>1 DEF Exit, Joined, Destroy, Control, Active, configVars, queueVars, workerVars, writerVars
  <2>2. CASE AssignOptions \/ AssignStream
    BY <1>0, <2>2, WritersAssumption
       DEF AssignOptions, AssignStream, Control, Active, queueVars, workerVars, writerVars
  <2>3. CASE \E o \in Options : Configure(o) \/ ConfigureFails(o)
    BY <1>0, <2>3, WritersAssumption
       DEF Configure, ConfigureFails, BeginConfigure, Control, Active, queueVars, workerVars, writerVars
  <2> QED BY <2>1, <2>2, <2>3
<1>5. Known'
  BY <1>0, <1>1 DEF Known, Active, Sync
<1>6. Waiting'
  BY <1>0, <1>1 DEF Waiting
<1>7. Behind'
  <2>1. worker' = "file" <=> worker = "file"
    BY <1>1
  <2>2. ASSUME NEW s \in Sinks, NEW i \in 1..Len(lines'[s]), NEW l, l = lines'[s][i]
        PROVE  OlderThanQueue(l)' /\ OlderThanBatch(s, l)' /\ OlderThanWriters(s, l)'
    <3>1. OlderThanQueue(l) /\ OlderThanBatch(s, l) /\ OlderThanWriters(s, l)
      BY <1>0, <1>1, <2>2 DEF Behind
    <3> QED BY <1>1, <2>1, <3>1 DEF OlderThanQueue, OlderThanBatch, OlderThanWriters, Sync, Active
  <2> QED BY <2>2, BehindFrom
<1>8. Sorted'
  BY <1>0, <1>1 DEF Sorted, Sync
<1>9. Kept'
  <2>1. ASSUME worker' = "file" PROVE Written(batch[1]) \/ file_stream' # None \/ batch[1] \in disturbed'
    <3>0. worker = "file"
      BY <1>1, <2>1
    <3>1. CASE file_stream' = file_stream
      BY <1>0, <1>2, <3>0, <3>1 DEF Kept
    <3>2. CASE AssignStream
      <4>1. batch \in Seq(Lines) /\ batch # <<>>
        BY <1>0, <3>0 DEF TypeOK, Control
      <4>2. Head(batch) = batch[1] /\ batch[1] \in Lines
        BY <4>1
      <4>3. batch[1] \in InFile
        BY <3>0, <4>2 DEF InFile
      <4> QED BY <3>2, <4>3 DEF AssignStream
    <3> QED BY <3>1, <3>2 DEF Exit, AssignOptions, Joined, Destroy, Configure, ConfigureFails, configVars
  <2>2. ASSUME worker' = "exited", NEW i \in 1..Len(queue) PROVE fate[queue[i]] = "late"
    <3>1. Len(<<>>) = 0
      OBVIOUS
    <3> QED BY <1>0, <1>1, <2>2, <3>1 DEF Kept
  <2> QED BY <1>0, <1>1, <1>2, <2>1, <2>2 DEF Kept, Written
<1> QED BY <1>3, <1>4, <1>5, <1>6, <1>7, <1>8, <1>9 DEF LoggerInv, OrderInv

\* A step outside the logger keeps its invariant.
LEMMA LoggerStutter ==
    ASSUME LoggerInv, UNCHANGED vars
    PROVE  LoggerInv'
<1> USE DEF vars, configVars, queueVars, workerVars, writerVars, outVars
<1>1. TypeOK' /\ Control' /\ Known' /\ Waiting' /\ Sorted' /\ Kept'
  BY DEF LoggerInv, OrderInv, TypeOK, Control, Known, Waiting, Sorted, Kept, Sync, Active, Written
<1>2. Behind'
  BY DEF LoggerInv, OrderInv, Behind, OlderThanQueue, OlderThanBatch, OlderThanWriters, Sync, Active
<1> QED BY <1>1, <1>2 DEF LoggerInv, OrderInv

\* A new logger has written nothing and holds nothing.
LEMMA LoggerInit == Init => LoggerInv
<1> SUFFICES ASSUME Init PROVE LoggerInv
  OBVIOUS
<1>1. Len(<<>>) = 0 /\ \A S : <<>> \in Seq(S)
  OBVIOUS
<1>2. TypeOK
  <2>1. DefaultOptions \in Options
    BY DEF DefaultOptions, Options, AllOptions, Levels
  <2>2. pc \in [Writers -> {"idle", "stderr", "file"}] /\ line \in [Writers -> 0..MaxWrites]
    BY DEF Init
  <2>3. lines \in [Sinks -> Seq(Lines)] /\ fate \in Seq(Fates) /\ Len(fate) <= MaxWrites
    BY <1>1 DEF Init
  <2>4. queue \in Seq(Lines) /\ batch \in Seq(Lines) /\ configures \in 0..MaxConfigures
    BY <1>1 DEF Init
  <2> QED BY <2>1, <2>2, <2>3, <2>4 DEF Init, TypeOK
<1>3. Control
  BY DEF Init, Control, Active, DefaultOptions
<1>4. Known /\ Waiting /\ Sorted /\ Kept /\ Behind
  BY <1>1 DEF Init, Known, Waiting, Sorted, Kept, Behind, Active
<1> QED BY <1>2, <1>3, <1>4 DEF LoggerInv, OrderInv

\* Every step keeps the invariant of the logger.
LEMMA LoggerStep ==
    ASSUME LoggerInv, [Next]_vars
    PROVE  LoggerInv'
<1>1. ASSUME NEW w \in Writers, Write(w) \/ WriterStep(w) PROVE LoggerInv'
  BY <1>1, FilterStep, EnqueueStep, WriteSyncStep, SyncStderrStep, SyncFileStep DEF Write, WriterStep
<1>2. CASE WorkerStep
  BY <1>2, TakeBatchStep, BatchStderrStep, BatchFileStep, QuietStep DEF WorkerStep
<1>3. CASE MainStep \/ Main
  BY <1>3, QuietStep DEF MainStep, Main
<1>4. CASE Ended \/ UNCHANGED vars
  BY <1>4, LoggerStutter DEF Ended
<1> QED BY <1>1, <1>2, <1>3, <1>4 DEF Next

\* The inductive invariant: where the lines stand in the queue, the batch and the sinks.
THEOREM Invariance == Spec => []LoggerInv
BY LoggerInit, LoggerStep, PTL DEF Spec

\* Every variable of the logger stays in its type.
THEOREM TypeCorrect == Spec => []TypeOK
<1>1. LoggerInv => TypeOK
  BY DEF LoggerInv, OrderInv
<1> QED BY <1>1, Invariance, PTL

\* In every sink the lines of one mode stand in the order of their Write calls, each once,
\* for any number of writers and any changes of configuration.
THEOREM LinesStayInOrder == Spec => []InOrder
<1>1. LoggerInv => InOrder
  <2> SUFFICES ASSUME LoggerInv, NEW s \in Sinks, NEW i \in DOMAIN lines[s], NEW j \in DOMAIN lines[s],
                      i < j, fate[lines[s][i]] = "sync" <=> fate[lines[s][j]] = "sync"
               PROVE  lines[s][i] < lines[s][j]
    BY DEF InOrder
  <2>1. DOMAIN lines[s] = 1..Len(lines[s]) /\ Sorted
    BY DEF LoggerInv, OrderInv, TypeOK
  <2> QED BY <2>1 DEF Sorted, Sync
<1> QED BY <1>1, Invariance, PTL

\* When ~LoggerImpl returns, every line that Write accepted before it is in some sink, unless
\* Configure replaced the sinks under it.
THEOREM NoLineIsLost == Spec => []NothingLost
<1>1. LoggerInv => NothingLost
  <2> SUFFICES ASSUME LoggerInv, main = "destroyed", NEW l \in DOMAIN fate, fate[l] = "queued", Undisturbed(l)
               PROVE  Written(l)
    BY DEF NothingLost
  <2>1. l \in 1..Len(fate) /\ Kept /\ Control
    BY DEF LoggerInv, OrderInv, TypeOK
  <2>2. worker = "exited" /\ batch = <<>> /\ \A i \in 1..Len(queue) : fate[queue[i]] = "late"
    BY <2>1 DEF Control, Kept
  <2>3. Len(<<>>) = 0
    OBVIOUS
  <2> QED BY <2>1, <2>2, <2>3 DEF Kept, Undisturbed
<1> QED BY <1>1, Invariance, PTL
=============================================================================
