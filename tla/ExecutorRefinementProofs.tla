--------------------- MODULE ExecutorRefinementProofs ---------------------
(***************************************************************************)
(* RunBuild implements the controller's view of a task (ViewSpec), for    *)
(* every command list and every value of the constants.                    *)
(***************************************************************************)
EXTENDS ExecutorHistoryProofs

(***************************************************************************)
(* The stream: what the controller has received followed by what the      *)
(* batcher still holds, in the order a successful flush will deliver it. *)
(* Flushes only move results from the buffer into sent, so the stream    *)
(* changes only when a result is queued.                                   *)
(***************************************************************************)
Stream == sent \o buffer

\* The last position of the command list the loop has reached.
Reached == IF phase = "step" THEN pc + 1 ELSE pc

(***************************************************************************)
(* The inductive invariant of the refinement.  Deliver asks that what the *)
(* controller holds is well formed after every flush; a flush may carry  *)
(* any part of what was queued, so the invariant says it of the whole    *)
(* stream.  To keep it when the batcher coalesces or appends a result, it *)
(* says that the stream holds only commands the loop has reached, and     *)
(* that the command of a step state has at most its EXECUTING result in  *)
(* the stream.  Before the loop nothing is buffered and, until the        *)
(* response arrives, the command list is empty.                            *)
(***************************************************************************)
StreamInv ==
    /\ HistInv
    /\ ReportedInv
    /\ phase = "fetch" => response = NoResponse
    /\ phase \in {"fetch", "unbox"} => buffer = << >>
    /\ View!WellFormedIn(response.commands, Stream)
    /\ phase \in {"loop", "step"} =>
          \A i \in DOMAIN Stream : PosIn(response.commands, Stream[i].name) <= Reached
    /\ phase = "step" =>
          \A i \in DOMAIN Stream :
             Stream[i].name = Current.name => Stream[i].status = "EXECUTING"

(***************************************************************************)
(* Lemmas on the stream's operators.                                       *)
(***************************************************************************)
\* A result appended to the buffer is appended to the stream.
LEMMA StreamAppend ==
    ASSUME NEW s \in Seq(ResultRecords), NEW b \in Seq(ResultRecords),
           NEW r \in ResultRecords
    PROVE  s \o Append(b, r) = Append(s \o b, r)
<1>1. Append(b, r) = b \o << r >> /\ Append(s \o b, r) = (s \o b) \o << r >>
  BY ConcatProperties, AppendIsConcat
<1>2. << r >> \in Seq(ResultRecords)
  OBVIOUS
<1>3. QED
  BY <1>1, <1>2, ConcatAssociative

\* ExceptSeq over results.
LEMMA ExceptResults ==
    ASSUME NEW q \in Seq(ResultRecords), NEW i \in 1..Len(q), NEW e \in ResultRecords
    PROVE  /\ [q EXCEPT ![i] = e] \in Seq(ResultRecords)
           /\ Len([q EXCEPT ![i] = e]) = Len(q)
           /\ \A k \in 1..Len(q) : [q EXCEPT ![i] = e][k] = IF k = i THEN e ELSE q[k]
BY ExceptSeq

\* A result that replaces the j-th buffered one replaces it in the stream.
LEMMA StreamReplace ==
    ASSUME NEW s \in Seq(ResultRecords), NEW b \in Seq(ResultRecords),
           NEW r \in ResultRecords, NEW j \in 1..Len(b)
    PROVE  s \o [b EXCEPT ![j] = r] = [s \o b EXCEPT ![Len(s) + j] = r]
<1> DEFINE b2 == [b EXCEPT ![j] = r]
           sb == s \o b
<1>1. /\ b2 \in Seq(ResultRecords) /\ Len(b2) = Len(b)
      /\ \A k \in 1..Len(b) : b2[k] = IF k = j THEN r ELSE b[k]
  BY ExceptResults
<1>2. /\ Len(s \o b2) = Len(s) + Len(b)
      /\ \A i \in 1..(Len(s) + Len(b)) :
            (s \o b2)[i] = IF i <= Len(s) THEN s[i] ELSE b2[i - Len(s)]
      /\ s \o b2 \in Seq(ResultRecords)
  BY <1>1, ConcatProperties
<1>3. /\ Len(sb) = Len(s) + Len(b)
      /\ \A i \in 1..(Len(s) + Len(b)) :
            sb[i] = IF i <= Len(s) THEN s[i] ELSE b[i - Len(s)]
      /\ sb \in Seq(ResultRecords)
      /\ Len(s) + j \in 1..Len(sb)
  BY ConcatProperties
<1> HIDE DEF sb
<1>4. /\ [sb EXCEPT ![Len(s) + j] = r] \in Seq(ResultRecords)
      /\ Len([sb EXCEPT ![Len(s) + j] = r]) = Len(sb)
      /\ \A k \in 1..Len(sb) :
            [sb EXCEPT ![Len(s) + j] = r][k] = IF k = Len(s) + j THEN r ELSE sb[k]
  BY <1>3, ExceptResults
<1>5. \A i \in 1..Len(s \o b2) : (s \o b2)[i] = [sb EXCEPT ![Len(s) + j] = r][i]
  BY <1>1, <1>2, <1>3, <1>4
<1> DEFINE lhs == s \o b2
           rhs == [sb EXCEPT ![Len(s) + j] = r]
<1>6. /\ lhs \in Seq(ResultRecords) /\ rhs \in Seq(ResultRecords)
      /\ Len(lhs) = Len(rhs)
      /\ \A i \in 1..Len(lhs) : lhs[i] = rhs[i]
  BY <1>2, <1>3, <1>4, <1>5
<1> HIDE DEF lhs, rhs, b2
<1>7. lhs = rhs
  BY <1>6, SeqEqual
<1>8. QED
  BY <1>7 DEF sb, lhs, rhs, b2

\* Nothing delivered is vacuously well formed.
LEMMA WellFormedEmpty ==
    ASSUME NEW cs
    PROVE  View!WellFormedIn(cs, << >>)
BY DEF View!WellFormedIn

\* What the controller holds is a prefix of the stream, and a prefix of a
\* well-formed sequence is well formed.
LEMMA WellFormedPrefix ==
    ASSUME NEW cs, NEW s \in Seq(ResultRecords), NEW t \in Seq(ResultRecords),
           View!WellFormedIn(cs, s \o t)
    PROVE  View!WellFormedIn(cs, s)
<1>1. /\ Len(s \o t) = Len(s) + Len(t)
      /\ \A i \in 1..Len(s) : (s \o t)[i] = s[i]
  BY ConcatProperties
<1>2. DOMAIN s \subseteq DOMAIN (s \o t)
  BY <1>1
<1>3. QED
  BY <1>1, <1>2 DEF View!WellFormedIn

\* Appending the result of the last command reached keeps the stream well
\* formed, if it is the end of a command whose earlier results were its
\* EXECUTING, or the first result of its command.
LEMMA WellFormedAppend ==
    ASSUME NEW cs, NEW S \in Seq(ResultRecords), NEW r \in ResultRecords,
           View!WellFormedIn(cs, S),
           \E j \in DOMAIN cs : cs[j].name = r.name,
           \A i \in DOMAIN S : View!IndexIn(cs, S[i].name) <= View!IndexIn(cs, r.name),
           \A i \in DOMAIN S : S[i].name = r.name =>
                 S[i].status = "EXECUTING" /\ r.status \in {"COMPLETED", "FAILED"}
    PROVE  View!WellFormedIn(cs, Append(S, r))
<1> DEFINE S2 == Append(S, r)
<1>1. /\ Len(S2) = Len(S) + 1
      /\ \A i \in 1..Len(S) : S2[i] = S[i]
      /\ S2[Len(S) + 1] = r
      /\ DOMAIN S2 = 1..(Len(S) + 1)
  BY AppendProperties
<1>2. \A i \in DOMAIN S2 : \E j \in DOMAIN cs : cs[j].name = S2[i].name
  BY <1>1 DEF View!WellFormedIn
<1>3. ASSUME NEW i \in DOMAIN S2, NEW k \in DOMAIN S2, i < k
      PROVE  /\ View!IndexIn(cs, S2[i].name) <= View!IndexIn(cs, S2[k].name)
             /\ S2[i].name = S2[k].name =>
                   /\ S2[i].status = "EXECUTING"
                   /\ S2[k].status \in {"COMPLETED", "FAILED"}
  <2>1. CASE k = Len(S) + 1
    BY <1>1, <1>3, <2>1
  <2>2. CASE k # Len(S) + 1
    <3>1. i \in DOMAIN S /\ k \in DOMAIN S /\ S2[i] = S[i] /\ S2[k] = S[k]
      BY <1>1, <1>3, <2>2
    <3>2. QED
      BY <1>3, <3>1 DEF View!WellFormedIn
  <2>3. QED
    BY <2>1, <2>2
<1>4. QED
  BY <1>2, <1>3 DEF View!WellFormedIn

\* Coalescing a result with the only one of its command keeps the stream
\* well formed: names, and so the order, are unchanged.
LEMMA WellFormedReplace ==
    ASSUME NEW cs, NEW S \in Seq(ResultRecords), NEW r \in ResultRecords,
           NEW p \in 1..Len(S),
           View!WellFormedIn(cs, S),
           S[p].name = r.name,
           \A i \in 1..Len(S) : i # p => S[i].name # r.name
    PROVE  View!WellFormedIn(cs, [S EXCEPT ![p] = r])
<1> DEFINE S2 == [S EXCEPT ![p] = r]
<1>1. /\ DOMAIN S2 = DOMAIN S
      /\ \A i \in DOMAIN S : S2[i].name = S[i].name
      /\ \A i \in DOMAIN S : i # p => S2[i] = S[i]
  OBVIOUS
<1>2. \A i \in DOMAIN S2 : \E j \in DOMAIN cs : cs[j].name = S2[i].name
  BY <1>1 DEF View!WellFormedIn
<1>3. ASSUME NEW i \in DOMAIN S2, NEW k \in DOMAIN S2, i < k
      PROVE  /\ View!IndexIn(cs, S2[i].name) <= View!IndexIn(cs, S2[k].name)
             /\ S2[i].name = S2[k].name =>
                   /\ S2[i].status = "EXECUTING"
                   /\ S2[k].status \in {"COMPLETED", "FAILED"}
  <2>1. View!IndexIn(cs, S2[i].name) <= View!IndexIn(cs, S2[k].name)
    BY <1>1, <1>3 DEF View!WellFormedIn
  <2>2. CASE i # p /\ k # p
    BY <1>1, <1>3, <2>1, <2>2 DEF View!WellFormedIn
  <2>3. CASE i = p \/ k = p
    <3>1. S2[i].name # S2[k].name
      BY <1>1, <1>3, <2>3
    <3>2. QED
      BY <2>1, <3>1
  <2>4. QED
    BY <2>2, <2>3
<1>4. QED
  BY <1>2, <1>3 DEF View!WellFormedIn

\* A result of a command the buffer does not hold is appended.
LEMMA QueueNew ==
    ASSUME NEW s \in Seq(ResultRecords), NEW b \in Seq(ResultRecords),
           NEW r \in ResultRecords,
           \A i \in 1..Len(b) : b[i].name # r.name
    PROVE  s \o Queue(b, r) = Append(s \o b, r)
<1>1. Queue(b, r) = Append(b, r)
  BY DEF Queue
<1>2. QED
  BY <1>1, StreamAppend

\* A result of a command the buffer holds once replaces that entry.
LEMMA QueueCoalesce ==
    ASSUME NEW s \in Seq(ResultRecords), NEW b \in Seq(ResultRecords),
           NEW r \in ResultRecords, NEW p \in 1..Len(b),
           b[p].name = r.name,
           \A i \in 1..Len(b) : i # p => b[i].name # r.name
    PROVE  s \o Queue(b, r) = [s \o b EXCEPT ![Len(s) + p] = r]
<1>1. LastBuffered(b, r.name) = p
  BY DEF LastBuffered
<1>2. Queue(b, r) = [b EXCEPT ![p] = r]
  BY <1>1 DEF Queue
<1>3. QED
  BY <1>2, StreamReplace

\* Queuing the result of the last command reached keeps the stream well
\* formed, if the command's earlier results in the stream are EXECUTING
\* and the new one ends it.
LEMMA QueueWellFormed ==
    ASSUME NEW cs, NEW s \in Seq(ResultRecords), NEW b \in Seq(ResultRecords),
           NEW r \in ResultRecords,
           View!WellFormedIn(cs, s \o b),
           \E j \in DOMAIN cs : cs[j].name = r.name,
           \A i \in DOMAIN (s \o b) :
              View!IndexIn(cs, (s \o b)[i].name) <= View!IndexIn(cs, r.name),
           \A i \in DOMAIN (s \o b) : (s \o b)[i].name = r.name =>
              (s \o b)[i].status = "EXECUTING" /\ r.status \in {"COMPLETED", "FAILED"}
    PROVE  View!WellFormedIn(cs, s \o Queue(b, r))
<1> DEFINE S == s \o b
<1>1. /\ S \in Seq(ResultRecords)
      /\ Len(S) = Len(s) + Len(b)
      /\ DOMAIN S = 1..(Len(s) + Len(b))
      /\ \A i \in 1..Len(b) : S[Len(s) + i] = b[i]
  BY ConcatProperties
<1>2. CASE \A i \in 1..Len(b) : b[i].name # r.name
  <2>1. s \o Queue(b, r) = Append(S, r)
    BY <1>2, QueueNew
  <2>2. View!WellFormedIn(cs, Append(S, r))
    BY <1>1, WellFormedAppend
  <2>3. QED
    BY <2>1, <2>2
<1>3. CASE \E i \in 1..Len(b) : b[i].name = r.name
  <2>1. PICK p \in 1..Len(b) : b[p].name = r.name
    BY <1>3
  <2>2. Len(s) + p \in DOMAIN S /\ S[Len(s) + p].name = r.name
    BY <1>1, <2>1
  <2>3. \A i \in DOMAIN S : i # Len(s) + p => S[i].name # r.name
    <3> SUFFICES ASSUME NEW i \in DOMAIN S, i # Len(s) + p, S[i].name = r.name
                 PROVE  FALSE
      OBVIOUS
    <3>1. S[i].status = "EXECUTING" /\ S[Len(s) + p].status = "EXECUTING"
      BY <2>2
    <3>2. i < Len(s) + p \/ Len(s) + p < i
      BY <1>1, <2>2
    <3>3. QED
      BY <2>2, <3>1, <3>2 DEF View!WellFormedIn
  <2>4. \A i \in 1..Len(b) : i # p => b[i].name # r.name
    <3> SUFFICES ASSUME NEW i \in 1..Len(b), i # p PROVE b[i].name # r.name
      OBVIOUS
    <3>1. Len(s) \in Nat /\ Len(s) + i \in DOMAIN S /\ Len(s) + i # Len(s) + p
      BY <1>1
    <3>2. S[Len(s) + i] = b[i]
      BY <1>1
    <3>3. QED
      BY <2>3, <3>1, <3>2
  <2>5. s \o Queue(b, r) = [S EXCEPT ![Len(s) + p] = r]
    BY <2>1, <2>4, QueueCoalesce
  <2>6. View!WellFormedIn(cs, [S EXCEPT ![Len(s) + p] = r])
    BY <1>1, <2>2, <2>3, WellFormedReplace
  <2>7. QED
    BY <2>5, <2>6
<1>4. QED
  BY <1>2, <1>3

\* A flush, failed or not, leaves the stream as it was.
LEMMA FlushKeepsStream ==
    ASSUME NEW s \in Seq(ResultRecords), NEW b \in Seq(ResultRecords),
           NEW ok \in BOOLEAN
    PROVE  Transmitted(s, b, ok) \o FlushedBuffer(b, ok) = s \o b
<1>1. s \o b \in Seq(ResultRecords)
  BY ConcatProperties
<1>2. QED
  BY <1>1, ConcatEmptySeq DEF Transmitted, FlushedBuffer

\* Every result of the stream after a Queue is the queued one or one of
\* the stream before it.
LEMMA QueueElements ==
    ASSUME NEW s \in Seq(ResultRecords), NEW b \in Seq(ResultRecords),
           NEW r \in ResultRecords
    PROVE  /\ s \o Queue(b, r) \in Seq(ResultRecords)
           /\ \A i \in DOMAIN (s \o Queue(b, r)) :
                 \/ (s \o Queue(b, r))[i] = r
                 \/ \E k \in DOMAIN (s \o b) : (s \o Queue(b, r))[i] = (s \o b)[k]
<1> DEFINE q == Queue(b, r)
<1>1. q \in Seq(ResultRecords)
  BY QueueType
<1>2. \A i \in 1..Len(q) : q[i] = r \/ \E k \in 1..Len(b) : q[i] = b[k]
  <2>1. CASE \E j \in DOMAIN b : b[j].name = r.name
    <3>1. q = [b EXCEPT ![LastBuffered(b, r.name)] = r]
      BY <2>1 DEF Queue
    <3>2. QED
      BY <3>1
  <2>2. CASE ~\E j \in DOMAIN b : b[j].name = r.name
    <3>1. q = Append(b, r)
      BY <2>2 DEF Queue
    <3>2. QED
      BY <3>1, AppendProperties
  <2>3. QED
    BY <2>1, <2>2
<1>3. /\ Len(s \o q) = Len(s) + Len(q)
      /\ \A i \in 1..(Len(s) + Len(q)) :
            (s \o q)[i] = IF i <= Len(s) THEN s[i] ELSE q[i - Len(s)]
      /\ s \o q \in Seq(ResultRecords)
  BY <1>1, ConcatProperties
<1>4. /\ Len(s \o b) = Len(s) + Len(b)
      /\ \A i \in 1..(Len(s) + Len(b)) :
            (s \o b)[i] = IF i <= Len(s) THEN s[i] ELSE b[i - Len(s)]
  BY ConcatProperties
<1>5. ASSUME NEW i \in DOMAIN (s \o q)
      PROVE  (s \o q)[i] = r \/ \E k \in DOMAIN (s \o b) : (s \o q)[i] = (s \o b)[k]
  <2>1. CASE i <= Len(s)
    <3>1. i \in 1..(Len(s) + Len(b)) /\ (s \o q)[i] = (s \o b)[i]
      BY <1>3, <1>4, <1>5, <2>1
    <3>2. QED
      BY <1>4, <3>1
  <2>2. CASE i > Len(s)
    <3>1. i - Len(s) \in 1..Len(q) /\ (s \o q)[i] = q[i - Len(s)]
      BY <1>3, <1>5, <2>2
    <3>2. CASE q[i - Len(s)] = r
      BY <3>1, <3>2
    <3>3. CASE \E k \in 1..Len(b) : q[i - Len(s)] = b[k]
      <4>1. PICK k \in 1..Len(b) : q[i - Len(s)] = b[k]
        BY <3>3
      <4>2. Len(s) + k \in DOMAIN (s \o b) /\ (s \o b)[Len(s) + k] = b[k]
        BY <1>4
      <4>3. QED
        BY <3>1, <4>1, <4>2
    <3>4. QED
      BY <1>2, <3>1, <3>2, <3>3
  <2>3. QED
    BY <1>3, <1>5, <2>1, <2>2
<1>6. QED
  BY <1>3, <1>5

(***************************************************************************)
(* StreamInv is inductive.                                                  *)
(***************************************************************************)
\* The controller's position of a command and the model's are the same.
LEMMA IndexIsPos ==
    ASSUME NEW cs, NEW n
    PROVE  View!IndexIn(cs, n) = PosIn(cs, n)
BY DEF View!IndexIn, PosIn

\* A listed name has a position in the list.
LEMMA PosInDomain ==
    ASSUME NEW cs \in Seq(Command), NEW n, \E j \in DOMAIN cs : cs[j].name = n
    PROVE  PosIn(cs, n) \in 1..Len(cs) /\ cs[PosIn(cs, n)].name = n
BY DEF PosIn

\* Every result of a well-formed stream names a command with a position.
LEMMA StreamPositions ==
    ASSUME NEW cs \in Seq(Command), NEW S \in Seq(ResultRecords),
           View!WellFormedIn(cs, S)
    PROVE  \A i \in DOMAIN S : PosIn(cs, S[i].name) \in 1..Len(cs)
BY PosInDomain DEF View!WellFormedIn

LEMMA StreamInit == Init => StreamInv
<1> SUFFICES ASSUME Init PROVE StreamInv
  OBVIOUS
<1>1. HistInv /\ ReportedInv
  BY HistInit, InitTypeInv DEF Init, ReportedInv
<1>2. Stream = << >>
  <2>1. << >> \in Seq(ResultRecords)
    BY EmptySeq
  <2>2. QED
    BY <2>1, ConcatEmptySeq DEF Init, Stream
<1>3. QED
  BY <1>1, <1>2, WellFormedEmpty DEF Init, StreamInv

\* Steps that change none of what StreamInv reads beyond HistInv and
\* ReportedInv.
LEMMA StreamFrame ==
    ASSUME StreamInv, HistInv', ReportedInv',
           UNCHANGED <<response, sent, buffer, phase, pc>>
    PROVE  StreamInv'
BY DEF StreamInv, Stream, Reached, Current

\* Steps into the teardown or out of RunBuild, which leave the stream, or
\* set the response while the stream is empty.
LEMMA StreamLeave ==
    ASSUME StreamInv, HistInv', ReportedInv',
           phase' \notin {"fetch", "unbox", "loop", "step"},
           Stream' = Stream,
           response' = response \/ Stream = << >>
    PROVE  StreamInv'
<1>1. View!WellFormedIn(response'.commands, Stream')
  BY WellFormedEmpty DEF StreamInv
<1>2. QED
  BY <1>1 DEF StreamInv

\* A step of the loop that queues the result r of the current command: a
\* SKIPPED or EXECUTING result from the loop state, or the end of the
\* command from its step state.
LEMMA QueueStreamStep ==
    ASSUME StreamInv, HistInv', ReportedInv',
           phase \in {"loop", "step"}, pc < hi,
           NEW r \in ResultRecords, r.name = Current.name,
           Stream' = sent \o Queue(buffer, r),
           UNCHANGED response,
           phase' \in {"loop", "step"},
           phase' = "loop" => pc' = pc + 1,
           phase' = "step" => pc' = pc /\ phase = "loop" /\ r.status = "EXECUTING",
           phase = "step" => r.status \in {"COMPLETED", "FAILED"}
    PROVE  StreamInv'
<1> DEFINE cmds == response.commands
<1>1. /\ PosIn(cmds, Current.name) = pc + 1
      /\ \E j \in DOMAIN cmds : cmds[j].name = r.name
  <2>1. HistInv
    BY DEF StreamInv
  <2>2. PosIn(cmds, Current.name) = pc + 1 /\ cmds[pc + 1] = Current
    BY <2>1, CurrentPos
  <2>3. TypeInv /\ cmds \in Seq(Command)
    BY <2>1 DEF HistInv, TypeInv, TypeOK, ResponseType
  <2>4. pc + 1 \in DOMAIN cmds
    BY <2>3, CurrentType
  <2>5. QED
    BY <2>2, <2>4
<1>2. /\ sent \in Seq(ResultRecords) /\ buffer \in Seq(ResultRecords)
      /\ pc \in Nat /\ cmds \in Seq(Command)
      /\ Stream \in Seq(ResultRecords)
  BY ConcatProperties DEF StreamInv, HistInv, TypeInv, TypeOK, ResponseType, Stream
<1>3. \A i \in DOMAIN Stream : PosIn(cmds, Stream[i].name) <= pc + 1
  <2>1. \A i \in DOMAIN Stream : PosIn(cmds, Stream[i].name) \in Nat
    BY <1>2, StreamPositions DEF StreamInv
  <2>2. QED
    BY <1>2, <2>1 DEF StreamInv, Reached
<1>4. \A i \in DOMAIN Stream : Stream[i].name = r.name =>
         phase = "step" /\ Stream[i].status = "EXECUTING"
  <2> SUFFICES ASSUME NEW i \in DOMAIN Stream, Stream[i].name = r.name
               PROVE  phase = "step" /\ Stream[i].status = "EXECUTING"
    OBVIOUS
  <2>1. PosIn(cmds, Stream[i].name) = pc + 1
    BY <1>1
  <2>2. phase = "step"
    BY <1>2, <2>1 DEF StreamInv, Reached
  <2>3. QED
    BY <2>2 DEF StreamInv
<1>5. View!WellFormedIn(cmds, Stream')
  <2>1. \A i \in DOMAIN (sent \o buffer) :
           View!IndexIn(cmds, (sent \o buffer)[i].name) <= View!IndexIn(cmds, r.name)
    BY <1>1, <1>3, IndexIsPos DEF Stream
  <2>2. \A i \in DOMAIN (sent \o buffer) : (sent \o buffer)[i].name = r.name =>
           (sent \o buffer)[i].status = "EXECUTING" /\ r.status \in {"COMPLETED", "FAILED"}
    BY <1>4 DEF Stream
  <2>3. View!WellFormedIn(cmds, sent \o buffer)
    BY DEF StreamInv, Stream
  <2>4. View!WellFormedIn(cmds, sent \o Queue(buffer, r))
    BY <1>1, <1>2, <2>1, <2>2, <2>3, QueueWellFormed
  <2>5. QED
    BY <2>4
<1>6. \A i \in DOMAIN Stream' : Stream'[i] = r \/ \E k \in DOMAIN Stream : Stream'[i] = Stream[k]
  <2>1. Stream = sent \o buffer
    BY DEF Stream
  <2>2. \A i \in DOMAIN (sent \o Queue(buffer, r)) :
           \/ (sent \o Queue(buffer, r))[i] = r
           \/ \E k \in DOMAIN (sent \o buffer) :
                 (sent \o Queue(buffer, r))[i] = (sent \o buffer)[k]
    BY <1>2, QueueElements
  <2> HIDE DEF Stream
  <2>3. QED
    BY <2>1, <2>2
<1>7. Reached' = pc + 1
  BY <1>2 DEF Reached
<1>8. \A i \in DOMAIN Stream' : PosIn(cmds, Stream'[i].name) <= Reached'
  <2> SUFFICES ASSUME NEW i \in DOMAIN Stream' PROVE PosIn(cmds, Stream'[i].name) <= pc + 1
    BY <1>7
  <2>1. CASE Stream'[i] = r
    BY <1>1, <1>2, <2>1
  <2>2. CASE \E k \in DOMAIN Stream : Stream'[i] = Stream[k]
    BY <1>3, <2>2
  <2>3. QED
    BY <1>6, <2>1, <2>2
<1>9. phase' = "step" =>
        \A i \in DOMAIN Stream' : Stream'[i].name = Current'.name => Stream'[i].status = "EXECUTING"
  <2> SUFFICES ASSUME phase' = "step", NEW i \in DOMAIN Stream', Stream'[i].name = Current'.name
               PROVE  Stream'[i].status = "EXECUTING"
    OBVIOUS
  <2>1. Current' = Current /\ phase = "loop" /\ r.status = "EXECUTING"
    BY DEF Current
  <2>2. CASE Stream'[i] = r
    BY <2>1, <2>2
  <2>3. CASE \E k \in DOMAIN Stream : Stream'[i] = Stream[k]
    BY <1>4, <2>1, <2>3
  <2>4. QED
    BY <1>6, <2>2, <2>3
<1>10. QED
  BY <1>5, <1>8, <1>9 DEF StreamInv
\* The stream of a state before the loop is empty.
LEMMA StreamEmptyBefore ==
    ASSUME StreamInv, phase \in {"fetch", "unbox"}
    PROVE  Stream = << >>
<1>1. sent = << >> /\ buffer = << >>
  BY DEF StreamInv, HistInv
<1>2. << >> \in Seq(ResultRecords)
  BY EmptySeq
<1>3. QED
  BY <1>1, <1>2, ConcatEmptySeq DEF Stream

LEMMA StreamStep == StreamInv /\ [Next]_vars => StreamInv'
<1> SUFFICES ASSUME StreamInv, [Next]_vars PROVE StreamInv'
  OBVIOUS
<1>0. HistInv' /\ ReportedInv' /\ TypeInv
  BY HistStep, ReportedStep DEF StreamInv, HistInv
<1>1. CASE \/ FetchFailed \/ CleanupBackground \/ CancelContext
           \/ \E k \in Keys : UnboxSkip(k) \/ UnboxValue(k)
           \/ \E i \in Steps : BackgroundExits(i)
           \/ Returned \/ UNCHANGED vars
  <2>1. UNCHANGED <<response, sent, buffer, phase, pc>>
    BY <1>1 DEF FetchFailed, CleanupBackground, CancelContext, UnboxSkip,
                UnboxValue, BackgroundExits, Returned, vars, batchVars
  <2>2. QED
    BY <1>0, <2>1, StreamFrame
<1>2. CASE \/ FetchCancelled \/ PrepareNoCommands \/ StepExit
           \/ CollectMetrics \/ ReportFinished \/ ReportFailed
           \/ PreparePanic
           \/ \E k \in Keys : UnboxParseError(k) \/ UnboxClientError(k) \/ UnboxReadError(k)
  <2>1. /\ phase' \notin {"fetch", "unbox", "loop", "step"}
        /\ UNCHANGED <<response, sent, buffer>>
    BY <1>2 DEF FetchCancelled, PrepareNoCommands, StepExit, CollectMetrics,
                ReportFinished, ReportFailed, PreparePanic, UnboxParseError,
                UnboxClientError, UnboxReadError, UnboxFailed, batchVars
  <2>2. Stream' = Stream
    BY <2>1 DEF Stream
  <2>3. QED
    BY <1>0, <2>1, <2>2, StreamLeave
<1>3. CASE TokenMismatch
  <2>1. /\ phase = "fetch" /\ phase' = "done"
        /\ UNCHANGED <<sent, buffer>>
    BY <1>3 DEF TokenMismatch, batchVars
  <2>2. Stream = << >> /\ Stream' = Stream
    BY <2>1, StreamEmptyBefore DEF Stream
  <2>3. QED
    BY <1>0, <2>1, <2>2, StreamLeave
<1>4. CASE LoopDone
  <2>1. /\ phase' = "cleanup" /\ UNCHANGED response
        /\ \E ok \in BOOLEAN : /\ buffer' = FlushedBuffer(buffer, ok)
                               /\ sent' = Transmitted(sent, buffer, ok)
    BY <1>4 DEF LoopDone
  <2>2. sent \in Seq(ResultRecords) /\ buffer \in Seq(ResultRecords)
    BY <1>0 DEF TypeInv, TypeOK
  <2>3. Stream' = Stream
    BY <2>1, <2>2, FlushKeepsStream DEF Stream
  <2>4. QED
    BY <1>0, <2>1, <2>3, StreamLeave
<1>5. CASE FetchSucceeded \/ PrepareLoop
  <2>1. /\ phase \in {"fetch", "unbox"}
        /\ phase' \in {"unbox", "loop"}
        /\ UNCHANGED <<sent, buffer>>
    BY <1>5 DEF FetchSucceeded, PrepareLoop, batchVars
  <2>2. Stream' = << >>
    BY <2>1, StreamEmptyBefore DEF Stream
  <2>3. View!WellFormedIn(response'.commands, Stream')
    BY <2>2, WellFormedEmpty
  <2>4. buffer' = << >>
    BY <2>1 DEF StreamInv
  <2>5. QED
    BY <1>0, <2>1, <2>2, <2>3, <2>4 DEF StreamInv
<1>6. CASE SkipCommand
  <2> DEFINE r == CommandResult(Current.name, "SKIPPED")
  <2>1. /\ phase = "loop" /\ pc < hi
        /\ buffer' = Queue(buffer, r) /\ sent' = sent
        /\ pc' = pc + 1 /\ phase' = "loop" /\ UNCHANGED response
    BY <1>6 DEF SkipCommand
  <2>2. r \in ResultRecords /\ r.name = Current.name
    BY <1>0, <2>1, CurrentPos, ResultType DEF StreamInv, Statuses, CommandResult
  <2>3. Stream' = sent \o Queue(buffer, r)
    BY <2>1 DEF Stream
  <2>4. QED
    BY <1>0, <2>1, <2>2, <2>3, QueueStreamStep
<1>7. CASE StartCommand
  <2> DEFINE r == CommandResult(Current.name, "EXECUTING")
  <2>1. /\ phase = "loop" /\ pc < hi
        /\ \E ok \in BOOLEAN : /\ buffer' = FlushedBuffer(Queue(buffer, r), ok)
                               /\ sent' = Transmitted(sent, Queue(buffer, r), ok)
        /\ pc' = pc /\ phase' = "step" /\ UNCHANGED response
    BY <1>7 DEF StartCommand
  <2>2. r \in ResultRecords /\ r.name = Current.name /\ r.status = "EXECUTING"
    BY <1>0, <2>1, CurrentPos, ResultType DEF StreamInv, Statuses, CommandResult
  <2>3. Queue(buffer, r) \in Seq(ResultRecords) /\ sent \in Seq(ResultRecords)
    BY <1>0, <2>2, QueueType DEF TypeInv, TypeOK
  <2>4. Stream' = sent \o Queue(buffer, r)
    BY <2>1, <2>3, FlushKeepsStream DEF Stream
  <2>5. QED
    BY <1>0, <2>1, <2>2, <2>4, QueueStreamStep
<1>8. CASE \/ StepUploaderFailed \/ StepCirrusEnvFailed \/ StepForeground
           \/ StepBackgroundStarted \/ StepBackgroundFailed
  <2>1. /\ phase = "step"
        /\ UNCHANGED <<response, sent>>
        /\ \E success \in BOOLEAN : FinishCommand(success)
    BY <1>8 DEF StepUploaderFailed, StepCirrusEnvFailed, StepForeground,
                StepBackgroundStarted, StepBackgroundFailed
  <2>2. PICK success \in BOOLEAN : FinishCommand(success)
    BY <2>1
  <2> DEFINE r == CommandResult(Current.name, IF success THEN "COMPLETED" ELSE "FAILED")
  <2>3. pc < hi
    BY <1>0, <2>1 DEF TypeInv
  <2>4. /\ r \in ResultRecords /\ r.name = Current.name
        /\ r.status \in {"COMPLETED", "FAILED"}
    BY <1>0, <2>1, <2>3, CurrentPos, ResultType DEF StreamInv, Statuses, CommandResult
  <2>5. buffer' = Queue(buffer, r) /\ pc' = pc + 1 /\ phase' = "loop"
    BY <2>2 DEF FinishCommand
  <2>6. Stream' = sent \o Queue(buffer, r)
    BY <2>1, <2>5 DEF Stream
  <2>7. QED
    BY <1>0, <2>1, <2>3, <2>4, <2>5, <2>6, QueueStreamStep
<1>9. QED
  BY <1>1, <1>2, <1>3, <1>4, <1>5, <1>6, <1>7, <1>8 DEF Next, Agent, Environment

(***************************************************************************)
(* The refinement step.  Only a successful flush changes what the         *)
(* controller holds, only the response changes its command list, and     *)
(* only ReportAgentFinished sets finished.                                 *)
(***************************************************************************)
\* Only the InitialCommands response sets the command list.
LEMMA ResponseFrame ==
    ASSUME [Next]_vars, ~FetchSucceeded, ~TokenMismatch
    PROVE  response' = response
<1>1. CASE FetchFailed \/ FetchCancelled
  BY <1>1 DEF FetchFailed, FetchCancelled
<1>2. CASE \E k \in Keys : \/ UnboxSkip(k) \/ UnboxParseError(k)
                          \/ UnboxClientError(k) \/ UnboxReadError(k)
                          \/ UnboxValue(k)
  BY <1>2 DEF UnboxSkip, UnboxParseError, UnboxClientError, UnboxReadError,
              UnboxValue, UnboxFailed
<1>3. CASE PrepareNoCommands \/ PreparePanic \/ PrepareLoop
           \/ SkipCommand \/ StartCommand
  BY <1>3 DEF PrepareNoCommands, PreparePanic, PrepareLoop, SkipCommand,
              StartCommand
<1>4. CASE \/ StepUploaderFailed \/ StepCirrusEnvFailed \/ StepExit
           \/ StepForeground \/ StepBackgroundStarted \/ StepBackgroundFailed
  BY <1>4 DEF StepUploaderFailed, StepCirrusEnvFailed, StepExit, StepForeground,
              StepBackgroundStarted, StepBackgroundFailed
<1>5. CASE LoopDone \/ CleanupBackground \/ CollectMetrics \/ ReportFinished
           \/ ReportFailed
  BY <1>5 DEF LoopDone, CleanupBackground, CollectMetrics, ReportFinished,
              ReportFailed
<1>6. CASE CancelContext \/ (\E i \in Steps : BackgroundExits(i))
           \/ Returned \/ UNCHANGED vars
  BY <1>6 DEF CancelContext, BackgroundExits, Returned, vars
<1>7. QED
  BY <1>1, <1>2, <1>3, <1>4, <1>5, <1>6 DEF Next, Agent, Environment

\* Queueing never leaves the buffer empty.
LEMMA QueueNonEmpty ==
    ASSUME NEW b \in Seq(ResultRecords), NEW r \in ResultRecords
    PROVE  Queue(b, r) # << >>
<1>1. CASE \E j \in DOMAIN b : b[j].name = r.name
  <2>1. Len(b) > 0
    BY <1>1
  <2>2. QED
    BY <1>1, <2>1 DEF Queue
<1>2. CASE ~\E j \in DOMAIN b : b[j].name = r.name
  BY <1>2, AppendProperties DEF Queue
<1>3. QED
  BY <1>1, <1>2

\* A flush of a non-empty batch q is a Deliver of the controller's view,
\* or, when the call fails, a stutter of it.
LEMMA FlushDelivers ==
    ASSUME StreamInv, StreamInv', ~finished, UNCHANGED <<response, finished>>,
           NEW q \in Seq(ResultRecords), q # << >>, NEW ok \in BOOLEAN,
           sent' = Transmitted(sent, q, ok)
    PROVE  [View!Next]_View!vars
<1>1. sent \in Seq(ResultRecords) /\ sent' \in Seq(ResultRecords)
      /\ buffer' \in Seq(ResultRecords)
  BY DEF StreamInv, ReportedInv, TypeInv, TypeOK
<1>2. CASE ~ok
  BY <1>2 DEF Transmitted, View!vars
<1>3. CASE ok
  <2>1. Len(sent') > Len(sent)
    <3>1. sent' = sent \o q
      BY <1>3 DEF Transmitted
    <3>2. Len(q) > 0
      BY EmptySeq, SeqEqual
    <3>3. QED
      BY <1>1, <3>1, <3>2, ConcatProperties
  <2>2. SubSeq(sent', 1, Len(sent)) = sent
    BY <1>1, TransmittedExtends
  <2>3. View!WellFormedIn(response.commands, sent')
    <3>1. View!WellFormedIn(response'.commands, sent' \o buffer')
      BY DEF StreamInv, Stream
    <3>2. QED
      BY <1>1, <3>1, WellFormedPrefix
  <2>4. View!Deliver
    BY <2>1, <2>2, <2>3 DEF View!Deliver, View!WellFormed
  <2>5. QED
    BY <2>4 DEF View!Next
<1>4. QED
  BY <1>2, <1>3

LEMMA StreamInvariant == Spec => []StreamInv
<1>1. Init => StreamInv
  BY StreamInit
<1>2. StreamInv /\ [Next]_vars => StreamInv'
  BY StreamStep
<1>3. QED
  BY <1>1, <1>2, PTL DEF Spec
LEMMA ViewStep ==
    ASSUME StreamInv, StreamInv', [Next]_vars
    PROVE  [View!Next]_View!vars
<1>0. TypeInv /\ (finished => phase = "done")
  BY DEF StreamInv, ReportedInv
<1>1. CASE FetchSucceeded \/ TokenMismatch
  <2>1. /\ phase = "fetch" /\ UNCHANGED <<sent, finished>>
        /\ \E r \in Responses : response' = r
    BY <1>1 DEF FetchSucceeded, TokenMismatch, batchVars
  <2>2. response.commands = << >> /\ sent = << >> /\ ~finished
    <3>1. response = NoResponse
      BY <2>1 DEF StreamInv
    <3>2. response.commands = << >>
      BY <3>1 DEF NoResponse
    <3>3. sent = << >>
      BY <2>1 DEF StreamInv, HistInv
    <3>4. ~finished
      BY <1>0, <2>1
    <3>5. QED
      BY <3>2, <3>3, <3>4
  <2>3. response'.commands \in Seq(Command)
    BY <2>1, ResponsesType DEF ResponseType
  <2>4. View!Assign
    BY <2>1, <2>2, <2>3 DEF View!Assign, View!Command, Command, View!Behaviours, Behaviours, View!Kinds, Kinds
  <2>5. QED
    BY <2>4 DEF View!Next
<1>2. CASE StartCommand
  <2> DEFINE r == CommandResult(Current.name, "EXECUTING")
  <2>1. /\ phase = "loop" /\ pc < hi /\ ~finished
        /\ UNCHANGED <<response, finished>>
    BY <1>0, <1>2 DEF StartCommand
  <2>2. PICK ok \in BOOLEAN : sent' = Transmitted(sent, Queue(buffer, r), ok)
    BY <1>2 DEF StartCommand
  <2>3. r \in ResultRecords
    BY <1>0, <2>1, CurrentType, ResultType DEF Command, Statuses, CommandResult
  <2>4. Queue(buffer, r) \in Seq(ResultRecords) /\ Queue(buffer, r) # << >>
    BY <1>0, <2>3, QueueType, QueueNonEmpty DEF TypeInv, TypeOK
  <2>5. QED
    BY <2>1, <2>2, <2>4, FlushDelivers
<1>3. CASE LoopDone
  <2>1. /\ phase = "loop" /\ ~finished
        /\ UNCHANGED <<response, finished>>
    BY <1>0, <1>3 DEF LoopDone
  <2>2. PICK ok \in IF cancelled \/ buffer = << >> THEN {FALSE} ELSE BOOLEAN :
          sent' = Transmitted(sent, buffer, ok)
    BY <1>3 DEF LoopDone
  <2>3. CASE buffer = << >>
    <3>1. sent' = sent
      BY <2>2, <2>3 DEF Transmitted
    <3>2. QED
      BY <2>1, <3>1 DEF View!vars
  <2>4. CASE buffer # << >>
    BY <1>0, <2>1, <2>2, <2>4, FlushDelivers DEF TypeInv, TypeOK
  <2>5. QED
    BY <2>3, <2>4
<1>4. CASE ReportFinished
  <2>1. ~finished /\ finished' /\ UNCHANGED <<response, sent>>
    BY <1>0, <1>4 DEF ReportFinished, batchVars
  <2>2. View!Finish
    BY <2>1 DEF View!Finish
  <2>3. QED
    BY <2>2 DEF View!Next
<1>5. CASE ~FetchSucceeded /\ ~TokenMismatch /\ ~StartCommand /\ ~LoopDone
           /\ ~ReportFinished
  BY <1>5, ResponseFrame, SentFrame, FinishedFrame DEF View!vars
<1>6. QED
  BY <1>1, <1>2, <1>3, <1>4, <1>5

(* Proved: every behaviour of RunBuild, for every command list and every  *)
(* value of the constants, is a behaviour of ControllerView under the     *)
(* mapping cmds <- response.commands, reported <- sent, done <- finished: *)
(* the controller receives its results in non-empty batches that extend  *)
(* what it had, in command order and along each command's lifecycle,     *)
(* whatever the batcher coalesced and whichever flushes failed, and none  *)
(* after ReportAgentFinished.                                               *)
THEOREM ViewRefinement == Spec => ViewSpec
<1>1. Init => View!Init
  BY DEF Init, NoResponse, View!Init
<1>2. StreamInv /\ StreamInv' /\ [Next]_vars => [View!Next]_View!vars
  BY ViewStep
<1>3. QED
  BY <1>1, <1>2, StreamInvariant, PTL DEF Spec, ViewSpec, View!Spec
=============================================================================
