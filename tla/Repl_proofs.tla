------------------------------ MODULE Repl_proofs ------------------------------
(***************************************************************************)
(* The interactive and the batch client of Repl for any lines, whatever    *)
(* the splitter makes of them: what an error and an interrupt do to the    *)
(* statements that wait.                                                   *)
(***************************************************************************)
EXTENDS Repl, TLAPS

-----------------------------------------------------------------------------
(* Sequences of statements *)

\* Whatever its elements are.
IsSequence(s) == s \in Seq({s[i] : i \in DOMAIN s})

LEMMA SequenceFacts ==
  ASSUME NEW s, IsSequence(s)
  PROVE  Len(s) \in Nat /\ DOMAIN s = 1 .. Len(s)
BY DEF IsSequence

LEMMA EmptySequence == IsSequence(<<>>) /\ Len(<<>>) = 0
<1>1. \A S : <<>> \in Seq(S)
  OBVIOUS
<1>2. IsSequence(<<>>)
  BY <1>1 DEF IsSequence
<1> QED
  BY <1>2

LEMMA AppendSequence ==
  ASSUME NEW s, IsSequence(s), NEW x
  PROVE  LET t == Append(s, x)
         IN /\ IsSequence(t) /\ Len(t) = Len(s) + 1
            /\ \A i \in 1 .. Len(s) : t[i] = s[i]
            /\ t[Len(s) + 1] = x
<1> DEFINE t == Append(s, x)
           S == {s[i] : i \in DOMAIN s} \cup {x}
<1>1. s \in Seq(S)
  <2>1. Len(s) \in Nat /\ DOMAIN s = 1 .. Len(s) /\ s \in Seq({s[i] : i \in DOMAIN s})
    BY SequenceFacts DEF IsSequence
  <2> DEFINE R == {s[i] : i \in DOMAIN s}
  <2>2. R \subseteq S /\ s \in Seq(R)
    BY <2>1
  <2> HIDE DEF R, S
  <2> QED
    BY <2>2
<1>2. x \in S
  OBVIOUS
<1> HIDE DEF S
<1>3. /\ t \in Seq(S) /\ Len(t) = Len(s) + 1 /\ Len(s) \in Nat
      /\ \A i \in 1 .. Len(s) : t[i] = s[i]
      /\ t[Len(s) + 1] = x
  BY <1>1, <1>2
<1> HIDE DEF t
<1>4. IsSequence(t)
  <2>1. t \in [1 .. Len(t) -> {t[i] : i \in 1 .. Len(t)}] /\ DOMAIN t = 1 .. Len(t) /\ Len(t) \in Nat
    BY <1>3
  <2> QED
    BY <2>1 DEF IsSequence
<1> QED
  BY <1>3, <1>4 DEF t

\* u is s with x for its n-th element.
Replaced(u, s, n, x) == u = [s EXCEPT ![n] = x]

LEMMA ExceptSequence ==
  ASSUME NEW s, IsSequence(s), NEW n \in 1 .. Len(s), NEW x, NEW u, Replaced(u, s, n, x)
  PROVE  /\ IsSequence(u) /\ Len(u) = Len(s)
         /\ \A i \in 1 .. Len(s) : i # n => u[i] = s[i]
         /\ u[n] = x
<1> DEFINE t == [s EXCEPT ![n] = x]
           S == {s[i] : i \in DOMAIN s} \cup {x}
<1>1. s \in Seq(S)
  <2>1. Len(s) \in Nat /\ DOMAIN s = 1 .. Len(s) /\ s \in Seq({s[i] : i \in DOMAIN s})
    BY SequenceFacts DEF IsSequence
  <2> DEFINE R == {s[i] : i \in DOMAIN s}
  <2>2. R \subseteq S /\ s \in Seq(R)
    BY <2>1
  <2> HIDE DEF R, S
  <2> QED
    BY <2>2
<1>2. x \in S
  OBVIOUS
<1> HIDE DEF S
<1>3. /\ t \in Seq(S) /\ Len(t) = Len(s) /\ Len(s) \in Nat
      /\ \A i \in 1 .. Len(s) : i # n => t[i] = s[i]
      /\ t[n] = x
  BY <1>1, <1>2
<1> HIDE DEF t
<1>4. IsSequence(t)
  <2>1. t \in [1 .. Len(t) -> {t[i] : i \in 1 .. Len(t)}] /\ DOMAIN t = 1 .. Len(t) /\ Len(t) \in Nat
    BY <1>3
  <2> QED
    BY <2>1 DEF IsSequence
<1>5. u = t
  BY DEF t, Replaced
<1> QED
  BY <1>3, <1>4, <1>5

-----------------------------------------------------------------------------
(* The inductive invariant *)

\* The statement's text and the connection's number are not of interest.
SentType(r) ==
  [sql : {r.sql}, start : Nat, line : Nat, conn : {r.conn},
   result : {"none", "ok", "error", "unauthenticated", "interrupted"}, soft : BOOLEAN]

ReplTypeOK ==
  /\ repl \in BOOLEAN /\ retried \in BOOLEAN /\ interrupted \in BOOLEAN /\ broken \in BOOLEAN
  /\ pc \in {"read", "next", "request", "display", "reconnect", "stopped"}
  /\ conn \in [id : Nat, closed : BOOLEAN, last : Nat]
  /\ lines \in Nat /\ start \in Nat
  /\ IsSequence(sent) /\ \A i \in 1 .. Len(sent) : sent[i] \in SentType(sent[i])

\* The query the connection knows is that of a statement sent over it.
ConnOK ==
  /\ conn.last \in 0 .. Len(sent)
  /\ conn.last # 0 => sent[conn.last].conn = conn.id

\* The statement that runs is the last one sent.  When it has been answered, the connection
\* knows its query, if it has one; an interrupt that is set came while it ran.
RunningOK ==
  pc \in {"request", "display"} =>
    /\ Len(sent) # 0 /\ sent[Len(sent)].conn = conn.id
    /\ pc = "display" => conn.last = Len(sent) \/ Transfer(sent[Len(sent)].sql)
    /\ sent[Len(sent)].result = IF pc = "request" THEN "none" ELSE "ok"
    /\ retried => sent[Len(sent)].soft
    /\ interrupted => broken

\* What was killed had been sent.
KillsSent == \A k \in killed : k.by \in 1 .. Len(sent) /\ k.of \in 0 .. Len(sent)

\* An error that is not only printed.
Failed(i) == sent[i].result \in {"error", "interrupted"} /\ ~sent[i].soft

\* Something of what was read is still to be sent, or may be sent again.
Pending ==
  queue # <<>> \/ outer # <<>> \/ query # <<>> \/ pc \in {"request", "display", "reconnect"}

\* What is sent after an error, or may be, was begun after it.
ErrorOK(i) ==
  /\ sent[i].line <= lines
  /\ Failed(i) =>
       /\ repl \/ pc = "stopped"
       /\ repl /\ Pending => start > sent[i].line
       /\ \A j \in i + 1 .. Len(sent) : repl /\ sent[j].start > sent[i].line

IInv ==
  /\ ReplTypeOK /\ ConnOK /\ RunningOK /\ (\A i \in 1 .. Len(sent) : ErrorOK(i))
  /\ KillsSent /\ KillsInterrupted

LEMMA InitIInv == Init => IInv
<1> SUFFICES ASSUME Init PROVE IInv
  OBVIOUS
<1> USE DEF Init
<1>1. sent = <<>>
  OBVIOUS
<1>2. IsSequence(sent) /\ Len(sent) = 0
  BY ONLY <1>1, EmptySequence
<1>3. \A i \in 1 .. Len(sent) : FALSE
  BY ONLY <1>2
<1>4. /\ conn \in [id : Nat, closed : BOOLEAN, last : Nat] /\ conn.last = 0
      /\ repl \in BOOLEAN /\ retried \in BOOLEAN /\ interrupted \in BOOLEAN /\ broken \in BOOLEAN
      /\ pc = "read" /\ lines \in Nat /\ start \in Nat /\ killed = {}
  BY DEF NewConnection
<1>5. ReplTypeOK
  BY ONLY <1>2, <1>3, <1>4 DEF ReplTypeOK
<1>6. ConnOK /\ RunningOK /\ KillsSent /\ KillsInterrupted
  BY ONLY <1>2, <1>4 DEF ConnOK, RunningOK, KillsSent, KillsInterrupted
<1>7. \A i \in 1 .. Len(sent) : ErrorOK(i)
  BY ONLY <1>3
<1> QED
  BY ONLY <1>5, <1>6, <1>7 DEF IInv

-----------------------------------------------------------------------------
(* Steps that send nothing and bring no result *)

Quiet ==
  /\ UNCHANGED <<repl, lines, start, sent, broken, killed>>
  /\ pc # "stopped" /\ pc' \in {"read", "next", "stopped"}
  /\ queue' # <<>> \/ outer' # <<>> \/ query' # <<>> => Pending
  /\ retried' \in BOOLEAN /\ interrupted' \in BOOLEAN
  /\ conn' \in {conn, [conn EXCEPT !.closed = TRUE], NewConnection(conn.id + 1)}

LEMMA QuietKeeps == ASSUME IInv, Quiet PROVE IInv'
<1> USE DEF Quiet
<1>0. conn' \in [id : Nat, closed : BOOLEAN, last : Nat] /\ ConnOK'
  <2>1. conn \in [id : Nat, closed : BOOLEAN, last : Nat] /\ ConnOK /\ Len(sent) \in Nat
    BY SequenceFacts DEF IInv, ReplTypeOK
  <2>2. CASE conn' \in {conn, [conn EXCEPT !.closed = TRUE]}
    <3>1. /\ conn' \in [id : Nat, closed : BOOLEAN, last : Nat]
          /\ conn'.id = conn.id /\ conn'.last = conn.last
      BY <2>1, <2>2
    <3> QED
      BY <2>1, <3>1 DEF ConnOK
  <2>3. CASE conn' = NewConnection(conn.id + 1)
    <3>1. conn' \in [id : Nat, closed : BOOLEAN, last : Nat] /\ conn'.last = 0
      BY <2>1, <2>3 DEF NewConnection
    <3> QED
      BY <2>1, <3>1 DEF ConnOK
  <2> QED
    BY <2>2, <2>3
<1>1. ReplTypeOK'
  BY <1>0 DEF IInv, ReplTypeOK, SentType
<1>2. RunningOK'
  BY DEF RunningOK
<1>3. ASSUME NEW i \in 1 .. Len(sent) PROVE ErrorOK(i)'
  <2>1. ErrorOK(i)
    BY DEF IInv
  <2>2. Failed(i)' <=> Failed(i)
    BY DEF Failed
  <2>3. Pending' => Pending
    BY DEF Pending
  <2> QED
    BY <2>1, <2>2, <2>3 DEF ErrorOK
<1>4. KillsSent' /\ KillsInterrupted'
  BY DEF IInv, KillsSent, KillsInterrupted
<1> QED
  BY <1>0, <1>1, <1>2, <1>3, <1>4 DEF IInv

LEMMA AbandonLineKeeps == ASSUME IInv, AbandonLine PROVE IInv'
<1>1. Quiet
  BY DEF IInv, ReplTypeOK, AbandonLine, Quiet, Pending, readVars, runVars
<1> QED
  BY <1>1, QuietKeeps

LEMMA EndOfInputKeeps == ASSUME IInv, EndOfInput PROVE IInv'
<1>1. query = <<>> => Leftover = <<>>
  <2>1. Trim(<<>>) = <<>>
    BY DEF Trim
  <2> QED
    BY <2>1 DEF Leftover
<1>2. /\ queue' # <<>> \/ outer' # <<>> \/ query' # <<>> => Pending
      /\ pc = "read" /\ pc' \in {"next", "stopped"}
  BY <1>1 DEF EndOfInput, Pending
<1>3. Quiet
  BY <1>2 DEF IInv, ReplTypeOK, EndOfInput, Quiet, readVars
<1> QED
  BY <1>3, QuietKeeps

LEMMA EndReaderKeeps == ASSUME IInv, EndReader PROVE IInv'
<1>1. Quiet
  BY DEF IInv, ReplTypeOK, EndReader, Quiet, Pending, readVars
<1> QED
  BY <1>1, QuietKeeps

LEMMA LineDoneKeeps == ASSUME IInv, LineDone PROVE IInv'
<1>1. Quiet
  BY DEF IInv, ReplTypeOK, LineDone, Quiet, Pending, readVars, runVars
<1> QED
  BY <1>1, QuietKeeps

LEMMA LeaveKeeps == ASSUME IInv, Leave PROVE IInv'
<1>1. Quiet
  BY DEF IInv, ReplTypeOK, Leave, Quiet, Pending, ForgetInterrupt, readVars, runVars
<1> QED
  BY <1>1, QuietKeeps

LEMMA CommandKeeps == ASSUME IInv, Command PROVE IInv'
<1>1. Quiet
  BY DEF IInv, ReplTypeOK, Command, Quiet, Pending, ForgetInterrupt, readVars
<1> QED
  BY <1>1, QuietKeeps

LEMMA BeginSourceKeeps == ASSUME IInv, BeginSource PROVE IInv'
<1>1. Quiet
  BY DEF IInv, ReplTypeOK, BeginSource, Source, Quiet, Pending, ForgetInterrupt, readVars
<1> QED
  BY <1>1, QuietKeeps

-----------------------------------------------------------------------------
(* Input and interrupts *)

\* A text that begins now begins after every error.
LEMMA ReadLineKeeps == ASSUME IInv, ReadLine PROVE IInv'
<1>1. /\ UNCHANGED <<repl, sent, broken, killed, retried, interrupted, conn>>
      /\ pc = "read" /\ pc' = "next" /\ lines' = lines + 1
      /\ start' = IF query = <<>> THEN lines + 1 ELSE start
  BY DEF ReadLine
<1>2. lines \in Nat /\ start \in Nat
  BY DEF IInv, ReplTypeOK
<1>3. ReplTypeOK'
  BY <1>1, <1>2 DEF IInv, ReplTypeOK, SentType
<1>4. RunningOK'
  BY <1>1 DEF RunningOK
<1>5. ASSUME NEW i \in 1 .. Len(sent) PROVE ErrorOK(i)'
  <2>1. ErrorOK(i) /\ sent[i].line \in Nat
    BY DEF IInv, ReplTypeOK, SentType
  <2>2. Failed(i)' <=> Failed(i)
    BY <1>1 DEF Failed
  <2>3. Failed(i) => start' > sent[i].line
    BY <1>1, <1>2, <2>1 DEF ErrorOK, Pending
  <2>4. sent'[i].line <= lines'
    BY <1>1, <1>2, <2>1 DEF ErrorOK
  <2>5. Failed(i) => repl' \/ pc' = "stopped"
    BY <1>1, <2>1 DEF ErrorOK
  <2> QED
    BY <1>1, <2>1, <2>2, <2>3, <2>4, <2>5 DEF ErrorOK
<1>6. ConnOK' /\ KillsSent' /\ KillsInterrupted'
  BY <1>1 DEF IInv, ConnOK, KillsSent, KillsInterrupted
<1> QED
  BY <1>1, <1>3, <1>4, <1>5, <1>6 DEF IInv

LEMMA CtrlCKeeps == ASSUME IInv, CtrlC PROVE IInv'
<1>1. /\ UNCHANGED <<repl, sent, killed, retried, conn, pc, lines, start, queue, outer, query>>
      /\ interrupted' = TRUE /\ pc \in {"next", "request", "display"}
      /\ broken' = (broken \/ pc # "next")
  BY DEF CtrlC, readVars, runVars
<1>2. ReplTypeOK'
  BY <1>1 DEF IInv, ReplTypeOK, SentType
<1>3. RunningOK'
  BY <1>1 DEF IInv, RunningOK
<1>4. ASSUME NEW i \in 1 .. Len(sent) PROVE ErrorOK(i)'
  <2>1. ErrorOK(i)
    BY DEF IInv
  <2> QED
    BY <1>1, <2>1 DEF ErrorOK, Failed, Pending
<1>5. ConnOK' /\ KillsSent' /\ KillsInterrupted'
  BY <1>1 DEF IInv, ConnOK, KillsSent, KillsInterrupted
<1> QED
  BY <1>1, <1>2, <1>3, <1>4, <1>5 DEF IInv

-----------------------------------------------------------------------------
(* Sending *)

\* The text of the statement is pending, or just was: it began after every error.
LEMMA SendKeeps ==
  ASSUME IInv, pc # "stopped", Pending, NEW sql, NEW id \in Nat, NEW again \in BOOLEAN,
         Send(sql, id, again), UNCHANGED <<repl, lines, start, killed>>,
         retried' = (retried \/ again)
  PROVE  IInv'
<1> DEFINE n == Len(sent) + 1
           r == [sql |-> Bare(Stripped(sql)), start |-> start, line |-> lines,
                 conn |-> id, result |-> "none", soft |-> again \/ retried]
<1>1. /\ sent' = Append(sent, r) /\ interrupted' = FALSE /\ broken' = FALSE /\ pc' = "request"
      /\ conn' = IF id = conn.id THEN conn ELSE NewConnection(id)
  BY DEF Send, ForgetInterrupt
<1>2. ReplTypeOK
  BY DEF IInv
<1>3. /\ IsSequence(sent') /\ Len(sent') = n /\ Len(sent) \in Nat /\ sent'[n] = r
      /\ \A i \in 1 .. Len(sent) : sent'[i] = sent[i]
  <2> HIDE DEF r
  <2> QED
    BY <1>1, <1>2, AppendSequence, SequenceFacts DEF ReplTypeOK
<1>4. /\ r.start = start /\ r.line = lines /\ r.result = "none" /\ r.soft = (again \/ retried)
      /\ r.conn = id
  OBVIOUS
<1>5. r \in SentType(r)
  BY <1>2 DEF SentType, ReplTypeOK
<1>6. /\ conn' \in [id : Nat, closed : BOOLEAN, last : Nat] /\ conn'.id = id
      /\ ConnOK'
  <2>1. conn \in [id : Nat, closed : BOOLEAN, last : Nat] /\ n \in Nat
    BY <1>2, <1>3 DEF ReplTypeOK
  <2>2. conn'.last \in {0, conn.last} /\ (conn'.last # 0 => conn' = conn)
    BY <1>1 DEF NewConnection
  <2>3. ConnOK
    BY DEF IInv
  <2> HIDE DEF n, r
  <2>4. ConnOK'
    <3>1. Len(sent') = Len(sent) + 1 /\ Len(sent) \in Nat
      BY <1>3 DEF n
    <3> QED
      BY <1>3, <2>2, <2>3, <3>1 DEF ConnOK
  <2> QED
    BY <1>1, <2>1, <2>4 DEF NewConnection
<1> HIDE DEF r
<1>7. ReplTypeOK'
  <2>1. ASSUME NEW i \in 1 .. Len(sent') PROVE sent'[i] \in SentType(sent'[i])
    <3>1. CASE i = n
      BY <1>3, <1>5, <3>1
    <3>2. CASE i \in 1 .. Len(sent)
      BY <1>2, <1>3, <3>2 DEF ReplTypeOK
    <3> QED
      BY <1>3, <3>1, <3>2
  <2>2. retried' \in BOOLEAN
    BY <1>2 DEF ReplTypeOK
  <2> QED
    BY <1>1, <1>2, <1>3, <1>6, <2>1, <2>2 DEF ReplTypeOK, SentType
<1>8. RunningOK'
  BY <1>1, <1>3, <1>4, <1>6 DEF RunningOK
<1>9. ASSUME NEW i \in 1 .. Len(sent') PROVE ErrorOK(i)'
  <2>1. CASE i = n
    BY <1>2, <1>3, <1>4, <2>1 DEF ErrorOK, Failed, ReplTypeOK
  <2>2. CASE i \in 1 .. Len(sent)
    <3>1. ErrorOK(i) /\ sent'[i] = sent[i]
      BY <1>3, <2>2 DEF IInv
    <3>2. Failed(i)' <=> Failed(i)
      BY <3>1 DEF Failed
    <3>3. Failed(i) => repl /\ start > sent[i].line
      BY <3>1 DEF ErrorOK
    <3>4. ASSUME NEW j \in i + 1 .. n, Failed(i) PROVE sent'[j].start > sent[i].line
      <4>1. CASE j = n
        BY <1>3, <1>4, <3>3, <3>4, <4>1
      <4>2. CASE j \in i + 1 .. Len(sent)
        <5>1. j \in 1 .. Len(sent)
          BY <1>3, <2>2, <4>2
        <5> QED
          BY <1>3, <3>1, <3>4, <4>2, <5>1 DEF ErrorOK
      <4> QED
        BY <1>3, <2>2, <3>4, <4>1, <4>2
    <3> QED
      BY <1>1, <1>3, <3>1, <3>2, <3>3, <3>4 DEF ErrorOK
  <2> QED
    BY <1>3, <2>1, <2>2
<1>10. KillsSent' /\ KillsInterrupted'
  <2>1. ASSUME NEW k \in killed
        PROVE  k.by \in 1 .. Len(sent) /\ k.of \in 0 .. Len(sent)
    BY DEF IInv, KillsSent
  <2> QED
    BY <1>3, <2>1 DEF IInv, KillsSent, KillsInterrupted
<1> QED
  BY <1>6, <1>7, <1>8, <1>9, <1>10 DEF IInv

LEMMA BeginKeeps == ASSUME IInv, Begin PROVE IInv'
<1>1. /\ pc # "stopped" /\ Pending /\ Send(Head(queue), conn.id, FALSE)
      /\ UNCHANGED <<repl, lines, start, killed>> /\ retried' = retried
  BY DEF Begin, Pending, readVars
<1>2. conn.id \in Nat /\ (retried \/ FALSE) = retried
  BY DEF IInv, ReplTypeOK
<1> QED
  BY <1>1, <1>2, SendKeeps

LEMMA ReconnectKeeps == ASSUME IInv, Reconnect PROVE IInv'
<1>1. /\ pc = "reconnect" /\ Pending /\ UNCHANGED <<repl, lines, start, killed, query>>
  BY DEF Reconnect, Pending, readVars
<1>2. ReplTypeOK /\ conn.id + 1 \in Nat
  BY DEF IInv, ReplTypeOK
<1>3. CASE pc' = "next" /\ UNCHANGED <<runVars, reader, interrupted, conn, sent, broken>>
  <2>1. Quiet
    BY <1>1, <1>2, <1>3 DEF Quiet, ReplTypeOK, runVars
  <2> QED
    BY <2>1, QuietKeeps
<1>4. CASE /\ Source(raw, queue, TRUE) /\ UNCHANGED <<sent, broken>>
           /\ conn' = NewConnection(conn.id + 1)
  <2>1. Quiet
    BY <1>1, <1>2, <1>4 DEF Quiet, ReplTypeOK, Source, ForgetInterrupt
  <2> QED
    BY <2>1, QuietKeeps
<1>5. CASE Send(raw, conn.id + 1, TRUE) /\ retried' = TRUE
  <2>1. retried' = (retried \/ TRUE)
    BY <1>5
  <2> QED
    BY <1>1, <1>2, <1>5, <2>1, SendKeeps
<1> QED
  BY <1>3, <1>4, <1>5 DEF Reconnect

-----------------------------------------------------------------------------
(* Results *)

\* A result is that of the last statement.
LEMMA ResultFacts ==
  ASSUME IInv, pc \in {"request", "display"},
         NEW r \in {"none", "ok", "error", "unauthenticated", "interrupted"}, Result(r)
  PROVE  LET n == Len(sent)
         IN /\ n \in 1 .. Len(sent) /\ Len(sent') = n /\ n \in Nat
            /\ IsSequence(sent') /\ \A i \in 1 .. n : sent'[i] \in SentType(sent'[i])
            /\ \A i \in 1 .. n : /\ sent'[i].start = sent[i].start /\ sent'[i].line = sent[i].line
                                 /\ sent'[i].soft = sent[i].soft /\ sent'[i].conn = sent[i].conn
                                 /\ sent'[i].sql = sent[i].sql
                                 /\ sent'[i].result = IF i = n THEN r ELSE sent[i].result
<1> DEFINE n == Len(sent)
           x == [sent[n] EXCEPT !.result = r]
<1>1. /\ IsSequence(sent) /\ n \in Nat /\ n # 0
      /\ \A i \in 1 .. n : sent[i] \in SentType(sent[i])
  BY SequenceFacts DEF IInv, ReplTypeOK, RunningOK
<1>2. n \in 1 .. Len(sent)
  BY <1>1
<1>3. sent' = [sent EXCEPT ![n] = x]
  BY DEF Result
<1>4. /\ x \in SentType(x) /\ x.start = sent[n].start /\ x.line = sent[n].line
      /\ x.soft = sent[n].soft /\ x.conn = sent[n].conn /\ x.sql = sent[n].sql /\ x.result = r
  BY <1>1, <1>2 DEF SentType
<1>5. /\ IsSequence(sent') /\ Len(sent') = n
      /\ \A i \in 1 .. n : i # n => sent'[i] = sent[i]
      /\ sent'[n] = x
  <2>1. Replaced(sent', sent, n, x)
    BY <1>3 DEF Replaced
  <2> HIDE DEF x, n
  <2>2. n \in 1 .. Len(sent) /\ IsSequence(sent)
    BY <1>1, <1>2
  <2>3. /\ IsSequence(sent') /\ Len(sent') = Len(sent)
        /\ \A i \in 1 .. Len(sent) : i # n => sent'[i] = sent[i]
        /\ sent'[n] = x
    BY <2>1, <2>2, ExceptSequence
  <2> QED
    BY <2>3 DEF n
<1> HIDE DEF x
<1>6. ASSUME NEW i \in 1 .. n
      PROVE  /\ sent'[i].start = sent[i].start /\ sent'[i].line = sent[i].line
             /\ sent'[i].soft = sent[i].soft /\ sent'[i].conn = sent[i].conn
             /\ sent'[i].sql = sent[i].sql
             /\ sent'[i].result = IF i = n THEN r ELSE sent[i].result
             /\ sent'[i] \in SentType(sent'[i])
  BY <1>1, <1>4, <1>5
<1> QED
  BY <1>1, <1>2, <1>5, <1>6

\* What a result other than an error that counts leaves.
LEMMA ResultKeepsErrors ==
  ASSUME IInv, pc \in {"request", "display"},
         NEW r \in {"none", "ok", "error", "unauthenticated", "interrupted"}, Result(r),
         UNCHANGED <<repl, lines, start>>,
         repl \/ pc' = "stopped" \/ r = "ok",
         Pending' => Pending,
         r \in {"error", "interrupted"} /\ ~sent[Len(sent)].soft => ~repl \/ ~Pending'
  PROVE  \A i \in 1 .. Len(sent') : ErrorOK(i)'
<1> DEFINE n == Len(sent)
<1>1. /\ n \in 1 .. n /\ Len(sent') = n /\ n \in Nat
      /\ \A i \in 1 .. n : /\ sent'[i].start = sent[i].start /\ sent'[i].line = sent[i].line
                           /\ sent'[i].soft = sent[i].soft
                           /\ sent'[i].result = IF i = n THEN r ELSE sent[i].result
  BY ResultFacts
<1>2. \A i \in 1 .. n : ErrorOK(i)
  BY DEF IInv
<1>3. \A i \in 1 .. n : Failed(i) => repl
  BY <1>2 DEF ErrorOK
<1>4. ASSUME NEW i \in 1 .. n, i # n PROVE ErrorOK(i)'
  <2>1. Failed(i)' <=> Failed(i)
    BY <1>1, <1>4 DEF Failed
  <2>2. Failed(i) => \A j \in i + 1 .. n : j \in 1 .. n /\ sent'[j].start > sent[i].line
    BY <1>1, <1>2, <1>4 DEF ErrorOK
  <2> QED
    BY <1>1, <1>2, <1>3, <1>4, <2>1, <2>2 DEF ErrorOK
<1>5. ErrorOK(n)'
  <2>1. Failed(n)' => r \in {"error", "interrupted"} /\ ~sent[n].soft
    BY <1>1 DEF Failed
  <2>2. \A j \in n + 1 .. n : FALSE
    BY <1>1
  <2> QED
    BY <1>1, <1>2, <2>1, <2>2 DEF ErrorOK
<1> QED
  BY <1>1, <1>4, <1>5

\* What the result leaves of the kills and of what the connection knows.
KnowsQuery == conn' = conn \/ (pc = "request" /\ \E yes, closes \in BOOLEAN : Started(yes, closes))

LEMMA ResultKeepsConn ==
  ASSUME IInv, pc \in {"request", "display"},
         NEW r \in {"none", "ok", "error", "unauthenticated", "interrupted"}, Result(r), KnowsQuery
  PROVE  /\ conn' \in [id : Nat, closed : BOOLEAN, last : Nat] /\ conn'.id = conn.id
         /\ ConnOK'
         /\ killed' = killed => KillsSent' /\ KillsInterrupted'
<1> DEFINE n == Len(sent)
<1>1. /\ n \in 1 .. n /\ Len(sent') = n /\ n \in Nat
      /\ \A i \in 1 .. n : sent'[i].conn = sent[i].conn /\ sent'[i].sql = sent[i].sql
  BY ResultFacts
<1>2. /\ conn \in [id : Nat, closed : BOOLEAN, last : Nat] /\ ConnOK
      /\ sent[n].conn = conn.id /\ KillsSent /\ KillsInterrupted
  BY DEF IInv, ReplTypeOK, RunningOK
<1> HIDE DEF n
<1>3. /\ conn' \in [id : Nat, closed : BOOLEAN, last : Nat] /\ conn'.id = conn.id
      /\ conn'.last \in {conn.last, n}
  BY <1>1, <1>2 DEF KnowsQuery, Started, n
<1>4. ConnOK'
  <2>1. conn.last \in 0 .. n /\ (conn.last # 0 => sent[conn.last].conn = conn.id)
    BY <1>2 DEF ConnOK, n
  <2> QED
    BY <1>1, <1>2, <1>3, <2>1 DEF ConnOK
<1>5. ASSUME killed' = killed PROVE KillsSent' /\ KillsInterrupted'
  <2>1. \A k \in killed : k.by \in 1 .. n /\ k.of \in 0 .. n
    BY <1>2 DEF KillsSent, n
  <2> QED
    BY <1>1, <1>2, <1>5, <2>1 DEF KillsSent, KillsInterrupted
<1> QED
  BY <1>3, <1>4, <1>5

\* A kill: of the statement that is displayed, by the interrupt that came while it ran.
LEMMA KillKeeps ==
  ASSUME IInv, pc = "display", interrupted, Result("interrupted"), UNCHANGED conn,
         killed' = killed \cup {[by |-> Len(sent), of |-> conn.last, broken |-> broken]}
  PROVE  KillsSent' /\ KillsInterrupted'
<1> DEFINE n == Len(sent)
           kill == [by |-> n, of |-> conn.last, broken |-> broken]
<1>1. /\ n \in 1 .. n /\ Len(sent') = n /\ n \in Nat
      /\ \A i \in 1 .. n : sent'[i].conn = sent[i].conn /\ sent'[i].sql = sent[i].sql
  BY ResultFacts
<1>2. /\ KillsSent /\ KillsInterrupted /\ broken
      /\ conn.last \in 0 .. n /\ (conn.last # 0 => sent[conn.last].conn = conn.id)
      /\ sent[n].conn = conn.id
      /\ conn.last = n \/ Transfer(sent[n].sql)
  BY DEF IInv, ConnOK, RunningOK
<1>3. kill.by = n /\ kill.of = conn.last /\ kill.broken = broken
  OBVIOUS
<1>4. killed' = killed \cup {kill}
  OBVIOUS
<1> HIDE DEF n, kill
<1>5. \A k \in killed : k.by \in 1 .. n /\ k.of \in 0 .. n
  BY <1>2 DEF KillsSent, n
<1>6. ASSUME NEW k \in killed'
      PROVE  /\ k.by \in 1 .. n /\ k.of \in 0 .. n /\ k.broken
             /\ k.of # k.by =>
                  /\ Transfer(sent'[k.by].sql) /\ k.of < k.by
                  /\ k.of # 0 => sent'[k.of].conn = sent'[k.by].conn
  <2>1. CASE k = kill
    <3>1. k.by = n /\ k.of = conn.last /\ k.broken
      BY <1>2, <1>3, <2>1
    <3>2. CASE conn.last = n
      BY <1>1, <3>1, <3>2
    <3>3. CASE conn.last # n
      <4>1. Transfer(sent[n].sql) /\ conn.last < n /\ (conn.last # 0 => conn.last \in 1 .. n)
        BY <1>1, <1>2, <3>3
      <4> QED
        BY <1>1, <1>2, <3>1, <4>1
    <3> QED
      BY <3>2, <3>3
  <2>2. CASE k \in killed
    BY <1>1, <1>2, <1>5, <2>2 DEF KillsInterrupted
  <2> QED
    BY <1>4, <2>1, <2>2
<1> QED
  BY <1>1, <1>6 DEF KillsSent, KillsInterrupted

LEMMA FailureKeeps ==
  ASSUME IInv, pc \in {"request", "display"},
         NEW r \in {"error", "unauthenticated", "interrupted"}, Result(r),
         NEW isInterrupt \in BOOLEAN, Failure(isInterrupt), KnowsQuery,
         isInterrupt => interrupted /\ pc = "display" /\ r = "interrupted" /\ UNCHANGED conn,
         UNCHANGED <<repl, lines, start, interrupted, broken>>
  PROVE  IInv'
<1>1. ReplTypeOK /\ RunningOK
  BY DEF IInv
<1>2. /\ pc' \in {"next", "stopped"} /\ (repl \/ pc' = "stopped")
      /\ retried' \in BOOLEAN
  BY <1>1 DEF Failure, ReplTypeOK
<1>3. Pending' => queue # <<>> \/ outer # <<>> \/ query # <<>>
  BY <1>2 DEF Pending, Failure, DropLine, LeaveReader
<1>4. repl /\ ~retried => ~Pending'
  BY DEF Pending, Failure, DropLine
<1>5. ~sent[Len(sent)].soft => ~retried
  BY <1>1 DEF RunningOK
<1>6. \A i \in 1 .. Len(sent') : ErrorOK(i)'
  BY <1>2, <1>3, <1>4, <1>5, ResultKeepsErrors DEF Pending
<1>7. ReplTypeOK' /\ ConnOK'
  <2>1. IsSequence(sent') /\ \A i \in 1 .. Len(sent') : sent'[i] \in SentType(sent'[i])
    BY ResultFacts
  <2>2. conn' \in [id : Nat, closed : BOOLEAN, last : Nat] /\ ConnOK'
    BY ResultKeepsConn
  <2> QED
    BY <1>1, <1>2, <2>1, <2>2 DEF ReplTypeOK, SentType
<1>8. RunningOK'
  BY <1>2 DEF RunningOK
<1>9. KillsSent' /\ KillsInterrupted'
  <2>1. \/ killed' = killed
        \/ /\ isInterrupt
           /\ killed' = killed \cup {[by |-> Len(sent), of |-> conn.last, broken |-> broken]}
    BY DEF Failure
  <2> QED
    BY <2>1, ResultKeepsConn, KillKeeps
<1> QED
  BY <1>6, <1>7, <1>8, <1>9 DEF IInv

\* The session is gone: an interactive one is to be made anew.
LEMMA UnauthenticatedKeeps ==
  ASSUME IInv, pc \in {"request", "display"}, Unauthenticated, KnowsQuery,
         UNCHANGED <<repl, lines, start, interrupted, broken>>
  PROVE  IInv'
<1>1. Result("unauthenticated") /\ ReplTypeOK
  BY DEF Unauthenticated, IInv
<1>2. CASE Failure(FALSE)
  BY <1>1, <1>2, FailureKeeps
<1>3. CASE /\ repl /\ pc' = "reconnect" /\ LeaveReader /\ UNCHANGED <<query, killed, retried>>
  <2>1. IsSequence(sent') /\ \A i \in 1 .. Len(sent') : sent'[i] \in SentType(sent'[i])
    BY <1>1, ResultFacts
  <2>2. \A i \in 1 .. Len(sent') : ErrorOK(i)'
    <3>1. \A i \in 1 .. Len(sent) : ErrorOK(i)
      BY DEF IInv
    <3> QED
      BY <1>1, <1>3, ResultKeepsErrors DEF Pending
  <2>3. /\ conn' \in [id : Nat, closed : BOOLEAN, last : Nat] /\ ConnOK'
        /\ KillsSent' /\ KillsInterrupted'
    BY <1>1, <1>3, ResultKeepsConn
  <2>4. ReplTypeOK'
    BY <1>1, <1>3, <2>1, <2>3 DEF ReplTypeOK, SentType
  <2>5. RunningOK'
    BY <1>3 DEF RunningOK
  <2> QED
    BY <2>2, <2>3, <2>4, <2>5 DEF IInv
<1> QED
  BY <1>2, <1>3 DEF Unauthenticated, ReplTypeOK

LEMMA AnswerKeeps == ASSUME IInv, Answer PROVE IInv'
<1>1. /\ pc = "request" /\ UNCHANGED <<repl, lines, start, interrupted, broken>>
      /\ ReplTypeOK /\ RunningOK
  BY DEF Answer, readVars, IInv
<1>2. PICK yes \in BOOLEAN :
        \/ /\ Result("ok") /\ (yes \/ Transfer(sent[Len(sent)].sql))
           /\ LET password == sent[Len(sent)].sql = <<"ALTER USER">>
                  leaves == password /\ Interactive /\ ~retried
              IN /\ pc' = IF leaves THEN "stopped" ELSE IF password THEN "next" ELSE "display"
                 /\ Started(yes, leaves)
                 /\ retried' = (retried /\ (Reading \/ ~password))
           /\ UNCHANGED <<queue, outer, query, reader, killed>>
        \/ Result("error") /\ Failure(FALSE) /\ Started(yes, FALSE)
        \/ Unauthenticated /\ Started(yes, FALSE)
  BY DEF Answer
<1>3. CASE Result("error") /\ Failure(FALSE) /\ Started(yes, FALSE)
  <2>1. KnowsQuery
    BY <1>1, <1>3 DEF KnowsQuery
  <2> QED
    BY <1>1, <1>3, <2>1, FailureKeeps
<1>4. CASE Unauthenticated /\ Started(yes, FALSE)
  <2>1. KnowsQuery
    BY <1>1, <1>4 DEF KnowsQuery
  <2> QED
    BY <1>1, <1>4, <2>1, UnauthenticatedKeeps
<1>5. CASE /\ Result("ok") /\ (yes \/ Transfer(sent[Len(sent)].sql))
           /\ LET password == sent[Len(sent)].sql = <<"ALTER USER">>
                  leaves == password /\ Interactive /\ ~retried
              IN /\ pc' = IF leaves THEN "stopped" ELSE IF password THEN "next" ELSE "display"
                 /\ Started(yes, leaves)
                 /\ retried' = (retried /\ (Reading \/ ~password))
           /\ UNCHANGED <<queue, outer, query, reader, killed>>
  <2>1. PICK closes \in BOOLEAN : Started(yes, closes)
    BY <1>5
  <2>2. /\ Result("ok") /\ UNCHANGED <<queue, outer, query, killed>>
        /\ pc' \in {"stopped", "next", "display"} /\ retried' \in BOOLEAN /\ (retried' => retried)
    BY <1>1, <1>5 DEF ReplTypeOK
  <2>3. KnowsQuery
    BY <1>1, <2>1 DEF KnowsQuery
  <2>4. \A i \in 1 .. Len(sent') : ErrorOK(i)'
    BY <1>1, <2>2, ResultKeepsErrors DEF Pending
  <2>5. /\ IsSequence(sent') /\ \A i \in 1 .. Len(sent') : sent'[i] \in SentType(sent'[i])
        /\ Len(sent') = Len(sent) /\ Len(sent) \in 1 .. Len(sent)
        /\ sent'[Len(sent)].soft = sent[Len(sent)].soft /\ sent'[Len(sent)].result = "ok"
        /\ sent'[Len(sent)].conn = sent[Len(sent)].conn /\ sent'[Len(sent)].sql = sent[Len(sent)].sql
    BY <1>1, <2>2, ResultFacts
  <2>6. /\ conn' \in [id : Nat, closed : BOOLEAN, last : Nat] /\ conn'.id = conn.id /\ ConnOK'
        /\ KillsSent' /\ KillsInterrupted'
    BY <1>1, <2>2, <2>3, ResultKeepsConn
  <2>7. yes => conn'.last = Len(sent)
    BY <1>1, <2>1 DEF Started, ReplTypeOK
  <2>8. ReplTypeOK'
    BY <1>1, <2>2, <2>5, <2>6 DEF ReplTypeOK, SentType
  <2>9. RunningOK'
    BY <1>1, <1>5, <2>2, <2>5, <2>6, <2>7 DEF RunningOK
  <2> QED
    BY <2>4, <2>6, <2>8, <2>9 DEF IInv
<1> QED
  BY <1>2, <1>3, <1>4, <1>5

LEMMA DisplayKeeps == ASSUME IInv, Display PROVE IInv'
<1>1. /\ pc = "display" /\ UNCHANGED <<repl, lines, start, interrupted, conn, broken>>
      /\ KnowsQuery
  BY DEF Display, readVars, KnowsQuery
<1>2. CASE interrupted /\ Failure(TRUE) /\ Result("interrupted")
  BY <1>1, <1>2, FailureKeeps
<1>3. CASE Failure(FALSE) /\ Result("error")
  BY <1>1, <1>3, FailureKeeps
<1>4. CASE Unauthenticated
  BY <1>1, <1>4, UnauthenticatedKeeps
<1>5. CASE /\ pc' = "next" /\ retried' = (retried /\ Reading)
           /\ UNCHANGED <<queue, outer, query, reader, killed, sent>>
  <2>1. ReplTypeOK /\ retried' \in BOOLEAN
    BY <1>5 DEF IInv, ReplTypeOK
  <2>2. Quiet
    BY <1>1, <1>5, <2>1 DEF Quiet, ReplTypeOK, Pending
  <2> QED
    BY <2>2, QuietKeeps
<1> QED
  BY <1>2, <1>3, <1>4, <1>5 DEF Display

LEMMA NextKeeps == ASSUME IInv, [Next]_vars PROVE IInv'
<1>1. CASE UNCHANGED vars
  BY <1>1 DEF vars, runVars, readVars, IInv, ReplTypeOK, SentType, RunningOK, ErrorOK, Failed,
     Pending, ConnOK, KillsSent, KillsInterrupted
<1>2. CASE Next
  BY <1>2, ReadLineKeeps, AbandonLineKeeps, EndOfInputKeeps, EndReaderKeeps, LineDoneKeeps,
     BeginKeeps, LeaveKeeps, CommandKeeps, BeginSourceKeeps, CtrlCKeeps, AnswerKeeps, DisplayKeeps,
     ReconnectKeeps DEF Next
<1> QED
  BY <1>1, <1>2

LEMMA InvariantHolds == Spec => []IInv
<1>1. Init => IInv
  BY InitIInv
<1>2. IInv /\ [Next]_vars => IInv'
  BY NextKeeps
<1> QED
  BY <1>1, <1>2, PTL DEF Spec

-----------------------------------------------------------------------------
(* What the refinement of StatementRunner needs to know of the state *)

\* The statement that was typed, and that a reconnect sends again, is the last one sent.
Typed ==
  (pc \in {"request", "display"} /\ ~Reading) \/ (pc = "reconnect" /\ raw[1] # "!source")

RunnerOK ==
  /\ settings.delimiter \in {";"} \cup Delimiters
  /\ pc = "read" => queue = <<>>
  /\ ~Reading => outer = <<>>
  /\ pc = "reconnect" => ~Reading /\ ~retried /\ Len(sent) # 0
  /\ ~repl => ~retried /\ outer = <<>>
  /\ ~repl /\ pc # "stopped" => Reading
  /\ retried /\ pc \in {"read", "next"} => Reading
  /\ repl /\ Reading => raw[1] = "!source"
  /\ Typed => raw[1] # "!source" /\ sent[Len(sent)].sql = Bare(Stripped(raw))

RInv == IInv /\ RunnerOK

LEMMA InitRunner == Init => RunnerOK
BY DEF Init, RunnerOK, Typed, Reading, NewParser

\* A text that is sent is one of its statement's.
LEMMA SentForm == ASSUME RunnerOK, NEW sql PROVE Bare(Stripped(sql)) \in Forms(sql)
<1> DEFINE D == {";"} \cup Delimiters
           Texts(d) == {Strip(sql, d), Collapsed(Strip(sql, d))}
<1>1. settings.delimiter \in D
  BY DEF RunnerOK
<1>2. Bare(Stripped(sql)) \in Texts(settings.delimiter)
  BY DEF Bare, Stripped
<1>3. Forms(sql) = UNION {Texts(d) : d \in D}
  BY DEF Forms
<1> HIDE DEF D, Texts
<1> QED
  BY <1>1, <1>2, <1>3

\* What is sent is appended to what was sent.
LEMMA RanAppended ==
  ASSUME IInv, NEW sql, NEW id, NEW again, Send(sql, id, again)
  PROVE  /\ Ran' = Append(Ran, Bare(Stripped(sql)))
         /\ Len(sent') = Len(sent) + 1 /\ sent'[Len(sent')].sql = Bare(Stripped(sql))
         /\ Len(Ran) = Len(sent) /\ Len(sent) \in Nat
         /\ Len(sent) # 0 => Ran[Len(Ran)] = sent[Len(sent)].sql
<1> DEFINE x == Bare(Stripped(sql))
           r == [sql |-> x, start |-> start, line |-> lines, conn |-> id, result |-> "none",
                 soft |-> again \/ retried]
           S == {sent[i].sql : i \in DOMAIN sent} \cup {x}
<1>1. sent' = Append(sent, r) /\ r.sql = x
  BY DEF Send
<1> HIDE DEF r, x
<1>2. /\ IsSequence(sent') /\ Len(sent') = Len(sent) + 1 /\ sent'[Len(sent) + 1] = r
      /\ \A i \in 1 .. Len(sent) : sent'[i] = sent[i]
      /\ Len(sent) \in Nat /\ DOMAIN sent = 1 .. Len(sent) /\ DOMAIN sent' = 1 .. Len(sent')
  <2>1. IsSequence(sent)
    BY DEF IInv, ReplTypeOK
  <2>2. /\ IsSequence(sent') /\ Len(sent') = Len(sent) + 1 /\ sent'[Len(sent) + 1] = r
        /\ \A i \in 1 .. Len(sent) : sent'[i] = sent[i]
    BY <1>1, <2>1, AppendSequence
  <2> QED
    BY <2>1, <2>2, SequenceFacts
<1>3. Ran \in Seq(S) /\ Len(Ran) = Len(sent) /\ x \in S
  <2>1. Ran \in [1 .. Len(sent) -> S]
    BY <1>2 DEF Ran
  <2> HIDE DEF S
  <2>2. Ran \in Seq(S) /\ Len(Ran) = Len(sent)
    BY <1>2, <2>1
  <2> QED
    BY <2>2 DEF S
<1>4. Ran' = [i \in 1 .. Len(sent) + 1 |-> sent'[i].sql]
  BY <1>2 DEF Ran
<1>5. \A i \in 1 .. Len(sent) : Ran[i] = sent[i].sql
  BY <1>2 DEF Ran
<1>6. Ran' = Append(Ran, x)
  <2> DEFINE t == Append(Ran, x)
             n == Len(sent) + 1
  <2> HIDE DEF S
  <2>1. t \in Seq(S) /\ Len(t) = n /\ \A i \in 1 .. n : t[i] = IF i = n THEN x ELSE Ran[i]
    BY <1>2, <1>3
  <2>2. n \in Nat /\ \A i \in 1 .. n : i # n => i \in 1 .. Len(sent)
    BY <1>2
  <2> HIDE DEF t, n
  <2>3. \A i \in 1 .. n : t[i] = sent'[i].sql
    <3>1. sent'[n].sql = x
      BY <1>1, <1>2 DEF n
    <3>2. \A i \in 1 .. Len(sent) : sent'[i].sql = Ran[i]
      BY <1>2, <1>5
    <3> QED
      BY <2>1, <2>2, <3>1, <3>2
  <2>4. t = [i \in 1 .. n |-> t[i]]
    BY <2>1, <2>2
  <2>5. Ran' = [i \in 1 .. n |-> sent'[i].sql]
    BY <1>4 DEF n
  <2>6. Ran' = t
    BY <2>3, <2>4, <2>5
  <2> QED
    BY <2>6 DEF t
<1> QED
  BY <1>1, <1>2, <1>3, <1>5, <1>6 DEF x

\* A result changes nothing of it.
LEMMA RanKept ==
  ASSUME IInv, pc \in {"request", "display"},
         NEW r \in {"none", "ok", "error", "unauthenticated", "interrupted"}, Result(r)
  PROVE  /\ Ran' = Ran /\ Len(sent') = Len(sent) /\ Len(sent) # 0
         /\ sent'[Len(sent)].sql = sent[Len(sent)].sql
<1>1. /\ Len(sent) \in 1 .. Len(sent) /\ Len(sent') = Len(sent)
      /\ IsSequence(sent') /\ IsSequence(sent)
  BY ResultFacts DEF IInv, ReplTypeOK
<1>2. DOMAIN sent = 1 .. Len(sent) /\ DOMAIN sent' = 1 .. Len(sent)
  BY <1>1, SequenceFacts
<1>3. \A i \in DOMAIN sent : sent[i] \in SentType(sent[i])
  BY <1>2 DEF IInv, ReplTypeOK
<1>4. \A i \in DOMAIN sent : sent'[i].sql = sent[i].sql
  BY <1>1, <1>2, <1>3 DEF Result, SentType
<1> QED
  BY <1>1, <1>2, <1>4 DEF Ran

-----------------------------------------------------------------------------
(* Each step of the client is one of the runner, or none *)

\* The steps that leave the statement that runs, if any, as it is.
Still ==
  /\ UNCHANGED <<repl, raw, sent>> /\ settings'.delimiter \in {";"} \cup Delimiters
  /\ pc' \notin {"request", "display", "reconnect"}

LEMMA StillFacts == ASSUME RInv, Still PROVE ~Typed' /\ Ran' = Ran
BY DEF Still, Typed, Ran

LEMMA ReadLineRuns == ASSUME RInv, ReadLine PROVE RunnerOK' /\ Runner!Give
<1> USE DEF RInv, RunnerOK
<1>1. Still /\ UNCHANGED <<settings, reader, outer, raw, retried, repl>> /\ pc = "read" /\ pc' = "next"
  BY DEF ReadLine, Still
<1>2. ~Typed' /\ Ran' = Ran /\ Reading' = Reading
  BY <1>1, StillFacts DEF Reading
<1>3. RunnerOK'
  BY <1>1, <1>2
<1>4. Runner!Give
  BY <1>1, <1>2 DEF Runner!Give, Status
<1> QED
  BY <1>3, <1>4

LEMMA AbandonLineRuns == ASSUME RInv, AbandonLine PROVE RunnerOK' /\ UNCHANGED Runner!vars
<1> USE DEF RInv, RunnerOK
<1>1. Still /\ UNCHANGED <<settings, reader, runVars, repl, pc>> /\ pc = "read"
  BY DEF AbandonLine, Still, runVars
<1>2. ~Typed' /\ Ran' = Ran /\ Reading' = Reading
  BY <1>1, StillFacts DEF Reading
<1>3. RunnerOK'
  BY <1>1, <1>2 DEF runVars
<1>4. UNCHANGED Runner!vars
  BY <1>1, <1>2 DEF Runner!vars, Status, runVars
<1> QED
  BY <1>3, <1>4

LEMMA LineDoneRuns == ASSUME RInv, LineDone PROVE RunnerOK' /\ UNCHANGED Runner!vars
<1> USE DEF RInv, RunnerOK
<1>1. /\ Still /\ UNCHANGED <<settings, reader, runVars, repl>>
      /\ pc = "next" /\ pc' = "read" /\ queue = <<>>
  BY DEF LineDone, Still, runVars
<1>2. ~Typed' /\ Ran' = Ran /\ Reading' = Reading
  BY <1>1, StillFacts DEF Reading
<1>3. RunnerOK'
  BY <1>1, <1>2 DEF runVars
<1>4. UNCHANGED Runner!vars
  BY <1>1, <1>2 DEF Runner!vars, Status, runVars
<1> QED
  BY <1>3, <1>4

LEMMA EndOfInputRuns == ASSUME RInv, EndOfInput PROVE RunnerOK' /\ [Runner!Next]_(Runner!vars)
<1> USE DEF RInv, RunnerOK
<1>1. /\ Still /\ UNCHANGED <<settings, outer, raw, retried, repl>> /\ pc = "read"
      /\ IF Reading THEN Reading' /\ pc' = "next"
         ELSE UNCHANGED <<reader, queue>> /\ pc' = "stopped"
  BY DEF EndOfInput, Still, Reading
<1>2. ~Typed' /\ Ran' = Ran /\ Reading' = Reading
  BY <1>1, StillFacts DEF Reading
<1>3. RunnerOK'
  BY <1>1, <1>2
<1>4. CASE Reading
  BY <1>1, <1>2, <1>4 DEF Runner!Next, Runner!Give, Status
<1>5. CASE ~Reading
  BY <1>1, <1>2, <1>5 DEF Runner!Next, Runner!Stop, Status
<1> QED
  BY <1>3, <1>4, <1>5

LEMMA EndReaderRuns == ASSUME RInv, EndReader PROVE RunnerOK' /\ [Runner!Next]_(Runner!vars)
<1> USE DEF RInv, RunnerOK
<1>1. /\ Still /\ UNCHANGED <<settings, repl, raw>> /\ pc = "next" /\ queue = <<>> /\ Reading /\ ~Reading'
      /\ queue' = outer /\ outer' = <<>> /\ retried' = FALSE
      /\ pc' = IF repl THEN "next" ELSE "stopped"
  BY DEF EndReader, Still, Reading
<1>2. ~Typed' /\ Ran' = Ran
  BY <1>1, StillFacts
<1>3. RunnerOK'
  BY <1>1, <1>2 DEF IInv, ReplTypeOK
<1>4. CASE repl
  <2>1. Reading' = FALSE /\ Status = "idle" /\ Status' = "idle"
    BY <1>1, <1>4 DEF Reading, Status
  <2>2. Runner!EndOfFile
    BY <1>1, <1>2, <2>1 DEF Runner!EndOfFile, Runner!Close
  <2> QED
    BY <1>3, <2>2 DEF Runner!Next
<1>5. CASE ~repl
  <2>1. outer = <<>> /\ retried = FALSE /\ Reading' = FALSE
    BY <1>1, <1>5 DEF Reading, IInv, ReplTypeOK
  <2> QED
    BY <1>1, <1>2, <1>5, <2>1 DEF Runner!Next, Runner!Stop, Status
<1> QED
  BY <1>3, <1>4, <1>5

LEMMA LeaveRuns == ASSUME RInv, Leave PROVE RunnerOK' /\ Runner!Stop
<1> USE DEF RInv, RunnerOK
<1>1. Still /\ UNCHANGED <<settings, reader, runVars, repl>> /\ pc = "next" /\ pc' = "stopped"
  BY DEF Leave, Still, runVars
<1>2. ~Typed' /\ Ran' = Ran /\ Reading' = Reading
  BY <1>1, StillFacts DEF Reading
<1>3. RunnerOK'
  BY <1>1, <1>2 DEF runVars
<1>4. Runner!Stop
  BY <1>1, <1>2 DEF Runner!Stop, Status, runVars
<1> QED
  BY <1>3, <1>4

LEMMA CommandRuns == ASSUME RInv, Command PROVE RunnerOK' /\ [Runner!Next]_(Runner!vars)
<1> USE DEF RInv, RunnerOK
<1>1. /\ UNCHANGED <<repl, reader, pc, outer, raw, retried, sent>>
      /\ pc = "next" /\ queue # <<>> /\ ~Reading
      /\ queue' = Tail(queue) \/ queue' = <<>>
  BY DEF Command
<1>2. settings'.delimiter \in {";"} \cup Delimiters
  <2>1. CASE Set
    <3>1. PICK d \in Delimiters, multi \in BOOLEAN : settings' = [delimiter |-> d, multi |-> multi]
      BY <2>1 DEF Set
    <3> QED
      BY <3>1
  <2>2. CASE UNCHANGED settings
    BY <2>2
  <2> QED
    BY <2>1, <2>2 DEF Command
<1>3. ~Typed' /\ Ran' = Ran /\ Reading' = Reading
  BY <1>1, <1>2, StillFacts DEF Reading, Still
<1>4. RunnerOK'
  BY <1>1, <1>2, <1>3
<1>5. Reading' = FALSE /\ Reading = FALSE /\ outer = <<>>
  BY <1>1, <1>3 DEF Reading
<1>6. CASE queue' = Tail(queue)
  <2>1. Runner!Skip
    BY <1>1, <1>3, <1>6 DEF Runner!Skip, Status
  <2> QED
    BY <1>4, <2>1 DEF Runner!Next
<1>7. CASE queue' = <<>>
  <2>1. Runner!Abandon
    BY <1>1, <1>3, <1>5, <1>7 DEF Runner!Abandon, Status
  <2> QED
    BY <1>4, <2>1 DEF Runner!Next
<1> QED
  BY <1>4, <1>6, <1>7, <1>1

LEMMA BeginSourceRuns == ASSUME RInv, BeginSource PROVE RunnerOK' /\ Runner!Open
<1> USE DEF RInv, RunnerOK
<1>1. /\ UNCHANGED <<repl, settings, sent>> /\ raw' = Head(queue) /\ raw'[1] = "!source"
      /\ pc = "next" /\ pc' = "read" /\ queue # <<>> /\ ~Reading
      /\ Reading' = TRUE /\ queue' = <<>> /\ outer' = Tail(queue) /\ retried' = FALSE
  BY DEF BeginSource, Source, Reading
<1>2. ~Typed' /\ Ran' = Ran
  BY <1>1 DEF Typed, Ran
<1>3. RunnerOK'
  BY <1>1, <1>2
<1>4. Runner!Open
  BY <1>1, <1>2 DEF Runner!Open, Status
<1> QED
  BY <1>3, <1>4

LEMMA CtrlCRuns == ASSUME RInv, CtrlC PROVE RunnerOK' /\ UNCHANGED Runner!vars
<1>1. UNCHANGED <<repl, settings, reader, pc, queue, outer, raw, retried, sent>>
  BY DEF CtrlC, runVars
<1>2. /\ Reading' = Reading /\ Typed' = Typed /\ Ran' = Ran /\ Status' = Status
      /\ Bare(Stripped(raw))' = Bare(Stripped(raw))
  BY <1>1 DEF Reading, Typed, Ran, Status, Bare, Stripped
<1>3. RunnerOK'
  BY <1>1, <1>2 DEF RInv, RunnerOK
<1>4. UNCHANGED Runner!vars
  BY <1>1, <1>2 DEF Runner!vars
<1> QED
  BY <1>3, <1>4

LEMMA BeginRuns == ASSUME RInv, Begin PROVE RunnerOK' /\ Runner!Begin
<1> USE DEF RInv, RunnerOK
<1>1. /\ UNCHANGED <<repl, settings, reader, outer, retried>>
      /\ pc = "next" /\ pc' = "request" /\ queue # <<>> /\ queue' = Tail(queue)
      /\ raw' = (IF Reading THEN raw ELSE Head(queue))
      /\ ~Reading => Head(queue)[1] \notin Bang
      /\ Send(Head(queue), conn.id, FALSE)
  BY DEF Begin, Send
<1> DEFINE x == Bare(Stripped(Head(queue)))
<1>2. Ran' = Append(Ran, x) /\ sent'[Len(sent')].sql = x /\ x \in Forms(Head(queue))
  BY <1>1, RanAppended, SentForm
<1>3. Reading' = Reading
  BY <1>1 DEF Reading
<1>4. ~Reading => raw'[1] # "!source" /\ x = Bare(Stripped(raw))'
  BY <1>1, <1>3 DEF Bang, Bare, Stripped
<1> HIDE DEF x
<1>5. RunnerOK'
  BY <1>1, <1>2, <1>3, <1>4 DEF Typed
<1>6. Runner!Begin
  BY <1>1, <1>2, <1>3 DEF Runner!Begin, Status
<1> QED
  BY <1>5, <1>6

\* The file is left; after an error that is only printed, and before a reconnect.
LEMMA LeaveReaderFacts ==
  ASSUME RInv, LeaveReader
  PROVE  /\ Reading' = FALSE /\ outer' = <<>>
         /\ Reading => queue' = outer
         /\ ~Reading => UNCHANGED <<queue, outer>> /\ Reading' = Reading
BY DEF LeaveReader, Reading, RInv, RunnerOK

LEMMA FailureRuns ==
  ASSUME RInv, pc \in {"request", "display"},
         NEW r \in {"error", "unauthenticated", "interrupted"}, Result(r),
         NEW isInterrupt \in BOOLEAN, Failure(isInterrupt), UNCHANGED <<repl, settings, raw>>
  PROVE  RunnerOK' /\ [Runner!Next]_(Runner!vars)
<1> USE DEF RInv, RunnerOK
<1>1. Ran' = Ran /\ Status = "running"
  BY RanKept DEF Status
<1>2. CASE ~repl
  <2>1. pc' = "stopped" /\ UNCHANGED <<queue, outer, reader, retried>>
    BY <1>2 DEF Failure
  <2>2. Reading' = Reading /\ Status' = "stopped" /\ ~Typed'
    BY <2>1 DEF Reading, Status, Typed
  <2>3. RunnerOK'
    BY <1>2, <2>1, <2>2
  <2>4. Runner!Stop
    BY <1>1, <2>1, <2>2 DEF Runner!Stop
  <2> QED
    BY <2>3, <2>4 DEF Runner!Next
<1>3. CASE repl /\ retried
  <2>1. pc' = "next" /\ retried' = FALSE /\ LeaveReader
    BY <1>3 DEF Failure
  <2>2. Status' = "idle" /\ ~Typed'
    BY <2>1 DEF Status, Typed
  <2>3. RunnerOK'
    BY <1>3, <2>1, <2>2, LeaveReaderFacts
  <2>4. Runner!Excuse
    BY <1>1, <1>3, <2>1, <2>2, LeaveReaderFacts DEF Runner!Excuse, Runner!Close
  <2> QED
    BY <2>3, <2>4 DEF Runner!Next
<1>4. CASE repl /\ ~retried
  <2>1. /\ pc' = "next" /\ retried' = FALSE /\ reader' = "none"
        /\ queue' = <<>> /\ outer' = <<>>
    BY <1>4 DEF Failure, DropLine
  <2>2. Status' = "idle" /\ ~Typed' /\ Reading' = FALSE /\ retried = FALSE
    BY <1>4, <2>1 DEF Status, Typed, Reading, IInv, ReplTypeOK
  <2>3. RunnerOK'
    BY <1>4, <2>1, <2>2
  <2>4. Runner!Abandon
    BY <1>1, <1>4, <2>1, <2>2 DEF Runner!Abandon
  <2> QED
    BY <2>3, <2>4 DEF Runner!Next
<1> QED
  BY <1>2, <1>3, <1>4

LEMMA UnauthenticatedRuns ==
  ASSUME RInv, pc \in {"request", "display"}, Unauthenticated, UNCHANGED <<repl, settings, raw>>
  PROVE  RunnerOK' /\ [Runner!Next]_(Runner!vars)
<1> USE DEF RInv, RunnerOK
<1>1. Result("unauthenticated") /\ Status = "running"
  BY DEF Unauthenticated, Status
<1>2. CASE Failure(FALSE)
  BY <1>1, <1>2, FailureRuns
<1>3. CASE /\ repl /\ ~retried
           /\ pc' = "reconnect" /\ LeaveReader /\ UNCHANGED retried
  <2>1. /\ Ran' = Ran /\ Len(sent') = Len(sent) /\ Len(sent) # 0
        /\ sent'[Len(sent)].sql = sent[Len(sent)].sql
    BY <1>1, RanKept
  <2>2. Reading => raw[1] = "!source"
    BY <1>3
  <2>3. ~Reading => Typed /\ raw[1] # "!source"
    BY DEF Typed
  <2>4. ~Reading => Bare(Stripped(raw))' = Bare(Stripped(raw))
    BY <1>3, LeaveReaderFacts DEF Bare, Stripped
  <2>5. Typed' => raw'[1] # "!source" /\ sent'[Len(sent')].sql = Bare(Stripped(raw))'
    BY <1>3, <2>1, <2>2, <2>3, <2>4 DEF Typed
  <2>6. RunnerOK'
    BY <1>3, <2>1, <2>5, LeaveReaderFacts
  <2>7. Status' = IF Reading THEN "reread" ELSE "resend"
    BY <1>3, <2>2, <2>3 DEF Status
  <2>8. retried = FALSE
    BY <1>3 DEF IInv, ReplTypeOK
  <2>9. Runner!Lose
    BY <1>1, <1>3, <2>1, <2>7, <2>8, LeaveReaderFacts DEF Runner!Lose, Runner!Close
  <2> QED
    BY <2>6, <2>9 DEF Runner!Next
<1> QED
  BY <1>2, <1>3 DEF Unauthenticated

LEMMA AnswerRuns == ASSUME RInv, Answer PROVE RunnerOK' /\ [Runner!Next]_(Runner!vars)
<1> USE DEF RInv, RunnerOK
<1>1. pc = "request" /\ UNCHANGED <<repl, settings, raw>> /\ Status = "running"
  BY DEF Answer, Status
<1>2. CASE Result("error") /\ Failure(FALSE)
  BY <1>1, <1>2, FailureRuns
<1>3. CASE Unauthenticated
  BY <1>1, <1>3, UnauthenticatedRuns
<1>4. CASE /\ Result("ok") /\ UNCHANGED <<queue, outer, query, reader, killed>>
           /\ LET password == sent[Len(sent)].sql = <<"ALTER USER">>
                  leaves == password /\ Interactive /\ ~retried
              IN /\ pc' = IF leaves THEN "stopped" ELSE IF password THEN "next" ELSE "display"
                 /\ retried' = (retried /\ (Reading \/ ~password))
  <2>1. UNCHANGED <<queue, outer, reader>>
    BY <1>4
  <2>2. /\ Ran' = Ran /\ Len(sent') = Len(sent) /\ Len(sent) # 0
        /\ sent'[Len(sent)].sql = sent[Len(sent)].sql
    BY <1>1, <1>4, RanKept
  <2>3. Reading' = Reading /\ Bare(Stripped(raw))' = Bare(Stripped(raw))
    BY <1>1, <2>1 DEF Reading, Bare, Stripped
  <2>4. CASE pc' = "stopped" /\ repl /\ ~retried /\ retried' = FALSE
    <3>1. RunnerOK'
      BY <1>1, <2>1, <2>2, <2>3, <2>4 DEF Typed
    <3>2. retried = FALSE
      BY <2>4 DEF IInv, ReplTypeOK
    <3>3. Runner!Stop
      BY <1>1, <2>1, <2>2, <2>3, <2>4, <3>2 DEF Runner!Stop, Status
    <3> QED
      BY <3>1, <3>3 DEF Runner!Next
  <2>5. CASE pc' = "next" /\ retried' = (retried /\ Reading)
    <3>1. RunnerOK'
      BY <1>1, <2>1, <2>2, <2>3, <2>5 DEF Typed
    <3>2. Runner!Finish
      BY <1>1, <2>1, <2>2, <2>3, <2>5 DEF Runner!Finish, Status
    <3> QED
      BY <3>1, <3>2 DEF Runner!Next
  <2>6. CASE pc' = "display" /\ retried' = retried
    <3>1. RunnerOK'
      BY <1>1, <2>1, <2>2, <2>3, <2>6 DEF Typed
    <3>2. UNCHANGED Runner!vars
      BY <1>1, <2>1, <2>2, <2>3, <2>6 DEF Runner!vars, Status
    <3> QED
      BY <3>1, <3>2
  <2> QED
    BY <1>4, <2>4, <2>5, <2>6 DEF Interactive, IInv, ReplTypeOK
<1> QED
  BY <1>1, <1>2, <1>3, <1>4 DEF Answer

LEMMA DisplayRuns == ASSUME RInv, Display PROVE RunnerOK' /\ [Runner!Next]_(Runner!vars)
<1> USE DEF RInv, RunnerOK
<1>1. pc = "display" /\ UNCHANGED <<repl, settings, raw>> /\ Status = "running"
  BY DEF Display, Status
<1>2. CASE interrupted /\ Failure(TRUE) /\ Result("interrupted")
  BY <1>1, <1>2, FailureRuns
<1>3. CASE Failure(FALSE) /\ Result("error")
  BY <1>1, <1>3, FailureRuns
<1>4. CASE Unauthenticated
  BY <1>1, <1>4, UnauthenticatedRuns
<1>5. CASE /\ pc' = "next" /\ retried' = (retried /\ Reading)
           /\ UNCHANGED <<queue, outer, query, reader, killed, sent>>
  <2>1. Reading' = Reading /\ Ran' = Ran /\ Status' = "idle" /\ ~Typed'
    BY <1>5 DEF Reading, Ran, Status, Typed
  <2>2. RunnerOK'
    BY <1>1, <1>5, <2>1
  <2>3. Runner!Finish
    BY <1>1, <1>5, <2>1 DEF Runner!Finish
  <2> QED
    BY <2>2, <2>3 DEF Runner!Next
<1> QED
  BY <1>2, <1>3, <1>4, <1>5 DEF Display

LEMMA ReconnectRuns == ASSUME RInv, Reconnect PROVE RunnerOK' /\ [Runner!Next]_(Runner!vars)
<1> USE DEF RInv, RunnerOK
<1>1. /\ pc = "reconnect" /\ UNCHANGED <<repl, settings>>
      /\ Reading = FALSE /\ outer = <<>> /\ Len(sent) # 0 /\ ~retried
      /\ repl
  BY DEF Reconnect, Reading
<1>2. CASE pc' = "next" /\ UNCHANGED <<runVars, reader, interrupted, conn, sent, broken>>
  <2>1. Reading' = Reading /\ Ran' = Ran /\ Status' = "idle" /\ ~Typed'
    BY <1>2 DEF Reading, Ran, Status, Typed
  <2>2. RunnerOK'
    BY <1>1, <1>2, <2>1 DEF runVars
  <2>3. Runner!GiveUp
    BY <1>1, <1>2, <2>1 DEF Runner!GiveUp, Status, runVars
  <2> QED
    BY <2>2, <2>3 DEF Runner!Next
<1>3. CASE raw[1] = "!source" /\ Source(raw, queue, TRUE) /\ UNCHANGED sent
  <2>1. /\ Reading' = TRUE /\ pc' = "read" /\ queue' = <<>> /\ outer' = queue /\ raw' = raw
        /\ retried' = TRUE
    BY <1>3 DEF Source, Reading
  <2>2. Ran' = Ran /\ Status = "reread" /\ Status' = "idle" /\ ~Typed'
    BY <1>1, <1>3, <2>1 DEF Ran, Status, Typed
  <2>3. RunnerOK'
    BY <1>1, <1>3, <2>1, <2>2
  <2>4. Runner!Reread
    BY <1>1, <2>1, <2>2 DEF Runner!Reread
  <2> QED
    BY <2>3, <2>4 DEF Runner!Next
<1>4. CASE /\ raw[1] # "!source" /\ Send(raw, conn.id + 1, TRUE) /\ retried' = TRUE
           /\ UNCHANGED <<queue, outer, reader, raw>>
  <2> DEFINE x == Bare(Stripped(raw))
  <2>1. /\ Ran' = Append(Ran, x) /\ sent'[Len(sent')].sql = x
        /\ Ran[Len(Ran)] = sent[Len(sent)].sql
    BY <1>1, <1>4, RanAppended
  <2>2. sent[Len(sent)].sql = x
    BY <1>1, <1>4 DEF Typed
  <2>3. Reading' = Reading /\ x' = x /\ pc' = "request"
    BY <1>1, <1>4 DEF Reading, Bare, Stripped, Send
  <2> HIDE DEF x
  <2>4. Typed' => raw'[1] # "!source" /\ sent'[Len(sent')].sql = Bare(Stripped(raw))'
    BY <1>4, <2>1, <2>3 DEF x
  <2>5. RunnerOK'
    BY <1>1, <1>4, <2>3, <2>4
  <2>6. Status = "resend" /\ Status' = "running"
    BY <1>1, <1>4, <2>3 DEF Status
  <2>7. Ran' = Append(Ran, Ran[Len(Ran)])
    BY <2>1, <2>2
  <2>8. Runner!Resend
    BY <1>1, <1>4, <2>3, <2>6, <2>7 DEF Runner!Resend
  <2> QED
    BY <2>5, <2>8 DEF Runner!Next
<1> QED
  BY <1>2, <1>3, <1>4 DEF Reconnect

LEMMA NextRuns == RInv /\ [Next]_vars => RInv' /\ [Runner!Next]_(Runner!vars)
<1> SUFFICES ASSUME RInv, [Next]_vars PROVE RInv' /\ [Runner!Next]_(Runner!vars)
  OBVIOUS
<1>1. IInv'
  BY NextKeeps DEF RInv
<1>2. CASE UNCHANGED vars
  <2>1. /\ UNCHANGED <<repl, settings, reader, pc, queue, outer, raw, retried, sent>>
    BY <1>2 DEF vars, runVars
  <2>2. /\ Reading' = Reading /\ Typed' = Typed /\ Ran' = Ran /\ Status' = Status
        /\ Bare(Stripped(raw))' = Bare(Stripped(raw))
    BY <2>1 DEF Reading, Typed, Ran, Status, Bare, Stripped
  <2>3. RunnerOK' /\ UNCHANGED Runner!vars
    BY <2>1, <2>2 DEF RInv, RunnerOK, Runner!vars
  <2> QED
    BY <1>1, <2>3 DEF RInv
<1>3. CASE Next
  <2>1. RunnerOK' /\ [Runner!Next]_(Runner!vars)
    BY <1>3, ReadLineRuns, AbandonLineRuns, EndOfInputRuns, EndReaderRuns, LineDoneRuns, BeginRuns,
       LeaveRuns, CommandRuns, BeginSourceRuns, CtrlCRuns, AnswerRuns, DisplayRuns, ReconnectRuns
       DEF Next, Runner!Next
  <2> QED
    BY <1>1, <2>1 DEF RInv
<1> QED
  BY <1>2, <1>3

LEMMA InitRuns == Init => RInv /\ Runner!Init
<1> SUFFICES ASSUME Init PROVE RInv /\ Runner!Init
  OBVIOUS
<1>1. RInv
  BY InitIInv, InitRunner DEF RInv
<1>2. Ran = <<>>
  <2>1. sent = <<>> /\ DOMAIN sent = 1 .. 0
    BY EmptySequence, SequenceFacts DEF Init
  <2> QED
    BY <2>1 DEF Ran
<1>3. Runner!Init
  BY <1>2 DEF Init, Runner!Init, Status, Reading
<1> QED
  BY <1>1, <1>3

-----------------------------------------------------------------------------
(* Theorems *)

\* The state of a run of the client has its type.
THEOREM TypeCorrect == Spec => []ReplTypeOK
<1>1. IInv => ReplTypeOK
  BY DEF IInv
<1> QED
  BY <1>1, InvariantHolds, PTL

\* Of the statements of any input, in any order of answers, errors, reconnects and Ctrl+C,
\* only one during which Ctrl+C came makes the client kill a query, an earlier interrupt
\* being forgotten; and the query is that statement's own, or, when it is a PUT that ran
\* none, one of an earlier statement sent over the same connection, never of another.
THEOREM OnlyInterruptedAreKilled == Spec => []KillsInterrupted
<1>1. IInv => KillsInterrupted
  BY DEF IInv
<1> QED
  BY <1>1, InvariantHolds, PTL

\* After a statement that failed no statement is sent that was read before the failure: not
\* one of the same line, not one begun in the buffer, not one of a file that was sourced.
THEOREM NothingAfterAnError == Spec => []StopsAtError
<1>1. ASSUME IInv PROVE StopsAtError
  <2>1. DOMAIN sent = 1 .. Len(sent) /\ Len(sent) \in Nat
    BY <1>1, SequenceFacts DEF IInv, ReplTypeOK
  <2>2. ASSUME NEW i \in DOMAIN sent, NEW j \in DOMAIN sent, i < j,
               sent[i].result \in {"error", "interrupted"}, ~sent[i].soft
        PROVE  repl /\ sent[j].start > sent[i].line
    <3>1. ErrorOK(i) /\ j \in i + 1 .. Len(sent)
      BY <1>1, <2>1, <2>2 DEF IInv
    <3> QED
      BY <2>2, <3>1 DEF ErrorOK, Failed
  <2> QED
    BY <2>2 DEF StopsAtError
<1> QED
  BY <1>1, InvariantHolds, PTL

\* Whatever lines are read and however they are cut, the statements are sent one at a time,
\* in their order, each once; only one that found the session gone is sent again, once, and
\* any other error drops what was given and not begun.
THEOREM StatementsRunInOrder == Spec => ImplementsStatementRunner
<1>1. Spec => Runner!Init /\ [][Runner!Next]_(Runner!vars)
  BY InitRuns, NextRuns, PTL DEF Spec
<1> QED
  BY <1>1 DEF ImplementsStatementRunner, Runner!Spec

=============================================================================
