-------------------------- MODULE StressTestProofs --------------------------
(***************************************************************************)
(* Proofs about db_test.py against the sessions, for any number of         *)
(* workers, keys, transactions and time-outs.                              *)
(*                                                                         *)
(* As long as a client has not timed out, it and its session are in step   *)
(* (Aligned).  A worker that has timed out reads the answers to its        *)
(* earlier requests (Strayed); it never gets to send a COMMIT again, so    *)
(* whatever it takes those answers for, it counts nothing.  The check      *)
(* sends nothing but GETs, and reads what comes (Adrift).                  *)
(***************************************************************************)
EXTENDS MCStressTest, SessionProofs, SequenceTheorems

\* The lines that the test sends, and the replies to them.
TestLines ==
  {<<"START">>, <<"COMMIT">>, <<"ROLLBACK">>}
  \cup {<<"GET", SP, k>> : k \in Rec}
  \cup {<<"PUT", SP, k, SP, n>> : k \in Rec, n \in Nat}

Replies == [text : ReplyTexts, val : Nat \cup {NULL}]

TestTxn == [copy : [Rec -> Nat \cup {NULL}], wr : SUBSET Rec, stale : SUBSET Rec]

\* Where a worker can be, within a transaction and without.
InTurn ==
  {"START", "get", "GET", "put", "PUT", "commit", "COMMIT",
   "rollback", "ROLLBACK", "exception", "EXC_ROLLBACK"}
Labels == {"new", "greeting", "next", "closed"} \cup InTurn

EngineTypeOK ==
  /\ db \in [Rec -> Nat]
  /\ ctx \in [Client -> TestTxn \cup {NULL}]
  /\ DOMAIN rc = Client

ServerTypeOK ==
  /\ peer \in [Client -> {"none", "open", "closed"}]
  /\ inbox \in [Client -> Seq(TestLines)]
  /\ outbox \in [Client -> Seq(Replies)]
  /\ thread \in [Client -> {"none", "serving", "ended"}]
  /\ in_txn \in [Client -> BOOLEAN]
  /\ reply \in [Client -> Replies \cup {NULL}]

TestTypeOK ==
  /\ at \in [Client -> Labels]
  /\ iter \in [Worker -> 0..TXN_PER_THREAD]
  /\ key \in [Worker -> Rec \cup {NULL}]
  /\ cur \in [Worker -> Nat \cup {NULL}]
  /\ applied \in [Rec -> Nat]
  /\ timeouts \in Nat

\* A worker in a turn has a key, and a turn left.
TurnOK(w) ==
  /\ at[w] \in InTurn => key[w] \in Rec /\ iter[w] < TXN_PER_THREAD
  /\ at[w] \in {"put", "PUT"} => cur[w] \in Nat

\* The check asks for values only, in no transaction.
OnlyGets(lines) == \A j \in 1..Len(lines) : lines[j][1] = "GET"
VerifierOK ==
  /\ at[Verifier] \in {"new", "greeting", "next", "GET", "closed"}
  /\ ~in_txn[Verifier] /\ OnlyGets(inbox[Verifier])

TypesOK ==
  /\ EngineTypeOK /\ ServerTypeOK /\ TestTypeOK
  /\ \A c \in Client : in_txn[c] <=> ctx[c] # NULL
  /\ \A w \in Worker : TurnOK(w)
  /\ VerifierOK
-----------------------------------------------------------------------------
(* The transaction of a client that is in step. *)

Open0(c) == ctx[c] # NULL
Fresh(c) == Open0(c) /\ ctx[c].wr = {} /\ \A j \in Rec : ctx[c].copy[j] = NULL

\* It has read n for k, and that is still the value if its copy is not stale.
HasRead(c, k, n) ==
  /\ Open0(c) /\ ctx[c].wr = {} /\ ctx[c].copy[k] = n
  /\ \A j \in Rec \ {k} : ctx[c].copy[j] = NULL
  /\ k \notin ctx[c].stale => db[k] = n

\* It has written the next value for k.
HasWritten(c, k) ==
  /\ Open0(c) /\ ctx[c].wr = {k} /\ ctx[c].copy[k] \in Nat
  /\ \A j \in Rec \ {k} : ctx[c].copy[j] = NULL
  /\ k \notin ctx[c].stale => ctx[c].copy[k] = db[k] + 1

(* What is between such a client and its session: at most one request, or the *)
(* answer to it.                                                              *)

Serving(c) == peer[c] = "open" /\ thread[c] = "serving"
Quiet(c) == Serving(c) /\ inbox[c] = <<>> /\ reply[c] = NULL /\ outbox[c] = <<>>
Sent(c, line) == Serving(c) /\ inbox[c] = <<line>> /\ reply[c] = NULL /\ outbox[c] = <<>>
Answered(c, r) ==
  /\ Serving(c) /\ inbox[c] = <<>>
  /\ \/ reply[c] = r /\ outbox[c] = <<>>
     \/ reply[c] = NULL /\ outbox[c] = <<r>>

Unaccepted(c) == thread[c] = "none" /\ reply[c] = NULL /\ outbox[c] = <<>>

Aligned(c) ==
  \/ at[c] = "new" /\ peer[c] = "none" /\ inbox[c] = <<>> /\ ~in_txn[c] /\ Unaccepted(c)
  \/ at[c] = "greeting" /\ ~in_txn[c]
     /\ \/ peer[c] = "open" /\ inbox[c] = <<>> /\ Unaccepted(c)
        \/ Answered(c, Say("WELCOME"))
  \/ at[c] \in {"next", "rollback"} /\ Quiet(c)
  \/ at[c] = "START"
     /\ \/ Sent(c, <<"START">>)
        \/ Answered(c, Reply("OK TXN", TxnNo)) /\ Fresh(c)
        \/ Answered(c, Say("ERR TXN_ALREADY_STARTED"))
  \/ at[c] = "get" /\ Quiet(c) /\ Fresh(c)
  \/ at[c] = "GET" /\ c \in Worker
     /\ \/ Sent(c, <<"GET", SP, key[c]>>) /\ Fresh(c)
        \/ \E n \in Nat : Answered(c, Reply("OK VALUE", n)) /\ HasRead(c, key[c], n)
        \/ Answered(c, Say("ERR NOT_FOUND"))
  \/ at[c] = "GET" /\ c = Verifier
     /\ \/ \E k \in Rec : Sent(c, <<"GET", SP, k>>)
        \/ Answered(c, Say("ERR NO_ACTIVE_TXN"))
  \/ at[c] = "put" /\ Quiet(c) /\ HasRead(c, key[c], cur[c])
  \/ at[c] = "PUT"
     /\ \/ Sent(c, <<"PUT", SP, key[c], SP, cur[c] + 1>>) /\ HasRead(c, key[c], cur[c])
        \/ Answered(c, Say("OK")) /\ HasWritten(c, key[c])
        \/ Answered(c, Say("ERR PUT_FAIL"))
  \/ at[c] = "commit" /\ Quiet(c) /\ HasWritten(c, key[c])
  \/ at[c] = "COMMIT"
     /\ \/ Sent(c, <<"COMMIT">>) /\ HasWritten(c, key[c])
        \/ Answered(c, Say("OK COMMIT"))
        \/ Answered(c, Say("ERR ABORT"))
  \/ at[c] = "ROLLBACK" /\ (Sent(c, <<"ROLLBACK">>) \/ Answered(c, Say("ERR BAD_CMD")))

\* A client that has left; nothing is on its way if it was in step.
Gone(c) ==
  /\ at[c] = "closed" /\ peer[c] = "closed" /\ outbox[c] = <<>>
  /\ inbox[c] = <<>> \/ timeouts > 0
-----------------------------------------------------------------------------
(* A worker that has timed out. *)

\* A COMMIT waits for the server only as its first line, sent by a worker that
\* was in step.
AsksCommit(lines) == \E j \in 1..Len(lines) : lines[j] = <<"COMMIT">>
CommitOK(c) ==
  \A j \in 1..Len(inbox[c]) :
    inbox[c][j] = <<"COMMIT">> => j = 1 /\ \E k \in Rec : HasWritten(c, k)

\* Kinds of answers, by what they can be mistaken for: "E" neither OK nor with
\* a value, "O" OK, "V" OK and with a value, and "T", the same of a START that
\* begins a transaction.
Kind == {"E", "O", "V", "T"}
OkKind(x) == x \in {"O", "V", "T"}
ValueKind(x) == x \in {"V", "T"}

\* The answer r is of kind x.
IsOfKind(r, x) == (is_ok(r) => OkKind(x)) /\ (r.val # NULL => ValueKind(x))

\* The answers that are given to c and not yet read, the greeting included.
Answers(c) ==
  outbox[c] \o (IF thread[c] = "none" THEN <<Say("WELCOME")>>
               ELSE IF reply[c] # NULL THEN <<reply[c]>> ELSE <<>>)

\* The kind of answer that the j-th of some lines can get, if they are read in or
\* out of a transaction.
AsksKind(lines, inTxn, j, x) ==
  LET word == lines[j][1] IN
  \/ word = "GET" /\ x = "V"
  \/ word \in {"PUT", "COMMIT"} /\ x = "O"
  \/ word = "ROLLBACK" /\ x = "E"
  \/ word = "START" /\ x = "T"
  \/ /\ word = "START" /\ x = "E"
     /\ \/ inTxn /\ lines[1] # <<"COMMIT">>
        \/ \E i \in 1..(j - 1) : lines[i] = <<"START">>

\* z lists the kinds of those answers, given or not, that are yet to be read.
Kinds(answers, lines, inTxn, z) ==
  /\ Len(z) = Len(answers) + Len(lines)
  /\ \A i \in 1..Len(answers) : IsOfKind(answers[i], z[i])
  /\ \A j \in 1..Len(lines) : AsksKind(lines, inTxn, j, z[Len(answers) + j])
  /\ \A i \in 1..Len(answers) : z[i] = "T" => inTxn /\ ~AsksCommit(lines)
  /\ \A i, j \in 1..Len(z) : z[i] = "T" /\ z[j] = "T" => i = j

\* Two answers that would take the worker to its PUT, OK and then a value, are
\* those to the one START and its GET, and the next one is an error.
NoWayToCommit(label, z) ==
  \A i \in 1..(Len(z) - 1) :
    OkKind(z[i]) /\ ValueKind(z[i + 1]) =>
      /\ z[i] = "T" /\ z[i + 1] = "V"
      /\ i + 2 <= Len(z) => z[i + 2] = "E"
      /\ i + 1 = Len(z) => label \in {"GET", "rollback", "exception"}

NoneBegins(z) == \A i \in 1..Len(z) : z[i] # "T"

Waits == {"START", "GET", "PUT", "ROLLBACK", "EXC_ROLLBACK"}

StrayedAt(label, z) ==
  /\ label \in {"next", "get", "put", "rollback", "exception"} \cup Waits
  /\ Len(z) >= 1 /\ (label \in Waits => Len(z) >= 2)
  /\ NoWayToCommit(label, z)
  /\ label \in {"next", "START", "get"} => z[Len(z)] \in {"E", "T"}
  /\ label \in {"ROLLBACK", "EXC_ROLLBACK"} => z[Len(z)] = "E"
  /\ label \in {"get", "GET"} /\ ValueKind(z[1]) => Len(z) >= 2 /\ ~OkKind(z[2]) /\ NoneBegins(z)
  /\ label \in {"put", "PUT"} => ~OkKind(z[1]) /\ NoneBegins(z)

Strayed(c) ==
  /\ c \in Worker /\ timeouts > 0
  /\ peer[c] = "open" /\ (Unaccepted(c) \/ thread[c] = "serving")
  /\ \E z \in Seq(Kind) : Kinds(Answers(c), inbox[c], in_txn[c], z) /\ StrayedAt(at[c], z)

\* The check, when it has timed out.
Adrift(c) ==
  /\ c = Verifier /\ timeouts > 0
  /\ peer[c] = "open" /\ (Unaccepted(c) \/ thread[c] = "serving")
  /\ at[c] \in {"next", "GET"}

StepsOK ==
  \A c \in Client : CommitOK(c) /\ (Aligned(c) \/ Strayed(c) \/ Adrift(c) \/ Gone(c))
-----------------------------------------------------------------------------
(* The counts. *)

\* w's increment of k is written, and will be counted.
Counted(w, k) == at[w] = "COMMIT" /\ key[w] = k /\ Answered(w, Say("OK COMMIT"))
ToCount(k) == {w \in Worker : Counted(w, k)}

\* Turns in which a COMMIT may have been sent.
TurnsOf(w) == iter[w] + (IF at[w] \in {"COMMIT", "exception", "EXC_ROLLBACK"} THEN 1 ELSE 0)
Turns == {p \in Worker \X (1..TXN_PER_THREAD) : p[2] <= TurnsOf(p[1])}

Committing == {w \in Worker : AsksCommit(inbox[w])}

CountsOK ==
  \A k \in Rec :
    /\ InitVal + applied[k] + Cardinality(ToCount(k)) <= db[k]
    /\ timeouts = 0 => db[k] = InitVal + applied[k] + Cardinality(ToCount(k))
    /\ db[k] + Cardinality(Committing) <= InitVal + Cardinality(Turns)

StressInv == TypesOK /\ StepsOK /\ CountsOK
-----------------------------------------------------------------------------
(* The test's lines, as the server takes them apart. *)

TestChars == {"START", "COMMIT", "ROLLBACK", "GET", "PUT", SP} \cup Rec \cup Nat

\* No word of a line is white space, and no character an end of line.
LEMMA TestCharFacts ==
  /\ \A w \in {"START", "COMMIT", "ROLLBACK", "GET", "PUT"} : w \notin {SP, TAB, CR}
  /\ \A k \in Rec : k \notin {SP, TAB, CR}
  /\ \A n \in Nat : n \notin {SP, TAB, CR}
  /\ SP \notin {TAB, CR}
<1>1. \A w \in {"START", "COMMIT", "ROLLBACK", "GET", "PUT"} : w \notin {SP, TAB, CR}
  BY BlankAssumption DEF Commands
<1>2. \A k \in Rec : k \notin {SP, TAB, CR}
  BY BlankAssumption
<1>3. \A n \in Nat : n \notin {SP, TAB, CR}
  BY TestLineAssumption
<1> QED
  BY <1>1, <1>2, <1>3, BlankAssumption

\* A line of one word.
LEMMA OneWord ==
  ASSUME NEW w \in {"START", "COMMIT", "ROLLBACK"}
  PROVE  /\ ~TooLong(<<w>>)
         /\ Parse(read_line(<<w>>)).cmd = w
<1> DEFINE line == <<w>>
<1>1. line \in Seq({w}) /\ Len(line) = 1 /\ line[1] = w /\ DOMAIN line = {1}
  OBVIOUS
<1>2. w \notin {SP, TAB, CR}
  BY TestCharFacts
<1>3. \A i \in 1..Len(line) : line[i] # CR
  BY <1>1, <1>2
<1> HIDE DEF line
<1>4. read_line(line) = line
  BY <1>1, <1>3, ReadWhole
<1>5. split_ws(line) = {1}
  BY <1>1, <1>2 DEF split_ws
<1>6. Min({1}) = 1
  BY MinIs
<1>7. Command(w) = w
  BY DEF Command, upper
<1>8. Parse(line).cmd = w
  BY <1>1, <1>5, <1>6, <1>7 DEF Parse
<1>9. ~TooLong(line)
  <2>1. Len(read_line(line)) = 1
    BY <1>1, <1>4
  <2>2. MAX_LINE \in Nat /\ MAX_LINE >= 5
    BY TestLineAssumption, LengthAssumption
  <2> QED
    BY <2>1, <2>2 DEF TooLong
<1> QED
  BY <1>4, <1>8, <1>9 DEF line

\* GET asks for its key.
LEMMA GetLine ==
  ASSUME NEW k \in Rec
  PROVE  LET line == <<"GET", SP, k>>
             r == Parse(read_line(line))
         IN ~TooLong(line) /\ r.cmd = "GET" /\ r.words = 2 /\ r.rec = k
<1> DEFINE line == <<"GET", SP, k>>
<1>1. /\ line \in Seq(TestChars) /\ Len(line) = 3 /\ DOMAIN line = 1..3
      /\ line[1] = "GET" /\ line[2] = SP /\ line[3] = k
  <2>1. "GET" \in TestChars /\ SP \in TestChars /\ k \in TestChars
    BY DEF TestChars
  <2>2. line \in Seq(TestChars)
    BY <2>1
  <2> QED
    BY <2>2
<1>2. line[1] \notin {SP, TAB, CR} /\ k \notin {SP, TAB, CR} /\ SP \notin {TAB, CR}
  BY <1>1, TestCharFacts
<1> HIDE DEF line
<1>3. \A i \in 1..Len(line) : line[i] # CR
  <2>1. line[1] # CR /\ line[2] # CR /\ line[3] # CR
    BY <1>1, <1>2
  <2> QED
    BY <1>1, <2>1
<1>4. read_line(line) = line
  BY <1>1, <1>3, ReadWhole
<1> DEFINE parts == split_ws(line)
<1>5. parts = {1} \cup {3}
  BY <1>1, <1>2 DEF split_ws
<1>6. parts \in SUBSET DOMAIN line /\ 1 \in parts /\ 3 \in parts
  BY <1>1, <1>5
<1>7. Min(parts) = 1 /\ Second(parts) = 3
  <2>1. \A n \in parts : (n <= 1 \/ 3 <= n) /\ 1 <= n
    BY <1>5
  <2> HIDE DEF parts
  <2> QED
    BY <1>1, <1>6, <2>1, FirstTwo
<1>8. Cardinality(parts) = 2
  <2>1. 1 # 3
    OBVIOUS
  <2> HIDE DEF parts
  <2> QED
    BY <1>5, <2>1, PairCardinality
<1>9. Command(line[1]) = "GET"
  <2>1. upper("GET") = "GET"
    BY DEF upper
  <2> QED
    BY <1>1, <2>1 DEF Command
<1>10. Parse(line) = [cmd |-> Command(line[1]), words |-> Cardinality(parts),
                      rec |-> line[3], val |-> Str(put_value(line))]
  BY <1>6, <1>7, <1>8 DEF Parse
<1>11. ~TooLong(line)
  <2>1. Len(read_line(line)) = 3
    BY <1>1, <1>4
  <2>2. MAX_LINE \in Nat /\ MAX_LINE >= 5
    BY TestLineAssumption, LengthAssumption
  <2> QED
    BY <2>1, <2>2 DEF TooLong
<1> QED
  BY <1>1, <1>4, <1>8, <1>9, <1>10, <1>11 DEF line

\* PUT asks for its key and value.
LEMMA PutLine ==
  ASSUME NEW k \in Rec, NEW n \in Nat
  PROVE  LET line == <<"PUT", SP, k, SP, n>>
             r == Parse(read_line(line))
         IN /\ ~TooLong(line) /\ r.cmd = "PUT" /\ r.words \in Nat /\ r.words >= 3
            /\ r.rec = k /\ r.val = n
<1> DEFINE line == <<"PUT", SP, k, SP, n>>
<1>1. /\ line \in Seq(TestChars) /\ Len(line) = 5 /\ DOMAIN line = 1..5
      /\ line[1] = "PUT" /\ line[2] = SP /\ line[3] = k /\ line[4] = SP /\ line[5] = n
  <2>1. "PUT" \in TestChars /\ SP \in TestChars /\ k \in TestChars /\ n \in TestChars
    BY DEF TestChars
  <2>2. line \in Seq(TestChars)
    BY <2>1
  <2> QED
    BY <2>2
<1>2. /\ line[1] \notin {SP, TAB, CR} /\ k \notin {SP, TAB, CR} /\ n \notin {SP, TAB, CR}
      /\ SP \notin {TAB, CR}
  BY <1>1, TestCharFacts
<1> HIDE DEF line
<1>3. \A i \in 1..Len(line) : line[i] # CR
  <2>1. line[1] # CR /\ line[2] # CR /\ line[3] # CR /\ line[4] # CR /\ line[5] # CR
    BY <1>1, <1>2
  <2> QED
    BY <1>1, <2>1
<1>4. read_line(line) = line
  BY <1>1, <1>3, ReadWhole
<1>5. Plain(line)
  <2>1. {line[1], line[3], line[5]} \cap {SP, TAB} = {}
    BY <1>1, <1>2
  <2> QED
    BY <1>1, <2>1 DEF Plain
<1>6. upper(line[1]) = "PUT"
  BY <1>1 DEF upper
<1>7. /\ Parse(line).cmd = "PUT" /\ Parse(line).words >= 3 /\ Parse(line).words \in Nat
      /\ Parse(line).rec = line[3] /\ Parse(line).val = Str(SubSeq(line, 5, Len(line)))
  BY <1>1, <1>5, <1>6, PlainRequest
<1>8. Str(SubSeq(line, 5, Len(line))) = n
  <2>1. Len(SubSeq(line, 5, 5)) = 1 /\ SubSeq(line, 5, 5)[1] = line[5]
    BY <1>1
  <2> QED
    BY <1>1, <2>1 DEF Str
<1>9. ~TooLong(line)
  <2>1. Len(read_line(line)) = 5
    BY <1>1, <1>4
  <2>2. MAX_LINE \in Nat /\ MAX_LINE >= 5
    BY TestLineAssumption, LengthAssumption
  <2> QED
    BY <2>1, <2>2 DEF TooLong
<1> QED
  BY <1>1, <1>4, <1>7, <1>8, <1>9 DEF line

\* Lines of different commands differ.
LEMMA LineKinds ==
  ASSUME NEW line \in TestLines
  PROVE  \/ line = <<"START">> /\ line[1] = "START"
         \/ line = <<"COMMIT">> /\ line[1] = "COMMIT"
         \/ line = <<"ROLLBACK">> /\ line[1] = "ROLLBACK"
         \/ line[1] = "GET" /\ \E k \in Rec : line = <<"GET", SP, k>>
         \/ line[1] = "PUT" /\ \E k \in Rec, n \in Nat : line = <<"PUT", SP, k, SP, n>>
<1>1. CASE line \in {<<"START">>, <<"COMMIT">>, <<"ROLLBACK">>}
  BY <1>1
<1>2. CASE line \in {<<"GET", SP, k>> : k \in Rec}
  BY <1>2
<1>3. CASE line \in {<<"PUT", SP, k, SP, n>> : k \in Rec, n \in Nat}
  BY <1>3
<1> QED
  BY <1>1, <1>2, <1>3 DEF TestLines

\* No line of the test is too long.
LEMMA TestLinesFit ==
  ASSUME NEW line \in TestLines
  PROVE  ~TooLong(line)
BY LineKinds, OneWord, GetLine, PutLine
-----------------------------------------------------------------------------
(* What the server does with the next line. *)

ServesStart(c) ==
  /\ ~in_txn[c] /\ begin_txn(c) /\ in_txn' = [in_txn EXCEPT ![c] = TRUE]
  /\ AnswerWith(c, Reply("OK TXN", TxnNo))

ServesGet(c, k) ==
  /\ in_txn[c] /\ get(c, k) /\ UNCHANGED in_txn
  /\ AnswerWith(c, IF rc'[c] = "OK" THEN Reply("OK VALUE", value_out(c, k))
                   ELSE Say("ERR NOT_FOUND"))

ServesPut(c, k, n) ==
  /\ in_txn[c] /\ put(c, k, n) /\ UNCHANGED in_txn
  /\ AnswerWith(c, IF rc'[c] = "OK" THEN Say("OK") ELSE Say("ERR PUT_FAIL"))

ServesCommit(c) ==
  /\ in_txn[c] /\ commit(c) /\ in_txn' = [in_txn EXCEPT ![c] = FALSE]
  /\ AnswerWith(c, IF rc'[c] = "OK" THEN Say("OK COMMIT") ELSE Say("ERR ABORT"))

Refuses(c, text) == UNCHANGED <<apiVars, in_txn>> /\ AnswerWith(c, Say(text))

StartLine(c, line) ==
  /\ line = <<"START">>
  /\ ServesStart(c) \/ (in_txn[c] /\ Refuses(c, "ERR TXN_ALREADY_STARTED"))
GetLineOf(c, line) == \E k \in Rec : line = <<"GET", SP, k>> /\ ServesGet(c, k)
PutLineOf(c, line) ==
  \E k \in Rec, n \in Nat : line = <<"PUT", SP, k, SP, n>> /\ ServesPut(c, k, n)
CommitLine(c, line) == line = <<"COMMIT">> /\ ServesCommit(c)
IdleLine(c, line) ==
  line[1] \in {"GET", "PUT", "COMMIT"} /\ ~in_txn[c] /\ Refuses(c, "ERR NO_ACTIVE_TXN")
RollbackLine(c, line) == line = <<"ROLLBACK">> /\ Refuses(c, "ERR BAD_CMD")

Serves(c, line) ==
  \/ StartLine(c, line) \/ GetLineOf(c, line) \/ PutLineOf(c, line) \/ CommitLine(c, line)
  \/ IdleLine(c, line) \/ RollbackLine(c, line)

\* Replies are no null pointers, and the texts tell them apart.
LEMMA ReplyFacts ==
  /\ \A t \in ReplyTexts :
       Say(t) \in Replies /\ Say(t) # NULL /\ Say(t).text = t /\ Say(t).val = NULL
  /\ \A t \in ReplyTexts, n \in Nat :
       Reply(t, n) \in Replies /\ Reply(t, n) # NULL /\ Reply(t, n).text = t /\ Reply(t, n).val = n
  /\ NULL \notin Replies
<1>1. NULL \notin Replies
  BY TestNullAssumption DEF Replies
<1>2. \A t \in ReplyTexts : Say(t) \in Replies /\ Say(t).text = t /\ Say(t).val = NULL
  BY DEF Say, Reply, Replies
<1>3. \A t \in ReplyTexts, n \in Nat :
        Reply(t, n) \in Replies /\ Reply(t, n).text = t /\ Reply(t, n).val = n
  BY DEF Reply, Replies
<1> QED
  BY <1>1, <1>2, <1>3

\* Which requests do not reach the engine.
LEMMA RejectedAs ==
  ASSUME NEW r, NEW b \in BOOLEAN
  PROVE  /\ r.cmd = "START" => Rejected(r, b) = IF b THEN Say("ERR TXN_ALREADY_STARTED") ELSE NULL
         /\ r.cmd = "GET" /\ r.words = 2 =>
              Rejected(r, b) = IF b THEN NULL ELSE Say("ERR NO_ACTIVE_TXN")
         /\ r.cmd = "PUT" /\ ~(r.words < 3) =>
              Rejected(r, b) = IF b THEN NULL ELSE Say("ERR NO_ACTIVE_TXN")
         /\ r.cmd = "COMMIT" => Rejected(r, b) = IF b THEN NULL ELSE Say("ERR NO_ACTIVE_TXN")
         /\ r.cmd = "ROLLBACK" => Rejected(r, b) = Say("ERR BAD_CMD")
<1>1. CASE b = TRUE
  <2>1. r.cmd = "START" => Rejected(r, TRUE) = Say("ERR TXN_ALREADY_STARTED")
    BY DEF Rejected
  <2>2. r.cmd = "GET" /\ r.words = 2 => Rejected(r, TRUE) = NULL
    BY DEF Rejected
  <2>3. r.cmd = "PUT" /\ ~(r.words < 3) => Rejected(r, TRUE) = NULL
    BY DEF Rejected
  <2>4. r.cmd = "COMMIT" => Rejected(r, TRUE) = NULL
    BY DEF Rejected
  <2>5. r.cmd = "ROLLBACK" => Rejected(r, TRUE) = Say("ERR BAD_CMD")
    BY DEF Rejected
  <2> QED
    BY <1>1, <2>1, <2>2, <2>3, <2>4, <2>5
<1>2. CASE b = FALSE
  <2>1. r.cmd = "START" => Rejected(r, FALSE) = NULL
    BY DEF Rejected
  <2>2. r.cmd \in {"GET", "PUT", "COMMIT"} => Rejected(r, FALSE) = Say("ERR NO_ACTIVE_TXN")
    BY DEF Rejected
  <2>3. r.cmd = "ROLLBACK" => Rejected(r, FALSE) = Say("ERR BAD_CMD")
    BY DEF Rejected
  <2> QED
    BY <1>2, <2>1, <2>2, <2>3
<1> QED
  BY <1>1, <1>2

\* A thread that takes a line off its inbox does what the line says.
LEMMA ServedLine ==
  ASSUME TypesOK, NEW c \in Client,
         Reject(c) \/ (inbox[c] # <<>> /\ \E r \in {NextRequest(c)} : Execute(c, r))
  PROVE  NextLine(c) /\ Head(inbox[c]) \in TestLines /\ Serves(c, Head(inbox[c]))
<1>1. PICK r : r = NextRequest(c) /\ (Reject(c) \/ Execute(c, r))
  OBVIOUS
<1>2. NextLine(c)
  BY <1>1 DEF Reject, Execute, Start, Get, Put, Commit, Abort, End, Line
<1> DEFINE line == Head(inbox[c])
<1>3. line \in TestLines
  <2>1. inbox[c] \in Seq(TestLines) /\ inbox[c] # <<>>
    BY <1>2 DEF TypesOK, ServerTypeOK, NextLine
  <2> QED
    BY <2>1
<1>4. r = Parse(read_line(line))
  BY <1>1 DEF NextRequest
<1> HIDE DEF line
<1>5. in_txn[c] \in BOOLEAN
  BY DEF TypesOK, ServerTypeOK
<1> DEFINE a == Rejected(r, in_txn[c])
<1>6. \/ a # NULL /\ AnswerWith(c, a) /\ UNCHANGED <<apiVars, in_txn>>
      \/ a = NULL /\ Execute(c, r)
  BY <1>1 DEF Reject, Execute, Start, Get, Put, Commit, Abort, End, Line
<1>7. ASSUME line = <<"START">> PROVE Serves(c, line)
  <2>1. r.cmd = "START"
    BY <1>4, <1>7, OneWord
  <2>2. a = IF in_txn[c] THEN Say("ERR TXN_ALREADY_STARTED") ELSE NULL
    BY <1>5, <2>1, RejectedAs
  <2>3. Execute(c, r) => Start(c, r)
    BY <2>1 DEF Execute, Get, Put, Commit, Abort, End, Line
  <2>4. Say("ERR TXN_ALREADY_STARTED") # NULL
    BY ReplyFacts DEF ReplyTexts
  <2> QED
    BY <1>5, <1>6, <1>7, <2>2, <2>3, <2>4 DEF Serves, StartLine, ServesStart, Refuses, Start
<1>8. ASSUME NEW k \in Rec, line = <<"GET", SP, k>> PROVE Serves(c, line)
  <2>1. r.cmd = "GET" /\ r.words = 2 /\ r.rec = k
    BY <1>4, <1>8, GetLine
  <2>2. a = IF in_txn[c] THEN NULL ELSE Say("ERR NO_ACTIVE_TXN")
    BY <1>5, <2>1, RejectedAs
  <2>3. Execute(c, r) => Get(c, r)
    BY <2>1 DEF Execute, Start, Put, Commit, Abort, End, Line
  <2>4. Say("ERR NO_ACTIVE_TXN") # NULL
    BY ReplyFacts DEF ReplyTexts
  <2>5. CASE in_txn[c]
    <3>1. ServesGet(c, k)
      BY <1>6, <2>1, <2>2, <2>3, <2>5 DEF ServesGet, Get
    <3> QED
      BY <1>8, <3>1 DEF Serves, GetLineOf
  <2>6. CASE ~in_txn[c]
    <3>1. Refuses(c, "ERR NO_ACTIVE_TXN")
      BY <1>6, <2>2, <2>4, <2>6 DEF Refuses
    <3>2. line[1] = "GET"
      BY <1>8
    <3> QED
      BY <2>6, <3>1, <3>2 DEF Serves, IdleLine
  <2> QED
    BY <2>5, <2>6
<1>9. ASSUME NEW k \in Rec, NEW n \in Nat, line = <<"PUT", SP, k, SP, n>> PROVE Serves(c, line)
  <2>1. r.cmd = "PUT" /\ ~(r.words < 3) /\ r.rec = k /\ r.val = n
    <3>1. r.cmd = "PUT" /\ r.words \in Nat /\ r.words >= 3 /\ r.rec = k /\ r.val = n
      BY <1>4, <1>9, PutLine
    <3> QED
      BY <3>1
  <2>2. a = IF in_txn[c] THEN NULL ELSE Say("ERR NO_ACTIVE_TXN")
    BY <1>5, <2>1, RejectedAs
  <2>3. Execute(c, r) => Put(c, r)
    BY <2>1 DEF Execute, Start, Get, Commit, Abort, End, Line
  <2>4. Say("ERR NO_ACTIVE_TXN") # NULL
    BY ReplyFacts DEF ReplyTexts
  <2>5. CASE in_txn[c]
    <3>1. ServesPut(c, k, n)
      BY <1>6, <2>1, <2>2, <2>3, <2>5 DEF ServesPut, Put
    <3> QED
      BY <1>9, <3>1 DEF Serves, PutLineOf
  <2>6. CASE ~in_txn[c]
    <3>1. Refuses(c, "ERR NO_ACTIVE_TXN")
      BY <1>6, <2>2, <2>4, <2>6 DEF Refuses
    <3>2. line[1] = "PUT"
      BY <1>9
    <3> QED
      BY <2>6, <3>1, <3>2 DEF Serves, IdleLine
  <2> QED
    BY <2>5, <2>6
<1>10. ASSUME line = <<"COMMIT">> PROVE Serves(c, line)
  <2>1. r.cmd = "COMMIT"
    BY <1>4, <1>10, OneWord
  <2>2. a = IF in_txn[c] THEN NULL ELSE Say("ERR NO_ACTIVE_TXN")
    BY <1>5, <2>1, RejectedAs
  <2>3. Execute(c, r) => Commit(c, r)
    BY <2>1 DEF Execute, Start, Get, Put, Abort, End, Line
  <2>4. Say("ERR NO_ACTIVE_TXN") # NULL
    BY ReplyFacts DEF ReplyTexts
  <2>5. CASE in_txn[c]
    <3>1. ServesCommit(c)
      BY <1>6, <2>2, <2>3, <2>5 DEF ServesCommit, Commit
    <3> QED
      BY <1>10, <3>1 DEF Serves, CommitLine
  <2>6. CASE ~in_txn[c]
    <3>1. Refuses(c, "ERR NO_ACTIVE_TXN")
      BY <1>6, <2>2, <2>4, <2>6 DEF Refuses
    <3>2. line[1] = "COMMIT"
      BY <1>10
    <3> QED
      BY <2>6, <3>1, <3>2 DEF Serves, IdleLine
  <2> QED
    BY <2>5, <2>6
<1>11. ASSUME line = <<"ROLLBACK">> PROVE Serves(c, line)
  <2>1. r.cmd = "ROLLBACK"
    BY <1>4, <1>11, OneWord
  <2>2. a = Say("ERR BAD_CMD")
    BY <1>5, <2>1, RejectedAs
  <2>3. Say("ERR BAD_CMD") # NULL
    BY ReplyFacts DEF ReplyTexts
  <2> QED
    BY <1>6, <1>11, <2>2, <2>3 DEF Serves, RollbackLine, Refuses
<1>12. Serves(c, line)
  BY <1>3, <1>7, <1>8, <1>9, <1>10, <1>11, LineKinds
<1> QED
  BY <1>2, <1>3, <1>12 DEF line
-----------------------------------------------------------------------------
(* What other clients' steps leave alone. *)

SameServer(d) ==
  /\ peer'[d] = peer[d] /\ inbox'[d] = inbox[d] /\ outbox'[d] = outbox[d]
  /\ thread'[d] = thread[d] /\ in_txn'[d] = in_txn[d] /\ reply'[d] = reply[d]

SameTest(d) ==
  /\ at'[d] = at[d]
  /\ d \in Worker => iter'[d] = iter[d] /\ key'[d] = key[d] /\ cur'[d] = cur[d]

\* Its transaction can at most become stale, and does when a record changes.
SameTxn(d) ==
  /\ ctx[d] = NULL => ctx'[d] = NULL
  /\ ctx[d] # NULL =>
       /\ ctx'[d] # NULL /\ ctx'[d].copy = ctx[d].copy /\ ctx'[d].wr = ctx[d].wr
       /\ \A k \in Rec : k \in ctx[d].stale => k \in ctx'[d].stale
       /\ \A k \in Rec : k \notin ctx'[d].stale => db'[k] = db[k]

Undisturbed(d) == SameServer(d) /\ SameTest(d) /\ SameTxn(d)

StepOK(d) == CommitOK(d) /\ (Aligned(d) \/ Strayed(d) \/ Adrift(d) \/ Gone(d))

\* What the check has sent stays GETs, as lines come and go.
LEMMA GetsStay ==
  ASSUME NEW lines \in Seq(TestLines), OnlyGets(lines)
  PROVE  /\ lines # <<>> => lines[1][1] = "GET" /\ OnlyGets(Tail(lines))
         /\ \A line \in TestLines : line[1] = "GET" => OnlyGets(Append(lines, line))
<1>1. ASSUME lines # <<>> PROVE lines[1][1] = "GET" /\ OnlyGets(Tail(lines))
  <2>1. /\ Len(lines) \in Nat \ {0} /\ Len(Tail(lines)) = Len(lines) - 1
        /\ \A i \in 1..(Len(lines) - 1) : Tail(lines)[i] = lines[i + 1]
    BY <1>1
  <2>2. 1 \in 1..Len(lines) /\ \A i \in 1..(Len(lines) - 1) : i + 1 \in 1..Len(lines)
    BY <2>1
  <2> QED
    BY <2>1, <2>2 DEF OnlyGets
<1>2. ASSUME NEW line \in TestLines, line[1] = "GET" PROVE OnlyGets(Append(lines, line))
  <2>1. /\ Len(lines) \in Nat /\ Len(Append(lines, line)) = Len(lines) + 1
        /\ Append(lines, line)[Len(lines) + 1] = line
        /\ \A i \in 1..Len(lines) : Append(lines, line)[i] = lines[i]
    OBVIOUS
  <2>2. \A i \in 1..(Len(lines) + 1) : i = Len(lines) + 1 \/ i \in 1..Len(lines)
    BY <2>1
  <2> QED
    BY <1>2, <2>1, <2>2 DEF OnlyGets
<1> QED
  BY <1>1, <1>2

\* What is known of a transaction stays true.
LEMMA TxnStays ==
  ASSUME NEW d \in Client, SameTxn(d)
  PROVE  /\ Fresh(d) => Fresh(d)'
         /\ \A k \in Rec, n \in Nat : HasRead(d, k, n) => HasRead(d, k, n)'
         /\ \A k \in Rec : HasWritten(d, k) => HasWritten(d, k)'
BY DEF SameTxn, Fresh, HasRead, HasWritten, Open0

\* So does what is on a connection.
LEMMA TrafficStays ==
  ASSUME NEW d \in Client, SameServer(d)
  PROVE  /\ Quiet(d) <=> Quiet(d)'
         /\ \A line : Sent(d, line) <=> Sent(d, line)'
         /\ \A r : Answered(d, r) <=> Answered(d, r)'
         /\ Unaccepted(d) <=> Unaccepted(d)'
         /\ Answers(d)' = Answers(d)
BY DEF SameServer, Quiet, Sent, Answered, Unaccepted, Serving, Answers

\* A client that another one's step does not disturb stays in its state.
LEMMA UndisturbedStays ==
  ASSUME TypesOK, NEW d \in Client, Undisturbed(d), StepOK(d),
         timeouts' \in Nat, timeouts' >= timeouts
  PROVE  StepOK(d)'
<1>1. SameServer(d) /\ SameTest(d) /\ SameTxn(d)
  BY DEF Undisturbed
<1>2. /\ d \in Worker /\ at[d] \in InTurn => key[d] \in Rec
      /\ d \in Worker /\ at[d] \in {"put", "PUT"} => cur[d] \in Nat
      /\ d \in Worker \/ d = Verifier
      /\ at[Verifier] \in {"new", "greeting", "next", "GET", "closed"}
      /\ timeouts \in Nat
  BY ClientAssumption DEF TypesOK, TurnOK, VerifierOK, TestTypeOK
<1>3. CommitOK(d)'
  <2>1. \A k \in Rec : HasWritten(d, k) => HasWritten(d, k)'
    BY <1>1, TxnStays
  <2> QED
    BY <1>1, <2>1 DEF StepOK, CommitOK, SameServer
<1>4. CASE Gone(d)
  <2>1. Gone(d)'
    BY <1>1, <1>2, <1>4 DEF Gone, SameServer, SameTest
  <2> QED
    BY <1>3, <2>1 DEF StepOK
<1>5. CASE Strayed(d)
  <2>1. PICK z \in Seq(Kind) : Kinds(Answers(d), inbox[d], in_txn[d], z) /\ StrayedAt(at[d], z)
    BY <1>5 DEF Strayed
  <2>2. Answers(d)' = Answers(d) /\ (Unaccepted(d) <=> Unaccepted(d)')
    BY <1>1, TrafficStays
  <2>3. at'[d] = at[d] /\ inbox'[d] = inbox[d] /\ in_txn'[d] = in_txn[d]
    BY <1>1 DEF SameTest, SameServer
  <2>4. /\ d \in Worker /\ timeouts' > 0 /\ peer'[d] = "open"
        /\ Unaccepted(d)' \/ thread'[d] = "serving"
    BY <1>1, <1>2, <1>5, <2>2 DEF Strayed, SameServer
  <2>5. Strayed(d)'
    BY <2>1, <2>2, <2>3, <2>4 DEF Strayed
  <2> QED
    BY <1>3, <2>5 DEF StepOK
<1>6. CASE Aligned(d)
  <2>1. /\ Quiet(d) <=> Quiet(d)'
        /\ \A line : Sent(d, line) <=> Sent(d, line)'
        /\ \A r : Answered(d, r) <=> Answered(d, r)'
        /\ Unaccepted(d) <=> Unaccepted(d)'
    BY <1>1, TrafficStays
  <2>2. /\ Fresh(d) => Fresh(d)'
        /\ \A k \in Rec, n \in Nat : HasRead(d, k, n) => HasRead(d, k, n)'
        /\ \A k \in Rec : HasWritten(d, k) => HasWritten(d, k)'
    BY <1>1, TxnStays
  <2>3. at'[d] = at[d] /\ (d \in Worker => key'[d] = key[d] /\ cur'[d] = cur[d])
    BY <1>1 DEF SameTest
  <2>4. peer'[d] = peer[d] /\ inbox'[d] = inbox[d] /\ in_txn'[d] = in_txn[d]
    BY <1>1 DEF SameServer
  <2>5. Aligned(d)'
    <3>1. CASE at[d] \in {"new", "greeting", "next", "rollback"}
      BY <1>6, <2>1, <2>3, <2>4, <3>1 DEF Aligned
    <3>2. CASE at[d] \in {"START", "get", "ROLLBACK"}
      BY <1>6, <2>1, <2>2, <2>3, <3>2 DEF Aligned
    <3>3. CASE at[d] = "GET" /\ d \in Worker
      <4>1. key[d] \in Rec /\ key'[d] = key[d]
        BY <1>2, <2>3, <3>3 DEF InTurn
      <4>2. \/ Sent(d, <<"GET", SP, key[d]>>) /\ Fresh(d)
            \/ \E n \in Nat : Answered(d, Reply("OK VALUE", n)) /\ HasRead(d, key[d], n)
            \/ Answered(d, Say("ERR NOT_FOUND"))
        BY <1>6, <3>3, ClientAssumption DEF Aligned
      <4>3. \/ Sent(d, <<"GET", SP, key[d]>>)' /\ Fresh(d)'
            \/ \E n \in Nat : Answered(d, Reply("OK VALUE", n))' /\ HasRead(d, key[d], n)'
            \/ Answered(d, Say("ERR NOT_FOUND"))'
        BY <2>1, <2>2, <4>1, <4>2
      <4> QED
        BY <2>3, <3>3, <4>1, <4>3 DEF Aligned
    <3>4. CASE at[d] = "GET" /\ d = Verifier
      BY <1>6, <2>1, <2>3, <3>4, ClientAssumption DEF Aligned
    <3>5. CASE at[d] \in {"put", "PUT"}
      <4>1. key[d] \in Rec /\ key'[d] = key[d] /\ cur[d] \in Nat /\ cur'[d] = cur[d]
        BY <1>2, <2>3, <3>5 DEF InTurn
      <4> QED
        BY <1>6, <2>1, <2>2, <2>3, <3>5, <4>1 DEF Aligned
    <3>6. CASE at[d] \in {"commit", "COMMIT"}
      <4>1. key[d] \in Rec /\ key'[d] = key[d]
        BY <1>2, <2>3, <3>6 DEF InTurn
      <4> QED
        BY <1>6, <2>1, <2>2, <2>3, <3>6, <4>1 DEF Aligned
    <3> QED
      BY <1>2, <1>6, <3>1, <3>2, <3>3, <3>4, <3>5, <3>6 DEF Aligned
  <2> QED
    BY <1>3, <2>5 DEF StepOK
<1>7. CASE Adrift(d)
  <2>1. Adrift(d)'
    BY <1>1, <1>2, <1>7, TrafficStays DEF Adrift, SameServer, SameTest
  <2> QED
    BY <1>3, <2>1 DEF StepOK
<1> QED
  BY <1>4, <1>5, <1>6, <1>7 DEF StepOK
-----------------------------------------------------------------------------
(* The counts. *)

\* A set of workers has a number of elements.
LEMMA WorkersCount ==
  ASSUME NEW S \in SUBSET Worker
  PROVE  IsFiniteSet(S) /\ Cardinality(S) \in Nat
BY ClientAssumption, FS_Subset, FS_CardinalityType

\* So has the set of turns, which has as many as the workers' loops.
LEMMA TurnsCount ==
  ASSUME NEW S \in SUBSET (Worker \X (1..TXN_PER_THREAD))
  PROVE  /\ IsFiniteSet(S) /\ Cardinality(S) \in Nat
         /\ Cardinality(S) <= TXN_PER_THREAD * Cardinality(Worker)
<1>1. TXN_PER_THREAD \in Nat /\ IsFiniteSet(Worker) /\ Cardinality(Worker) \in Nat
  BY ClientAssumption, FS_CardinalityType
<1>2. IsFiniteSet(1..TXN_PER_THREAD) /\ Cardinality(1..TXN_PER_THREAD) = TXN_PER_THREAD
  <2>1. TXN_PER_THREAD \in Int /\ 1 \in Int
    BY <1>1
  <2>2. /\ IsFiniteSet(1..TXN_PER_THREAD)
        /\ Cardinality(1..TXN_PER_THREAD) =
             IF 1 > TXN_PER_THREAD THEN 0 ELSE TXN_PER_THREAD - 1 + 1
    BY <2>1, FS_Interval
  <2> QED
    BY <1>1, <2>2
<1>3. /\ IsFiniteSet(Worker \X (1..TXN_PER_THREAD))
      /\ Cardinality(Worker \X (1..TXN_PER_THREAD)) = Cardinality(Worker) * TXN_PER_THREAD
  BY <1>1, <1>2, FS_Product
<1>4. /\ IsFiniteSet(S) /\ Cardinality(S) \in Nat
      /\ Cardinality(S) <= Cardinality(Worker \X (1..TXN_PER_THREAD))
  BY <1>3, FS_Subset, FS_CardinalityType
<1>5. Cardinality(Worker) * TXN_PER_THREAD = TXN_PER_THREAD * Cardinality(Worker)
  BY <1>1
<1> QED
  BY <1>3, <1>4, <1>5

\* The engine's buffer holds the numbers of the test, and a number of any other.
LEMMA NumberBuf ==
  /\ LARGEST \in Nat
  /\ \A n \in Nat : buffered(n) \in Nat /\ (n <= LARGEST => buffered(n) = n)
<1>1. LARGEST \in Nat
  <2>1. InitVal \in Nat /\ TXN_PER_THREAD \in Nat /\ Cardinality(Worker) \in Nat
    BY ClientAssumption, FS_CardinalityType
  <2> QED
    BY <2>1 DEF LARGEST
<1>2. ASSUME NEW n \in Nat PROVE buffered(n) \in Nat /\ (n <= LARGEST => buffered(n) = n)
  BY <1>1, <1>2, NumberAssumption DEF buffered
<1> QED
  BY <1>1, <1>2

\* The sizes of the sets that CountsOK speaks of.
LEMMA CountSizes ==
  /\ \A k : ToCount(k) \in SUBSET Worker /\ IsFiniteSet(ToCount(k)) /\ Cardinality(ToCount(k)) \in Nat
  /\ Committing \in SUBSET Worker /\ IsFiniteSet(Committing) /\ Cardinality(Committing) \in Nat
  /\ Turns \in SUBSET (Worker \X (1..TXN_PER_THREAD))
  /\ IsFiniteSet(Turns) /\ Cardinality(Turns) \in Nat
<1>1. \A k : ToCount(k) \in SUBSET Worker
  BY DEF ToCount
<1>2. Committing \in SUBSET Worker
  BY DEF Committing
<1>3. Turns \in SUBSET (Worker \X (1..TXN_PER_THREAD))
  BY DEF Turns
<1> QED
  BY <1>1, <1>2, <1>3, WorkersCount, TurnsCount

LEMMA CountSizesNext ==
  /\ \A k : ToCount(k)' \in SUBSET Worker /\ IsFiniteSet(ToCount(k)') /\ Cardinality(ToCount(k)') \in Nat
  /\ Committing' \in SUBSET Worker /\ IsFiniteSet(Committing') /\ Cardinality(Committing') \in Nat
  /\ Turns' \in SUBSET (Worker \X (1..TXN_PER_THREAD))
  /\ IsFiniteSet(Turns') /\ Cardinality(Turns') \in Nat
<1>1. \A k : ToCount(k)' \in SUBSET Worker
  BY DEF ToCount
<1>2. Committing' \in SUBSET Worker
  BY DEF Committing
<1>3. Turns' \in SUBSET (Worker \X (1..TXN_PER_THREAD))
  BY DEF Turns
<1> QED
  BY <1>1, <1>2, <1>3, WorkersCount, TurnsCount

\* The turns only grow.
TurnsGrow ==
  \A w \in Worker : TurnsOf(w) \in Nat /\ TurnsOf(w)' \in Nat /\ TurnsOf(w) <= TurnsOf(w)'

LEMMA MoreTurns ==
  ASSUME TurnsGrow
  PROVE  Turns \subseteq Turns' /\ Cardinality(Turns) <= Cardinality(Turns')
<1>1. \A p \in Turns : p \in Turns'
  BY DEF Turns, TurnsGrow
<1> QED
  BY <1>1, CountSizesNext, FS_Subset

\* A step that changes neither a record nor a count, and after which no worker
\* is about to count that was not before.
LEMMA CountsStay ==
  ASSUME TypesOK, CountsOK, UNCHANGED <<db, applied>>,
         timeouts' \in Nat, timeouts' >= timeouts,
         \A w \in Worker, k \in Rec : Counted(w, k)' => Counted(w, k),
         timeouts' = 0 => \A w \in Worker, k \in Rec : Counted(w, k) => Counted(w, k)',
         \A w \in Worker : AsksCommit(inbox'[w]) => AsksCommit(inbox[w]),
         TurnsGrow
  PROVE  CountsOK'
<1>1. ASSUME NEW k \in Rec
      PROVE  /\ InitVal + applied'[k] + Cardinality(ToCount(k)') <= db'[k]
             /\ timeouts' = 0 => db'[k] = InitVal + applied'[k] + Cardinality(ToCount(k)')
             /\ db'[k] + Cardinality(Committing') <= InitVal + Cardinality(Turns')
  <2>1. ToCount(k)' \in SUBSET ToCount(k)
    BY DEF ToCount
  <2>2. Cardinality(ToCount(k)') <= Cardinality(ToCount(k))
    BY <2>1, CountSizes, FS_Subset
  <2>3. timeouts' = 0 => ToCount(k)' = ToCount(k)
    BY DEF ToCount
  <2>4. Cardinality(Committing') <= Cardinality(Committing)
    <3>1. Committing' \in SUBSET Committing
      BY DEF Committing
    <3> QED
      BY <3>1, CountSizes, FS_Subset
  <2>5. Cardinality(Turns) <= Cardinality(Turns')
    BY MoreTurns
  <2>6. /\ Cardinality(ToCount(k)') \in Nat /\ Cardinality(ToCount(k)) \in Nat
        /\ Cardinality(Committing') \in Nat /\ Cardinality(Committing) \in Nat
        /\ Cardinality(Turns') \in Nat /\ Cardinality(Turns) \in Nat
    BY CountSizes, CountSizesNext
  <2>7. /\ db'[k] = db[k] /\ applied'[k] = applied[k] /\ db[k] \in Nat /\ applied[k] \in Nat
        /\ InitVal \in Nat /\ timeouts \in Nat
    BY ClientAssumption DEF TypesOK, EngineTypeOK, TestTypeOK
  <2>8. /\ InitVal + applied[k] + Cardinality(ToCount(k)) <= db[k]
        /\ timeouts = 0 => db[k] = InitVal + applied[k] + Cardinality(ToCount(k))
        /\ db[k] + Cardinality(Committing) <= InitVal + Cardinality(Turns)
    BY DEF CountsOK
  <2>9. timeouts' = 0 => timeouts = 0
    BY <2>7
  <2>10. InitVal + applied'[k] + Cardinality(ToCount(k)') <= db'[k]
    BY <2>2, <2>6, <2>7, <2>8
  <2>11. timeouts' = 0 => db'[k] = InitVal + applied'[k] + Cardinality(ToCount(k)')
    BY <2>3, <2>7, <2>8, <2>9
  <2>12. db'[k] + Cardinality(Committing') <= InitVal + Cardinality(Turns')
    BY <2>4, <2>5, <2>6, <2>7, <2>8
  <2> QED
    BY <2>10, <2>11, <2>12
<1> QED
  BY <1>1 DEF CountsOK
-----------------------------------------------------------------------------
(* The kinds of the answers a strayed worker has yet to read. *)

\* To read an answer: it is of the first kind, and the others remain.
LEMMA KindsRead ==
  ASSUME NEW given \in Seq(Replies), given # <<>>, NEW lines \in Seq(TestLines), NEW b \in BOOLEAN,
         NEW z \in Seq(Kind), Kinds(given, lines, b, z)
  PROVE  /\ z # <<>> /\ IsOfKind(given[1], z[1])
         /\ Tail(z) \in Seq(Kind) /\ Kinds(Tail(given), lines, b, Tail(z))
<1>1. Len(given) \in Nat \ {0} /\ Len(lines) \in Nat /\ Len(z) = Len(given) + Len(lines) /\ z # <<>>
  BY DEF Kinds
<1> DEFINE bs == Tail(given)
           y == Tail(z)
<1>2. /\ bs \in Seq(Replies) /\ Len(bs) = Len(given) - 1
      /\ \A i \in 1..Len(bs) : bs[i] = given[i + 1]
  BY <1>1
<1>3. /\ y \in Seq(Kind) /\ Len(y) = Len(z) - 1
      /\ \A i \in 1..Len(y) : y[i] = z[i + 1]
  BY <1>1
<1> HIDE DEF bs, y
<1>4. Len(y) = Len(bs) + Len(lines)
  BY <1>1, <1>2, <1>3
<1>5. ASSUME NEW i \in 1..Len(bs)
      PROVE  IsOfKind(bs[i], y[i]) /\ (y[i] = "T" => b /\ ~AsksCommit(lines))
  <2>1. i + 1 \in 1..Len(given) /\ bs[i] = given[i + 1] /\ y[i] = z[i + 1]
    BY <1>1, <1>2, <1>3, <1>4
  <2> QED
    BY <2>1 DEF Kinds
<1>6. ASSUME NEW j \in 1..Len(lines)
      PROVE  AsksKind(lines, b, j, y[Len(bs) + j])
  <2>1. Len(bs) + j \in 1..Len(y) /\ Len(bs) + j + 1 = Len(given) + j
    BY <1>1, <1>2, <1>4
  <2>2. y[Len(bs) + j] = z[Len(given) + j]
    BY <1>3, <2>1
  <2> QED
    BY <2>2 DEF Kinds
<1>7. ASSUME NEW i \in 1..Len(y), NEW j \in 1..Len(y), y[i] = "T", y[j] = "T"
      PROVE  i = j
  <2>1. i + 1 \in 1..Len(z) /\ j + 1 \in 1..Len(z) /\ z[i + 1] = "T" /\ z[j + 1] = "T"
    BY <1>1, <1>3, <1>7
  <2>2. i + 1 = j + 1
    BY <2>1 DEF Kinds
  <2> QED
    BY <2>2
<1>8. Kinds(bs, lines, b, y)
  BY <1>4, <1>5, <1>6, <1>7 DEF Kinds
<1>9. IsOfKind(given[1], z[1])
  <2>1. 1 \in 1..Len(given)
    BY <1>1
  <2> QED
    BY <2>1 DEF Kinds
<1> QED
  BY <1>1, <1>3, <1>8, <1>9 DEF bs, y

\* The kind of answer that a new request can get.
AskedKind(line, z, x) ==
  \/ line[1] = "GET" /\ x = "V"
  \/ line[1] = "PUT" /\ x = "O"
  \/ line[1] = "ROLLBACK" /\ x = "E"
  \/ line[1] = "START" /\ x = (IF NoneBegins(z) THEN "T" ELSE "E")

\* To send a request: its answer will be the last.
LEMMA KindsSend ==
  ASSUME NEW given \in Seq(Replies), NEW lines \in Seq(TestLines), NEW b \in BOOLEAN,
         NEW z \in Seq(Kind), Kinds(given, lines, b, z),
         NEW line \in TestLines, NEW x \in Kind, AskedKind(line, z, x)
  PROVE  Append(z, x) \in Seq(Kind) /\ Kinds(given, Append(lines, line), b, Append(z, x))
<1> DEFINE y == Append(z, x)
           more == Append(lines, line)
<1>1. Len(given) \in Nat /\ Len(lines) \in Nat /\ Len(z) = Len(given) + Len(lines)
  BY DEF Kinds
<1>2. /\ more \in Seq(TestLines) /\ Len(more) = Len(lines) + 1 /\ more[Len(lines) + 1] = line
      /\ \A j \in 1..Len(lines) : more[j] = lines[j]
  OBVIOUS
<1>3. /\ y \in Seq(Kind) /\ Len(y) = Len(z) + 1 /\ y[Len(z) + 1] = x
      /\ \A i \in 1..Len(z) : y[i] = z[i]
  OBVIOUS
<1> HIDE DEF y, more
<1>4. Len(y) = Len(given) + Len(more)
  BY <1>1, <1>2, <1>3
<1>5. line # <<"COMMIT">> /\ (line[1] = "START" => line = <<"START">>)
  BY LineKinds DEF AskedKind
<1>6. AsksCommit(more) => AsksCommit(lines)
  <2> SUFFICES ASSUME NEW j \in 1..Len(more), more[j] = <<"COMMIT">> PROVE AsksCommit(lines)
    BY DEF AsksCommit
  <2>1. j # Len(lines) + 1
    BY <1>2, <1>5
  <2>2. j \in 1..Len(lines)
    BY <1>1, <1>2, <2>1
  <2> QED
    BY <1>2, <2>2 DEF AsksCommit
<1>7. ASSUME NEW i \in 1..Len(given)
      PROVE  IsOfKind(given[i], y[i]) /\ (y[i] = "T" => b /\ ~AsksCommit(more))
  <2>1. i \in 1..Len(z)
    BY <1>1
  <2> QED
    BY <1>3, <1>6, <2>1 DEF Kinds
<1>8. ASSUME NEW j \in 1..Len(lines)
      PROVE  AsksKind(more, b, j, y[Len(given) + j])
  <2>1. Len(given) + j \in 1..Len(z) /\ 1 \in 1..Len(lines) /\ 1..(j - 1) \subseteq 1..Len(lines)
    BY <1>1
  <2>2. y[Len(given) + j] = z[Len(given) + j]
    BY <1>3, <2>1
  <2>3. AsksKind(lines, b, j, z[Len(given) + j])
    BY DEF Kinds
  <2>4. more[1] = lines[1] /\ more[j] = lines[j] /\ \A i \in 1..(j - 1) : more[i] = lines[i]
    BY <1>2, <2>1
  <2> QED
    BY <2>2, <2>3, <2>4 DEF AsksKind
<1>9. AsksKind(more, b, Len(lines) + 1, x)
  <2>1. CASE line[1] # "START" \/ x = "T"
    BY <1>2, <2>1 DEF AsksKind, AskedKind
  <2>2. CASE line[1] = "START" /\ x # "T"
    <3>1. x = "E"
      BY <2>2 DEF AskedKind
    <3>2. PICK i \in 1..Len(z) : z[i] = "T"
      BY <2>2 DEF AskedKind, NoneBegins
    <3>3. CASE i <= Len(given)
      <4>1. b /\ ~AsksCommit(lines)
        BY <1>1, <3>2, <3>3 DEF Kinds
      <4>2. 1 \in 1..Len(more)
        BY <1>1, <1>2
      <4>3. more[1] # <<"COMMIT">>
        BY <1>6, <4>1, <4>2 DEF AsksCommit
      <4> QED
        BY <1>2, <2>2, <3>1, <4>1, <4>3 DEF AsksKind
    <3>4. CASE i > Len(given)
      <4> DEFINE j == i - Len(given)
      <4>1. j \in 1..Len(lines) /\ Len(given) + j = i
        BY <1>1, <3>4
      <4> HIDE DEF j
      <4>2. AsksKind(lines, b, j, "T")
        BY <3>2, <4>1 DEF Kinds
      <4>3. lines[j][1] = "START" /\ lines[j] \in TestLines
        BY <4>1, <4>2 DEF AsksKind
      <4>4. lines[j] = <<"START">>
        BY <4>3, LineKinds
      <4>5. j \in 1..((Len(lines) + 1) - 1) /\ more[j] = <<"START">>
        BY <1>1, <1>2, <4>1, <4>4
      <4> QED
        BY <1>2, <2>2, <3>1, <4>5 DEF AsksKind
    <3> QED
      BY <1>1, <3>3, <3>4
  <2> QED
    BY <2>1, <2>2
<1>10. ASSUME NEW j \in 1..Len(more)
       PROVE  AsksKind(more, b, j, y[Len(given) + j])
  <2>1. CASE j \in 1..Len(lines)
    BY <1>8, <2>1
  <2>2. CASE j = Len(lines) + 1
    <3>1. Len(given) + j = Len(z) + 1
      BY <1>1, <2>2
    <3> QED
      BY <1>3, <1>9, <2>2, <3>1
  <2> QED
    BY <1>1, <1>2, <2>1, <2>2
<1>11. ASSUME NEW i \in 1..Len(y), NEW j \in 1..Len(y), y[i] = "T", y[j] = "T"
       PROVE  i = j
  <2>1. x = "T" => NoneBegins(z)
    BY DEF AskedKind
  <2>2. ASSUME NEW n \in 1..Len(y), y[n] = "T" PROVE n \in 1..Len(z) \/ (n = Len(z) + 1 /\ NoneBegins(z))
    BY <1>1, <1>3, <2>1, <2>2
  <2>3. CASE NoneBegins(z)
    <3>1. ASSUME NEW n \in 1..Len(y), y[n] = "T" PROVE n = Len(z) + 1
      BY <1>3, <2>2, <2>3, <3>1 DEF NoneBegins
    <3> QED
      BY <1>11, <3>1
  <2>4. CASE ~NoneBegins(z)
    <3>1. i \in 1..Len(z) /\ j \in 1..Len(z)
      BY <1>11, <2>2, <2>4
    <3> QED
      BY <1>3, <1>11, <3>1 DEF Kinds
  <2> QED
    BY <2>3, <2>4
<1>12. Kinds(given, more, b, y)
  BY <1>4, <1>7, <1>10, <1>11 DEF Kinds
<1> QED
  BY <1>3, <1>12 DEF y, more

\* To take a line and answer it: its answer is of the kind that was due.
LEMMA KindsServe ==
  ASSUME NEW given \in Seq(Replies), NEW lines \in Seq(TestLines), lines # <<>>,
         NEW b \in BOOLEAN, NEW d \in BOOLEAN,
         NEW z \in Seq(Kind), Kinds(given, lines, b, z),
         \A j \in 1..Len(lines) : lines[j] = <<"COMMIT">> => j = 1,
         NEW r \in Replies, IsOfKind(r, z[Len(given) + 1]),
         \/ lines[1][1] = "START" /\ d
         \/ lines[1] = <<"COMMIT">> /\ ~d
         \/ lines[1][1] \notin {"START", "COMMIT"} /\ d = b
  PROVE  Kinds(Append(given, r), Tail(lines), d, z)
<1> DEFINE bs == Append(given, r)
           rest == Tail(lines)
<1>1. Len(given) \in Nat /\ Len(lines) \in Nat \ {0} /\ Len(z) = Len(given) + Len(lines)
  BY DEF Kinds
<1>2. /\ bs \in Seq(Replies) /\ Len(bs) = Len(given) + 1 /\ bs[Len(given) + 1] = r
      /\ \A i \in 1..Len(given) : bs[i] = given[i]
  OBVIOUS
<1>3. /\ rest \in Seq(TestLines) /\ Len(rest) = Len(lines) - 1
      /\ \A j \in 1..Len(rest) : rest[j] = lines[j + 1]
  BY <1>1
<1> HIDE DEF bs, rest
<1>4. Len(z) = Len(bs) + Len(rest)
  BY <1>1, <1>2, <1>3
<1>5. \A j \in 1..Len(rest) : rest[j] # <<"COMMIT">>
  <2> TAKE j \in 1..Len(rest)
  <2>1. j + 1 \in 1..Len(lines) /\ j + 1 # 1
    BY <1>1, <1>3
  <2> QED
    BY <1>3, <2>1
<1>6. ~AsksCommit(rest)
  BY <1>5 DEF AsksCommit
<1>7. lines[1] \in TestLines /\ AsksKind(lines, b, 1, z[Len(given) + 1])
  BY <1>1 DEF Kinds
<1>8. ASSUME NEW i \in 1..Len(bs)
      PROVE  IsOfKind(bs[i], z[i])
  <2>1. CASE i \in 1..Len(given)
    BY <1>2, <2>1 DEF Kinds
  <2>2. CASE i = Len(given) + 1
    BY <1>2, <2>2
  <2> QED
    BY <1>1, <1>2, <2>1, <2>2
<1>9. ASSUME NEW i \in 1..Len(bs), z[i] = "T" PROVE d
  <2>1. CASE lines[1][1] = "START"
    <3>1. lines[1] # <<"COMMIT">>
      BY <2>1
    <3> QED
      BY <2>1, <3>1
  <2>2. CASE lines[1][1] # "START" /\ i = Len(given) + 1
    BY <1>7, <1>9, <2>2 DEF AsksKind
  <2>3. CASE lines[1][1] # "START" /\ i # Len(given) + 1
    <3>1. i \in 1..Len(given)
      BY <1>1, <1>2, <2>3
    <3>2. b /\ ~AsksCommit(lines)
      BY <1>9, <3>1 DEF Kinds
    <3>3. lines[1] # <<"COMMIT">>
      BY <1>1, <3>2 DEF AsksCommit
    <3> QED
      BY <2>3, <3>2, <3>3
  <2> QED
    BY <2>1, <2>2, <2>3
<1>10. ASSUME NEW j \in 1..Len(rest)
       PROVE  AsksKind(rest, d, j, z[Len(bs) + j])
  <2>1. j + 1 \in 1..Len(lines) /\ Len(bs) + j = Len(given) + (j + 1) /\ j \in Nat /\ 1 \in 1..Len(rest)
    BY <1>1, <1>2, <1>3
  <2>2. AsksKind(lines, b, j + 1, z[Len(bs) + j])
    BY <2>1 DEF Kinds
  <2>3. rest[j] = lines[j + 1] /\ rest[1] # <<"COMMIT">>
    BY <1>3, <1>5, <2>1
  <2>4. CASE ~(rest[j][1] = "START" /\ z[Len(bs) + j] = "E")
    BY <2>2, <2>3, <2>4 DEF AsksKind
  <2>5. CASE rest[j][1] = "START" /\ z[Len(bs) + j] = "E"
    <3>1. \/ b /\ lines[1] # <<"COMMIT">>
          \/ \E i \in 1..((j + 1) - 1) : lines[i] = <<"START">>
      BY <2>2, <2>3, <2>5 DEF AsksKind
    <3>2. CASE d
      BY <2>3, <2>5, <3>2 DEF AsksKind
    <3>3. CASE ~d
      <4>1. lines[1] # <<"START">>
        BY <3>3
      <4>2. PICK i \in 1..((j + 1) - 1) : lines[i] = <<"START">>
        BY <3>1, <3>3
      <4>3. i # 1 /\ i - 1 \in 1..(j - 1) /\ i - 1 \in 1..Len(rest) /\ (i - 1) + 1 = i
        BY <1>1, <1>3, <2>1, <4>1, <4>2
      <4>4. rest[i - 1] = <<"START">>
        BY <1>3, <4>2, <4>3
      <4> QED
        BY <2>5, <4>3, <4>4 DEF AsksKind
    <3> QED
      BY <3>2, <3>3
  <2> QED
    BY <2>4, <2>5
<1>11. Kinds(bs, rest, d, z)
  BY <1>4, <1>6, <1>8, <1>9, <1>10 DEF Kinds
<1> QED
  BY <1>11 DEF bs, rest
-----------------------------------------------------------------------------
(* Where a strayed worker can go. *)

LEMMA KindsLength ==
  ASSUME NEW z \in Seq(Kind)
  PROVE  Len(z) \in Nat
OBVIOUS

\* It sends its next request.
Asking(from, label, z, x) ==
  \/ from = "get" /\ label = "GET" /\ x = "V"
  \/ from = "put" /\ label = "PUT" /\ x = "O"
  \/ from = "rollback" /\ label = "ROLLBACK" /\ x = "E"
  \/ from = "exception" /\ label = "EXC_ROLLBACK" /\ x = "E"
  \/ from = "next" /\ label = "START" /\ x = (IF NoneBegins(z) THEN "T" ELSE "E")

LEMMA StrayedAsks ==
  ASSUME NEW from, NEW label, NEW z \in Seq(Kind), NEW x \in Kind,
         StrayedAt(from, z), Asking(from, label, z, x)
  PROVE  StrayedAt(label, Append(z, x))
<1> DEFINE y == Append(z, x)
           last == z[Len(z)]
<1>1. /\ Len(z) \in Nat /\ Len(z) >= 1 /\ Len(y) = Len(z) + 1 /\ y[Len(z) + 1] = x
      /\ \A i \in 1..Len(z) : y[i] = z[i]
  <2>1. Len(z) >= 1
    BY DEF StrayedAt
  <2> QED
    BY <2>1
<1>2. 1 \in 1..Len(z) /\ Len(z) \in 1..Len(z) /\ last \in Kind
  BY <1>1
<1> HIDE DEF y, last
<1>3. from # "GET" /\ (from \in {"get", "put", "next"} => from \notin {"GET", "rollback", "exception"})
  BY DEF Asking
<1>4. ASSUME NEW i \in 1..(Len(z) - 1), OkKind(z[i]), ValueKind(z[i + 1])
      PROVE  /\ z[i] = "T" /\ z[i + 1] = "V"
             /\ i + 2 <= Len(z) => z[i + 2] = "E"
             /\ i + 1 = Len(z) => from \in {"rollback", "exception"}
  BY <1>3, <1>4 DEF StrayedAt, NoWayToCommit
<1>5. OkKind(last) /\ ValueKind(x) => last = "T" /\ x = "V" /\ label = "GET"
  <2>1. SUFFICES ASSUME OkKind(last), ValueKind(x)
                 PROVE  last = "T" /\ x = "V" /\ label = "GET"
    OBVIOUS
  <2>2. (from = "get" /\ label = "GET" /\ x = "V") \/ (from = "next" /\ NoneBegins(z))
    BY <2>1 DEF Asking, ValueKind
  <2>3. last = "T"
    BY <2>1, <2>2 DEF StrayedAt, last, OkKind
  <2>4. ~NoneBegins(z)
    BY <1>2, <2>3 DEF NoneBegins, last
  <2> QED
    BY <2>2, <2>3, <2>4
<1>6. NoWayToCommit(label, y)
  <2> SUFFICES ASSUME NEW i \in 1..(Len(y) - 1), OkKind(y[i]), ValueKind(y[i + 1])
               PROVE  /\ y[i] = "T" /\ y[i + 1] = "V"
                      /\ i + 2 <= Len(y) => y[i + 2] = "E"
                      /\ i + 1 = Len(y) => label \in {"GET", "rollback", "exception"}
    BY DEF NoWayToCommit
  <2>1. CASE i = Len(z)
    <3>1. y[i] = last /\ y[i + 1] = x
      BY <1>1, <1>2, <2>1 DEF last
    <3>2. ~(i + 2 <= Len(y))
      BY <1>1, <2>1
    <3> QED
      BY <1>5, <3>1, <3>2
  <2>2. CASE i # Len(z)
    <3>1. i \in 1..(Len(z) - 1) /\ i \in 1..Len(z) /\ i + 1 \in 1..Len(z)
      BY <1>1, <2>2
    <3>2. y[i] = z[i] /\ y[i + 1] = z[i + 1]
      BY <1>1, <3>1
    <3>3. /\ z[i] = "T" /\ z[i + 1] = "V"
          /\ i + 2 <= Len(z) => z[i + 2] = "E"
          /\ i + 1 = Len(z) => from \in {"rollback", "exception"}
      BY <1>4, <3>1, <3>2
    <3>4. CASE i + 2 <= Len(z)
      <4>1. y[i + 2] = z[i + 2] /\ i + 1 # Len(y)
        BY <1>1, <3>1, <3>4
      <4> QED
        BY <3>2, <3>3, <3>4, <4>1
    <3>5. CASE i + 1 = Len(z)
      <4>1. x = "E"
        BY <3>3, <3>5 DEF Asking
      <4>2. i + 2 = Len(z) + 1 /\ i + 1 # Len(y)
        BY <1>1, <3>5
      <4> QED
        BY <1>1, <3>2, <3>3, <4>1, <4>2
    <3> QED
      BY <1>1, <3>1, <3>4, <3>5
  <2> QED
    BY <2>1, <2>2
<1>7. NoneBegins(z) /\ x # "T" => NoneBegins(y)
  <2> SUFFICES ASSUME NoneBegins(z), x # "T", NEW i \in 1..Len(y) PROVE y[i] # "T"
    BY DEF NoneBegins
  <2>1. i \in 1..Len(z) \/ i = Len(z) + 1
    BY <1>1
  <2> QED
    BY <1>1, <2>1 DEF NoneBegins
<1>8. Len(y) >= 2 /\ Len(y) >= 1 /\ y[Len(y)] = x /\ y[1] = z[1] /\ (Len(z) >= 2 => y[2] = z[2])
  BY <1>1
<1>9. CASE from = "get"
  <2>1. label = "GET" /\ x = "V"
    BY <1>9 DEF Asking
  <2>2. ValueKind(z[1]) => Len(z) >= 2 /\ ~OkKind(z[2]) /\ NoneBegins(z)
    BY <1>9 DEF StrayedAt
  <2>3. ValueKind(y[1]) => Len(y) >= 2 /\ ~OkKind(y[2]) /\ NoneBegins(y)
    BY <1>7, <1>8, <2>1, <2>2
  <2> QED
    BY <1>6, <1>8, <2>1, <2>3 DEF StrayedAt, Waits, y
<1>10. CASE from = "put"
  <2>1. label = "PUT" /\ x = "O"
    BY <1>10 DEF Asking
  <2>2. ~OkKind(y[1]) /\ NoneBegins(y)
    BY <1>7, <1>8, <1>10, <2>1 DEF StrayedAt
  <2> QED
    BY <1>6, <1>8, <2>1, <2>2 DEF StrayedAt, Waits, y
<1>11. CASE from \in {"rollback", "exception"}
  <2>1. label \in {"ROLLBACK", "EXC_ROLLBACK"} /\ x = "E"
    BY <1>11 DEF Asking
  <2> QED
    BY <1>6, <1>8, <2>1 DEF StrayedAt, Waits, y
<1>12. CASE from = "next"
  <2>1. label = "START" /\ x \in {"E", "T"}
    BY <1>12 DEF Asking
  <2> QED
    BY <1>6, <1>8, <2>1 DEF StrayedAt, Waits, y
<1> QED
  BY <1>9, <1>10, <1>11, <1>12 DEF Asking

\* It reads an answer: OK or not, with a value or not.
Hearing(from, label, ok, value) ==
  \/ from = "START" /\ label = (IF ok THEN "get" ELSE "next")
  \/ from = "GET" /\ label = (IF value THEN "put" ELSE "rollback")
  \/ from = "PUT" /\ label = (IF ok THEN "commit" ELSE "rollback")
  \/ from \in {"ROLLBACK", "EXC_ROLLBACK"} /\ label = "next"

LEMMA StrayedHears ==
  ASSUME NEW from, NEW label, NEW z \in Seq(Kind), StrayedAt(from, z),
         NEW ok, NEW value, ok => OkKind(z[1]), value => ValueKind(z[1]),
         Hearing(from, label, ok, value),
         \A i, j \in 1..Len(z) : z[i] = "T" /\ z[j] = "T" => i = j
  PROVE  StrayedAt(label, Tail(z))
<1> DEFINE y == Tail(z)
<1>1. from \in Waits /\ Len(z) \in Nat /\ Len(z) >= 2
  <2>1. from \in Waits
    BY DEF Hearing, Waits
  <2>2. Len(z) \in Nat
    OBVIOUS
  <2>3. Len(z) >= 2
    BY <2>1 DEF StrayedAt
  <2> QED
    BY <2>1, <2>2, <2>3
<1>2. Len(y) = Len(z) - 1 /\ \A i \in 1..Len(y) : y[i] = z[i + 1]
  BY <1>1
<1> HIDE DEF y
<1>3. Len(y) \in Nat /\ Len(y) >= 1 /\ y[Len(y)] = z[Len(z)] /\ y[1] = z[2] /\ (Len(z) >= 3 => y[2] = z[3])
  BY <1>1, <1>2
<1>4. ASSUME NEW i \in 1..(Len(y) - 1), OkKind(y[i]), ValueKind(y[i + 1])
      PROVE  /\ y[i] = "T" /\ y[i + 1] = "V"
             /\ i + 2 <= Len(y) => y[i + 2] = "E"
             /\ i + 1 = Len(y) => from = "GET"
  <2>1. /\ i + 1 \in 1..(Len(z) - 1) /\ y[i] = z[i + 1] /\ y[i + 1] = z[(i + 1) + 1]
        /\ i + 2 <= Len(y) => y[i + 2] = z[(i + 1) + 2] /\ (i + 1) + 2 <= Len(z)
        /\ i + 1 = Len(y) => (i + 1) + 1 = Len(z)
    BY <1>1, <1>2
  <2>2. /\ z[i + 1] = "T" /\ z[(i + 1) + 1] = "V"
        /\ (i + 1) + 2 <= Len(z) => z[(i + 1) + 2] = "E"
        /\ (i + 1) + 1 = Len(z) => from \in {"GET", "rollback", "exception"}
    BY <1>4, <2>1 DEF StrayedAt, NoWayToCommit
  <2>3. from \notin {"rollback", "exception"}
    BY <1>1 DEF Waits
  <2> QED
    BY <2>1, <2>2, <2>3
<1>5. NoneBegins(z) => NoneBegins(y)
  <2> SUFFICES ASSUME NoneBegins(z), NEW i \in 1..Len(y) PROVE y[i] # "T"
    BY DEF NoneBegins
  <2>1. i + 1 \in 1..Len(z) /\ y[i] = z[i + 1]
    BY <1>1, <1>2
  <2> QED
    BY <2>1 DEF NoneBegins
<1>6. CASE from = "START"
  <2>1. y[Len(y)] \in {"E", "T"} /\ label = (IF ok THEN "get" ELSE "next")
    BY <1>3, <1>6 DEF StrayedAt, Hearing
  <2>2. NoWayToCommit(label, y)
    BY <1>4, <1>6 DEF NoWayToCommit
  <2>3. ASSUME ok, ValueKind(y[1]) PROVE Len(y) >= 2 /\ ~OkKind(y[2]) /\ NoneBegins(y)
    <3>1. 1 \in 1..(Len(z) - 1) /\ OkKind(z[1]) /\ ValueKind(z[1 + 1])
      BY <1>1, <1>3, <2>3
    <3>2. /\ z[1] = "T" /\ (1 + 2 <= Len(z) => z[1 + 2] = "E")
          /\ 1 + 1 = Len(z) => from \in {"GET", "rollback", "exception"}
      BY <3>1 DEF StrayedAt, NoWayToCommit
    <3>3. Len(z) >= 3 /\ z[3] = "E"
      <4>1. Len(z) # 2
        BY <1>6, <3>2
      <4>2. Len(z) >= 3
        <5>1. PICK n \in Nat : n = Len(z)
          BY <1>1
        <5>2. n >= 2 /\ n # 2
          BY <1>1, <4>1, <5>1
        <5>3. n >= 3
          BY <5>2
        <5> QED
          BY <5>1, <5>3
      <4>3. 1 + 2 = 3 /\ 1 + 2 <= Len(z)
        BY <4>2
      <4> QED
        BY <3>2, <4>2, <4>3
    <3>4. ASSUME NEW i \in 1..Len(y) PROVE y[i] # "T"
      <4>1. i + 1 \in 1..Len(z) /\ 1 \in 1..Len(z) /\ y[i] = z[i + 1] /\ i + 1 # 1
        BY <1>1, <1>2
      <4> QED
        BY <3>2, <4>1
    <3> QED
      BY <1>1, <1>2, <1>3, <3>3, <3>4 DEF OkKind, NoneBegins
  <2> QED
    BY <1>3, <2>1, <2>2, <2>3 DEF StrayedAt, Waits, y
<1>7. CASE from = "GET"
  <2>1. label = (IF value THEN "put" ELSE "rollback")
    BY <1>7 DEF Hearing
  <2>2. CASE value
    <3>1. ~OkKind(z[2]) /\ NoneBegins(z)
      BY <1>7, <2>2 DEF StrayedAt
    <3>2. NoneBegins(y)
      BY <1>5, <3>1
    <3>3. NoWayToCommit("put", y)
      <4> SUFFICES ASSUME NEW i \in 1..(Len(y) - 1), OkKind(y[i]), ValueKind(y[i + 1]) PROVE FALSE
        BY DEF NoWayToCommit
      <4>1. i \in 1..Len(y) /\ y[i] = "T"
        BY <1>3, <1>4
      <4> QED
        BY <3>2, <4>1 DEF NoneBegins
    <3> QED
      BY <1>3, <2>1, <2>2, <3>1, <3>2, <3>3 DEF StrayedAt, Waits, y
  <2>3. CASE ~value
    <3>1. NoWayToCommit("rollback", y)
      BY <1>4 DEF NoWayToCommit
    <3> QED
      BY <1>3, <2>1, <2>3, <3>1 DEF StrayedAt, Waits, y
  <2> QED
    BY <2>2, <2>3
<1>8. CASE from = "PUT"
  <2>1. label = "rollback"
    BY <1>8 DEF StrayedAt, Hearing
  <2>2. NoWayToCommit("rollback", y)
    BY <1>4 DEF NoWayToCommit
  <2> QED
    BY <1>3, <2>1, <2>2 DEF StrayedAt, Waits, y
<1>9. CASE from \in {"ROLLBACK", "EXC_ROLLBACK"}
  <2>1. label = "next" /\ y[Len(y)] = "E"
    BY <1>3, <1>9 DEF StrayedAt, Hearing
  <2>2. NoWayToCommit("next", y)
    BY <1>4, <1>9 DEF NoWayToCommit
  <2> QED
    BY <1>3, <2>1, <2>2 DEF StrayedAt, Waits, y
<1> QED
  BY <1>6, <1>7, <1>8, <1>9 DEF Hearing

\* It times out.
LEMMA StrayedTimesOut ==
  ASSUME NEW from, NEW label, NEW z \in Seq(Kind), StrayedAt(from, z),
         \/ from \in {"START", "GET", "PUT", "ROLLBACK"} /\ label = "exception"
         \/ from = "EXC_ROLLBACK" /\ label = "next"
  PROVE  StrayedAt(label, z)
<1>1. from \in Waits /\ Len(z) \in Nat /\ Len(z) >= 2
  <2>1. from \in Waits
    BY DEF Waits
  <2>2. Len(z) \in Nat
    BY KindsLength
  <2>3. Len(z) >= 2
    BY <2>1 DEF StrayedAt
  <2> QED
    BY <2>1, <2>2, <2>3
<1>2. ASSUME from \in {"START", "GET", "PUT", "ROLLBACK"}, label = "exception" PROVE StrayedAt(label, z)
  <2>1. NoWayToCommit("exception", z)
    BY DEF StrayedAt, NoWayToCommit
  <2> QED
    BY <1>1, <1>2, <2>1 DEF StrayedAt, Waits
<1>3. ASSUME from = "EXC_ROLLBACK", label = "next" PROVE StrayedAt(label, z)
  <2>1. NoWayToCommit("next", z)
    BY <1>3 DEF StrayedAt, NoWayToCommit
  <2> QED
    BY <1>1, <1>3, <2>1 DEF StrayedAt, Waits
<1> QED
  BY <1>2, <1>3
-----------------------------------------------------------------------------
(* What the socket calls leave alone. *)

SameEngine == db' = db /\ ctx' = ctx /\ DOMAIN rc' = Client

LEMMA EngineStays ==
  ASSUME TypesOK, SameEngine
  PROVE  EngineTypeOK' /\ \A d \in Client : SameTxn(d)
BY DEF TypesOK, EngineTypeOK, SameEngine, SameTxn

\* A step of c's on its connection only.
OnlyConnection(c) ==
  /\ SameEngine /\ ServerTypeOK' /\ in_txn'[c] = in_txn[c]
  /\ \A d \in Client \ {c} : SameServer(d)

LEMMA SendEffect ==
  ASSUME TypesOK, NEW c \in Client, NEW line \in TestLines, SendLine(c, line)
  PROVE  /\ OnlyConnection(c)
         /\ peer[c] = "open" /\ peer'[c] = "open" /\ inbox'[c] = Append(inbox[c], line)
         /\ outbox'[c] = outbox[c] /\ thread'[c] = thread[c] /\ reply'[c] = reply[c]
<1>1. /\ peer[c] = "open" /\ inbox' = [inbox EXCEPT ![c] = Append(inbox[c], line)]
      /\ UNCHANGED <<db, ctx, rc, peer, outbox, thread, in_txn, reply>>
  BY DEF SendLine, apiVars
<1>2. ServerTypeOK /\ DOMAIN rc = Client
  BY DEF TypesOK, EngineTypeOK
<1>3. inbox[c] \in Seq(TestLines) /\ Append(inbox[c], line) \in Seq(TestLines)
  BY <1>2 DEF ServerTypeOK
<1>4. inbox' \in [Client -> Seq(TestLines)] /\ inbox'[c] = Append(inbox[c], line)
      /\ \A d \in Client \ {c} : inbox'[d] = inbox[d]
  BY <1>1, <1>2, <1>3 DEF ServerTypeOK
<1>5. ServerTypeOK'
  BY <1>1, <1>2, <1>4 DEF ServerTypeOK
<1> QED
  BY <1>1, <1>2, <1>4, <1>5 DEF OnlyConnection, SameEngine, SameServer

LEMMA ReadEffect ==
  ASSUME TypesOK, NEW c \in Client, ReadReply(c)
  PROVE  /\ OnlyConnection(c)
         /\ peer[c] = "open" /\ outbox[c] # <<>> /\ outbox[c] \in Seq(Replies)
         /\ peer'[c] = "open" /\ inbox'[c] = inbox[c]
         /\ outbox'[c] = Tail(outbox[c]) /\ thread'[c] = thread[c] /\ reply'[c] = reply[c]
<1>1. /\ peer[c] = "open" /\ outbox[c] # <<>>
      /\ outbox' = [outbox EXCEPT ![c] = Tail(outbox[c])]
      /\ UNCHANGED <<db, ctx, rc, peer, inbox, thread, in_txn, reply>>
  BY DEF ReadReply, apiVars
<1>2. ServerTypeOK /\ DOMAIN rc = Client
  BY DEF TypesOK, EngineTypeOK
<1>3. outbox[c] \in Seq(Replies) /\ Tail(outbox[c]) \in Seq(Replies)
  <2>1. outbox[c] \in Seq(Replies)
    BY <1>2 DEF ServerTypeOK
  <2> QED
    BY <1>1, <2>1
<1>4. outbox' \in [Client -> Seq(Replies)] /\ outbox'[c] = Tail(outbox[c])
      /\ \A d \in Client \ {c} : outbox'[d] = outbox[d]
  BY <1>1, <1>2, <1>3 DEF ServerTypeOK
<1>5. ServerTypeOK'
  BY <1>1, <1>2, <1>4 DEF ServerTypeOK
<1> QED
  BY <1>1, <1>2, <1>3, <1>4, <1>5 DEF OnlyConnection, SameEngine, SameServer

LEMMA ConnectEffect ==
  ASSUME TypesOK, NEW c \in Client, Connect(c)
  PROVE  /\ OnlyConnection(c)
         /\ peer'[c] = "open" /\ inbox'[c] = inbox[c] /\ outbox'[c] = outbox[c]
         /\ thread'[c] = thread[c] /\ reply'[c] = reply[c]
<1>1. /\ peer' = [peer EXCEPT ![c] = "open"]
      /\ UNCHANGED <<db, ctx, rc, inbox, outbox, thread, in_txn, reply>>
  BY DEF Connect, apiVars
<1>2. ServerTypeOK /\ DOMAIN rc = Client
  BY DEF TypesOK, EngineTypeOK
<1>3. ServerTypeOK' /\ peer'[c] = "open" /\ \A d \in Client \ {c} : peer'[d] = peer[d]
  BY <1>1, <1>2 DEF ServerTypeOK
<1> QED
  BY <1>1, <1>2, <1>3 DEF OnlyConnection, SameEngine, SameServer

LEMMA CloseEffect ==
  ASSUME TypesOK, NEW c \in Client, Close(c)
  PROVE  /\ OnlyConnection(c)
         /\ peer'[c] = "closed" /\ inbox'[c] = inbox[c] /\ outbox'[c] = <<>>
         /\ thread'[c] = thread[c] /\ reply'[c] = reply[c]
<1>1. /\ peer' = [peer EXCEPT ![c] = "closed"] /\ outbox' = [outbox EXCEPT ![c] = <<>>]
      /\ UNCHANGED <<db, ctx, rc, inbox, thread, in_txn, reply>>
  BY DEF Close, apiVars
<1>2. ServerTypeOK /\ DOMAIN rc = Client
  BY DEF TypesOK, EngineTypeOK
<1>3. outbox' \in [Client -> Seq(Replies)]
  BY <1>1, <1>2 DEF ServerTypeOK
<1>4. ServerTypeOK' /\ peer'[c] = "closed" /\ outbox'[c] = <<>>
      /\ \A d \in Client \ {c} : peer'[d] = peer[d] /\ outbox'[d] = outbox[d]
  BY <1>1, <1>2, <1>3 DEF ServerTypeOK
<1> QED
  BY <1>1, <1>2, <1>4 DEF OnlyConnection, SameEngine, SameServer
-----------------------------------------------------------------------------
(* What is to be shown of a step of c's. *)

OthersStay(c) == \A d \in Client \ {c} : Undisturbed(d)

LEMMA StepSuffices ==
  ASSUME TypesOK, StepsOK, NEW c \in Client, OthersStay(c),
         EngineTypeOK', ServerTypeOK', TestTypeOK', timeouts' >= timeouts,
         in_txn'[c] <=> ctx'[c] # NULL,
         c \in Worker => TurnOK(c)',
         c = Verifier => VerifierOK',
         StepOK(c)'
  PROVE  TypesOK' /\ StepsOK'
<1>1. \A d \in Client : in_txn'[d] <=> ctx'[d] # NULL
  <2> SUFFICES ASSUME NEW d \in Client \ {c} PROVE in_txn'[d] <=> ctx'[d] # NULL
    OBVIOUS
  <2> QED
    BY DEF OthersStay, Undisturbed, SameServer, SameTxn, TypesOK
<1>2. \A w \in Worker : TurnOK(w)'
  <2> SUFFICES ASSUME NEW w \in Worker \ {c} PROVE TurnOK(w)'
    OBVIOUS
  <2>1. w \in Client \ {c}
    BY ClientAssumption
  <2> QED
    BY <2>1 DEF OthersStay, Undisturbed, SameTest, TurnOK, TypesOK
<1>3. VerifierOK'
  <2> SUFFICES ASSUME c # Verifier PROVE VerifierOK'
    OBVIOUS
  <2>1. Verifier \in Client \ {c}
    BY ClientAssumption
  <2> QED
    BY <2>1 DEF OthersStay, Undisturbed, SameTest, SameServer, VerifierOK, TypesOK
<1>4. TypesOK'
  BY <1>1, <1>2, <1>3 DEF TypesOK
<1>5. \A d \in Client : StepOK(d)'
  <2> SUFFICES ASSUME NEW d \in Client \ {c} PROVE StepOK(d)'
    OBVIOUS
  <2>1. StepOK(d) /\ Undisturbed(d)
    BY DEF StepsOK, StepOK, OthersStay
  <2>2. timeouts' \in Nat
    BY DEF TestTypeOK
  <2> QED
    BY <2>1, <2>2, UndisturbedStays
<1> QED
  BY <1>4, <1>5 DEF StepsOK, StepOK

\* The counts, when no record and no count changes.
CountStays(w) ==
  /\ \A k \in Rec : Counted(w, k)' => Counted(w, k)
  /\ timeouts' = 0 => \A k \in Rec : Counted(w, k) => Counted(w, k)'
  /\ AsksCommit(inbox'[w]) => AsksCommit(inbox[w])
  /\ TurnsOf(w) <= TurnsOf(w)'

LEMMA TurnsOfType ==
  /\ TypesOK => \A w \in Worker : TurnsOf(w) \in Nat
  /\ TestTypeOK' => \A w \in Worker : TurnsOf(w)' \in Nat
<1>1. ASSUME TypesOK, NEW w \in Worker PROVE TurnsOf(w) \in Nat
  <2>1. iter[w] \in 0..TXN_PER_THREAD /\ TXN_PER_THREAD \in Nat
    BY <1>1, ClientAssumption DEF TypesOK, TestTypeOK
  <2>2. iter[w] + 0 \in Nat /\ iter[w] + 1 \in Nat
    BY <2>1
  <2> QED
    BY <2>2, Zenon DEF TurnsOf
<1>2. ASSUME TestTypeOK', NEW w \in Worker PROVE TurnsOf(w)' \in Nat
  <2>1. iter'[w] \in 0..TXN_PER_THREAD /\ TXN_PER_THREAD \in Nat
    BY <1>2, ClientAssumption DEF TestTypeOK
  <2>2. iter'[w] + 0 \in Nat /\ iter'[w] + 1 \in Nat
    BY <2>1
  <2> QED
    BY <2>2, Zenon DEF TurnsOf
<1> QED
  BY <1>1, <1>2

\* What the others contribute to the counts.
LEMMA OthersCount ==
  ASSUME TypesOK, NEW c \in Client, OthersStay(c), NEW w \in Worker \ {c}
  PROVE  /\ \A k \in Rec : Counted(w, k)' <=> Counted(w, k)
         /\ inbox'[w] = inbox[w] /\ TurnsOf(w)' = TurnsOf(w)
<1>1. w \in Client /\ SameServer(w) /\ SameTest(w)
  BY ClientAssumption DEF OthersStay, Undisturbed
<1>2. \A r : Answered(w, r) <=> Answered(w, r)'
  BY <1>1, TrafficStays
<1> QED
  BY <1>1, <1>2 DEF Counted, SameServer, SameTest, TurnsOf

LEMMA CountsSuffice ==
  ASSUME TypesOK, CountsOK, NEW c \in Client, OthersStay(c), TestTypeOK',
         UNCHANGED <<db, applied>>, timeouts' >= timeouts,
         c \in Worker => CountStays(c)
  PROVE  CountsOK'
<1>1. ASSUME NEW w \in Worker PROVE CountStays(w)
  <2> SUFFICES ASSUME w # c PROVE CountStays(w)
    BY <1>1
  <2>1. TurnsOf(w) \in Nat
    BY TurnsOfType
  <2> QED
    BY <2>1, OthersCount DEF CountStays
<1>2. TurnsGrow
  BY <1>1, TurnsOfType DEF TurnsGrow, CountStays
<1>3. timeouts' \in Nat
  BY DEF TestTypeOK
<1> QED
  BY <1>1, <1>2, <1>3, CountsStay DEF CountStays
-----------------------------------------------------------------------------
(* The answers to a client. *)

LEMMA AnswersType ==
  ASSUME TypesOK, NEW c \in Client
  PROVE  Answers(c) \in Seq(Replies)
<1>1. /\ outbox[c] \in Seq(Replies) /\ reply[c] \in Replies \cup {NULL}
  BY DEF TypesOK, ServerTypeOK
<1>2. Say("WELCOME") \in Replies
  BY ReplyFacts DEF ReplyTexts
<1>3. (IF thread[c] = "none" THEN <<Say("WELCOME")>>
       ELSE IF reply[c] # NULL THEN <<reply[c]>> ELSE <<>>) \in Seq(Replies)
  <2>1. <<Say("WELCOME")>> \in Seq(Replies)
    BY <1>2
  <2>2. reply[c] # NULL => <<reply[c]>> \in Seq(Replies)
    BY <1>1
  <2>3. <<>> \in Seq(Replies)
    OBVIOUS
  <2> QED
    BY <2>1, <2>2, <2>3, Zenon
<1> QED
  BY <1>1, <1>3 DEF Answers

\* The first of some replies is read from them, whatever follows.
LEMMA TailOfConcat ==
  ASSUME NEW s \in Seq(Replies), s # <<>>, NEW t \in Seq(Replies)
  PROVE  s \o t # <<>> /\ (s \o t)[1] = Head(s) /\ Tail(s \o t) = Tail(s) \o t
<1>1. Len(s) \in Nat \ {0} /\ Len(t) \in Nat
  OBVIOUS
<1>2. /\ s \o t \in Seq(Replies) /\ Len(s \o t) = Len(s) + Len(t)
      /\ \A i \in 1..Len(s) : (s \o t)[i] = s[i]
      /\ \A i \in 1..Len(t) : (s \o t)[Len(s) + i] = t[i]
  OBVIOUS
<1>3. s \o t # <<>> /\ (s \o t)[1] = Head(s)
  BY <1>1, <1>2
<1>4. /\ Tail(s) \in Seq(Replies) /\ Len(Tail(s)) = Len(s) - 1
      /\ \A i \in 1..(Len(s) - 1) : Tail(s)[i] = s[i + 1]
  BY <1>1
<1>5. Tail(s \o t) = Tail(s) \o t
  <2> DEFINE a == Tail(s \o t)
             b == Tail(s) \o t
  <2>1. /\ a \in Seq(Replies) /\ Len(a) = Len(s) + Len(t) - 1
        /\ \A i \in 1..(Len(s) + Len(t) - 1) : a[i] = (s \o t)[i + 1]
    BY <1>1, <1>2, <1>3
  <2>2. /\ b \in Seq(Replies) /\ Len(b) = (Len(s) - 1) + Len(t)
        /\ \A i \in 1..(Len(s) - 1) : b[i] = Tail(s)[i]
        /\ \A i \in 1..Len(t) : b[(Len(s) - 1) + i] = t[i]
    BY <1>4
  <2> HIDE DEF a, b
  <2>3. ASSUME NEW i \in 1..(Len(s) + Len(t) - 1) PROVE a[i] = b[i]
    <3>1. CASE i \in 1..(Len(s) - 1)
      <4>1. i + 1 \in 1..Len(s)
        BY <1>1, <3>1
      <4> QED
        BY <1>2, <1>4, <2>1, <2>2, <3>1, <4>1
    <3>2. CASE i \notin 1..(Len(s) - 1)
      <4> DEFINE j == i - (Len(s) - 1)
      <4>1. j \in 1..Len(t) /\ Len(s) + j = i + 1 /\ (Len(s) - 1) + j = i
        BY <1>1, <3>2
      <4> HIDE DEF j
      <4>2. a[i] = t[j] /\ b[i] = t[j]
        BY <1>2, <2>1, <2>2, <4>1
      <4> QED
        BY <4>2
    <3> QED
      BY <3>1, <3>2
  <2>4. Len(a) = Len(b) /\ Len(a) = Len(s) + Len(t) - 1
    BY <1>1, <2>1, <2>2
  <2>5. a = b
    BY <2>1, <2>2, <2>3, <2>4, SeqEqual
  <2> QED
    BY <2>5 DEF a, b
<1> QED
  BY <1>3, <1>5

LEMMA AnswersRead ==
  ASSUME TypesOK, NEW c \in Client, outbox[c] # <<>>,
         outbox'[c] = Tail(outbox[c]), thread'[c] = thread[c], reply'[c] = reply[c]
  PROVE  Answers(c) # <<>> /\ Answers(c)[1] = heard(c) /\ Answers(c)' = Tail(Answers(c))
<1> DEFINE rest == IF thread[c] = "none" THEN <<Say("WELCOME")>>
                   ELSE IF reply[c] # NULL THEN <<reply[c]>> ELSE <<>>
<1>1. outbox[c] \in Seq(Replies) /\ reply[c] \in Replies \cup {NULL}
  BY DEF TypesOK, ServerTypeOK
<1>2. rest \in Seq(Replies)
  <2>1. <<Say("WELCOME")>> \in Seq(Replies)
    <3>1. Say("WELCOME") \in Replies
      BY ReplyFacts DEF ReplyTexts
    <3> QED
      BY <3>1
  <2>2. reply[c] # NULL => <<reply[c]>> \in Seq(Replies)
    BY <1>1
  <2>3. <<>> \in Seq(Replies)
    OBVIOUS
  <2> QED
    BY <2>1, <2>2, <2>3, Zenon
<1>3. Answers(c) = outbox[c] \o rest /\ Answers(c)' = Tail(outbox[c]) \o rest
  BY DEF Answers
<1> HIDE DEF rest
<1> QED
  BY <1>1, <1>2, <1>3, TailOfConcat DEF heard
-----------------------------------------------------------------------------
(* A client's step, on its own side. *)

LEMMA MoveEffect ==
  ASSUME TypesOK, NEW c \in Client, NEW label \in Labels, At(c, label),
         timeouts' \in Nat, applied' \in [Rec -> Nat],
         \/ UNCHANGED <<iter, key, cur>>
         \/ /\ c \in Worker /\ UNCHANGED <<iter, cur>>
            /\ \E k \in Rec : key' = [key EXCEPT ![c] = k]
         \/ /\ c \in Worker /\ UNCHANGED <<iter, key>>
            /\ \E v \in Nat \cup {NULL} : cur' = [cur EXCEPT ![c] = v]
  PROVE  TestTypeOK' /\ at'[c] = label /\ \A d \in Client \ {c} : SameTest(d)
<1>1. TestTypeOK
  BY DEF TypesOK
<1>2. at' \in [Client -> Labels] /\ at'[c] = label /\ \A d \in Client \ {c} : at'[d] = at[d]
  BY <1>1 DEF At, TestTypeOK
<1>3. /\ iter' = iter
      /\ key' \in [Worker -> Rec \cup {NULL}] /\ \A d \in Worker \ {c} : key'[d] = key[d]
      /\ cur' \in [Worker -> Nat \cup {NULL}] /\ \A d \in Worker \ {c} : cur'[d] = cur[d]
  BY <1>1 DEF TestTypeOK
<1> QED
  BY <1>1, <1>2, <1>3 DEF TestTypeOK, SameTest

LEMMA EndTurnEffect ==
  ASSUME TypesOK, NEW w \in Worker, at[w] \in InTurn, EndTurn(w),
         timeouts' \in Nat, applied' \in [Rec -> Nat]
  PROVE  /\ TestTypeOK' /\ at'[w] = "next" /\ iter'[w] = iter[w] + 1 /\ TurnOK(w)'
         /\ \A d \in Client \ {w} : SameTest(d)
<1>1. TestTypeOK /\ w \in Client /\ iter[w] \in Nat /\ iter[w] < TXN_PER_THREAD /\ TXN_PER_THREAD \in Nat
  BY ClientAssumption DEF TypesOK, TestTypeOK, TurnOK
<1>2. /\ at' \in [Client -> Labels] /\ at'[w] = "next" /\ \A d \in Client \ {w} : at'[d] = at[d]
  BY <1>1 DEF EndTurn, At, TestTypeOK, Labels
<1>3. iter[w] + 1 \in 0..TXN_PER_THREAD
  BY <1>1
<1>4. /\ iter' \in [Worker -> 0..TXN_PER_THREAD] /\ iter'[w] = iter[w] + 1
      /\ \A d \in Worker \ {w} : iter'[d] = iter[d]
  BY <1>1, <1>3 DEF EndTurn, TestTypeOK
<1>5. /\ key' \in [Worker -> Rec \cup {NULL}] /\ \A d \in Worker \ {w} : key'[d] = key[d]
      /\ cur' \in [Worker -> Nat \cup {NULL}] /\ \A d \in Worker \ {w} : cur'[d] = cur[d]
  BY <1>1 DEF EndTurn, TestTypeOK
<1>6. TurnOK(w)'
  BY <1>2 DEF TurnOK, InTurn
<1> QED
  BY <1>1, <1>2, <1>4, <1>5, <1>6 DEF TestTypeOK, SameTest

LEMMA MoveSuffices ==
  ASSUME TypesOK, StepsOK, NEW c \in Client, OnlyConnection(c), TestTypeOK',
         \A d \in Client \ {c} : SameTest(d), timeouts' >= timeouts,
         c \in Worker => TurnOK(c)',
         c = Verifier => /\ at'[Verifier] \in {"new", "greeting", "next", "GET", "closed"}
                         /\ inbox'[c] = inbox[c] \/ OnlyGets(inbox'[c]),
         StepOK(c)'
  PROVE  TypesOK' /\ StepsOK' /\ OthersStay(c)
<1>1. EngineTypeOK' /\ \A d \in Client : SameTxn(d)
  BY EngineStays DEF OnlyConnection
<1>2. OthersStay(c)
  BY <1>1 DEF OnlyConnection, OthersStay, Undisturbed
<1>3. in_txn'[c] <=> ctx'[c] # NULL
  BY DEF OnlyConnection, SameEngine, TypesOK
<1>4. c = Verifier => VerifierOK'
  BY DEF VerifierOK, TypesOK, OnlyConnection
<1> QED
  BY <1>1, <1>2, <1>3, <1>4, StepSuffices DEF OnlyConnection
-----------------------------------------------------------------------------
(* A strayed worker's steps. *)

\* What a worker may send from where, a COMMIT excepted.
Requesting(from, label, line) ==
  \/ from = "next" /\ label = "START" /\ line[1] = "START"
  \/ from = "get" /\ label = "GET" /\ line[1] = "GET"
  \/ from = "put" /\ label = "PUT" /\ line[1] = "PUT"
  \/ from = "rollback" /\ label = "ROLLBACK" /\ line[1] = "ROLLBACK"
  \/ from = "exception" /\ label = "EXC_ROLLBACK" /\ line[1] = "ROLLBACK"

\* No COMMIT is added to those that wait.
LEMMA CommitStays ==
  ASSUME TypesOK, NEW c \in Client, CommitOK(c), SameEngine,
         \/ inbox'[c] = inbox[c]
         \/ \E line \in TestLines : line # <<"COMMIT">> /\ inbox'[c] = Append(inbox[c], line)
  PROVE  CommitOK(c)' /\ (AsksCommit(inbox'[c]) => AsksCommit(inbox[c]))
<1>1. \A k \in Rec : HasWritten(c, k) => HasWritten(c, k)'
  BY EngineStays, TxnStays
<1>2. CASE inbox'[c] = inbox[c]
  BY <1>1, <1>2 DEF CommitOK
<1>3. ASSUME NEW line \in TestLines, line # <<"COMMIT">>, inbox'[c] = Append(inbox[c], line)
      PROVE  CommitOK(c)' /\ (AsksCommit(inbox'[c]) => AsksCommit(inbox[c]))
  <2>1. inbox[c] \in Seq(TestLines)
    BY DEF TypesOK, ServerTypeOK
  <2>2. ASSUME NEW j \in 1..Len(inbox'[c]), inbox'[c][j] = <<"COMMIT">>
        PROVE  j \in 1..Len(inbox[c]) /\ inbox[c][j] = <<"COMMIT">>
    <3>1. /\ Len(inbox'[c]) = Len(inbox[c]) + 1 /\ inbox'[c][Len(inbox[c]) + 1] = line
          /\ \A i \in 1..Len(inbox[c]) : inbox'[c][i] = inbox[c][i]
      BY <1>3, <2>1
    <3>2. j # Len(inbox[c]) + 1
      BY <1>3, <2>2, <3>1
    <3>3. Len(inbox[c]) \in Nat
      BY <2>1
    <3>4. j \in 1..Len(inbox[c])
      BY <3>1, <3>2, <3>3
    <3> QED
      BY <2>2, <3>1, <3>4
  <2>3. CommitOK(c)'
    BY <1>1, <2>2 DEF CommitOK
  <2>4. AsksCommit(inbox'[c]) => AsksCommit(inbox[c])
    BY <2>2 DEF AsksCommit
  <2> QED
    BY <2>3, <2>4
<1> QED
  BY <1>2, <1>3

LEMMA StrayedSends ==
  ASSUME TypesOK, NEW w \in Worker, Strayed(w), CommitOK(w),
         NEW line \in TestLines, SendLine(w, line),
         Requesting(at[w], at'[w], line), timeouts' = timeouts
  PROVE  StepOK(w)' /\ (AsksCommit(inbox'[w]) => AsksCommit(inbox[w]))
<1>1. w \in Client
  BY ClientAssumption
<1>2. /\ OnlyConnection(w)
      /\ peer'[w] = "open" /\ inbox'[w] = Append(inbox[w], line)
      /\ outbox'[w] = outbox[w] /\ thread'[w] = thread[w] /\ reply'[w] = reply[w]
  BY <1>1, SendEffect
<1>3. PICK z \in Seq(Kind) : Kinds(Answers(w), inbox[w], in_txn[w], z) /\ StrayedAt(at[w], z)
  BY DEF Strayed
<1>4. PICK x \in Kind : AskedKind(line, z, x) /\ Asking(at[w], at'[w], z, x)
  <2>1. ASSUME NEW y \in Kind, AskedKind(line, z, y), Asking(at[w], at'[w], z, y)
        PROVE  \E x \in Kind : AskedKind(line, z, x) /\ Asking(at[w], at'[w], z, x)
    BY <2>1
  <2>2. "E" \in Kind /\ "O" \in Kind /\ "V" \in Kind /\ "T" \in Kind
    BY DEF Kind
  <2>3. CASE line[1] = "START"
    <3>1. (IF NoneBegins(z) THEN "T" ELSE "E") \in Kind
      BY <2>2
    <3> QED
      BY <2>3, <3>1 DEF Requesting, AskedKind, Asking
  <2>4. CASE line[1] = "GET"
    BY <2>1, <2>2, <2>4 DEF Requesting, AskedKind, Asking
  <2>5. CASE line[1] = "PUT"
    BY <2>1, <2>2, <2>5 DEF Requesting, AskedKind, Asking
  <2>6. CASE line[1] = "ROLLBACK"
    BY <2>1, <2>2, <2>6 DEF Requesting, AskedKind, Asking
  <2> QED
    BY <2>3, <2>4, <2>5, <2>6 DEF Requesting
<1>5. /\ inbox[w] \in Seq(TestLines) /\ in_txn[w] \in BOOLEAN /\ Answers(w) \in Seq(Replies)
  BY <1>1, AnswersType DEF TypesOK, ServerTypeOK
<1>6. Append(z, x) \in Seq(Kind) /\ Kinds(Answers(w), inbox'[w], in_txn[w], Append(z, x))
  BY <1>2, <1>3, <1>4, <1>5, KindsSend
<1>7. StrayedAt(at'[w], Append(z, x))
  BY <1>3, <1>4, StrayedAsks
<1>8. Answers(w)' = Answers(w) /\ in_txn'[w] = in_txn[w]
  BY <1>2 DEF Answers, OnlyConnection
<1>9. timeouts' > 0 /\ (Unaccepted(w)' \/ thread'[w] = "serving")
  BY <1>2 DEF Strayed, Unaccepted
<1>10. Strayed(w)'
  BY <1>2, <1>6, <1>7, <1>8, <1>9 DEF Strayed
<1>11. line # <<"COMMIT">>
  <2>1. line = <<"COMMIT">> => line[1] = "COMMIT"
    OBVIOUS
  <2>2. line[1] \in {"START", "GET", "PUT", "ROLLBACK"}
    BY DEF Requesting
  <2> QED
    BY <2>1, <2>2
<1>12. CommitOK(w)' /\ (AsksCommit(inbox'[w]) => AsksCommit(inbox[w]))
  BY <1>1, <1>2, <1>11, CommitStays DEF OnlyConnection
<1> QED
  BY <1>10, <1>12 DEF StepOK

LEMMA StrayedReads ==
  ASSUME TypesOK, NEW w \in Worker, Strayed(w), CommitOK(w), ReadReply(w),
         Hearing(at[w], at'[w], is_ok(heard(w)), heard(w).val # NULL), timeouts' = timeouts
  PROVE  StepOK(w)' /\ inbox'[w] = inbox[w]
<1>1. w \in Client
  BY ClientAssumption
<1>2. /\ OnlyConnection(w)
      /\ outbox[w] # <<>> /\ outbox[w] \in Seq(Replies)
      /\ peer'[w] = "open" /\ inbox'[w] = inbox[w]
      /\ outbox'[w] = Tail(outbox[w]) /\ thread'[w] = thread[w] /\ reply'[w] = reply[w]
  BY <1>1, ReadEffect
<1>3. PICK z \in Seq(Kind) : Kinds(Answers(w), inbox[w], in_txn[w], z) /\ StrayedAt(at[w], z)
  BY DEF Strayed
<1>4. /\ inbox[w] \in Seq(TestLines) /\ in_txn[w] \in BOOLEAN /\ Answers(w) \in Seq(Replies)
  BY <1>1, AnswersType DEF TypesOK, ServerTypeOK
<1>5. thread[w] = "serving"
  BY <1>2 DEF Strayed, Unaccepted
<1>6. /\ Answers(w) # <<>> /\ Answers(w)[1] = heard(w)
      /\ Answers(w)' = Tail(Answers(w))
  BY <1>1, <1>2, <1>5, AnswersRead
<1>7. /\ IsOfKind(heard(w), z[1])
      /\ Tail(z) \in Seq(Kind) /\ Kinds(Tail(Answers(w)), inbox[w], in_txn[w], Tail(z))
  BY <1>3, <1>4, <1>6, KindsRead
<1>8. \A i, j \in 1..Len(z) : z[i] = "T" /\ z[j] = "T" => i = j
  BY <1>3 DEF Kinds
<1>9. (is_ok(heard(w)) => OkKind(z[1])) /\ (heard(w).val # NULL => ValueKind(z[1]))
  BY <1>7 DEF IsOfKind
<1>10. StrayedAt(at'[w], Tail(z))
  BY <1>3, <1>8, <1>9, StrayedHears
<1>11. in_txn'[w] = in_txn[w]
  BY <1>2 DEF OnlyConnection
<1>12. Strayed(w)'
  BY <1>2, <1>5, <1>6, <1>7, <1>10, <1>11 DEF Strayed
<1>13. CommitOK(w)'
  BY <1>1, <1>2, CommitStays DEF OnlyConnection
<1> QED
  BY <1>2, <1>12, <1>13 DEF StepOK
-----------------------------------------------------------------------------
(* The steps that most of a worker's actions share. *)

LEMMA QuietSends ==
  ASSUME TypesOK, NEW c \in Client, NEW line \in TestLines, SendLine(c, line), Quiet(c)
  PROVE  Sent(c, line)'
<1>1. /\ peer'[c] = "open" /\ inbox'[c] = Append(inbox[c], line)
      /\ outbox'[c] = outbox[c] /\ thread'[c] = thread[c] /\ reply'[c] = reply[c]
  BY SendEffect
<1>2. Append(<<>>, line) = <<line>>
  OBVIOUS
<1> QED
  BY <1>1, <1>2 DEF Quiet, Sent, Serving

LEMMA AnsweredReads ==
  ASSUME TypesOK, NEW c \in Client, ReadReply(c)
  PROVE  /\ \A r : Answered(c, r) => heard(c) = r /\ Quiet(c)'
         /\ \A line : ~Sent(c, line)
         /\ ~Quiet(c) /\ ~Unaccepted(c) /\ outbox[c] # <<>>
         /\ at[c] # "closed" => ~Gone(c)
<1>1. /\ outbox[c] # <<>> /\ outbox'[c] = Tail(outbox[c])
      /\ peer'[c] = "open" /\ inbox'[c] = inbox[c]
      /\ thread'[c] = thread[c] /\ reply'[c] = reply[c]
  BY ReadEffect
<1>2. ASSUME NEW r, Answered(c, r) PROVE heard(c) = r /\ Quiet(c)'
  <2>1. Serving(c) /\ inbox[c] = <<>> /\ reply[c] = NULL /\ outbox[c] = <<r>>
    BY <1>1, <1>2 DEF Answered
  <2>2. Head(<<r>>) = r /\ Tail(<<r>>) = <<>>
    OBVIOUS
  <2> QED
    BY <1>1, <2>1, <2>2 DEF heard, Quiet, Serving
<1>3. ~Quiet(c) /\ ~Unaccepted(c) /\ \A line : ~Sent(c, line)
  BY <1>1 DEF Quiet, Unaccepted, Sent
<1> QED
  BY <1>1, <1>2, <1>3 DEF Gone

\* A transaction of c's is the same after a step on its connection.
LEMMA TxnSame ==
  ASSUME TypesOK, NEW c \in Client, SameEngine
  PROVE  /\ Fresh(c) => Fresh(c)'
         /\ \A k \in Rec, n \in Nat : HasRead(c, k, n) => HasRead(c, k, n)'
         /\ \A k \in Rec : HasWritten(c, k) => HasWritten(c, k)'
BY EngineStays, TxnStays

\* A step of a worker's that changes neither a record nor a count.
LEMMA WorkerStep ==
  ASSUME StressInv, NEW w \in Worker, OnlyConnection(w), TestTypeOK',
         \A d \in Client \ {w} : SameTest(d), applied' = applied, timeouts' >= timeouts,
         TurnOK(w)', StepOK(w)', CountStays(w)
  PROVE  StressInv'
<1>1. w \in Client /\ w # Verifier
  BY ClientAssumption
<1>2. TypesOK' /\ StepsOK' /\ OthersStay(w)
  BY <1>1, MoveSuffices DEF StressInv
<1>3. CountsOK'
  BY <1>1, <1>2, CountsSuffice DEF StressInv, OnlyConnection, SameEngine
<1> QED
  BY <1>2, <1>3 DEF StressInv

\* A request, a COMMIT excepted.
LEMMA AskStep ==
  ASSUME StressInv, NEW w \in Worker, NEW line \in TestLines, SendLine(w, line),
         NEW label, At(w, label), Requesting(at[w], label, line),
         UNCHANGED <<iter, cur, applied, timeouts>>,
         UNCHANGED key \/ \E k \in Rec : key' = [key EXCEPT ![w] = k],
         TurnOK(w)', Aligned(w) => Aligned(w)'
  PROVE  StressInv'
<1>1. TypesOK /\ w \in Client /\ StepOK(w) /\ TestTypeOK
  BY ClientAssumption DEF StressInv, StepsOK, StepOK, TypesOK
<1>2. label \in {"START", "GET", "PUT", "ROLLBACK", "EXC_ROLLBACK"}
      /\ at[w] \in {"next", "get", "put", "rollback", "exception"}
      /\ (at[w] = "exception" <=> label = "EXC_ROLLBACK")
  BY DEF Requesting
<1>3. /\ TestTypeOK' /\ at'[w] = label
      /\ \A d \in Client \ {w} : SameTest(d)
  <2>1. label \in Labels /\ timeouts' \in Nat /\ applied' \in [Rec -> Nat]
    BY <1>1, <1>2 DEF Labels, InTurn, TestTypeOK
  <2> QED
    BY <1>1, <2>1, MoveEffect
<1>4. OnlyConnection(w) /\ inbox'[w] = Append(inbox[w], line)
  BY <1>1, SendEffect
<1>5. line # <<"COMMIT">>
  <2>1. line = <<"COMMIT">> => line[1] = "COMMIT"
    OBVIOUS
  <2>2. line[1] \in {"START", "GET", "PUT", "ROLLBACK"}
    BY DEF Requesting
  <2> QED
    BY <2>1, <2>2
<1>6. CommitOK(w)' /\ (AsksCommit(inbox'[w]) => AsksCommit(inbox[w]))
  BY <1>1, <1>4, <1>5, CommitStays DEF StepOK, OnlyConnection
<1>7. StepOK(w)'
  <2>1. CASE Aligned(w)
    BY <1>6, <2>1 DEF StepOK
  <2>2. CASE Strayed(w)
    BY <1>1, <1>3, <2>2, StrayedSends DEF StepOK
  <2>3. ~Gone(w) /\ ~Adrift(w)
    BY <1>2, ClientAssumption DEF Gone, Adrift
  <2> QED
    BY <1>1, <2>1, <2>2, <2>3 DEF StepOK
<1>8. CountStays(w)
  <2>1. TurnsOf(w) \in Nat /\ TurnsOf(w)' = TurnsOf(w)
    <3>1. TurnsOf(w) \in Nat
      BY <1>1, TurnsOfType
    <3> QED
      BY <1>2, <1>3, <3>1, Zenon DEF TurnsOf
  <2>2. at[w] # "COMMIT" /\ at'[w] # "COMMIT"
    BY <1>2, <1>3
  <2>3. TurnsOf(w) <= TurnsOf(w)'
    BY <2>1
  <2> QED
    BY <1>6, <2>2, <2>3 DEF CountStays, Counted
<1>9. timeouts' >= timeouts
  BY <1>1 DEF TestTypeOK
<1> QED
  BY <1>3, <1>4, <1>7, <1>8, <1>9, WorkerStep

LEMMA NoTimeOut ==
  ASSUME TypesOK, timeouts' = timeouts
  PROVE  timeouts' \in Nat /\ timeouts' >= timeouts
BY DEF TypesOK, TestTypeOK

\* A worker's turn ends, or goes on.
KeepsTurns(w) ==
  \/ iter'[w] = iter[w] + 1
  \/ iter'[w] = iter[w] /\ at[w] \notin {"ROLLBACK", "EXC_ROLLBACK"}

\* An answer loses no turn, an answer to the ROLLBACK of an exception ends one.
LEMMA TurnsAfterAnswer ==
  ASSUME TypesOK, NEW w \in Worker, KeepsTurns(w),
         at[w] \notin {"COMMIT", "exception"}, at'[w] \notin {"COMMIT", "exception", "EXC_ROLLBACK"}
  PROVE  TurnsOf(w) <= TurnsOf(w)'
<1>1. iter[w] \in Nat
  <2>1. iter[w] \in 0..TXN_PER_THREAD /\ TXN_PER_THREAD \in Nat
    BY ClientAssumption DEF TypesOK, TestTypeOK
  <2> QED
    BY <2>1
<1>2. TurnsOf(w)' = iter'[w] + 0 /\ (TurnsOf(w) = iter[w] + 0 \/ TurnsOf(w) = iter[w] + 1)
  BY Zenon DEF TurnsOf
<1>3. at[w] # "EXC_ROLLBACK" => TurnsOf(w) = iter[w] + 0
  <2>1. at[w] # "EXC_ROLLBACK" => at[w] \notin {"COMMIT", "exception", "EXC_ROLLBACK"}
    OBVIOUS
  <2> QED
    BY <2>1, Zenon DEF TurnsOf
<1>4. iter'[w] = iter[w] + 1 \/ (iter'[w] = iter[w] /\ at[w] # "EXC_ROLLBACK")
  BY DEF KeepsTurns
<1>5. PICK n \in Nat : n = iter[w]
  BY <1>1
<1>6. \/ TurnsOf(w)' = (n + 1) + 0 /\ (TurnsOf(w) = n + 0 \/ TurnsOf(w) = n + 1)
      \/ TurnsOf(w)' = n + 0 /\ TurnsOf(w) = n + 0
  BY <1>2, <1>3, <1>4, <1>5, Zenon
<1>7. PICK a, b : a = TurnsOf(w) /\ b = TurnsOf(w)'
  OBVIOUS
<1>8. a <= b
  BY <1>6, <1>7
<1> QED
  BY <1>7, <1>8

\* An answer, that to a COMMIT excepted.
LEMMA HearStep ==
  ASSUME StressInv, NEW w \in Worker, ReadReply(w),
         Hearing(at[w], at'[w], is_ok(heard(w)), heard(w).val # NULL),
         TestTypeOK', \A d \in Client \ {w} : SameTest(d),
         KeepsTurns(w),
         UNCHANGED <<applied, timeouts>>,
         TurnOK(w)', Aligned(w) => Aligned(w)'
  PROVE  StressInv'
<1>1. TypesOK /\ w \in Client /\ StepOK(w) /\ timeouts \in Nat
  BY ClientAssumption DEF StressInv, StepsOK, StepOK, TypesOK, TestTypeOK
<1>2. /\ at[w] \in {"START", "GET", "PUT", "ROLLBACK", "EXC_ROLLBACK"}
      /\ at'[w] \in {"get", "next", "put", "rollback", "commit"}
  BY DEF Hearing
<1>3. OnlyConnection(w) /\ inbox'[w] = inbox[w]
  BY <1>1, ReadEffect
<1>4. CommitOK(w)'
  BY <1>1, <1>3, CommitStays DEF StepOK, OnlyConnection
<1>5. StepOK(w)'
  <2>1. CASE Aligned(w)
    BY <1>4, <2>1 DEF StepOK
  <2>2. CASE Strayed(w)
    BY <1>1, <2>2, StrayedReads DEF StepOK
  <2>3. ~Gone(w) /\ ~Adrift(w)
    BY <1>2, ClientAssumption DEF Gone, Adrift
  <2> QED
    BY <1>1, <2>1, <2>2, <2>3 DEF StepOK
<1>6. CountStays(w)
  <2>1. at[w] # "COMMIT" /\ at'[w] \notin {"COMMIT", "exception", "EXC_ROLLBACK"}
    BY <1>2
  <2>3. TurnsOf(w) <= TurnsOf(w)'
    BY <1>1, <1>2, TurnsAfterAnswer
  <2> QED
    BY <1>3, <2>1, <2>3 DEF CountStays, Counted
<1>7. timeouts' >= timeouts
  BY <1>1, NoTimeOut
<1> QED
  BY <1>3, <1>5, <1>6, <1>7, WorkerStep
-----------------------------------------------------------------------------
(* A worker's requests. *)

LEMMA LinesToSend ==
  /\ <<"START">> \in TestLines /\ <<"START">>[1] = "START"
  /\ <<"COMMIT">> \in TestLines /\ <<"COMMIT">>[1] = "COMMIT"
  /\ <<"ROLLBACK">> \in TestLines /\ <<"ROLLBACK">>[1] = "ROLLBACK"
  /\ \A k \in Rec : <<"GET", SP, k>> \in TestLines /\ <<"GET", SP, k>>[1] = "GET"
  /\ \A k \in Rec, n \in Nat :
       <<"PUT", SP, k, SP, n>> \in TestLines /\ <<"PUT", SP, k, SP, n>>[1] = "PUT"
BY DEF TestLines

LEMMA AskStartStep ==
  ASSUME StressInv, NEW w \in Worker, NEW k \in Rec, AskStart(w, k)
  PROVE  StressInv'
<1>1. /\ at[w] = "next" /\ SendLine(w, <<"START">>) /\ At(w, "START")
      /\ UNCHANGED <<iter, cur, applied, timeouts>> /\ key' = [key EXCEPT ![w] = k]
      /\ iter[w] < TXN_PER_THREAD
  BY DEF AskStart, Ask
<1>2. TypesOK /\ w \in Client /\ w # Verifier /\ at'[w] = "START" /\ key'[w] = k /\ iter'[w] = iter[w]
  BY <1>1, ClientAssumption DEF StressInv, TypesOK, TestTypeOK, At
<1>3. TurnOK(w)'
  BY <1>1, <1>2 DEF TurnOK
<1>4. Aligned(w) => Aligned(w)'
  <2> SUFFICES ASSUME Aligned(w) PROVE Aligned(w)'
    OBVIOUS
  <2>1. Quiet(w)
    BY <1>1 DEF Aligned
  <2>2. Sent(w, <<"START">>)'
    BY <1>1, <1>2, <2>1, LinesToSend, QuietSends
  <2> QED
    BY <1>2, <2>2 DEF Aligned
<1>5. Requesting(at[w], "START", <<"START">>)
  BY <1>1, LinesToSend DEF Requesting
<1> QED
  BY <1>1, <1>3, <1>4, <1>5, LinesToSend, AskStep

LEMMA AskGetStep ==
  ASSUME StressInv, NEW w \in Worker, AskGet(w)
  PROVE  StressInv'
<1>1. /\ at[w] = "get" /\ SendLine(w, <<"GET", SP, key[w]>>) /\ At(w, "GET")
      /\ UNCHANGED <<iter, key, cur, applied, timeouts>>
  BY DEF AskGet, Ask
<1>2. TypesOK /\ TurnOK(w) /\ w \in Client /\ w # Verifier /\ at'[w] = "GET"
  BY <1>1, ClientAssumption DEF StressInv, TypesOK, TestTypeOK, At
<1>3. key[w] \in Rec /\ iter[w] < TXN_PER_THREAD
  BY <1>1, <1>2 DEF TurnOK, InTurn
<1>4. PICK line \in TestLines : line = <<"GET", SP, key[w]>> /\ line[1] = "GET"
  BY <1>3, LinesToSend
<1>5. TurnOK(w)'
  BY <1>1, <1>2, <1>3 DEF TurnOK
<1>6. Aligned(w) => Aligned(w)'
  <2> SUFFICES ASSUME Aligned(w) PROVE Aligned(w)'
    OBVIOUS
  <2>1. Quiet(w) /\ Fresh(w)
    BY <1>1 DEF Aligned
  <2>2. Sent(w, line)'
    BY <1>1, <1>2, <1>4, <2>1, QuietSends
  <2>3. Fresh(w)'
    BY <1>1, <1>2, <1>4, <2>1, SendEffect, TxnSame DEF OnlyConnection
  <2>4. line = <<"GET", SP, key'[w]>>
    BY <1>1, <1>4
  <2> QED
    BY <1>2, <2>2, <2>3, <2>4 DEF Aligned
<1>7. Requesting(at[w], "GET", line)
  BY <1>1, <1>4 DEF Requesting
<1> QED
  BY <1>1, <1>4, <1>5, <1>6, <1>7, AskStep

LEMMA AskPutStep ==
  ASSUME StressInv, NEW w \in Worker, AskPut(w)
  PROVE  StressInv'
<1>1. /\ at[w] = "put" /\ SendLine(w, <<"PUT", SP, key[w], SP, cur[w] + 1>>) /\ At(w, "PUT")
      /\ UNCHANGED <<iter, key, cur, applied, timeouts>>
  BY DEF AskPut, Ask
<1>2. TypesOK /\ TurnOK(w) /\ w \in Client /\ w # Verifier /\ at'[w] = "PUT"
  BY <1>1, ClientAssumption DEF StressInv, TypesOK, TestTypeOK, At
<1>3. key[w] \in Rec /\ iter[w] < TXN_PER_THREAD /\ cur[w] \in Nat /\ cur[w] + 1 \in Nat
  <2>1. key[w] \in Rec /\ iter[w] < TXN_PER_THREAD /\ cur[w] \in Nat
    BY <1>1, <1>2 DEF TurnOK, InTurn
  <2> QED
    BY <2>1
<1>4. PICK line \in TestLines : line = <<"PUT", SP, key[w], SP, cur[w] + 1>> /\ line[1] = "PUT"
  BY <1>3, LinesToSend
<1>5. TurnOK(w)'
  BY <1>1, <1>2, <1>3 DEF TurnOK
<1>6. Aligned(w) => Aligned(w)'
  <2> SUFFICES ASSUME Aligned(w) PROVE Aligned(w)'
    OBVIOUS
  <2>1. Quiet(w) /\ HasRead(w, key[w], cur[w])
    BY <1>1 DEF Aligned
  <2>2. Sent(w, line)'
    BY <1>1, <1>2, <1>4, <2>1, QuietSends
  <2>3. HasRead(w, key[w], cur[w])'
    <3>1. \A k \in Rec, n \in Nat : HasRead(w, k, n) => HasRead(w, k, n)'
      BY <1>1, <1>2, <1>4, SendEffect, TxnSame DEF OnlyConnection
    <3>2. key'[w] = key[w] /\ cur'[w] = cur[w]
      BY <1>1
    <3>3. PICK k \in Rec, n \in Nat : k = key[w] /\ n = cur[w]
      BY <1>3
    <3>4. HasRead(w, k, n)'
      BY <2>1, <3>1, <3>3
    <3> QED
      BY <3>2, <3>3, <3>4
  <2>4. line = <<"PUT", SP, key'[w], SP, cur'[w] + 1>>
    BY <1>1, <1>4
  <2> QED
    BY <1>2, <2>2, <2>3, <2>4 DEF Aligned
<1>7. Requesting(at[w], "PUT", line)
  BY <1>1, <1>4 DEF Requesting
<1> QED
  BY <1>1, <1>4, <1>5, <1>6, <1>7, AskStep

LEMMA AskRollbackStep ==
  ASSUME StressInv, NEW w \in Worker,
         NEW from, NEW label,
         \/ from = "rollback" /\ label = "ROLLBACK"
         \/ from = "exception" /\ label = "EXC_ROLLBACK",
         AskRollback(w, from, label)
  PROVE  StressInv'
<1>1. /\ at[w] = from /\ SendLine(w, <<"ROLLBACK">>) /\ At(w, label)
      /\ UNCHANGED <<iter, key, cur, applied, timeouts>>
  BY DEF AskRollback, Ask
<1>2. TypesOK /\ TurnOK(w) /\ w \in Client /\ w # Verifier /\ at'[w] = label
  BY <1>1, ClientAssumption DEF StressInv, TypesOK, TestTypeOK, At
<1>3. TurnOK(w)'
  BY <1>1, <1>2 DEF TurnOK, InTurn
<1>4. Aligned(w) => Aligned(w)'
  <2> SUFFICES ASSUME Aligned(w) PROVE Aligned(w)'
    OBVIOUS
  <2>1. Quiet(w) /\ label = "ROLLBACK"
    BY <1>1 DEF Aligned
  <2>2. Sent(w, <<"ROLLBACK">>)'
    BY <1>1, <1>2, <2>1, LinesToSend, QuietSends
  <2> QED
    BY <1>2, <2>1, <2>2 DEF Aligned
<1>5. Requesting(at[w], label, <<"ROLLBACK">>)
  BY <1>1, LinesToSend DEF Requesting
<1> QED
  BY <1>1, <1>3, <1>4, <1>5, LinesToSend, AskStep
-----------------------------------------------------------------------------
(* A worker reads an answer. *)

LEMMA WhatIsOk ==
  /\ is_ok(Reply("OK TXN", TxnNo)) /\ is_ok(Say("OK")) /\ is_ok(Say("OK COMMIT"))
  /\ ~is_ok(Say("ERR TXN_ALREADY_STARTED")) /\ ~is_ok(Say("ERR PUT_FAIL"))
  /\ ~is_ok(Say("ERR ABORT"))
  /\ Say("ERR NOT_FOUND").val = NULL
  /\ \A n \in Nat : Reply("OK VALUE", n).val = n /\ n # NULL
BY TestNullAssumption DEF is_ok, Reply, Say

LEMMA HearStartStep ==
  ASSUME StressInv, NEW w \in Worker, HearStart(w)
  PROVE  StressInv'
<1>1. /\ at[w] = "START" /\ ReadReply(w) /\ UNCHANGED <<applied, timeouts>>
      /\ \/ is_ok(heard(w)) /\ At(w, "get") /\ UNCHANGED <<iter, key, cur>>
         \/ ~is_ok(heard(w)) /\ EndTurn(w)
  BY DEF HearStart, Hear
<1>2. /\ TypesOK /\ TurnOK(w) /\ w \in Client /\ w # Verifier /\ timeouts' \in Nat
      /\ applied' \in [Rec -> Nat]
  BY <1>1, ClientAssumption DEF StressInv, TypesOK, TestTypeOK
<1>3. /\ TestTypeOK' /\ \A d \in Client \ {w} : SameTest(d)
      /\ TurnOK(w)'
      /\ \/ is_ok(heard(w)) /\ at'[w] = "get" /\ iter'[w] = iter[w]
         \/ ~is_ok(heard(w)) /\ at'[w] = "next" /\ iter'[w] = iter[w] + 1
  <2>1. CASE is_ok(heard(w)) /\ At(w, "get") /\ UNCHANGED <<iter, key, cur>>
    <3>1. "get" \in Labels
      BY DEF Labels, InTurn
    <3>2. TestTypeOK' /\ at'[w] = "get" /\ \A d \in Client \ {w} : SameTest(d)
      BY <1>2, <2>1, <3>1, MoveEffect
    <3>3. TurnOK(w)'
      BY <1>1, <1>2, <2>1, <3>2 DEF TurnOK, InTurn
    <3> QED
      BY <2>1, <3>2, <3>3
  <2>2. CASE ~is_ok(heard(w)) /\ EndTurn(w)
    <3>1. at[w] \in InTurn
      BY <1>1 DEF InTurn
    <3> QED
      BY <1>2, <2>2, <3>1, EndTurnEffect
  <2> QED
    BY <1>1, <2>1, <2>2
<1>4. Aligned(w) => Aligned(w)'
  <2> SUFFICES ASSUME Aligned(w) PROVE Aligned(w)'
    OBVIOUS
  <2>1. \/ Answered(w, Reply("OK TXN", TxnNo)) /\ Fresh(w)
        \/ Answered(w, Say("ERR TXN_ALREADY_STARTED"))
    BY <1>1, <1>2, AnsweredReads DEF Aligned
  <2>2. CASE Answered(w, Reply("OK TXN", TxnNo)) /\ Fresh(w)
    <3>1. at'[w] = "get" /\ Quiet(w)'
      BY <1>1, <1>2, <1>3, <2>2, AnsweredReads, WhatIsOk
    <3>2. Fresh(w)'
      BY <1>1, <1>2, <2>2, ReadEffect, TxnSame DEF OnlyConnection
    <3> QED
      BY <3>1, <3>2 DEF Aligned
  <2>3. CASE Answered(w, Say("ERR TXN_ALREADY_STARTED"))
    <3>1. at'[w] = "next" /\ Quiet(w)'
      BY <1>1, <1>2, <1>3, <2>3, AnsweredReads, WhatIsOk
    <3> QED
      BY <3>1 DEF Aligned
  <2> QED
    BY <2>1, <2>2, <2>3
<1>5. Hearing(at[w], at'[w], is_ok(heard(w)), heard(w).val # NULL)
  BY <1>1, <1>3, Zenon DEF Hearing
<1>6. KeepsTurns(w)
  BY <1>1, <1>3, Zenon DEF KeepsTurns
<1> QED
  BY <1>1, <1>3, <1>4, <1>5, <1>6, HearStep

LEMMA HearGetStep ==
  ASSUME StressInv, NEW w \in Worker, HearGet(w)
  PROVE  StressInv'
<1>1. /\ at[w] = "GET" /\ ReadReply(w) /\ UNCHANGED <<iter, key, applied, timeouts>>
      /\ At(w, IF heard(w).val = NULL THEN "rollback" ELSE "put")
      /\ cur' = [cur EXCEPT ![w] = heard(w).val]
  BY DEF HearGet, Hear, parse_int
<1>2. /\ TypesOK /\ TurnOK(w) /\ w \in Client /\ w # Verifier /\ timeouts' \in Nat
      /\ applied' \in [Rec -> Nat]
  BY <1>1, ClientAssumption DEF StressInv, TypesOK, TestTypeOK
<1>3. heard(w).val \in Nat \cup {NULL}
  <2>1. outbox[w] \in Seq(Replies) /\ outbox[w] # <<>>
    BY <1>1, <1>2, ReadEffect
  <2>2. heard(w) \in Replies
    BY <2>1 DEF heard
  <2> QED
    BY <2>2 DEF Replies
<1>4. cur'[w] = heard(w).val
  BY <1>1, <1>2 DEF TypesOK, TestTypeOK
<1>5. /\ TestTypeOK' /\ \A d \in Client \ {w} : SameTest(d)
      /\ at'[w] = IF heard(w).val = NULL THEN "rollback" ELSE "put"
  <2>1. (IF heard(w).val = NULL THEN "rollback" ELSE "put") \in Labels
    BY DEF Labels, InTurn
  <2> QED
    BY <1>1, <1>2, <1>3, <2>1, MoveEffect
<1>6. TurnOK(w)'
  BY <1>1, <1>2, <1>3, <1>4, <1>5 DEF TurnOK, InTurn
<1>7. Aligned(w) => Aligned(w)'
  <2> SUFFICES ASSUME Aligned(w) PROVE Aligned(w)'
    OBVIOUS
  <2>1. \/ \E n \in Nat : Answered(w, Reply("OK VALUE", n)) /\ HasRead(w, key[w], n)
        \/ Answered(w, Say("ERR NOT_FOUND"))
    BY <1>1, <1>2, AnsweredReads, Zenon DEF Aligned
  <2>2. ASSUME NEW n \in Nat, Answered(w, Reply("OK VALUE", n)), HasRead(w, key[w], n)
        PROVE  Aligned(w)'
    <3>1. heard(w) = Reply("OK VALUE", n) /\ Quiet(w)'
      BY <1>1, <1>2, <2>2, AnsweredReads
    <3>2. heard(w).val = n /\ n # NULL
      BY <3>1, WhatIsOk
    <3>3. at'[w] = "put" /\ cur'[w] = n /\ key'[w] = key[w]
      BY <1>1, <1>4, <1>5, <3>2
    <3>4. PICK k \in Rec : k = key[w]
      BY <1>1, <1>2 DEF TurnOK, InTurn
    <3>5. HasRead(w, k, n)'
      BY <1>1, <1>2, <2>2, <3>4, ReadEffect, TxnSame DEF OnlyConnection
    <3>6. HasRead(w, key[w], cur[w])'
      BY <3>3, <3>4, <3>5
    <3> QED
      BY <3>1, <3>3, <3>6 DEF Aligned
  <2>3. ASSUME Answered(w, Say("ERR NOT_FOUND")) PROVE Aligned(w)'
    <3>1. at'[w] = "rollback" /\ Quiet(w)'
      BY <1>1, <1>2, <1>5, <2>3, AnsweredReads, WhatIsOk
    <3> QED
      BY <3>1 DEF Aligned
  <2> QED
    BY <2>1, <2>2, <2>3
<1>8. Hearing(at[w], at'[w], is_ok(heard(w)), heard(w).val # NULL)
  BY <1>1, <1>5, Zenon DEF Hearing
<1>9. KeepsTurns(w)
  BY <1>1 DEF KeepsTurns
<1> QED
  BY <1>1, <1>5, <1>6, <1>7, <1>8, <1>9, HearStep

LEMMA HearPutStep ==
  ASSUME StressInv, NEW w \in Worker, HearPut(w)
  PROVE  StressInv'
<1>1. /\ at[w] = "PUT" /\ ReadReply(w) /\ UNCHANGED <<iter, key, cur, applied, timeouts>>
      /\ At(w, IF is_ok(heard(w)) THEN "commit" ELSE "rollback")
  BY DEF HearPut, Hear
<1>2. /\ TypesOK /\ TurnOK(w) /\ w \in Client /\ w # Verifier /\ timeouts' \in Nat
      /\ applied' \in [Rec -> Nat]
  BY <1>1, ClientAssumption DEF StressInv, TypesOK, TestTypeOK
<1>3. /\ TestTypeOK' /\ \A d \in Client \ {w} : SameTest(d)
      /\ at'[w] = IF is_ok(heard(w)) THEN "commit" ELSE "rollback"
  <2>1. (IF is_ok(heard(w)) THEN "commit" ELSE "rollback") \in Labels
    BY DEF Labels, InTurn
  <2> QED
    BY <1>1, <1>2, <2>1, MoveEffect
<1>4. at'[w] \in {"commit", "rollback"}
  BY <1>3
<1>5. TurnOK(w)'
  BY <1>1, <1>2, <1>4 DEF TurnOK, InTurn
<1>6. Aligned(w) => Aligned(w)'
  <2> SUFFICES ASSUME Aligned(w) PROVE Aligned(w)'
    OBVIOUS
  <2>1. \/ Answered(w, Say("OK")) /\ HasWritten(w, key[w])
        \/ Answered(w, Say("ERR PUT_FAIL"))
    BY <1>1, <1>2, AnsweredReads, Zenon DEF Aligned
  <2>2. CASE Answered(w, Say("OK")) /\ HasWritten(w, key[w])
    <3>1. at'[w] = "commit" /\ Quiet(w)' /\ key'[w] = key[w]
      BY <1>1, <1>2, <1>3, <2>2, AnsweredReads, WhatIsOk
    <3>2. PICK k \in Rec : k = key[w]
      BY <1>1, <1>2 DEF TurnOK, InTurn
    <3>3. HasWritten(w, k)'
      BY <1>1, <1>2, <2>2, <3>2, ReadEffect, TxnSame DEF OnlyConnection
    <3>4. HasWritten(w, key[w])'
      BY <3>1, <3>2, <3>3
    <3> QED
      BY <3>1, <3>4 DEF Aligned
  <2>3. CASE Answered(w, Say("ERR PUT_FAIL"))
    <3>1. at'[w] = "rollback" /\ Quiet(w)'
      BY <1>1, <1>2, <1>3, <2>3, AnsweredReads, WhatIsOk
    <3> QED
      BY <3>1 DEF Aligned
  <2> QED
    BY <2>1, <2>2, <2>3
<1>7. Hearing(at[w], at'[w], is_ok(heard(w)), heard(w).val # NULL)
  BY <1>1, <1>3, Zenon DEF Hearing
<1>8. KeepsTurns(w)
  BY <1>1 DEF KeepsTurns
<1> QED
  BY <1>1, <1>3, <1>5, <1>6, <1>7, <1>8, HearStep

LEMMA HearRollbackStep ==
  ASSUME StressInv, NEW w \in Worker, HearRollback(w)
  PROVE  StressInv'
<1>1. /\ at[w] \in {"ROLLBACK", "EXC_ROLLBACK"} /\ ReadReply(w) /\ UNCHANGED <<applied, timeouts>>
      /\ EndTurn(w)
  BY DEF HearRollback, Hear
<1>2. /\ TypesOK /\ w \in Client /\ w # Verifier /\ timeouts' \in Nat
      /\ applied' \in [Rec -> Nat] /\ at[w] \in InTurn
  BY <1>1, ClientAssumption DEF StressInv, TypesOK, TestTypeOK, InTurn
<1>3. /\ TestTypeOK' /\ \A d \in Client \ {w} : SameTest(d)
      /\ TurnOK(w)' /\ at'[w] = "next" /\ iter'[w] = iter[w] + 1
  BY <1>1, <1>2, EndTurnEffect
<1>4. Aligned(w) => Aligned(w)'
  <2> SUFFICES ASSUME Aligned(w) PROVE Aligned(w)'
    OBVIOUS
  <2>1. Answered(w, Say("ERR BAD_CMD"))
    BY <1>1, <1>2, AnsweredReads, Zenon DEF Aligned
  <2>2. Quiet(w)'
    BY <1>1, <1>2, <2>1, AnsweredReads
  <2> QED
    BY <1>3, <2>2 DEF Aligned
<1>5. Hearing(at[w], at'[w], is_ok(heard(w)), heard(w).val # NULL)
  BY <1>1, <1>3, Zenon DEF Hearing
<1>6. KeepsTurns(w)
  BY <1>3, Zenon DEF KeepsTurns
<1> QED
  BY <1>1, <1>3, <1>4, <1>5, <1>6, HearStep
-----------------------------------------------------------------------------
(* The beginning and the end of a connection. *)

\* A client's step that changes neither a record nor a count.
LEMMA ConnectionStep ==
  ASSUME StressInv, NEW c \in Client, OnlyConnection(c), TestTypeOK',
         \A d \in Client \ {c} : SameTest(d), applied' = applied, timeouts' = timeouts,
         c \in Worker => TurnOK(c)' /\ CountStays(c),
         c = Verifier => /\ at'[Verifier] \in {"new", "greeting", "next", "GET", "closed"}
                         /\ inbox'[c] = inbox[c] \/ OnlyGets(inbox'[c]),
         StepOK(c)'
  PROVE  StressInv'
<1>1. TypesOK
  BY DEF StressInv
<1>4. timeouts' >= timeouts
  BY <1>1, NoTimeOut
<1>2. TypesOK' /\ StepsOK' /\ OthersStay(c)
  BY <1>1, <1>4, MoveSuffices DEF StressInv
<1>3. CountsOK'
  BY <1>1, <1>2, <1>4, CountsSuffice DEF StressInv, OnlyConnection, SameEngine
<1> QED
  BY <1>2, <1>3 DEF StressInv

\* Out of a turn, and not in a COMMIT, nothing counts.
LEMMA NothingCounts ==
  ASSUME TypesOK, NEW w \in Worker, iter'[w] = iter[w], inbox'[w] = inbox[w],
         at[w] \notin {"COMMIT", "exception", "EXC_ROLLBACK"}, at'[w] # "COMMIT"
  PROVE  CountStays(w)
<1>1. iter[w] \in 0..TXN_PER_THREAD /\ TXN_PER_THREAD \in Nat
  BY ClientAssumption DEF TypesOK, TestTypeOK
<1>2. PICK n \in Nat : n = iter[w]
  BY <1>1
<1>3. TurnsOf(w) = n + 0 /\ (TurnsOf(w)' = n + 0 \/ TurnsOf(w)' = n + 1)
  BY <1>2, Zenon DEF TurnsOf
<1>4. TurnsOf(w) <= TurnsOf(w)'
  BY <1>3
<1> QED
  BY <1>4 DEF CountStays, Counted

LEMMA OpenStep ==
  ASSUME StressInv, NEW c \in Client, Open(c)
  PROVE  StressInv'
<1>1. at[c] = "new" /\ Connect(c) /\ At(c, "greeting") /\ UNCHANGED <<iter, key, cur, applied, timeouts>>
  BY DEF Open
<1>2. /\ TypesOK /\ timeouts' \in Nat /\ applied' \in [Rec -> Nat] /\ "greeting" \in Labels
      /\ CommitOK(c) /\ StepOK(c)
  BY <1>1 DEF StressInv, StepsOK, StepOK, TypesOK, TestTypeOK, Labels
<1>3. TestTypeOK' /\ at'[c] = "greeting" /\ \A d \in Client \ {c} : SameTest(d)
  BY <1>1, <1>2, MoveEffect
<1>4. /\ OnlyConnection(c) /\ peer'[c] = "open" /\ inbox'[c] = inbox[c]
      /\ outbox'[c] = outbox[c] /\ thread'[c] = thread[c] /\ reply'[c] = reply[c]
  BY <1>1, <1>2, ConnectEffect
<1>5. Aligned(c)
  BY <1>1, <1>2 DEF StepOK, Strayed, StrayedAt, Waits, Adrift, Gone
<1>6. inbox[c] = <<>> /\ ~in_txn[c] /\ Unaccepted(c)
  BY <1>1, <1>5 DEF Aligned
<1>7. Aligned(c)'
  BY <1>3, <1>4, <1>6 DEF Aligned, Unaccepted, OnlyConnection
<1>8. CommitOK(c)'
  BY <1>2, <1>4, CommitStays DEF OnlyConnection
<1>9. c \in Worker => TurnOK(c)' /\ CountStays(c)
  <2> SUFFICES ASSUME c \in Worker PROVE TurnOK(c)' /\ CountStays(c)
    OBVIOUS
  <2>1. TurnOK(c)'
    BY <1>3 DEF TurnOK, InTurn
  <2>2. CountStays(c)
    BY <1>1, <1>2, <1>3, <1>4, NothingCounts
  <2> QED
    BY <2>1, <2>2
<1>10. StepOK(c)'
  BY <1>7, <1>8 DEF StepOK
<1>11. c = Verifier => /\ at'[Verifier] \in {"new", "greeting", "next", "GET", "closed"}
                       /\ inbox'[c] = inbox[c] \/ OnlyGets(inbox'[c])
  BY <1>3, <1>4
<1> QED
  BY <1>1, <1>3, <1>4, <1>9, <1>10, <1>11, ConnectionStep

LEMMA GreetStep ==
  ASSUME StressInv, NEW c \in Client, Greet(c)
  PROVE  StressInv'
<1>1. at[c] = "greeting" /\ ReadReply(c) /\ At(c, "next") /\ UNCHANGED <<iter, key, cur, applied, timeouts>>
  BY DEF Greet, Hear
<1>2. /\ TypesOK /\ timeouts' \in Nat /\ applied' \in [Rec -> Nat] /\ "next" \in Labels
      /\ CommitOK(c) /\ StepOK(c)
  BY <1>1 DEF StressInv, StepsOK, StepOK, TypesOK, TestTypeOK, Labels
<1>3. TestTypeOK' /\ at'[c] = "next" /\ \A d \in Client \ {c} : SameTest(d)
  BY <1>1, <1>2, MoveEffect
<1>4. OnlyConnection(c) /\ inbox'[c] = inbox[c]
  BY <1>1, <1>2, ReadEffect
<1>5. Aligned(c)
  BY <1>1, <1>2 DEF StepOK, Strayed, StrayedAt, Waits, Adrift, Gone
<1>6. Answered(c, Say("WELCOME"))
  BY <1>1, <1>2, <1>5, AnsweredReads DEF Aligned
<1>7. Aligned(c)'
  <2>1. Quiet(c)'
    BY <1>1, <1>2, <1>6, AnsweredReads
  <2> QED
    BY <1>3, <2>1 DEF Aligned
<1>8. CommitOK(c)'
  BY <1>2, <1>4, CommitStays DEF OnlyConnection
<1>9. c \in Worker => TurnOK(c)' /\ CountStays(c)
  <2> SUFFICES ASSUME c \in Worker PROVE TurnOK(c)' /\ CountStays(c)
    OBVIOUS
  <2>1. TurnOK(c)'
    BY <1>3 DEF TurnOK, InTurn
  <2>2. CountStays(c)
    BY <1>1, <1>2, <1>3, <1>4, NothingCounts
  <2> QED
    BY <2>1, <2>2
<1>10. StepOK(c)'
  BY <1>7, <1>8 DEF StepOK
<1>11. c = Verifier => /\ at'[Verifier] \in {"new", "greeting", "next", "GET", "closed"}
                       /\ inbox'[c] = inbox[c] \/ OnlyGets(inbox'[c])
  BY <1>3, <1>4
<1> QED
  BY <1>1, <1>3, <1>4, <1>9, <1>10, <1>11, ConnectionStep

\* A client that is through closes its connection.
LEMMA LeaveStep ==
  ASSUME StressInv, NEW c \in Client, at[c] = "next", Close(c), At(c, "closed"),
         UNCHANGED <<iter, key, cur, applied, timeouts>>
  PROVE  StressInv'
<1>1. /\ TypesOK /\ timeouts' \in Nat /\ applied' \in [Rec -> Nat] /\ "closed" \in Labels
      /\ CommitOK(c) /\ StepOK(c)
  BY DEF StressInv, StepsOK, StepOK, TypesOK, TestTypeOK, Labels
<1>2. TestTypeOK' /\ at'[c] = "closed" /\ \A d \in Client \ {c} : SameTest(d)
  BY <1>1, MoveEffect
<1>3. OnlyConnection(c) /\ peer'[c] = "closed" /\ inbox'[c] = inbox[c] /\ outbox'[c] = <<>>
  BY <1>1, CloseEffect
<1>4. inbox[c] = <<>> \/ timeouts > 0
  <2>1. CASE Aligned(c)
    BY <2>1 DEF Aligned, Quiet
  <2>2. CASE Strayed(c) \/ Adrift(c)
    BY <2>2 DEF Strayed, Adrift
  <2> QED
    BY <1>1, <2>1, <2>2 DEF StepOK, Gone
<1>5. Gone(c)'
  BY <1>2, <1>3, <1>4 DEF Gone
<1>6. CommitOK(c)'
  BY <1>1, <1>3, CommitStays DEF OnlyConnection
<1>7. c \in Worker => TurnOK(c)' /\ CountStays(c)
  <2> SUFFICES ASSUME c \in Worker PROVE TurnOK(c)' /\ CountStays(c)
    OBVIOUS
  <2>1. TurnOK(c)'
    BY <1>2 DEF TurnOK, InTurn
  <2>2. CountStays(c)
    BY <1>1, <1>2, <1>3, NothingCounts
  <2> QED
    BY <2>1, <2>2
<1>8. StepOK(c)'
  BY <1>5, <1>6 DEF StepOK
<1>9. c = Verifier => /\ at'[Verifier] \in {"new", "greeting", "next", "GET", "closed"}
                      /\ inbox'[c] = inbox[c] \/ OnlyGets(inbox'[c])
  BY <1>2, <1>3
<1> QED
  BY <1>2, <1>3, <1>7, <1>8, <1>9, ConnectionStep
-----------------------------------------------------------------------------
(* A request times out. *)

\* What a client in step has yet to read when its first request times out.
LEMMA OneGiven ==
  ASSUME NEW r, NEW b \in BOOLEAN, NEW x \in Kind, IsOfKind(r, x), x = "T" => b
  PROVE  <<x>> \in Seq(Kind) /\ Kinds(<<r>>, <<>>, b, <<x>>)
<1> DEFINE z == <<x>>
           given == <<r>>
<1>1. z \in Seq(Kind) /\ Len(z) = 1 /\ z[1] = x /\ Len(given) = 1 /\ given[1] = r /\ Len(<<>>) = 0
  OBVIOUS
<1> HIDE DEF z, given
<1>2. 1..Len(given) = {1} /\ 1..Len(z) = {1} /\ 1..Len(<<>>) = {} /\ Len(z) = Len(given) + Len(<<>>)
  BY <1>1
<1>3. ~AsksCommit(<<>>)
  BY <1>2 DEF AsksCommit
<1>4. Kinds(given, <<>>, b, z)
  BY <1>1, <1>2, <1>3, Zenon DEF Kinds
<1> QED
  BY <1>1, <1>4 DEF z, given

LEMMA OneAsked ==
  ASSUME NEW line, NEW b \in BOOLEAN, NEW x \in Kind, AsksKind(<<line>>, b, 1, x)
  PROVE  <<x>> \in Seq(Kind) /\ Kinds(<<>>, <<line>>, b, <<x>>)
<1> DEFINE z == <<x>>
           lines == <<line>>
<1>1. z \in Seq(Kind) /\ Len(z) = 1 /\ z[1] = x /\ Len(lines) = 1 /\ Len(<<>>) = 0
  OBVIOUS
<1>2. AsksKind(lines, b, 1, x)
  OBVIOUS
<1> HIDE DEF z, lines
<1>3. /\ 1..Len(lines) = {1} /\ 1..Len(z) = {1} /\ 1..Len(<<>>) = {}
      /\ Len(z) = Len(<<>>) + Len(lines) /\ Len(<<>>) + 1 = 1
  BY <1>1
<1>4. Kinds(<<>>, lines, b, z)
  BY <1>1, <1>2, <1>3, Zenon DEF Kinds
<1> QED
  BY <1>1, <1>4 DEF z, lines

\* With one answer to come, a worker has strayed.
LEMMA StrayedOne ==
  ASSUME NEW x \in Kind, NEW label, label = "exception" \/ (label = "next" /\ x = "E")
  PROVE  StrayedAt(label, <<x>>)
<1>1. Len(<<x>>) = 1 /\ <<x>>[1] = x /\ 1..(1 - 1) = {} /\ 1 >= 1
  OBVIOUS
<1>2. NoWayToCommit(label, <<x>>)
  BY <1>1 DEF NoWayToCommit
<1> QED
  BY <1>1, <1>2 DEF StrayedAt, Waits

\* One answer is to come to c, of kind x.
OneLeft(c, x) ==
  /\ peer[c] = "open" /\ (Unaccepted(c) \/ thread[c] = "serving")
  /\ Kinds(Answers(c), inbox[c], in_txn[c], <<x>>)

LEMMA OneSent ==
  ASSUME NEW c \in Client, in_txn[c] \in BOOLEAN, NEW line, Sent(c, line),
         NEW x \in Kind, AsksKind(<<line>>, in_txn[c], 1, x)
  PROVE  OneLeft(c, x)
<1>1. Answers(c) = <<>> /\ inbox[c] = <<line>> /\ peer[c] = "open" /\ thread[c] = "serving"
  <2>1. <<>> \o <<>> = <<>>
    OBVIOUS
  <2> QED
    BY <2>1 DEF Sent, Serving, Answers
<1>2. Kinds(<<>>, <<line>>, in_txn[c], <<x>>)
  BY OneAsked
<1> QED
  BY <1>1, <1>2 DEF OneLeft

LEMMA OneAnswered ==
  ASSUME NEW c \in Client, in_txn[c] \in BOOLEAN, outbox[c] = <<>>,
         NEW r \in Replies, Answered(c, r),
         NEW x \in Kind, IsOfKind(r, x), x = "T" => in_txn[c]
  PROVE  OneLeft(c, x)
<1>1. Answers(c) = <<r>> /\ inbox[c] = <<>> /\ peer[c] = "open" /\ thread[c] = "serving"
  <2>1. outbox[c] # <<r>>
    <3>1. <<r>> # <<>>
      OBVIOUS
    <3> QED
      BY <3>1
  <2>2. Serving(c) /\ inbox[c] = <<>> /\ reply[c] = r /\ r # NULL
    BY <2>1, ReplyFacts DEF Answered
  <2>3. <<>> \o <<r>> = <<r>>
    OBVIOUS
  <2> QED
    BY <2>2, <2>3 DEF Answers, Serving
<1>2. Kinds(<<r>>, <<>>, in_txn[c], <<x>>)
  BY OneGiven
<1> QED
  BY <1>1, <1>2 DEF OneLeft

\* The kinds of the replies, and of the answers to lone requests.
LEMMA ReplyKinds ==
  /\ "E" \in Kind /\ "O" \in Kind /\ "V" \in Kind /\ "T" \in Kind
  /\ Reply("OK TXN", TxnNo) \in Replies /\ IsOfKind(Reply("OK TXN", TxnNo), "T")
  /\ \A t \in {"WELCOME", "ERR TXN_ALREADY_STARTED", "ERR BAD_CMD", "ERR NO_ACTIVE_TXN"} :
       Say(t) \in Replies /\ \A x : IsOfKind(Say(t), x)
  /\ \A t \in {"OK", "ERR PUT_FAIL", "OK COMMIT", "ERR ABORT"} :
       Say(t) \in Replies /\ IsOfKind(Say(t), "O")
  /\ Say("ERR NOT_FOUND") \in Replies /\ IsOfKind(Say("ERR NOT_FOUND"), "V")
  /\ \A n \in Nat : Reply("OK VALUE", n) \in Replies /\ IsOfKind(Reply("OK VALUE", n), "V")
<1>1. "E" \in Kind /\ "O" \in Kind /\ "V" \in Kind /\ "T" \in Kind
  BY DEF Kind
<1>2. Reply("OK TXN", TxnNo) \in Replies /\ IsOfKind(Reply("OK TXN", TxnNo), "T")
  BY ReplyFacts, ClientAssumption DEF ReplyTexts, IsOfKind, OkKind, ValueKind
<1>3. ASSUME NEW t \in {"WELCOME", "ERR TXN_ALREADY_STARTED", "ERR BAD_CMD", "ERR NO_ACTIVE_TXN"}
      PROVE  Say(t) \in Replies /\ \A x : IsOfKind(Say(t), x)
  <2>1. t \in ReplyTexts /\ t \notin {"OK", "OK TXN", "OK VALUE", "OK COMMIT", "OK ABORT"}
    BY DEF ReplyTexts
  <2>2. Say(t) \in Replies /\ Say(t).text = t /\ Say(t).val = NULL
    BY <2>1, ReplyFacts
  <2>3. ~is_ok(Say(t))
    BY <2>1, <2>2, Zenon DEF is_ok
  <2> QED
    BY <2>2, <2>3, Zenon DEF IsOfKind
<1>4. ASSUME NEW t \in {"OK", "ERR PUT_FAIL", "OK COMMIT", "ERR ABORT"}
      PROVE  Say(t) \in Replies /\ IsOfKind(Say(t), "O")
  <2>1. t \in ReplyTexts
    BY DEF ReplyTexts
  <2>2. Say(t) \in Replies /\ Say(t).val = NULL
    BY <2>1, ReplyFacts
  <2> QED
    BY <2>2 DEF IsOfKind, OkKind
<1>5. Say("ERR NOT_FOUND") \in Replies /\ IsOfKind(Say("ERR NOT_FOUND"), "V")
  BY ReplyFacts DEF ReplyTexts, IsOfKind, OkKind, ValueKind
<1>6. \A n \in Nat : Reply("OK VALUE", n) \in Replies /\ IsOfKind(Reply("OK VALUE", n), "V")
  BY ReplyFacts DEF ReplyTexts, IsOfKind, OkKind, ValueKind
<1> QED
  BY <1>1, <1>2, <1>3, <1>4, <1>5, <1>6

\* What a worker in step has yet to read when its request times out.
LEMMA OneToRead ==
  ASSUME TypesOK, NEW w \in Worker, Aligned(w), outbox[w] = <<>>,
         at[w] \in {"greeting", "START", "GET", "PUT", "COMMIT", "ROLLBACK"}
  PROVE  \E x \in Kind : OneLeft(w, x) /\ (at[w] = "greeting" => x = "E")
<1>1. w \in Client /\ w # Verifier /\ in_txn[w] \in BOOLEAN /\ (in_txn[w] <=> ctx[w] # NULL)
  BY ClientAssumption DEF TypesOK, ServerTypeOK
<1>2. CASE at[w] = "greeting"
  <2>1. \/ peer[w] = "open" /\ inbox[w] = <<>> /\ Unaccepted(w)
        \/ Answered(w, Say("WELCOME"))
    BY <1>2 DEF Aligned
  <2>2. CASE peer[w] = "open" /\ inbox[w] = <<>> /\ Unaccepted(w)
    <3>1. Answers(w) = <<Say("WELCOME")>>
      <4>1. <<>> \o <<Say("WELCOME")>> = <<Say("WELCOME")>>
        OBVIOUS
      <4> QED
        BY <2>2, <4>1 DEF Answers, Unaccepted
    <3>2. PICK r : r = Say("WELCOME") /\ IsOfKind(r, "E")
      BY ReplyKinds
    <3>3. Kinds(<<r>>, <<>>, in_txn[w], <<"E">>)
      <4>1. "E" \in Kind /\ "E" # "T"
        BY ReplyKinds
      <4> QED
        BY <1>1, <3>2, <4>1, OneGiven
    <3>4. OneLeft(w, "E")
      BY <2>2, <3>1, <3>2, <3>3 DEF OneLeft
    <3> QED
      BY <3>4, ReplyKinds
  <2>3. CASE Answered(w, Say("WELCOME"))
    <3>1. OneLeft(w, "E")
      BY <1>1, <2>3, ReplyKinds, OneAnswered
    <3> QED
      BY <3>1, ReplyKinds
  <2> QED
    BY <2>1, <2>2, <2>3
<1>3. CASE at[w] = "START"
  <2>1. \/ Sent(w, <<"START">>)
        \/ Answered(w, Reply("OK TXN", TxnNo)) /\ Fresh(w)
        \/ Answered(w, Say("ERR TXN_ALREADY_STARTED"))
    BY <1>3 DEF Aligned
  <2>2. CASE Sent(w, <<"START">>)
    <3>1. AsksKind(<< <<"START">> >>, in_txn[w], 1, "T")
      BY DEF AsksKind
    <3>2. OneLeft(w, "T")
      BY <1>1, <2>2, <3>1, ReplyKinds, OneSent
    <3> QED
      BY <1>3, <3>2, ReplyKinds
  <2>3. CASE Answered(w, Reply("OK TXN", TxnNo)) /\ Fresh(w)
    <3>1. in_txn[w]
      BY <1>1, <2>3 DEF Fresh, Open0
    <3>2. OneLeft(w, "T")
      BY <1>1, <2>3, <3>1, ReplyKinds, OneAnswered
    <3> QED
      BY <1>3, <3>2, ReplyKinds
  <2>4. CASE Answered(w, Say("ERR TXN_ALREADY_STARTED"))
    <3>1. OneLeft(w, "E")
      BY <1>1, <2>4, ReplyKinds, OneAnswered
    <3> QED
      BY <1>3, <3>1, ReplyKinds
  <2> QED
    BY <2>1, <2>2, <2>3, <2>4
<1>4. CASE at[w] = "GET"
  <2>1. \/ Sent(w, <<"GET", SP, key[w]>>)
        \/ \E n \in Nat : Answered(w, Reply("OK VALUE", n))
        \/ Answered(w, Say("ERR NOT_FOUND"))
    BY <1>1, <1>4 DEF Aligned
  <2>2. CASE Sent(w, <<"GET", SP, key[w]>>)
    <3>1. AsksKind(<< <<"GET", SP, key[w]>> >>, in_txn[w], 1, "V")
      BY DEF AsksKind
    <3>2. OneLeft(w, "V")
      BY <1>1, <2>2, <3>1, ReplyKinds, OneSent
    <3> QED
      BY <1>4, <3>2, ReplyKinds
  <2>3. ASSUME NEW r \in Replies, IsOfKind(r, "V"), Answered(w, r)
        PROVE  OneLeft(w, "V")
    BY <1>1, <2>3, ReplyKinds, OneAnswered
  <2>4. ASSUME NEW n \in Nat, Answered(w, Reply("OK VALUE", n)) PROVE OneLeft(w, "V")
    BY <2>3, <2>4, ReplyKinds
  <2>5. CASE Answered(w, Say("ERR NOT_FOUND"))
    <3>1. OneLeft(w, "V")
      BY <2>3, <2>5, ReplyKinds
    <3> QED
      BY <1>4, <3>1, ReplyKinds
  <2> QED
    BY <1>4, <2>1, <2>2, <2>4, <2>5, ReplyKinds
<1>5. CASE at[w] = "PUT"
  <2>1. \/ Sent(w, <<"PUT", SP, key[w], SP, cur[w] + 1>>)
        \/ \E t \in {"OK", "ERR PUT_FAIL", "OK COMMIT", "ERR ABORT"} : Answered(w, Say(t))
    BY <1>5 DEF Aligned
  <2>2. CASE Sent(w, <<"PUT", SP, key[w], SP, cur[w] + 1>>)
    <3>1. AsksKind(<< <<"PUT", SP, key[w], SP, cur[w] + 1>> >>, in_txn[w], 1, "O")
      BY DEF AsksKind
    <3>2. OneLeft(w, "O")
      BY <1>1, <2>2, <3>1, ReplyKinds, OneSent
    <3> QED
      BY <1>5, <3>2, ReplyKinds
  <2>3. ASSUME NEW t \in {"OK", "ERR PUT_FAIL", "OK COMMIT", "ERR ABORT"}, Answered(w, Say(t))
        PROVE  OneLeft(w, "O")
    BY <1>1, <2>3, ReplyKinds, OneAnswered
  <2> QED
    BY <1>5, <2>1, <2>2, <2>3, ReplyKinds
<1>6. CASE at[w] = "COMMIT"
  <2>1. \/ Sent(w, <<"COMMIT">>)
        \/ \E t \in {"OK", "ERR PUT_FAIL", "OK COMMIT", "ERR ABORT"} : Answered(w, Say(t))
    BY <1>6 DEF Aligned
  <2>2. CASE Sent(w, <<"COMMIT">>)
    <3>1. AsksKind(<< <<"COMMIT">> >>, in_txn[w], 1, "O")
      BY DEF AsksKind
    <3>2. OneLeft(w, "O")
      BY <1>1, <2>2, <3>1, ReplyKinds, OneSent
    <3> QED
      BY <1>6, <3>2, ReplyKinds
  <2>3. ASSUME NEW t \in {"OK", "ERR PUT_FAIL", "OK COMMIT", "ERR ABORT"}, Answered(w, Say(t))
        PROVE  OneLeft(w, "O")
    BY <1>1, <2>3, ReplyKinds, OneAnswered
  <2> QED
    BY <1>6, <2>1, <2>2, <2>3, ReplyKinds
<1>7. CASE at[w] = "ROLLBACK"
  <2>1. Sent(w, <<"ROLLBACK">>) \/ Answered(w, Say("ERR BAD_CMD"))
    BY <1>7 DEF Aligned
  <2>2. CASE Sent(w, <<"ROLLBACK">>)
    <3>1. AsksKind(<< <<"ROLLBACK">> >>, in_txn[w], 1, "E")
      BY DEF AsksKind
    <3>2. OneLeft(w, "E")
      BY <1>1, <2>2, <3>1, ReplyKinds, OneSent
    <3> QED
      BY <1>7, <3>2, ReplyKinds
  <2>3. CASE Answered(w, Say("ERR BAD_CMD"))
    <3>1. OneLeft(w, "E")
      BY <1>1, <2>3, ReplyKinds, OneAnswered
    <3> QED
      BY <1>7, <3>1, ReplyKinds
  <2> QED
    BY <2>1, <2>2, <2>3
<1> QED
  BY <1>2, <1>3, <1>4, <1>5, <1>6, <1>7

LEMMA TimeOutStep ==
  ASSUME StressInv, NEW w \in Worker, TimeOut(w)
  PROVE  StressInv'
<1>1. /\ outbox[w] = <<>> /\ timeouts' = timeouts + 1
      /\ UNCHANGED <<db, ctx, rc, peer, inbox, outbox, thread, in_txn, reply, applied>>
      /\ \/ at[w] = "greeting" /\ At(w, "next") /\ UNCHANGED <<iter, key, cur>>
         \/ /\ at[w] \in {"START", "GET", "PUT", "COMMIT", "ROLLBACK"}
            /\ At(w, "exception") /\ UNCHANGED <<iter, key, cur>>
         \/ at[w] = "EXC_ROLLBACK" /\ EndTurn(w)
  BY DEF TimeOut, apiVars, sessionVars
<1>2. /\ TypesOK /\ w \in Client /\ w # Verifier /\ TurnOK(w) /\ CommitOK(w) /\ StepOK(w)
      /\ timeouts \in Nat /\ applied' \in [Rec -> Nat]
  BY <1>1, ClientAssumption DEF StressInv, StepsOK, StepOK, TypesOK, TestTypeOK
<1>3. timeouts' \in Nat /\ timeouts' >= timeouts /\ timeouts' > 0 /\ timeouts' # 0
  BY <1>1, <1>2
<1>4. /\ TestTypeOK' /\ \A d \in Client \ {w} : SameTest(d)
      /\ TurnOK(w)'
      /\ \/ at[w] = "greeting" /\ at'[w] = "next" /\ iter'[w] = iter[w]
         \/ at[w] \in {"START", "GET", "PUT", "COMMIT", "ROLLBACK"} /\ at'[w] = "exception" /\ iter'[w] = iter[w]
         \/ at[w] = "EXC_ROLLBACK" /\ at'[w] = "next" /\ iter'[w] = iter[w] + 1
  <2>1. "next" \in Labels /\ "exception" \in Labels
    BY DEF Labels, InTurn
  <2>2. CASE at[w] = "greeting" /\ At(w, "next") /\ UNCHANGED <<iter, key, cur>>
    <3>1. TestTypeOK' /\ at'[w] = "next" /\ \A d \in Client \ {w} : SameTest(d)
      BY <1>2, <1>3, <2>1, <2>2, MoveEffect
    <3>2. TurnOK(w)'
      BY <3>1 DEF TurnOK, InTurn
    <3> QED
      BY <2>2, <3>1, <3>2
  <2>3. CASE /\ at[w] \in {"START", "GET", "PUT", "COMMIT", "ROLLBACK"}
             /\ At(w, "exception") /\ UNCHANGED <<iter, key, cur>>
    <3>1. TestTypeOK' /\ at'[w] = "exception" /\ \A d \in Client \ {w} : SameTest(d)
      BY <1>2, <1>3, <2>1, <2>3, MoveEffect
    <3>2. TurnOK(w)'
      BY <1>2, <2>3, <3>1 DEF TurnOK, InTurn
    <3> QED
      BY <2>3, <3>1, <3>2
  <2>4. CASE at[w] = "EXC_ROLLBACK" /\ EndTurn(w)
    <3>1. at[w] \in InTurn
      BY <2>4 DEF InTurn
    <3> QED
      BY <1>2, <1>3, <2>4, <3>1, EndTurnEffect
  <2> QED
    BY <1>1, <2>2, <2>3, <2>4
<1>5. OnlyConnection(w)
  <2>1. ServerTypeOK' /\ DOMAIN rc' = Client
    BY <1>1, <1>2 DEF TypesOK, EngineTypeOK, ServerTypeOK
  <2> QED
    BY <1>1, <2>1 DEF OnlyConnection, SameEngine, SameServer
<1>6. CommitOK(w)'
  BY <1>1, <1>2, <1>5, CommitStays DEF OnlyConnection
<1>7. /\ in_txn[w] \in BOOLEAN /\ (in_txn[w] <=> ctx[w] # NULL)
      /\ peer'[w] = peer[w] /\ inbox'[w] = inbox[w] /\ in_txn'[w] = in_txn[w]
      /\ thread'[w] = thread[w] /\ Answers(w)' = Answers(w) /\ (Unaccepted(w)' <=> Unaccepted(w))
  <2>1. in_txn[w] \in BOOLEAN /\ (in_txn[w] <=> ctx[w] # NULL)
    BY <1>2 DEF TypesOK, ServerTypeOK
  <2> QED
    BY <1>1, <2>1 DEF Answers, Unaccepted
<1>8. ASSUME NEW z \in Seq(Kind), Kinds(Answers(w), inbox[w], in_txn[w], z), StrayedAt(at'[w], z),
             peer[w] = "open" /\ (Unaccepted(w) \/ thread[w] = "serving")
      PROVE  Strayed(w)'
  <2>1. Kinds(Answers(w)', inbox'[w], in_txn'[w], z) /\ peer'[w] = "open"
        /\ (Unaccepted(w)' \/ thread'[w] = "serving")
    BY <1>7, <1>8
  <2> QED
    BY <1>3, <1>8, <2>1 DEF Strayed
<1>9. ASSUME Strayed(w) PROVE Strayed(w)'
  <2>1. PICK z \in Seq(Kind) : Kinds(Answers(w), inbox[w], in_txn[w], z) /\ StrayedAt(at[w], z)
    BY <1>9 DEF Strayed
  <2>2. at[w] \notin {"greeting", "COMMIT"}
    BY <2>1 DEF StrayedAt, Waits
  <2>3. StrayedAt(at'[w], z)
    BY <1>4, <2>1, <2>2, StrayedTimesOut
  <2>4. peer[w] = "open" /\ (Unaccepted(w) \/ thread[w] = "serving")
    BY <1>9 DEF Strayed
  <2> QED
    BY <1>8, <2>1, <2>3, <2>4
<1>10. ASSUME Aligned(w) PROVE Strayed(w)'
  <2>1. at[w] # "EXC_ROLLBACK"
    BY <1>10 DEF Aligned
  <2>2. PICK x \in Kind : OneLeft(w, x) /\ (at[w] = "greeting" => x = "E")
    <3>1. at[w] \in {"greeting", "START", "GET", "PUT", "COMMIT", "ROLLBACK"}
      BY <1>4, <2>1
    <3> QED
      BY <1>1, <1>2, <1>10, <3>1, OneToRead
  <2>3. PICK z : z = <<x>>
    OBVIOUS
  <2>4. z \in Seq(Kind) /\ StrayedAt(at'[w], z)
    <3>1. at'[w] = "exception" \/ (at'[w] = "next" /\ x = "E")
      BY <1>4, <2>1, <2>2
    <3>2. StrayedAt(at'[w], <<x>>) /\ <<x>> \in Seq(Kind)
      BY <3>1, StrayedOne
    <3> QED
      BY <2>3, <3>2
  <2> QED
    BY <1>8, <2>2, <2>3, <2>4 DEF OneLeft
<1>11. StepOK(w)'
  <2>1. ~Gone(w) /\ ~Adrift(w)
    BY <1>2, <1>4 DEF Gone, Adrift
  <2> QED
    BY <1>2, <1>6, <1>9, <1>10, <2>1 DEF StepOK
<1>12. CountStays(w)
  <2>1. iter[w] \in 0..TXN_PER_THREAD /\ TXN_PER_THREAD \in Nat
    BY <1>2, ClientAssumption DEF TypesOK, TestTypeOK
  <2>2. PICK n \in Nat : n = iter[w]
    BY <2>1
  <2>3. \/ TurnsOf(w) = n + 0 /\ TurnsOf(w)' = n + 0
        \/ (TurnsOf(w) = n + 0 \/ TurnsOf(w) = n + 1) /\ TurnsOf(w)' = n + 1
        \/ TurnsOf(w) = n + 1 /\ TurnsOf(w)' = (n + 1) + 0
    <3>1. CASE at[w] = "greeting" /\ at'[w] = "next" /\ iter'[w] = iter[w]
      <4>1. at[w] \notin {"COMMIT", "exception", "EXC_ROLLBACK"} /\ at'[w] \notin {"COMMIT", "exception", "EXC_ROLLBACK"}
        BY <3>1
      <4> QED
        BY <2>2, <3>1, <4>1, Zenon DEF TurnsOf
    <3>2. CASE at'[w] = "exception" /\ iter'[w] = iter[w]
      <4>1. at'[w] \in {"COMMIT", "exception", "EXC_ROLLBACK"}
        BY <3>2
      <4> QED
        BY <2>2, <3>2, <4>1, Zenon DEF TurnsOf
    <3>3. CASE at[w] = "EXC_ROLLBACK" /\ at'[w] = "next" /\ iter'[w] = iter[w] + 1
      <4>1. at[w] \in {"COMMIT", "exception", "EXC_ROLLBACK"} /\ at'[w] \notin {"COMMIT", "exception", "EXC_ROLLBACK"}
        BY <3>3
      <4> QED
        BY <2>2, <3>3, <4>1, Zenon DEF TurnsOf
    <3> QED
      BY <1>4, <3>1, <3>2, <3>3
  <2>4. TurnsOf(w) <= TurnsOf(w)'
    BY <2>3
  <2>5. at'[w] # "COMMIT"
    BY <1>4
  <2> QED
    BY <1>3, <1>7, <2>4, <2>5 DEF CountStays, Counted
<1> QED
  BY <1>1, <1>3, <1>4, <1>5, <1>11, <1>12, WorkerStep
-----------------------------------------------------------------------------
(* COMMIT: a turn is counted when it is sent, an increment when its answer is *)
(* heard.                                                                     *)

LEMMA AskCommitStep ==
  ASSUME StressInv, NEW w \in Worker, AskCommit(w)
  PROVE  StressInv'
<1>1. /\ at[w] = "commit" /\ SendLine(w, <<"COMMIT">>) /\ At(w, "COMMIT")
      /\ UNCHANGED <<iter, key, cur, applied, timeouts>>
  BY DEF AskCommit, Ask
<1>2. /\ TypesOK /\ TurnOK(w) /\ CommitOK(w) /\ StepOK(w) /\ w \in Client /\ w # Verifier
      /\ timeouts' \in Nat /\ timeouts' >= timeouts /\ applied' \in [Rec -> Nat] /\ "COMMIT" \in Labels
  <2>1. TypesOK /\ TestTypeOK /\ TurnOK(w) /\ CommitOK(w) /\ StepOK(w) /\ w \in Client /\ w # Verifier
    BY ClientAssumption DEF StressInv, StepsOK, StepOK, TypesOK
  <2>2. timeouts' \in Nat /\ timeouts' >= timeouts
    BY <1>1, <2>1, NoTimeOut
  <2> QED
    BY <1>1, <2>1, <2>2 DEF TestTypeOK, Labels, InTurn
<1>3. key[w] \in Rec /\ iter[w] < TXN_PER_THREAD
  BY <1>1, <1>2 DEF TurnOK, InTurn
<1>4. TestTypeOK' /\ at'[w] = "COMMIT" /\ \A d \in Client \ {w} : SameTest(d)
  BY <1>1, <1>2, MoveEffect
<1>5. TurnOK(w)'
  BY <1>1, <1>3, <1>4 DEF TurnOK
<1>6. Aligned(w)
  BY <1>1, <1>2 DEF StepOK, Strayed, StrayedAt, Waits, Adrift, Gone
<1>7. Quiet(w) /\ HasWritten(w, key[w])
  BY <1>1, <1>6 DEF Aligned
<1>8. PICK line \in TestLines : line = <<"COMMIT">>
  BY LinesToSend
<1>9. OnlyConnection(w) /\ inbox'[w] = <<line>> /\ Sent(w, line)'
  <2>1. Append(<<>>, line) = <<line>>
    OBVIOUS
  <2> QED
    BY <1>1, <1>2, <1>7, <1>8, <2>1, SendEffect, QuietSends DEF Quiet
<1>10. HasWritten(w, key[w])'
  <2>1. PICK k \in Rec : k = key[w]
    BY <1>3
  <2>2. HasWritten(w, k)'
    BY <1>2, <1>7, <1>9, <2>1, TxnSame DEF OnlyConnection
  <2> QED
    BY <1>1, <2>1, <2>2
<1>11. StepOK(w)'
  <2>1. Aligned(w)'
    BY <1>4, <1>8, <1>9, <1>10 DEF Aligned
  <2>2. CommitOK(w)'
    <3>1. Len(inbox'[w]) = 1
      BY <1>9
    <3>2. \A j \in 1..Len(inbox'[w]) : j = 1
      BY <3>1
    <3>3. key'[w] \in Rec
      BY <1>1, <1>3
    <3> QED
      BY <1>10, <3>2, <3>3 DEF CommitOK
  <2> QED
    BY <2>1, <2>2 DEF StepOK
<1>12. TypesOK' /\ StepsOK' /\ OthersStay(w)
  BY <1>2, <1>4, <1>5, <1>9, <1>11, MoveSuffices DEF StressInv
<1>13. /\ \A k \in Rec : ToCount(k)' = ToCount(k)
       /\ Committing' \subseteq Committing \cup {w}
       /\ Turns \subseteq Turns' /\ <<w, iter[w] + 1>> \in Turns' \ Turns
  <2>1. \A v \in Worker \ {w}, k \in Rec :
          (Counted(v, k)' <=> Counted(v, k)) /\ inbox'[v] = inbox[v] /\ TurnsOf(v)' = TurnsOf(v)
    BY <1>2, <1>12, OthersCount
  <2>2. \A v \in Worker \ {w} : inbox'[v] = inbox[v] /\ TurnsOf(v)' = TurnsOf(v)
    BY <1>2, <1>12, OthersCount
  <2>3. \A k \in Rec : ~Counted(w, k) /\ ~Counted(w, k)'
    <3>1. at[w] # "COMMIT"
      BY <1>1
    <3>2. inbox'[w] # <<>>
      BY <1>9
    <3> QED
      BY <3>1, <3>2 DEF Counted, Answered
  <2>4. \A k \in Rec : ToCount(k)' = ToCount(k)
    BY <2>1, <2>3 DEF ToCount
  <2>5. Committing' \subseteq Committing \cup {w}
    BY <2>2 DEF Committing
  <2>6. iter[w] \in 0..TXN_PER_THREAD /\ TXN_PER_THREAD \in Nat /\ iter'[w] = iter[w]
    BY <1>1, <1>2, ClientAssumption DEF TypesOK, TestTypeOK
  <2>7. PICK n \in Nat : n = iter[w]
    BY <2>6
  <2>8. TurnsOf(w) = n + 0 /\ TurnsOf(w)' = n + 1
    <3>1. at[w] \notin {"COMMIT", "exception", "EXC_ROLLBACK"} /\ at'[w] \in {"COMMIT", "exception", "EXC_ROLLBACK"}
      BY <1>1, <1>4
    <3> QED
      BY <2>6, <2>7, <3>1, Zenon DEF TurnsOf
  <2>9. TurnsGrow
    <3>1. \A v \in Worker : TurnsOf(v) \in Nat /\ TurnsOf(v)' \in Nat
      BY <1>2, <1>4, TurnsOfType
    <3>2. \A v \in Worker \ {w} : TurnsOf(v) <= TurnsOf(v)'
      BY <2>2, <3>1
    <3>3. TurnsOf(w) <= TurnsOf(w)'
      BY <2>8
    <3> QED
      BY <3>1, <3>2, <3>3 DEF TurnsGrow
  <2>10. Turns \subseteq Turns'
    BY <2>9, MoreTurns
  <2>11. <<w, n + 1>> \in Worker \X (1..TXN_PER_THREAD)
    BY <1>3, <2>6, <2>7
  <2>12. <<w, n + 1>> \in Turns' /\ <<w, n + 1>> \notin Turns
    BY <2>8, <2>11 DEF Turns
  <2> QED
    BY <2>4, <2>5, <2>7, <2>10, <2>12
<1>14. Cardinality(Committing') <= Cardinality(Committing) + 1
  <2>1. /\ IsFiniteSet(Committing \cup {w})
        /\ Cardinality(Committing \cup {w}) <= Cardinality(Committing) + 1
    <3>1. /\ IsFiniteSet(Committing \cup {w})
          /\ Cardinality(Committing \cup {w}) =
               IF w \in Committing THEN Cardinality(Committing) ELSE Cardinality(Committing) + 1
      BY CountSizes, FS_AddElement, Zenon
    <3>2. Cardinality(Committing) \in Nat
      BY CountSizes
    <3> QED
      BY <3>1, <3>2
  <2>2. Cardinality(Committing') <= Cardinality(Committing \cup {w})
    BY <1>13, <2>1, FS_Subset, Zenon
  <2>3. /\ Cardinality(Committing') \in Nat /\ Cardinality(Committing) \in Nat
        /\ Cardinality(Committing \cup {w}) \in Nat
    BY <2>1, CountSizes, CountSizesNext, FS_CardinalityType, Zenon
  <2> QED
    BY <2>1, <2>2, <2>3
<1>15. Cardinality(Turns) + 1 <= Cardinality(Turns')
  <2> DEFINE turn == <<w, iter[w] + 1>>
  <2>1. turn \in Turns' /\ turn \notin Turns /\ Turns \cup {turn} \subseteq Turns'
    BY <1>13, Zenon
  <2> HIDE DEF turn
  <2>2. Cardinality(Turns \cup {turn}) = Cardinality(Turns) + 1
    BY <2>1, CountSizes, FS_AddElement, Zenon
  <2>3. Cardinality(Turns \cup {turn}) <= Cardinality(Turns')
    BY <2>1, CountSizesNext, FS_Subset, Zenon
  <2> QED
    BY <2>2, <2>3
<1>16. CountsOK'
  <2>1. ASSUME NEW k \in Rec
        PROVE  /\ InitVal + applied'[k] + Cardinality(ToCount(k)') <= db'[k]
               /\ timeouts' = 0 => db'[k] = InitVal + applied'[k] + Cardinality(ToCount(k)')
               /\ db'[k] + Cardinality(Committing') <= InitVal + Cardinality(Turns')
    <3>1. /\ db'[k] = db[k] /\ applied'[k] = applied[k] /\ timeouts' = timeouts
          /\ Cardinality(ToCount(k)') = Cardinality(ToCount(k))
      BY <1>1, <1>9, <1>13 DEF OnlyConnection, SameEngine
    <3>2. /\ InitVal + applied[k] + Cardinality(ToCount(k)) <= db[k]
          /\ timeouts = 0 => db[k] = InitVal + applied[k] + Cardinality(ToCount(k))
          /\ db[k] + Cardinality(Committing) <= InitVal + Cardinality(Turns)
      BY DEF StressInv, CountsOK
    <3>3. /\ db[k] \in Nat /\ InitVal \in Nat
          /\ Cardinality(Committing') \in Nat /\ Cardinality(Committing) \in Nat
          /\ Cardinality(Turns') \in Nat /\ Cardinality(Turns) \in Nat
      BY <1>2, CountSizes, CountSizesNext, ClientAssumption DEF TypesOK, EngineTypeOK
    <3>4. db[k] + Cardinality(Committing') <= InitVal + Cardinality(Turns')
      BY <1>14, <1>15, <3>2, <3>3
    <3> QED
      BY <3>1, <3>2, <3>4
  <2> QED
    BY <2>1 DEF CountsOK
<1> QED
  BY <1>12, <1>16 DEF StressInv

\* The COMMIT's answer counts for the key if and only if it is OK.
LEMMA HearCommitStep ==
  ASSUME StressInv, NEW w \in Worker, HearCommit(w)
  PROVE  StressInv'
<1>1. /\ at[w] = "COMMIT" /\ ReadReply(w) /\ EndTurn(w) /\ timeouts' = timeouts
      /\ \/ is_ok(heard(w)) /\ applied' = [applied EXCEPT ![key[w]] = @ + 1]
         \/ ~is_ok(heard(w)) /\ applied' = applied
  BY DEF HearCommit, Hear
<1>2. /\ TypesOK /\ TestTypeOK /\ TurnOK(w) /\ CommitOK(w) /\ StepOK(w) /\ w \in Client /\ w # Verifier
      /\ timeouts' \in Nat /\ timeouts' >= timeouts
  <2>1. TypesOK /\ TestTypeOK /\ TurnOK(w) /\ CommitOK(w) /\ StepOK(w) /\ w \in Client /\ w # Verifier
    BY ClientAssumption DEF StressInv, StepsOK, StepOK, TypesOK
  <2> QED
    BY <1>1, <2>1, NoTimeOut
<1>3. at[w] \in InTurn /\ key[w] \in Rec
  BY <1>1, <1>2 DEF TurnOK, InTurn
<1>4. PICK j \in Rec : j = key[w]
  BY <1>3
<1>5. applied' \in [Rec -> Nat]
  <2>1. applied \in [Rec -> Nat] /\ applied[j] + 1 \in Nat
    BY <1>2 DEF TestTypeOK
  <2> QED
    BY <1>1, <1>4, <2>1
<1>6. /\ TestTypeOK' /\ at'[w] = "next" /\ iter'[w] = iter[w] + 1 /\ TurnOK(w)'
      /\ \A d \in Client \ {w} : SameTest(d)
  BY <1>1, <1>2, <1>3, <1>5, EndTurnEffect
<1>7. Aligned(w)
  BY <1>1, <1>2 DEF StepOK, Strayed, StrayedAt, Waits, Adrift, Gone
<1>8. OnlyConnection(w) /\ inbox'[w] = inbox[w]
  BY <1>1, <1>2, ReadEffect
<1>9. \/ Answered(w, Say("OK COMMIT")) /\ heard(w) = Say("OK COMMIT")
      \/ Answered(w, Say("ERR ABORT")) /\ heard(w) = Say("ERR ABORT")
  BY <1>1, <1>2, <1>7, AnsweredReads DEF Aligned
<1>10. StepOK(w)'
  <2>1. Quiet(w)'
    BY <1>1, <1>2, <1>9, AnsweredReads
  <2>2. CommitOK(w)'
    BY <1>2, <1>8, CommitStays DEF OnlyConnection
  <2> QED
    BY <1>6, <2>1, <2>2 DEF StepOK, Aligned
<1>11. TypesOK' /\ StepsOK' /\ OthersStay(w)
  BY <1>2, <1>6, <1>8, <1>10, MoveSuffices DEF StressInv
<1>12. is_ok(heard(w)) <=> Counted(w, j)
  <2>1. Say("OK COMMIT") # Say("ERR ABORT")
    <3>1. Say("OK COMMIT").text = "OK COMMIT" /\ Say("ERR ABORT").text = "ERR ABORT"
      BY DEF Say, Reply
    <3> QED
      BY <3>1
  <2>2. is_ok(heard(w)) <=> heard(w) = Say("OK COMMIT")
    BY <1>9, WhatIsOk
  <2>3. Answered(w, Say("OK COMMIT")) => heard(w) = Say("OK COMMIT")
    BY <1>1, <1>2, AnsweredReads
  <2> QED
    BY <1>1, <1>4, <1>9, <2>1, <2>2, <2>3 DEF Counted
<1>13. /\ \A k \in Rec : ToCount(k)' = ToCount(k) \ {w}
       /\ Committing' \subseteq Committing
       /\ TurnsGrow
  <2>1. \A v \in Worker \ {w}, k \in Rec : Counted(v, k)' <=> Counted(v, k)
    BY <1>2, <1>11, OthersCount
  <2>2. \A v \in Worker \ {w} : inbox'[v] = inbox[v] /\ TurnsOf(v)' = TurnsOf(v)
    BY <1>2, <1>11, OthersCount
  <2>3. \A k \in Rec : ~Counted(w, k)'
    BY <1>6 DEF Counted
  <2>4. \A k \in Rec : ToCount(k)' = ToCount(k) \ {w}
    BY <2>1, <2>3 DEF ToCount
  <2>5. Committing' \subseteq Committing
    BY <1>8, <2>2 DEF Committing
  <2>6. \A v \in Worker : TurnsOf(v) \in Nat /\ TurnsOf(v)' \in Nat
    BY <1>2, <1>6, TurnsOfType
  <2>7. TurnsOf(w) <= TurnsOf(w)'
    <3>1. iter[w] \in 0..TXN_PER_THREAD /\ TXN_PER_THREAD \in Nat
      BY <1>2, ClientAssumption DEF TestTypeOK
    <3>2. PICK n \in Nat : n = iter[w]
      BY <3>1
    <3>3. TurnsOf(w) = n + 1 /\ TurnsOf(w)' = (n + 1) + 0
      <4>1. at[w] \in {"COMMIT", "exception", "EXC_ROLLBACK"} /\ at'[w] \notin {"COMMIT", "exception", "EXC_ROLLBACK"}
        BY <1>1, <1>6
      <4> QED
        BY <1>6, <3>2, <4>1, Zenon DEF TurnsOf
    <3> QED
      BY <3>3
  <2>8. TurnsGrow
    <3>1. \A v \in Worker \ {w} : TurnsOf(v) <= TurnsOf(v)'
      BY <2>2, <2>6
    <3> QED
      BY <2>6, <2>7, <3>1 DEF TurnsGrow
  <2> QED
    BY <2>4, <2>5, <2>8
<1>14. ASSUME NEW k \in Rec
       PROVE  applied'[k] + Cardinality(ToCount(k)') = applied[k] + Cardinality(ToCount(k))
  <2>1. applied \in [Rec -> Nat] /\ Cardinality(ToCount(k)) \in Nat
    BY <1>2, CountSizes DEF TestTypeOK
  <2>2. CASE Counted(w, k)
    <3>1. k = j /\ is_ok(heard(w))
      BY <1>4, <1>12, <2>2 DEF Counted
    <3>2. applied'[k] = applied[k] + 1
      BY <1>1, <1>4, <2>1, <3>1
    <3>3. Cardinality(ToCount(k) \ {w}) = Cardinality(ToCount(k)) - 1
      <4>1. w \in ToCount(k)
        BY <2>2 DEF ToCount
      <4>2. Cardinality(ToCount(k) \ {w}) =
              IF w \in ToCount(k) THEN Cardinality(ToCount(k)) - 1 ELSE Cardinality(ToCount(k))
        BY CountSizes, FS_RemoveElement, Zenon
      <4> QED
        BY <4>1, <4>2
    <3>4. Cardinality(ToCount(k)') = Cardinality(ToCount(k)) - 1
      BY <1>13, <3>3
    <3>5. applied[k] \in Nat
      BY <2>1
    <3> QED
      BY <2>1, <3>2, <3>4, <3>5
  <2>3. CASE ~Counted(w, k)
    <3>1. ToCount(k)' = ToCount(k)
      BY <1>13, <2>3 DEF ToCount
    <3>2. applied'[k] = applied[k]
      <4>1. is_ok(heard(w)) => k # j
        BY <1>12, <2>3
      <4> QED
        BY <1>1, <1>4, <2>1, <4>1
    <3> QED
      BY <3>1, <3>2
  <2> QED
    BY <2>2, <2>3
<1>15. CountsOK'
  <2>1. ASSUME NEW k \in Rec
        PROVE  /\ InitVal + applied'[k] + Cardinality(ToCount(k)') <= db'[k]
               /\ timeouts' = 0 => db'[k] = InitVal + applied'[k] + Cardinality(ToCount(k)')
               /\ db'[k] + Cardinality(Committing') <= InitVal + Cardinality(Turns')
    <3>1. db'[k] = db[k]
      BY <1>8 DEF OnlyConnection, SameEngine
    <3>2. /\ InitVal + applied[k] + Cardinality(ToCount(k)) <= db[k]
          /\ timeouts = 0 => db[k] = InitVal + applied[k] + Cardinality(ToCount(k))
          /\ db[k] + Cardinality(Committing) <= InitVal + Cardinality(Turns)
      BY DEF StressInv, CountsOK
    <3>3. /\ db[k] \in Nat /\ InitVal \in Nat /\ applied[k] \in Nat /\ applied'[k] \in Nat
          /\ Cardinality(ToCount(k)) \in Nat /\ Cardinality(ToCount(k)') \in Nat
          /\ Cardinality(Committing') \in Nat /\ Cardinality(Committing) \in Nat
          /\ Cardinality(Turns') \in Nat /\ Cardinality(Turns) \in Nat
      BY <1>2, <1>5, CountSizes, CountSizesNext, ClientAssumption DEF TypesOK, EngineTypeOK, TestTypeOK
    <3>4. Cardinality(Committing') <= Cardinality(Committing)
      BY <1>13, CountSizes, FS_Subset, Zenon
    <3>5. Cardinality(Turns) <= Cardinality(Turns')
      BY <1>13, MoreTurns
    <3>6. db[k] + Cardinality(Committing') <= InitVal + Cardinality(Turns')
      BY <3>2, <3>3, <3>4, <3>5
    <3>7. applied'[k] + Cardinality(ToCount(k)') = applied[k] + Cardinality(ToCount(k))
      BY <1>14
    <3>8. InitVal + applied'[k] + Cardinality(ToCount(k)') = InitVal + applied[k] + Cardinality(ToCount(k))
      BY <3>3, <3>7
    <3> QED
      BY <1>1, <3>1, <3>2, <3>6, <3>8
  <2> QED
    BY <2>1 DEF CountsOK
<1> QED
  BY <1>11, <1>15 DEF StressInv
-----------------------------------------------------------------------------
(* The check of the final values. *)

LEMMA VerifierFacts ==
  ASSUME StressInv, timeouts' = timeouts, applied' = applied
  PROVE  /\ TypesOK /\ Verifier \in Client /\ Verifier \notin Worker
         /\ CommitOK(Verifier) /\ StepOK(Verifier) /\ ~Strayed(Verifier) /\ ~in_txn[Verifier]
         /\ OnlyGets(inbox[Verifier]) /\ inbox[Verifier] \in Seq(TestLines)
         /\ timeouts' \in Nat /\ applied' \in [Rec -> Nat]
<1>1. TypesOK /\ TestTypeOK /\ Verifier \in Client /\ Verifier \notin Worker
  BY ClientAssumption DEF StressInv, TypesOK
<1> QED
  BY <1>1 DEF StressInv, StepsOK, StepOK, TypesOK, TestTypeOK, ServerTypeOK, VerifierOK, Strayed

\* What is to be shown of a time-out of the check.
LEMMA FinalSuffices ==
  ASSUME StressInv, OnlyConnection(Verifier), TestTypeOK',
         \A d \in Client \ {Verifier} : SameTest(d), applied' = applied, timeouts' >= timeouts,
         at'[Verifier] \in {"next", "closed"}, inbox'[Verifier] = inbox[Verifier],
         StepOK(Verifier)'
  PROVE  StressInv'
<1>1. Verifier \in Client /\ Verifier \notin Worker /\ TypesOK /\ StepsOK /\ CountsOK
  BY ClientAssumption DEF StressInv
<1>2. TypesOK' /\ StepsOK' /\ OthersStay(Verifier)
  BY <1>1, MoveSuffices
<1>3. CountsOK'
  BY <1>1, <1>2, CountsSuffice DEF OnlyConnection, SameEngine
<1> QED
  BY <1>2, <1>3 DEF StressInv

LEMMA AskFinalStep ==
  ASSUME StressInv, NEW k \in Rec, AskFinal(k)
  PROVE  StressInv'
<1>1. /\ at[Verifier] = "next" /\ SendLine(Verifier, <<"GET", SP, k>>) /\ At(Verifier, "GET")
      /\ UNCHANGED <<iter, key, cur, applied, timeouts>>
  BY DEF AskFinal, Ask
<1>2. /\ TypesOK /\ Verifier \in Client /\ Verifier \notin Worker
      /\ CommitOK(Verifier) /\ StepOK(Verifier) /\ ~Strayed(Verifier)
      /\ OnlyGets(inbox[Verifier]) /\ inbox[Verifier] \in Seq(TestLines)
      /\ timeouts' \in Nat /\ applied' \in [Rec -> Nat]
  BY <1>1, VerifierFacts
<1>3. "GET" \in Labels
  BY DEF Labels, InTurn
<1>4. TestTypeOK' /\ at'[Verifier] = "GET" /\ \A d \in Client \ {Verifier} : SameTest(d)
  BY <1>1, <1>2, <1>3, MoveEffect
<1>5. PICK line \in TestLines : line = <<"GET", SP, k>> /\ line[1] = "GET"
  BY LinesToSend
<1>6. OnlyConnection(Verifier) /\ inbox'[Verifier] = Append(inbox[Verifier], line)
  BY <1>1, <1>2, <1>5, SendEffect
<1>7. Aligned(Verifier) \/ Adrift(Verifier)
  BY <1>1, <1>2 DEF StepOK, Gone
<1>8. ASSUME Aligned(Verifier) PROVE Aligned(Verifier)'
  <2>1. Quiet(Verifier)
    BY <1>1, <1>8 DEF Aligned
  <2>2. Sent(Verifier, line)'
    BY <1>1, <1>2, <1>5, <2>1, QuietSends
  <2> QED
    BY <1>4, <1>5, <2>2 DEF Aligned
<1>9. ASSUME Adrift(Verifier) PROVE Adrift(Verifier)'
  <2>1. /\ peer'[Verifier] = "open" /\ outbox'[Verifier] = outbox[Verifier]
        /\ thread'[Verifier] = thread[Verifier] /\ reply'[Verifier] = reply[Verifier]
    BY <1>1, <1>2, <1>5, SendEffect
  <2> QED
    BY <1>1, <1>4, <1>9, <2>1 DEF Adrift, Unaccepted
<1>10. CommitOK(Verifier)'
  <2>1. line # <<"COMMIT">>
    <3>1. <<"COMMIT">>[1] = "COMMIT"
      OBVIOUS
    <3> QED
      BY <1>5, <3>1
  <2> QED
    BY <1>2, <1>6, <2>1, CommitStays DEF OnlyConnection
<1>11. StepOK(Verifier)'
  BY <1>7, <1>8, <1>9, <1>10 DEF StepOK
<1>12. at'[Verifier] \in {"new", "greeting", "next", "GET", "closed"} /\ OnlyGets(inbox'[Verifier])
  BY <1>2, <1>4, <1>5, <1>6, GetsStay
<1> QED
  BY <1>1, <1>2, <1>4, <1>6, <1>11, <1>12, ConnectionStep

LEMMA HearFinalStep ==
  ASSUME StressInv, NEW k \in Rec, HearFinal(k)
  PROVE  StressInv'
<1>1. /\ at[Verifier] = "GET" /\ ReadReply(Verifier) /\ At(Verifier, "next")
      /\ UNCHANGED <<iter, key, cur, applied, timeouts>>
  BY DEF HearFinal, Hear
<1>2. /\ TypesOK /\ Verifier \in Client /\ Verifier \notin Worker
      /\ CommitOK(Verifier) /\ StepOK(Verifier) /\ ~Strayed(Verifier)
      /\ OnlyGets(inbox[Verifier]) /\ inbox[Verifier] \in Seq(TestLines)
      /\ timeouts' \in Nat /\ applied' \in [Rec -> Nat]
  BY <1>1, VerifierFacts
<1>3. "next" \in Labels
  BY DEF Labels, InTurn
<1>4. TestTypeOK' /\ at'[Verifier] = "next" /\ \A d \in Client \ {Verifier} : SameTest(d)
  BY <1>1, <1>2, <1>3, MoveEffect
<1>5. OnlyConnection(Verifier) /\ inbox'[Verifier] = inbox[Verifier]
  BY <1>1, <1>2, ReadEffect
<1>6. ASSUME Aligned(Verifier) PROVE Aligned(Verifier)'
  <2>1. ~\E j \in Rec : Sent(Verifier, <<"GET", SP, j>>)
    BY <1>1, <1>2, AnsweredReads
  <2>2. Answered(Verifier, Say("ERR NO_ACTIVE_TXN"))
    BY <1>1, <1>2, <1>6, <2>1 DEF Aligned
  <2>3. Quiet(Verifier)'
    BY <1>1, <1>2, <2>2, AnsweredReads
  <2> QED
    BY <1>4, <2>3 DEF Aligned
<1>7. ASSUME Adrift(Verifier) PROVE Adrift(Verifier)'
  <2>1. /\ peer'[Verifier] = "open" /\ thread'[Verifier] = thread[Verifier] /\ ~Unaccepted(Verifier)
    BY <1>1, <1>2, ReadEffect, AnsweredReads
  <2> QED
    BY <1>1, <1>4, <1>7, <2>1 DEF Adrift
<1>8. StepOK(Verifier)'
  <2>1. ~Gone(Verifier)
    BY <1>1 DEF Gone
  <2>2. CommitOK(Verifier)'
    BY <1>2, <1>5, CommitStays DEF OnlyConnection
  <2> QED
    BY <1>2, <1>6, <1>7, <2>1, <2>2 DEF StepOK
<1>9. at'[Verifier] \in {"new", "greeting", "next", "GET", "closed"}
      /\ inbox'[Verifier] = inbox[Verifier]
  BY <1>4, <1>5
<1> QED
  BY <1>1, <1>2, <1>4, <1>5, <1>8, <1>9, ConnectionStep

\* The check goes on without the greeting, or gives up.
LEMMA TimeOutFinalStep ==
  ASSUME StressInv, TimeOutFinal
  PROVE  StressInv'
<1>1. /\ timeouts' = timeouts + 1 /\ UNCHANGED <<iter, key, cur, applied>>
      /\ \/ /\ at[Verifier] = "greeting" /\ At(Verifier, "next")
            /\ UNCHANGED <<db, ctx, rc, peer, inbox, outbox, thread, in_txn, reply>>
         \/ at[Verifier] = "GET" /\ Close(Verifier) /\ At(Verifier, "closed")
  BY DEF TimeOutFinal, apiVars, sessionVars
<1>2. /\ TypesOK /\ Verifier \in Client /\ Verifier \notin Worker
      /\ CommitOK(Verifier) /\ StepOK(Verifier) /\ ~Strayed(Verifier)
      /\ timeouts \in Nat /\ applied' \in [Rec -> Nat]
  BY <1>1, ClientAssumption
    DEF StressInv, StepsOK, StepOK, TypesOK, TestTypeOK, Strayed
<1>3. timeouts' \in Nat /\ timeouts' >= timeouts /\ timeouts' > 0
  BY <1>1, <1>2
<1>4. "next" \in Labels /\ "closed" \in Labels
  BY DEF Labels
<1>5. CASE /\ at[Verifier] = "greeting" /\ At(Verifier, "next")
           /\ UNCHANGED <<db, ctx, rc, peer, inbox, outbox, thread, in_txn, reply>>
  <2>1. TestTypeOK' /\ at'[Verifier] = "next" /\ \A d \in Client \ {Verifier} : SameTest(d)
    BY <1>1, <1>2, <1>3, <1>4, <1>5, MoveEffect
  <2>2. OnlyConnection(Verifier) /\ inbox'[Verifier] = inbox[Verifier]
    <3>1. ServerTypeOK' /\ DOMAIN rc' = Client
      BY <1>2, <1>5 DEF TypesOK, EngineTypeOK, ServerTypeOK
    <3> QED
      BY <1>5, <3>1 DEF OnlyConnection, SameEngine, SameServer
  <2>3. Aligned(Verifier)
    BY <1>2, <1>5 DEF StepOK, Adrift, Gone
  <2>4. peer[Verifier] = "open" /\ (Unaccepted(Verifier) \/ thread[Verifier] = "serving")
    BY <1>5, <2>3 DEF Aligned, Answered, Serving
  <2>5. Adrift(Verifier)'
    BY <1>3, <1>5, <2>1, <2>4 DEF Adrift, Unaccepted
  <2>6. CommitOK(Verifier)'
    BY <1>2, <2>2, CommitStays DEF OnlyConnection
  <2>7. StepOK(Verifier)'
    BY <2>5, <2>6 DEF StepOK
  <2> QED
    BY <1>1, <1>2, <1>3, <2>1, <2>2, <2>7, FinalSuffices
<1>6. CASE at[Verifier] = "GET" /\ Close(Verifier) /\ At(Verifier, "closed")
  <2>1. TestTypeOK' /\ at'[Verifier] = "closed" /\ \A d \in Client \ {Verifier} : SameTest(d)
    BY <1>1, <1>2, <1>3, <1>4, <1>6, MoveEffect
  <2>2. /\ OnlyConnection(Verifier) /\ peer'[Verifier] = "closed"
        /\ inbox'[Verifier] = inbox[Verifier] /\ outbox'[Verifier] = <<>>
    BY <1>2, <1>6, CloseEffect
  <2>3. Gone(Verifier)'
    BY <1>3, <2>1, <2>2 DEF Gone
  <2>4. CommitOK(Verifier)'
    BY <1>2, <2>2, CommitStays DEF OnlyConnection
  <2>5. StepOK(Verifier)'
    BY <2>3, <2>4 DEF StepOK
  <2> QED
    BY <1>1, <1>2, <1>3, <2>1, <2>2, <2>5, FinalSuffices
<1> QED
  BY <1>1, <1>5, <1>6

\* Every step of the workers and of the check keeps StressInv.
LEMMA TestStep ==
  ASSUME StressInv, (\E w \in Worker : Work(w) \/ TimeOut(w)) \/ Verify \/ TimeOutFinal
  PROVE  StressInv'
<1>1. ASSUME NEW w \in Worker, Work(w) PROVE StressInv'
  <2>1. w \in Client
    BY ClientAssumption
  <2>2. CASE Open(w) \/ Greet(w)
    BY <2>1, <2>2, OpenStep, GreetStep
  <2>3. CASE \E k \in Rec : AskStart(w, k)
    BY <2>3, AskStartStep
  <2>4. CASE HearStart(w) \/ AskGet(w) \/ HearGet(w) \/ AskPut(w) \/ HearPut(w)
    BY <2>4, HearStartStep, AskGetStep, HearGetStep, AskPutStep, HearPutStep
  <2>5. CASE AskCommit(w) \/ HearCommit(w)
    BY <2>5, AskCommitStep, HearCommitStep
  <2>6. CASE AskRollback(w, "rollback", "ROLLBACK") \/ AskRollback(w, "exception", "EXC_ROLLBACK")
    BY <2>6, AskRollbackStep
  <2>7. CASE HearRollback(w)
    BY <2>7, HearRollbackStep
  <2>8. CASE Leave(w)
    <3>1. at[w] = "next" /\ Close(w) /\ At(w, "closed") /\ UNCHANGED <<iter, key, cur, applied, timeouts>>
      BY <2>8 DEF Leave
    <3> QED
      BY <2>1, <3>1, LeaveStep
  <2> QED
    BY <1>1, <2>2, <2>3, <2>4, <2>5, <2>6, <2>7, <2>8 DEF Work
<1>2. ASSUME Verify PROVE StressInv'
  <2>1. Verifier \in Client
    BY ClientAssumption
  <2>2. CASE Open(Verifier) \/ Greet(Verifier)
    BY <2>1, <2>2, OpenStep, GreetStep
  <2>3. CASE CloseFinal
    <3>1. /\ at[Verifier] = "next" /\ Close(Verifier) /\ At(Verifier, "closed")
          /\ UNCHANGED <<iter, key, cur, applied, timeouts>>
      BY <2>3 DEF CloseFinal
    <3> QED
      BY <2>1, <3>1, LeaveStep
  <2>4. CASE \E k \in Rec : AskFinal(k) \/ HearFinal(k)
    BY <2>4, AskFinalStep, HearFinalStep
  <2> QED
    BY <1>2, <2>2, <2>3, <2>4 DEF Verify
<1> QED
  BY <1>1, <1>2, TimeOutStep, TimeOutFinalStep
-----------------------------------------------------------------------------
(* The engine's calls. *)

\* What a call of c's leaves of the other transactions, and of c's own.
OthersTxn(c) == EngineTypeOK' /\ \A d \in Client \ {c} : SameTxn(d)

LEMMA TxnTypes ==
  ASSUME TypesOK, NEW c \in Client
  PROVE  /\ db \in [Rec -> Nat] /\ ctx \in [Client -> TestTxn \cup {NULL}] /\ DOMAIN rc = Client
         /\ ctx[c] # NULL =>
              /\ ctx[c] \in TestTxn /\ ctx[c].copy \in [Rec -> Nat \cup {NULL}]
              /\ ctx[c].wr \in SUBSET Rec /\ ctx[c].stale \in SUBSET Rec
         /\ NULL \notin TestTxn /\ NULL \notin Nat
BY TestNullAssumption DEF TypesOK, EngineTypeOK, TestTxn

\* A call that replaces c's transaction and nothing else.
LEMMA OneTxnChanges ==
  ASSUME TypesOK, NEW c \in Client, NEW x \in TestTxn \cup {NULL},
         ctx' = [ctx EXCEPT ![c] = x], db' = db, DOMAIN rc' = Client
  PROVE  OthersTxn(c) /\ ctx'[c] = x
<1>1. ctx \in [Client -> TestTxn \cup {NULL}] /\ db \in [Rec -> Nat]
  BY TxnTypes
<1>2. ctx' \in [Client -> TestTxn \cup {NULL}] /\ ctx'[c] = x /\ \A d \in Client \ {c} : ctx'[d] = ctx[d]
  BY <1>1
<1> QED
  BY <1>1, <1>2 DEF OthersTxn, EngineTypeOK, SameTxn

LEMMA BeginEffect ==
  ASSUME TypesOK, NEW c \in Client, begin_txn(c)
  PROVE  OthersTxn(c) /\ db' = db /\ ctx'[c] # NULL /\ Fresh(c)'
<1>1. NewTxn \in TestTxn /\ NewTxn # NULL
  BY TestNullAssumption DEF NewTxn, TestTxn
<1>2. ctx' = [ctx EXCEPT ![c] = NewTxn] /\ db' = db /\ DOMAIN rc' = Client
  BY TxnTypes DEF begin_txn, Answer
<1>3. OthersTxn(c) /\ ctx'[c] = NewTxn
  BY <1>1, <1>2, OneTxnChanges
<1> QED
  BY <1>1, <1>2, <1>3 DEF Fresh, Open0, NewTxn

LEMMA AbortEffect ==
  ASSUME TypesOK, NEW c \in Client, abort_txn(c)
  PROVE  OthersTxn(c) /\ db' = db /\ ctx'[c] = NULL
<1>1. ctx' = [ctx EXCEPT ![c] = NULL] /\ db' = db /\ DOMAIN rc' = Client
  BY TxnTypes DEF abort_txn, Answer
<1> QED
  BY <1>1, OneTxnChanges

LEMMA GetEffect ==
  ASSUME TypesOK, NEW c \in Client, NEW k \in Rec, get(c, k)
  PROVE  /\ OthersTxn(c) /\ db' = db /\ ctx'[c] # NULL
         /\ rc'[c] = "OK" =>
              \E n \in Nat : n = value_out(c, k) /\ (Fresh(c) => HasRead(c, k, n)')
<1>1. /\ ctx[c] # NULL /\ db' = db /\ DOMAIN rc' = Client
      /\ db \in [Rec -> Nat] /\ ctx[c] \in TestTxn /\ ctx[c].copy \in [Rec -> Nat \cup {NULL}]
      /\ NULL \notin TestTxn /\ NULL \notin Nat
  BY TxnTypes DEF get, Answer
<1>2. CASE CanUse(c, k)
  <2>1. PICK n \in Nat : n = value_out(c, k)
    BY <1>1 DEF value_out, Used
  <2> DEFINE x == [ctx[c] EXCEPT !.copy = [ctx[c].copy EXCEPT ![k] = n]]
  <2>2. ctx' = [ctx EXCEPT ![c] = x]
    BY <1>1, <1>2, <2>1 DEF get
  <2>3. /\ x \in TestTxn /\ x.wr = ctx[c].wr /\ x.stale = ctx[c].stale
        /\ x.copy = [ctx[c].copy EXCEPT ![k] = n]
    BY <1>1 DEF TestTxn
  <2> HIDE DEF x
  <2>4. OthersTxn(c) /\ ctx'[c] = x
    BY <1>1, <2>2, <2>3, OneTxnChanges
  <2>5. x.copy[k] = n /\ \A j \in Rec \ {k} : x.copy[j] = ctx[c].copy[j]
    BY <1>1, <2>3
  <2>6. ctx'[c] # NULL
    BY <1>1, <2>3, <2>4
  <2>7. ASSUME Fresh(c) PROVE HasRead(c, k, n)'
    <3>1. ctx[c].wr = {} /\ \A j \in Rec : ctx[c].copy[j] = NULL
      BY <2>7 DEF Fresh
    <3>2. n = db[k]
      BY <2>1, <3>1 DEF value_out, Used
    <3>3. x.wr = {} /\ x.copy[k] = n /\ \A j \in Rec \ {k} : x.copy[j] = NULL
      BY <2>3, <2>5, <3>1
    <3> QED
      BY <1>1, <2>4, <2>6, <3>2, <3>3 DEF HasRead, Open0
  <2> QED
    BY <1>1, <2>1, <2>4, <2>6, <2>7
<1>3. CASE ~CanUse(c, k)
  <2>1. ctx' = ctx /\ rc' = [rc EXCEPT ![c] = "NOT_FOUND"]
    BY <1>3 DEF get, Answer
  <2>2. rc'[c] # "OK"
    BY <2>1, TxnTypes
  <2>3. OthersTxn(c)
    <3>1. ctx' = [ctx EXCEPT ![c] = ctx[c]]
      BY <2>1, TxnTypes
    <3>2. PICK x \in TestTxn \cup {NULL} : x = ctx[c]
      BY <1>1
    <3> QED
      BY <1>1, <3>1, <3>2, OneTxnChanges
  <2> QED
    BY <1>1, <2>1, <2>2, <2>3
<1> QED
  BY <1>2, <1>3

LEMMA PutEffect ==
  ASSUME TypesOK, NEW c \in Client, NEW k \in Rec, NEW n \in Nat, put(c, k, n),
         db[k] + 1 <= LARGEST
  PROVE  /\ OthersTxn(c) /\ db' = db /\ ctx'[c] # NULL
         /\ \A m \in Nat : rc'[c] = "OK" /\ HasRead(c, k, m) /\ n = m + 1 => HasWritten(c, k)'
<1>1. /\ ctx[c] # NULL /\ db' = db /\ DOMAIN rc' = Client
      /\ db \in [Rec -> Nat] /\ ctx[c] \in TestTxn /\ ctx[c].copy \in [Rec -> Nat \cup {NULL}]
      /\ ctx[c].wr \in SUBSET Rec
      /\ NULL \notin TestTxn /\ NULL \notin Nat
  BY TxnTypes DEF put, Answer
<1>2. CASE CanUse(c, k)
  <2>0. PICK b \in Nat : b = buffered(n) /\ (n <= LARGEST => b = n)
    BY NumberBuf
  <2> DEFINE y == [ctx[c] EXCEPT !.copy = [ctx[c].copy EXCEPT ![k] = b]]
             x == [y EXCEPT !.wr = ctx[c].wr \cup {k}]
  <2>1. ctx' = [ctx EXCEPT ![c] = x]
    <3>1. ctx' = [ctx EXCEPT ![c].copy[k] = b, ![c].wr = ctx[c].wr \cup {k}]
      BY <1>2, <2>0 DEF put
    <3>2. ctx \in [Client -> TestTxn \cup {NULL}]
      BY TxnTypes
    <3> QED
      BY <3>1, <3>2
  <2>2. /\ y \in TestTxn /\ y.wr = ctx[c].wr /\ y.stale = ctx[c].stale
        /\ y.copy = [ctx[c].copy EXCEPT ![k] = b]
    BY <1>1 DEF TestTxn
  <2>3. /\ x \in TestTxn /\ x.wr = ctx[c].wr \cup {k} /\ x.stale = y.stale /\ x.copy = y.copy
    <3> HIDE DEF y
    <3> QED
      BY <1>1, <2>2 DEF TestTxn
  <2> HIDE DEF x, y
  <2>4. OthersTxn(c) /\ ctx'[c] = x
    BY <1>1, <2>1, <2>3, OneTxnChanges
  <2>5. x.copy[k] = b /\ \A j \in Rec \ {k} : x.copy[j] = ctx[c].copy[j]
    BY <1>1, <2>2, <2>3
  <2>6. ctx'[c] # NULL
    BY <1>1, <2>3, <2>4
  <2>7. ASSUME NEW m \in Nat, HasRead(c, k, m), n = m + 1 PROVE HasWritten(c, k)'
    <3>1. ctx[c].wr = {} /\ (\A j \in Rec \ {k} : ctx[c].copy[j] = NULL)
          /\ (k \notin ctx[c].stale => db[k] = m)
      BY <2>7 DEF HasRead
    <3>2. x.wr = {k} /\ x.stale = ctx[c].stale
      BY <2>2, <2>3, <3>1
    <3>3. k \notin x.stale => x.copy[k] = db[k] + 1
      BY <2>0, <2>5, <2>7, <3>1, <3>2
    <3>4. \A j \in Rec \ {k} : x.copy[j] = NULL
      BY <2>5, <3>1
    <3>5. x.copy[k] \in Nat
      BY <2>5
    <3> QED
      BY <1>1, <2>4, <2>6, <3>2, <3>3, <3>4, <3>5 DEF HasWritten, Open0
  <2> QED
    BY <1>1, <2>4, <2>6, <2>7
<1>3. CASE ~CanUse(c, k)
  <2>1. ctx' = ctx /\ rc' = [rc EXCEPT ![c] = "ERROR"]
    BY <1>3 DEF put, Answer
  <2>2. rc'[c] # "OK"
    BY <2>1, TxnTypes
  <2>3. OthersTxn(c)
    <3>1. ctx' = [ctx EXCEPT ![c] = ctx[c]]
      BY <2>1, TxnTypes
    <3>2. PICK x \in TestTxn \cup {NULL} : x = ctx[c]
      BY <1>1
    <3> QED
      BY <1>1, <3>1, <3>2, OneTxnChanges
  <2> QED
    BY <1>1, <2>1, <2>2, <2>3
<1> QED
  BY <1>2, <1>3

\* The commit of an increment succeeds if the key is not stale, and then makes
\* it stale for all others.
LEMMA CommitEffect ==
  ASSUME TypesOK, NEW c \in Client, commit(c), NEW k \in Rec, HasWritten(c, k)
  PROVE  /\ OthersTxn(c) /\ ctx'[c] = NULL
         /\ \/ rc'[c] = "OK" /\ db' = [db EXCEPT ![k] = db[k] + 1]
            \/ rc'[c] # "OK" /\ db' = db
<1>1. /\ db \in [Rec -> Nat] /\ ctx \in [Client -> TestTxn \cup {NULL}] /\ DOMAIN rc = Client
      /\ NULL \notin TestTxn /\ NULL \notin Nat
  BY TxnTypes
<1>2. /\ ctx[c] # NULL /\ ctx[c].wr = {k} /\ ctx[c].copy[k] \in Nat
      /\ \A j \in Rec \ {k} : ctx[c].copy[j] = NULL
      /\ k \notin ctx[c].stale => ctx[c].copy[k] = db[k] + 1
  BY DEF HasWritten, Open0
<1>3. Used(c) = {k}
  BY <1>1, <1>2 DEF Used
<1>4. rc' = [rc EXCEPT ![c] = IF Valid(c) THEN "OK" ELSE "ABORT"]
  BY DEF commit, Answer
<1>5. /\ db' = IF Valid(c) THEN [p \in Rec |-> IF p \in {k} THEN ctx[c].copy[p] ELSE db[p]] ELSE db
      /\ ctx' = [d \in Client |->
                   IF d = c \/ ctx[d] = NULL THEN NULL
                   ELSE [ctx[d] EXCEPT !.stale = IF Valid(c) THEN @ \cup {k} ELSE @]]
  BY <1>2 DEF commit
<1>6. \/ rc'[c] = "OK" /\ Valid(c) /\ db' = [db EXCEPT ![k] = db[k] + 1]
      \/ rc'[c] # "OK" /\ ~Valid(c) /\ db' = db
  <2>1. CASE Valid(c)
    <3>1. k \notin ctx[c].stale
      BY <1>3, <2>1 DEF Valid
    <3>2. db' = [db EXCEPT ![k] = db[k] + 1]
      BY <1>1, <1>2, <1>5, <2>1, <3>1
    <3> QED
      BY <1>1, <1>4, <2>1, <3>2
  <2>2. CASE ~Valid(c)
    BY <1>1, <1>4, <1>5, <2>2
  <2> QED
    BY <2>1, <2>2
<1>7. ASSUME NEW d \in Client
      PROVE  /\ ctx'[d] \in TestTxn \cup {NULL}
             /\ d # c => SameTxn(d)
  <2>1. CASE d = c \/ ctx[d] = NULL
    BY <1>5, <2>1 DEF SameTxn
  <2>2. CASE ~(d = c \/ ctx[d] = NULL)
    <3> DEFINE st == IF Valid(c) THEN ctx[d].stale \cup {k} ELSE ctx[d].stale
               x == [ctx[d] EXCEPT !.stale = st]
    <3>1. ctx'[d] = x
      BY <1>5, <2>2
    <3>2. ctx[d] \in TestTxn
      BY <1>1, <2>2
    <3>3. st \in SUBSET Rec
      BY <3>2 DEF TestTxn
    <3>4. ctx[d].stale \subseteq st /\ (k \notin st => ~Valid(c))
      OBVIOUS
    <3> HIDE DEF st
    <3>5. x \in TestTxn /\ x.copy = ctx[d].copy /\ x.wr = ctx[d].wr /\ x.stale = st
      BY <3>2, <3>3 DEF TestTxn
    <3> HIDE DEF x
    <3>6. \A j \in Rec : j \notin st => db'[j] = db[j]
      BY <1>1, <1>6, <3>4
    <3> QED
      BY <1>1, <3>1, <3>2, <3>4, <3>5, <3>6 DEF SameTxn
  <2> QED
    BY <2>1, <2>2
<1>8. EngineTypeOK'
  <2>1. ctx' \in [Client -> TestTxn \cup {NULL}]
    <3>1. DOMAIN ctx' = Client /\ ctx' = [d \in Client |-> ctx'[d]]
      BY <1>5
    <3> QED
      BY <1>7, <3>1
  <2>2. db' \in [Rec -> Nat]
    <3>1. db[k] + 1 \in Nat
      BY <1>1
    <3> QED
      BY <1>1, <1>6, <3>1
  <2>3. DOMAIN rc' = Client
    BY <1>1, <1>4
  <2> QED
    BY <2>1, <2>2, <2>3 DEF EngineTypeOK
<1>9. ctx'[c] = NULL
  BY <1>5
<1> QED
  BY <1>6, <1>7, <1>8, <1>9 DEF OthersTxn
-----------------------------------------------------------------------------
(* The server's steps. *)

\* The test's variables, as far as the invariant speaks of them.
LEMMA TestSame ==
  ASSUME TypesOK, UNCHANGED testVars
  PROVE  /\ TestTypeOK' /\ timeouts' >= timeouts /\ timeouts' \in Nat
         /\ \A d \in Client : SameTest(d)
         /\ UNCHANGED <<at, iter, key, cur, applied, timeouts>>
<1>1. UNCHANGED <<at, iter, key, cur, applied, timeouts>>
  BY DEF testVars
<1>2. TestTypeOK' /\ timeouts \in Nat
  BY <1>1 DEF TypesOK, TestTypeOK
<1> QED
  BY <1>1, <1>2 DEF SameTest

\* A step of c's thread.
LEMMA ServerSuffices ==
  ASSUME StressInv, NEW c \in Client, UNCHANGED testVars,
         OthersTxn(c), ServerTypeOK', \A d \in Client \ {c} : SameServer(d),
         inbox'[c] = inbox[c] \/ (inbox[c] # <<>> /\ inbox'[c] = Tail(inbox[c])),
         in_txn'[c] <=> ctx'[c] # NULL, c = Verifier => ~in_txn'[c], StepOK(c)'
  PROVE  TypesOK' /\ StepsOK' /\ OthersStay(c)
<1>1. /\ TypesOK /\ StepsOK /\ TestTypeOK' /\ timeouts' >= timeouts
      /\ \A d \in Client : SameTest(d)
      /\ UNCHANGED <<at, iter, key, cur, applied, timeouts>>
  BY TestSame DEF StressInv
<1>2. OthersStay(c)
  BY <1>1 DEF OthersStay, Undisturbed, OthersTxn
<1>3. c \in Worker => TurnOK(c)'
  BY <1>1 DEF TypesOK, TurnOK
<1>4. c = Verifier => VerifierOK'
  <2>1. inbox[c] \in Seq(TestLines)
    BY <1>1 DEF TypesOK, ServerTypeOK
  <2> QED
    BY <1>1, <2>1, GetsStay DEF TypesOK, VerifierOK
<1> QED
  BY <1>1, <1>2, <1>3, <1>4, StepSuffices DEF OthersTxn

\* One that writes no record.
LEMMA ServerCounts ==
  ASSUME StressInv, NEW c \in Client, UNCHANGED testVars, db' = db, OthersStay(c),
         \A k \in Rec : Counted(c, k)' <=> Counted(c, k),
         AsksCommit(inbox'[c]) => AsksCommit(inbox[c])
  PROVE  CountsOK'
<1>1. /\ TypesOK /\ TestTypeOK' /\ timeouts' >= timeouts
      /\ UNCHANGED <<at, iter, key, cur, applied, timeouts>>
  BY TestSame DEF StressInv
<1>2. c \in Worker => CountStays(c)
  <2> SUFFICES ASSUME c \in Worker PROVE CountStays(c)
    OBVIOUS
  <2>1. TurnsOf(c) \in Nat /\ TurnsOf(c)' = TurnsOf(c)
    <3>1. TurnsOf(c) \in Nat
      BY <1>1, TurnsOfType
    <3> QED
      BY <1>1, <3>1, Zenon DEF TurnsOf
  <2>2. TurnsOf(c) <= TurnsOf(c)'
    BY <2>1
  <2> QED
    BY <2>2 DEF CountStays
<1> QED
  BY <1>1, <1>2, CountsSuffice DEF StressInv

\* The greeting is on its way.
LEMMA AcceptStep ==
  ASSUME StressInv, NEW c \in Client, UNCHANGED testVars, Accept(c)
  PROVE  StressInv'
<1>1. /\ peer[c] # "none" /\ thread[c] = "none"
      /\ thread' = [thread EXCEPT ![c] = "serving"]
      /\ reply' = [reply EXCEPT ![c] = Say("WELCOME")]
      /\ UNCHANGED <<db, ctx, rc, peer, inbox, outbox, in_txn>>
  BY DEF Accept, apiVars
<1>2. TypesOK /\ ServerTypeOK /\ EngineTypeOK /\ CommitOK(c) /\ StepOK(c)
  BY DEF StressInv, StepsOK, StepOK, TypesOK
<1>3. Say("WELCOME") \in Replies /\ Say("WELCOME") # NULL
  BY ReplyFacts DEF ReplyTexts
<1>4. /\ thread'[c] = "serving" /\ reply'[c] = Say("WELCOME") /\ ServerTypeOK'
      /\ \A d \in Client \ {c} : SameServer(d)
  BY <1>1, <1>2, <1>3 DEF ServerTypeOK, SameServer
<1>5. OthersTxn(c) /\ SameEngine
  <2>1. SameEngine
    BY <1>1, <1>2 DEF SameEngine, EngineTypeOK
  <2> QED
    BY <1>2, <2>1, EngineStays DEF OthersTxn
<1>6. UNCHANGED <<at, iter, key, cur, applied, timeouts>>
  BY <1>2, TestSame
<1>7. CommitOK(c)'
  BY <1>1, <1>2, <1>5, CommitStays
<1>8. ASSUME Aligned(c) PROVE Aligned(c)'
  <2>1. at[c] = "greeting" /\ ~in_txn[c] /\ peer[c] = "open" /\ inbox[c] = <<>> /\ Unaccepted(c)
    BY <1>1, <1>8 DEF Aligned, Quiet, Sent, Answered, Serving
  <2>2. Answered(c, Say("WELCOME"))'
    BY <1>1, <1>4, <2>1 DEF Answered, Serving, Unaccepted
  <2> QED
    BY <1>1, <1>6, <2>1, <2>2 DEF Aligned
<1>9. ASSUME Strayed(c) PROVE Strayed(c)'
  <2>1. c \in Worker /\ timeouts > 0 /\ peer[c] = "open" /\ Unaccepted(c)
    BY <1>1, <1>9 DEF Strayed
  <2>2. PICK z \in Seq(Kind) : Kinds(Answers(c), inbox[c], in_txn[c], z) /\ StrayedAt(at[c], z)
    BY <1>9 DEF Strayed
  <2>3. Answers(c)' = Answers(c)
    <3>1. Answers(c) = outbox[c] \o <<Say("WELCOME")>>
      BY <1>1 DEF Answers
    <3>2. outbox'[c] = outbox[c] /\ thread'[c] # "none" /\ reply'[c] # NULL
      BY <1>1, <1>3, <1>4
    <3>3. Answers(c)' = outbox'[c] \o <<reply'[c]>>
      BY <3>2 DEF Answers
    <3> QED
      BY <1>4, <3>1, <3>2, <3>3
  <2> QED
    BY <1>1, <1>4, <1>6, <2>1, <2>2, <2>3 DEF Strayed
<1>10. (Gone(c) => Gone(c)') /\ (Adrift(c) => Adrift(c)')
  BY <1>1, <1>4, <1>6 DEF Gone, Adrift
<1>11. StepOK(c)'
  BY <1>2, <1>7, <1>8, <1>9, <1>10 DEF StepOK
<1>12. TypesOK' /\ StepsOK' /\ OthersStay(c)
  <2>1. (in_txn'[c] <=> ctx'[c] # NULL) /\ (c = Verifier => ~in_txn'[c])
    BY <1>1, <1>2 DEF TypesOK, VerifierOK
  <2> QED
    BY <1>1, <1>4, <1>5, <1>11, <2>1, ServerSuffices
<1>13. CountsOK'
  <2>1. ASSUME NEW k \in Rec PROVE ~Counted(c, k) /\ ~Counted(c, k)'
    <3>1. ~Serving(c)
      BY <1>1 DEF Serving
    <3>2. Say("WELCOME") # Say("OK COMMIT")
      <4>1. Say("WELCOME").text = "WELCOME" /\ Say("OK COMMIT").text = "OK COMMIT"
        BY DEF Say, Reply
      <4> QED
        BY <4>1
    <3> QED
      BY <1>3, <1>4, <3>1, <3>2 DEF Counted, Answered
  <2>2. AsksCommit(inbox'[c]) => AsksCommit(inbox[c])
    BY <1>1
  <2> QED
    BY <1>1, <1>12, <2>1, <2>2, ServerCounts
<1> QED
  BY <1>12, <1>13 DEF StressInv

\* A reply is sent.
LEMMA SendReplyStep ==
  ASSUME StressInv, NEW c \in Client, UNCHANGED testVars, SendReply(c)
  PROVE  StressInv'
<1>1. /\ thread[c] = "serving" /\ reply[c] # NULL
      /\ reply' = [reply EXCEPT ![c] = NULL]
      /\ \/ peer[c] = "open" /\ outbox' = [outbox EXCEPT ![c] = Append(outbox[c], reply[c])]
         \/ peer[c] # "open" /\ outbox' = outbox
      /\ thread' = [thread EXCEPT ![c] = IF reply[c].text = "BYE" THEN "ended" ELSE "serving"]
      /\ UNCHANGED <<db, ctx, rc, peer, inbox, in_txn>>
  BY DEF SendReply, apiVars
<1>2. TypesOK /\ ServerTypeOK /\ EngineTypeOK /\ CommitOK(c) /\ StepOK(c)
  BY DEF StressInv, StepsOK, StepOK, TypesOK
<1>3. PICK r \in Replies : r = reply[c] /\ r # NULL
  BY <1>1, <1>2 DEF ServerTypeOK
<1>4. r.text # "BYE"
  BY DEF Replies, ReplyTexts
<1>5. PICK s \in Seq(Replies) : s = outbox[c]
  BY <1>2 DEF ServerTypeOK
<1>6. Append(s, r) \in Seq(Replies) /\ Append(s, r) = s \o <<r>> /\ Append(s, r) \o <<>> = Append(s, r)
  OBVIOUS
<1>7. outbox' \in [Client -> Seq(Replies)] /\ \A d \in Client \ {c} : outbox'[d] = outbox[d]
  BY <1>1, <1>2, <1>3, <1>5, <1>6 DEF ServerTypeOK
<1>8. /\ thread'[c] = "serving" /\ reply'[c] = NULL
      /\ peer[c] = "open" => outbox'[c] = Append(s, r)
      /\ peer[c] # "open" => outbox'[c] = outbox[c]
  BY <1>1, <1>2, <1>3, <1>4, <1>5 DEF ServerTypeOK
<1>9. ServerTypeOK' /\ \A d \in Client \ {c} : SameServer(d)
  BY <1>1, <1>2, <1>3, <1>4, <1>7 DEF ServerTypeOK, SameServer
<1>10. OthersTxn(c) /\ SameEngine
  <2>1. SameEngine
    BY <1>1, <1>2 DEF SameEngine, EngineTypeOK
  <2> QED
    BY <1>2, <2>1, EngineStays DEF OthersTxn
<1>11. UNCHANGED <<at, iter, key, cur, applied, timeouts>>
  BY <1>2, TestSame
<1>12. CommitOK(c)'
  BY <1>1, <1>2, <1>10, CommitStays
<1>13. /\ \A a \in Replies : Answered(c, a) <=> Answered(c, a)'
       /\ ~Quiet(c) /\ ~Unaccepted(c) /\ \A line : ~Sent(c, line)
  <2>1. ~Quiet(c) /\ ~Unaccepted(c) /\ \A line : ~Sent(c, line)
    BY <1>1 DEF Quiet, Unaccepted, Sent
  <2>2. ASSUME NEW a \in Replies PROVE Answered(c, a) <=> Answered(c, a)'
    <3>1. CASE peer[c] = "open"
      <4>1. Append(s, r) = <<a>> <=> s = <<>> /\ r = a
        <5>1. /\ Len(s) \in Nat /\ (Len(s) = 0 <=> s = <<>>)
              /\ Len(Append(s, r)) = Len(s) + 1 /\ Append(s, r)[Len(s) + 1] = r
          OBVIOUS
        <5>2. Len(<<a>>) = 1 /\ <<a>>[1] = a
          OBVIOUS
        <5>3. ASSUME Append(s, r) = <<a>> PROVE s = <<>> /\ r = a
          <6>1. Len(s) + 1 = 1
            BY <5>1, <5>2, <5>3
          <6>2. Len(s) = 0
            BY <5>1, <6>1
          <6> QED
            BY <5>1, <5>2, <5>3, <6>2
        <5>4. s = <<>> /\ r = a => Append(s, r) = <<a>>
          OBVIOUS
        <5> QED
          BY <5>3, <5>4
      <4>2. Answered(c, a) <=> inbox[c] = <<>> /\ r = a /\ s = <<>>
        BY <1>1, <1>3, <1>5, <3>1 DEF Answered, Serving
      <4>3. a # NULL
        BY ReplyFacts
      <4>4. Answered(c, a)' <=> inbox[c] = <<>> /\ Append(s, r) = <<a>>
        BY <1>1, <1>8, <3>1, <4>3 DEF Answered, Serving
      <4> QED
        BY <4>1, <4>2, <4>4
    <3>2. CASE peer[c] # "open"
      BY <1>1, <3>2 DEF Answered, Serving
    <3> QED
      BY <3>1, <3>2
  <2> QED
    BY <2>1, <2>2
<1>14. ASSUME Aligned(c) PROVE Aligned(c)'
  <2>2. /\ Fresh(c) => Fresh(c)'
        /\ \A k \in Rec, n \in Nat : HasRead(c, k, n) => HasRead(c, k, n)'
        /\ \A k \in Rec : HasWritten(c, k) => HasWritten(c, k)'
    BY <1>2, <1>10, TxnSame
  <2>3. at'[c] = at[c] /\ key' = key /\ cur' = cur /\ peer'[c] = peer[c] /\ in_txn'[c] = in_txn[c]
    BY <1>1, <1>11
  <2>4. /\ Say("WELCOME") \in Replies /\ Reply("OK TXN", TxnNo) \in Replies
        /\ Say("ERR TXN_ALREADY_STARTED") \in Replies /\ Say("ERR NOT_FOUND") \in Replies
        /\ Say("ERR NO_ACTIVE_TXN") \in Replies /\ Say("OK") \in Replies
        /\ Say("ERR PUT_FAIL") \in Replies /\ Say("OK COMMIT") \in Replies
        /\ Say("ERR ABORT") \in Replies /\ Say("ERR BAD_CMD") \in Replies
        /\ \A n \in Nat : Reply("OK VALUE", n) \in Replies
    BY ReplyKinds
  <2>5. \A a \in Replies : Answered(c, a) => Answered(c, a)'
    BY <1>13
  <2>6. c \in Worker \/ c = Verifier
    BY ClientAssumption
  <2>7. CASE at[c] = "greeting"
    BY <1>13, <1>14, <2>3, <2>4, <2>5, <2>7 DEF Aligned
  <2>8. CASE at[c] = "START"
    BY <1>13, <1>14, <2>2, <2>3, <2>4, <2>5, <2>8 DEF Aligned
  <2>9. CASE at[c] = "GET" /\ c \in Worker
    <3>1. PICK k \in Rec : k = key[c] /\ k = key'[c]
      BY <1>2, <2>3, <2>9 DEF TypesOK, TurnOK, InTurn
    <3>2. \/ \E n \in Nat : Answered(c, Reply("OK VALUE", n)) /\ HasRead(c, key[c], n)
          \/ Answered(c, Say("ERR NOT_FOUND"))
      BY <1>13, <1>14, <2>9, ClientAssumption DEF Aligned
    <3>3. \/ \E n \in Nat : Answered(c, Reply("OK VALUE", n))' /\ HasRead(c, k, n)'
          \/ Answered(c, Say("ERR NOT_FOUND"))'
      BY <2>2, <2>4, <2>5, <3>1, <3>2
    <3> QED
      BY <2>3, <2>9, <3>1, <3>3 DEF Aligned
  <2>10. CASE at[c] = "GET" /\ c = Verifier
    BY <1>13, <1>14, <2>3, <2>4, <2>5, <2>10, ClientAssumption DEF Aligned
  <2>11. CASE at[c] \in {"PUT", "COMMIT"}
    <3>1. c \in Worker /\ key[c] \in Rec
      BY <1>2, <2>6, <2>11 DEF TypesOK, VerifierOK, TurnOK, InTurn
    <3>2. HasWritten(c, key[c]) => HasWritten(c, key[c])'
      BY <2>2, <2>3, <3>1
    <3> QED
      BY <1>13, <1>14, <2>3, <2>4, <2>5, <2>11, <3>2 DEF Aligned
  <2>12. CASE at[c] = "ROLLBACK"
    BY <1>13, <1>14, <2>3, <2>4, <2>5, <2>12 DEF Aligned
  <2> QED
    BY <1>13, <1>14, <2>6, <2>7, <2>8, <2>9, <2>10, <2>11, <2>12 DEF Aligned
<1>15. ASSUME Strayed(c) PROVE Strayed(c)'
  <2>1. c \in Worker /\ timeouts > 0 /\ peer[c] = "open"
    BY <1>15 DEF Strayed
  <2>2. PICK z \in Seq(Kind) : Kinds(Answers(c), inbox[c], in_txn[c], z) /\ StrayedAt(at[c], z)
    BY <1>15 DEF Strayed
  <2>3. Answers(c)' = Answers(c)
    <3>1. Answers(c) = s \o <<r>>
      BY <1>1, <1>3, <1>5 DEF Answers
    <3>2. Answers(c)' = Append(s, r) \o <<>>
      BY <1>8, <2>1 DEF Answers
    <3> QED
      BY <1>6, <3>1, <3>2
  <2> QED
    BY <1>1, <1>8, <1>11, <2>1, <2>2, <2>3 DEF Strayed
<1>16. (Gone(c) => Gone(c)') /\ (Adrift(c) => Adrift(c)')
  BY <1>1, <1>8, <1>11 DEF Gone, Adrift
<1>17. StepOK(c)'
  BY <1>2, <1>12, <1>14, <1>15, <1>16 DEF StepOK
<1>18. TypesOK' /\ StepsOK' /\ OthersStay(c)
  <2>1. (in_txn'[c] <=> ctx'[c] # NULL) /\ (c = Verifier => ~in_txn'[c])
    BY <1>1, <1>2 DEF TypesOK, VerifierOK
  <2> QED
    BY <1>1, <1>9, <1>10, <1>17, <2>1, ServerSuffices
<1>19. CountsOK'
  <2>1. \A k \in Rec : Counted(c, k)' <=> Counted(c, k)
    <3>1. Say("OK COMMIT") \in Replies
      BY ReplyKinds
    <3> QED
      BY <1>11, <1>13, <3>1 DEF Counted
  <2>2. AsksCommit(inbox'[c]) => AsksCommit(inbox[c])
    BY <1>1
  <2> QED
    BY <1>1, <1>18, <2>1, <2>2, ServerCounts
<1> QED
  BY <1>18, <1>19 DEF StressInv

\* Nothing that the invariant speaks of changes.
LEMMA StillStep ==
  ASSUME StressInv, UNCHANGED testVars,
         UNCHANGED <<apiVars, peer, inbox, outbox, thread, in_txn, reply>>
  PROVE  StressInv'
<1>1. /\ TypesOK /\ StepsOK /\ TestTypeOK' /\ timeouts' >= timeouts /\ timeouts' \in Nat
      /\ \A d \in Client : SameTest(d)
      /\ UNCHANGED <<at, iter, key, cur, applied, timeouts>>
  BY TestSame DEF StressInv
<1>2. UNCHANGED <<db, ctx, rc>> /\ SameEngine
  BY <1>1 DEF apiVars, SameEngine, TypesOK, EngineTypeOK
<1>3. EngineTypeOK' /\ \A d \in Client : SameTxn(d) /\ SameServer(d)
  BY <1>1, <1>2, EngineStays DEF SameServer
<1>4. ServerTypeOK'
  BY <1>1 DEF TypesOK, ServerTypeOK
<1>5. OthersStay(Verifier) /\ Verifier \in Client /\ Verifier \notin Worker /\ Undisturbed(Verifier)
  BY <1>1, <1>3, ClientAssumption DEF OthersStay, Undisturbed
<1>6. StepOK(Verifier)'
  <2>1. StepOK(Verifier)
    BY <1>1, <1>5 DEF StepsOK, StepOK
  <2> QED
    BY <1>1, <1>5, <2>1, UndisturbedStays
<1>7. (in_txn'[Verifier] <=> ctx'[Verifier] # NULL) /\ ~in_txn'[Verifier]
  BY <1>1, <1>2, <1>5 DEF TypesOK, VerifierOK
<1>8. TypesOK' /\ StepsOK'
  BY <1>1, <1>3, <1>4, <1>5, <1>6, <1>7, ServerSuffices DEF OthersTxn
<1>9. CountsOK'
  BY <1>1, <1>2, <1>5, CountsSuffice DEF StressInv
<1> QED
  BY <1>8, <1>9 DEF StressInv

\* The peer is gone; the thread ends.
LEMMA DisconnectStep ==
  ASSUME StressInv, NEW c \in Client, UNCHANGED testVars, Disconnect(c)
  PROVE  StressInv'
<1>1. /\ thread[c] = "serving" /\ reply[c] = NULL
      /\ IF inbox[c] = <<>> THEN peer[c] = "closed" ELSE TooLong(Head(inbox[c]))
      /\ AbortOpen(c)
      /\ thread' = [thread EXCEPT ![c] = "ended"]
      /\ UNCHANGED <<peer, inbox, outbox, reply>>
  BY DEF Disconnect
<1>2. TypesOK /\ ServerTypeOK /\ EngineTypeOK /\ CommitOK(c) /\ StepOK(c)
  BY DEF StressInv, StepsOK, StepOK, TypesOK
<1>3. inbox[c] = <<>> /\ peer[c] = "closed"
  <2>1. inbox[c] # <<>> => Head(inbox[c]) \in TestLines
    <3>1. inbox[c] \in Seq(TestLines)
      BY <1>2 DEF ServerTypeOK
    <3> QED
      BY <3>1
  <2> QED
    BY <1>1, <2>1, TestLinesFit
<1>4. /\ OthersTxn(c) /\ db' = db /\ ctx'[c] = NULL
      /\ in_txn' = [in_txn EXCEPT ![c] = FALSE]
  <2>1. CASE in_txn[c]
    BY <1>1, <1>2, <2>1, AbortEffect DEF AbortOpen
  <2>2. CASE ~in_txn[c]
    <3>1. UNCHANGED <<db, ctx, rc>> /\ in_txn' = [in_txn EXCEPT ![c] = FALSE]
      BY <1>1, <2>2 DEF AbortOpen, apiVars
    <3>2. SameEngine
      BY <1>2, <3>1 DEF SameEngine, EngineTypeOK
    <3>3. ctx[c] = NULL
      BY <1>2, <2>2 DEF TypesOK
    <3> QED
      BY <1>2, <3>1, <3>2, <3>3, EngineStays DEF OthersTxn
  <2> QED
    BY <2>1, <2>2
<1>5. ServerTypeOK' /\ in_txn'[c] = FALSE /\ \A d \in Client \ {c} : SameServer(d)
  BY <1>1, <1>2, <1>4 DEF ServerTypeOK, SameServer
<1>6. UNCHANGED <<at, iter, key, cur, applied, timeouts>>
  BY <1>2, TestSame
<1>7. StepOK(c)'
  <2>1. Gone(c)
    BY <1>1, <1>2, <1>3
      DEF StepOK, Aligned, Unaccepted, Quiet, Sent, Answered, Serving, Strayed, Adrift
  <2>2. Gone(c)'
    BY <1>1, <1>6, <2>1 DEF Gone
  <2>3. CommitOK(c)'
    BY <1>1, <1>3 DEF CommitOK
  <2> QED
    BY <2>2, <2>3 DEF StepOK
<1>8. TypesOK' /\ StepsOK' /\ OthersStay(c)
  BY <1>1, <1>4, <1>5, <1>7, ServerSuffices
<1>9. CountsOK'
  <2>1. ASSUME NEW k \in Rec PROVE ~Counted(c, k) /\ ~Counted(c, k)'
    BY <1>1, <1>3 DEF Counted, Answered, Serving
  <2>2. AsksCommit(inbox'[c]) => AsksCommit(inbox[c])
    BY <1>1
  <2> QED
    BY <1>4, <1>8, <2>1, <2>2, ServerCounts
<1> QED
  BY <1>8, <1>9 DEF StressInv
-----------------------------------------------------------------------------
(* A line is served. *)

\* What a client in step has sent.
LEMMA AlignedLine ==
  ASSUME TypesOK, NEW c \in Client, Aligned(c), inbox[c] # <<>>
  PROVE  LET line == Head(inbox[c]) IN
         /\ Sent(c, line)
         /\ \/ at[c] = "START" /\ line = <<"START">>
            \/ at[c] = "GET" /\ c \in Worker /\ line = <<"GET", SP, key[c]>> /\ Fresh(c)
            \/ at[c] = "GET" /\ c = Verifier /\ \E k \in Rec : line = <<"GET", SP, k>>
            \/ at[c] = "PUT" /\ line = <<"PUT", SP, key[c], SP, cur[c] + 1>>
               /\ HasRead(c, key[c], cur[c])
            \/ at[c] = "COMMIT" /\ line = <<"COMMIT">> /\ HasWritten(c, key[c])
            \/ at[c] = "ROLLBACK" /\ line = <<"ROLLBACK">>
<1>1. ~Quiet(c) /\ \A r : ~Answered(c, r)
  BY DEF Quiet, Answered
<1>2. ASSUME NEW text, Sent(c, text) PROVE Head(inbox[c]) = text
  <2>1. Head(<<text>>) = text
    OBVIOUS
  <2> QED
    BY <1>2, <2>1 DEF Sent
<1>3. CASE at[c] = "START"
  BY <1>1, <1>2, <1>3 DEF Aligned
<1>4. CASE at[c] = "GET" /\ c \in Worker
  BY <1>1, <1>2, <1>4, ClientAssumption DEF Aligned
<1>5. CASE at[c] = "GET" /\ c = Verifier
  BY <1>1, <1>2, <1>5, ClientAssumption DEF Aligned
<1>6. CASE at[c] = "PUT"
  BY <1>1, <1>2, <1>6 DEF Aligned
<1>7. CASE at[c] \in {"COMMIT", "ROLLBACK"}
  BY <1>1, <1>2, <1>7 DEF Aligned
<1> QED
  BY <1>1, <1>3, <1>4, <1>5, <1>6, <1>7, ClientAssumption DEF Aligned

\* What the answer r does to the sides of the connection.
LEMMA AnsweredNext ==
  ASSUME TypesOK, NEW c \in Client, NextLine(c), NEW r \in Replies, AnswerWith(c, r),
         NEW b \in BOOLEAN, in_txn' = [in_txn EXCEPT ![c] = b]
  PROVE  /\ ServerTypeOK' /\ \A d \in Client \ {c} : SameServer(d)
         /\ inbox[c] # <<>> /\ thread[c] = "serving" /\ in_txn'[c] = b
         /\ inbox'[c] = Tail(inbox[c]) /\ peer'[c] = peer[c] /\ outbox'[c] = outbox[c]
         /\ thread'[c] = "serving" /\ reply'[c] = r
         /\ Answers(c)' = Append(Answers(c), r)
         /\ \A line : Sent(c, line) => Answered(c, r)'
         /\ \A s : ~Answered(c, s)
         /\ \A s : Answered(c, s)' => s = r
<1>1. /\ thread[c] = "serving" /\ reply[c] = NULL /\ inbox[c] # <<>>
      /\ inbox' = [inbox EXCEPT ![c] = Tail(inbox[c])]
      /\ UNCHANGED <<peer, outbox, thread>> /\ reply' = [reply EXCEPT ![c] = r]
  BY DEF NextLine, AnswerWith
<1>2. ServerTypeOK
  BY DEF TypesOK
<1>3. inbox[c] \in Seq(TestLines) /\ Tail(inbox[c]) \in Seq(TestLines)
  <2>1. inbox[c] \in Seq(TestLines)
    BY <1>2 DEF ServerTypeOK
  <2> QED
    BY <1>1, <2>1
<1>4. /\ inbox'[c] = Tail(inbox[c]) /\ inbox' \in [Client -> Seq(TestLines)]
      /\ \A d \in Client \ {c} : inbox'[d] = inbox[d]
  BY <1>1, <1>2, <1>3 DEF ServerTypeOK
<1>5. /\ reply'[c] = r /\ in_txn'[c] = b /\ reply' \in [Client -> Replies \cup {NULL}]
      /\ in_txn' \in [Client -> BOOLEAN]
      /\ \A d \in Client \ {c} : reply'[d] = reply[d] /\ in_txn'[d] = in_txn[d]
  BY <1>1, <1>2 DEF ServerTypeOK
<1>6. ServerTypeOK' /\ \A d \in Client \ {c} : SameServer(d)
  BY <1>1, <1>2, <1>4, <1>5 DEF ServerTypeOK, SameServer
<1>7. r # NULL
  BY ReplyFacts
<1>8. Answers(c)' = Append(Answers(c), r)
  <2>1. PICK s \in Seq(Replies) : s = outbox[c]
    BY <1>2 DEF ServerTypeOK
  <2>2. s \o <<>> = s /\ s \o <<r>> = Append(s, r)
    OBVIOUS
  <2>3. Answers(c) = s \o <<>>
    BY <1>1, <2>1 DEF Answers
  <2>4. outbox'[c] = s /\ thread'[c] # "none" /\ reply'[c] # NULL
    BY <1>1, <1>5, <1>7, <2>1
  <2>5. Answers(c)' = s \o <<reply'[c]>>
    BY <2>4 DEF Answers
  <2> QED
    BY <1>5, <2>2, <2>3, <2>5
<1>9. ASSUME NEW line, Sent(c, line) PROVE Answered(c, r)'
  <2>1. Tail(<<line>>) = <<>>
    OBVIOUS
  <2> QED
    BY <1>1, <1>4, <1>5, <1>9, <2>1 DEF Sent, Answered, Serving
<1>10. ASSUME NEW s PROVE ~Answered(c, s) /\ (Answered(c, s)' => s = r)
  BY <1>1, <1>5, <1>7 DEF Answered
<1> QED
  BY <1>1, <1>4, <1>5, <1>6, <1>8, <1>9, <1>10

\* The same, by the line's command.
LEMMA AlignedCommand ==
  ASSUME TypesOK, NEW c \in Client, Aligned(c), inbox[c] # <<>>
  PROVE  LET line == Head(inbox[c]) IN
         /\ Sent(c, line) /\ (c = Verifier => line[1] = "GET")
         /\ line[1] = "START" => at[c] = "START"
         /\ line[1] = "GET" =>
              at[c] = "GET" /\ (c \in Worker => line = <<"GET", SP, key[c]>> /\ Fresh(c))
         /\ line[1] = "PUT" =>
              /\ at[c] = "PUT" /\ line = <<"PUT", SP, key[c], SP, cur[c] + 1>>
              /\ HasRead(c, key[c], cur[c])
         /\ line[1] = "COMMIT" => at[c] = "COMMIT" /\ HasWritten(c, key[c])
         /\ line[1] = "ROLLBACK" => at[c] = "ROLLBACK"
<1>1. PICK line : line = Head(inbox[c])
  OBVIOUS
<1>2. /\ Sent(c, line)
      /\ \/ at[c] = "START" /\ line = <<"START">>
         \/ at[c] = "GET" /\ c \in Worker /\ line = <<"GET", SP, key[c]>> /\ Fresh(c)
         \/ at[c] = "GET" /\ c = Verifier /\ \E k \in Rec : line = <<"GET", SP, k>>
         \/ at[c] = "PUT" /\ line = <<"PUT", SP, key[c], SP, cur[c] + 1>>
            /\ HasRead(c, key[c], cur[c])
         \/ at[c] = "COMMIT" /\ line = <<"COMMIT">> /\ HasWritten(c, key[c])
         \/ at[c] = "ROLLBACK" /\ line = <<"ROLLBACK">>
  BY <1>1, AlignedLine
<1>3. c = Verifier => c \notin Worker /\ at[c] \in {"new", "greeting", "next", "GET", "closed"}
  BY ClientAssumption DEF TypesOK, VerifierOK
<1>4. /\ \A k : <<"GET", SP, k>>[1] = "GET"
      /\ \A k, n : <<"PUT", SP, k, SP, n>>[1] = "PUT"
      /\ <<"START">>[1] = "START" /\ <<"COMMIT">>[1] = "COMMIT" /\ <<"ROLLBACK">>[1] = "ROLLBACK"
  OBVIOUS
<1>5. \/ at[c] = "START" /\ line[1] = "START"
      \/ at[c] = "GET" /\ line[1] = "GET" /\ (c \in Worker => line = <<"GET", SP, key[c]>> /\ Fresh(c))
      \/ /\ at[c] = "PUT" /\ line[1] = "PUT" /\ line = <<"PUT", SP, key[c], SP, cur[c] + 1>>
         /\ HasRead(c, key[c], cur[c])
      \/ at[c] = "COMMIT" /\ line[1] = "COMMIT" /\ HasWritten(c, key[c])
      \/ at[c] = "ROLLBACK" /\ line[1] = "ROLLBACK"
  BY <1>2, <1>3, <1>4
<1> QED
  BY <1>1, <1>2, <1>3, <1>5

\* The answer r, whatever the client's state.
LEMMA AnswerSuffices ==
  ASSUME StressInv, NEW c \in Client, UNCHANGED testVars, NextLine(c),
         NEW r \in Replies, AnswerWith(c, r),
         NEW b \in BOOLEAN, in_txn' = [in_txn EXCEPT ![c] = b], b <=> ctx'[c] # NULL,
         OthersTxn(c), NEW line, line = Head(inbox[c]),
         \/ line[1] = "START" /\ b /\ c # Verifier
         \/ line = <<"COMMIT">> /\ ~b
         \/ line[1] \notin {"START", "COMMIT"} /\ b = in_txn[c],
         \A x \in Kind : AsksKind(inbox[c], in_txn[c], 1, x) => IsOfKind(r, x),
         Aligned(c) => Aligned(c)'
  PROVE  TypesOK' /\ StepsOK' /\ OthersStay(c) /\ ~AsksCommit(inbox'[c])
<1>1. TypesOK /\ CommitOK(c) /\ StepOK(c) /\ in_txn[c] \in BOOLEAN /\ inbox[c] \in Seq(TestLines)
  BY DEF StressInv, StepsOK, StepOK, TypesOK, ServerTypeOK
<1>2. /\ ServerTypeOK' /\ \A d \in Client \ {c} : SameServer(d)
      /\ inbox[c] # <<>> /\ thread[c] = "serving" /\ in_txn'[c] = b
      /\ inbox'[c] = Tail(inbox[c]) /\ peer'[c] = peer[c] /\ outbox'[c] = outbox[c]
      /\ thread'[c] = "serving" /\ reply'[c] = r
      /\ Answers(c)' = Append(Answers(c), r)
  BY <1>1, AnsweredNext
<1>3. UNCHANGED <<at, iter, key, cur, applied, timeouts>>
  BY <1>1, TestSame
<1>4. PICK lines \in Seq(TestLines) : lines = inbox[c] /\ lines # <<>>
  BY <1>1, <1>2
<1>5. lines[1] = line
  BY <1>4
<1>6. \A j \in 1..Len(lines) : lines[j] = <<"COMMIT">> => j = 1
  BY <1>1, <1>4 DEF CommitOK
<1>7. \A j \in 1..Len(Tail(lines)) : Tail(lines)[j] # <<"COMMIT">>
  <2> SUFFICES ASSUME NEW j \in 1..Len(Tail(lines)) PROVE Tail(lines)[j] # <<"COMMIT">>
    OBVIOUS
  <2>1. /\ Len(lines) \in Nat /\ Len(Tail(lines)) = Len(lines) - 1
        /\ \A i \in 1..(Len(lines) - 1) : Tail(lines)[i] = lines[i + 1]
    BY <1>4
  <2>2. j + 1 \in 1..Len(lines) /\ j + 1 # 1 /\ Tail(lines)[j] = lines[j + 1]
    BY <2>1
  <2> QED
    BY <1>6, <2>2
<1>8. CommitOK(c)' /\ ~AsksCommit(inbox'[c])
  BY <1>2, <1>4, <1>7 DEF CommitOK, AsksCommit
<1>9. ASSUME Strayed(c) PROVE Strayed(c)'
  <2>1. PICK z \in Seq(Kind) : Kinds(Answers(c), inbox[c], in_txn[c], z) /\ StrayedAt(at[c], z)
    BY <1>9 DEF Strayed
  <2>2. PICK given \in Seq(Replies) : given = Answers(c)
    BY <1>1, AnswersType
  <2>3. Kinds(given, lines, in_txn[c], z)
    BY <1>4, <2>1, <2>2
  <2>4. IsOfKind(r, z[Len(given) + 1])
    <3>1. Len(given) \in Nat /\ Len(lines) \in Nat \ {0} /\ Len(z) = Len(given) + Len(lines)
      BY <1>4, <2>3 DEF Kinds
    <3>2. 1 \in 1..Len(lines) /\ Len(given) + 1 \in 1..Len(z)
      BY <3>1
    <3>3. AsksKind(lines, in_txn[c], 1, z[Len(given) + 1])
      BY <2>3, <3>2 DEF Kinds
    <3>4. z[Len(given) + 1] \in Kind
      BY <3>2
    <3> QED
      BY <1>4, <3>3, <3>4
  <2>5. Kinds(Append(given, r), Tail(lines), b, z)
    <3>1. \/ lines[1][1] = "START" /\ b
          \/ lines[1] = <<"COMMIT">> /\ ~b
          \/ lines[1][1] \notin {"START", "COMMIT"} /\ b = in_txn[c]
      BY <1>5
    <3> QED
      BY <1>1, <1>4, <1>6, <2>3, <2>4, <3>1, KindsServe
  <2>6. c \in Worker /\ timeouts > 0 /\ peer[c] = "open"
    BY <1>9 DEF Strayed
  <2> QED
    BY <1>2, <1>3, <1>4, <2>1, <2>2, <2>5, <2>6 DEF Strayed
<1>10. (Gone(c) => Gone(c)') /\ (Adrift(c) => Adrift(c)')
  BY <1>2, <1>3 DEF Gone, Adrift
<1>11. StepOK(c)'
  BY <1>1, <1>8, <1>9, <1>10 DEF StepOK
<1>12. c = Verifier => ~b
  <2> SUFFICES ASSUME c = Verifier PROVE ~b
    OBVIOUS
  <2>1. ~in_txn[c]
    BY <1>1 DEF TypesOK, VerifierOK
  <2> QED
    BY <2>1
<1> QED
  BY <1>2, <1>8, <1>11, <1>12, ServerSuffices

\* An answer that no record changes for, and that is no OK of a COMMIT.
LEMMA AnswerStep ==
  ASSUME StressInv, NEW c \in Client, UNCHANGED testVars, NextLine(c),
         NEW r \in Replies, AnswerWith(c, r), r.text # "OK COMMIT",
         NEW b \in BOOLEAN, in_txn' = [in_txn EXCEPT ![c] = b], b <=> ctx'[c] # NULL,
         OthersTxn(c), db' = db, NEW line, line = Head(inbox[c]),
         \/ line[1] = "START" /\ b /\ c # Verifier
         \/ line = <<"COMMIT">> /\ ~b
         \/ line[1] \notin {"START", "COMMIT"} /\ b = in_txn[c],
         \A x \in Kind : AsksKind(inbox[c], in_txn[c], 1, x) => IsOfKind(r, x),
         Aligned(c) => Aligned(c)'
  PROVE  StressInv'
<1>1. TypesOK' /\ StepsOK' /\ OthersStay(c) /\ ~AsksCommit(inbox'[c])
  BY AnswerSuffices
<1>2. ASSUME NEW k \in Rec PROVE ~Counted(c, k) /\ ~Counted(c, k)'
  <2>1. TypesOK
    BY DEF StressInv
  <2>2. \A s : ~Answered(c, s) /\ (Answered(c, s)' => s = r)
    BY <2>1, AnsweredNext
  <2>3. Say("OK COMMIT").text = "OK COMMIT"
    BY DEF Say, Reply
  <2>4. r # Say("OK COMMIT")
    BY <2>3
  <2> QED
    BY <2>2, <2>4 DEF Counted
<1>3. CountsOK'
  BY <1>1, <1>2, ServerCounts
<1> QED
  BY <1>1, <1>3 DEF StressInv

\* A client in step whose request is answered by r is in step if r answers it.
LEMMA AlignedAnswered ==
  ASSUME TypesOK, NEW c \in Client, Aligned(c), UNCHANGED testVars, NextLine(c),
         NEW r \in Replies, AnswerWith(c, r),
         NEW b \in BOOLEAN, in_txn' = [in_txn EXCEPT ![c] = b]
  PROVE  Answered(c, r)' /\ at'[c] = at[c] /\ key' = key /\ cur' = cur
<1>1. inbox[c] # <<>> /\ \A line : Sent(c, line) => Answered(c, r)'
  BY AnsweredNext
<1> QED
  BY <1>1, AlignedLine, TestSame
-----------------------------------------------------------------------------
(* What each line does. *)

LEMMA FirstKind ==
  ASSUME NEW lines, NEW b \in BOOLEAN, NEW x, AsksKind(lines, b, 1, x)
  PROVE  /\ lines[1][1] = "GET" => x = "V"
         /\ lines[1][1] \in {"PUT", "COMMIT"} => x = "O"
         /\ lines[1][1] = "ROLLBACK" => x = "E"
         /\ lines[1][1] = "START" => x = "T" \/ (x = "E" /\ b)
<1>1. 1..(1 - 1) = {}
  OBVIOUS
<1> QED
  BY <1>1 DEF AsksKind

\* Of the lines that wait, the first.
LEMMA TheLine ==
  ASSUME StressInv, NEW c \in Client, NextLine(c)
  PROVE  /\ TypesOK /\ inbox[c] # <<>> /\ Head(inbox[c]) = inbox[c][1] /\ in_txn[c] \in BOOLEAN
         /\ (in_txn[c] <=> ctx[c] # NULL)
         /\ c = Verifier => Head(inbox[c])[1] = "GET" /\ ~in_txn[c]
<1>1. TypesOK /\ inbox[c] # <<>> /\ inbox[c] \in Seq(TestLines) /\ in_txn[c] \in BOOLEAN
      /\ StepOK(c) /\ (in_txn[c] <=> ctx[c] # NULL)
  BY DEF StressInv, StepsOK, StepOK, TypesOK, ServerTypeOK, NextLine
<1>2. Head(inbox[c]) = inbox[c][1]
  BY <1>1
<1>3. c = Verifier => Head(inbox[c])[1] = "GET" /\ ~in_txn[c]
  <2> SUFFICES ASSUME c = Verifier PROVE Head(inbox[c])[1] = "GET" /\ ~in_txn[c]
    OBVIOUS
  <2>1. OnlyGets(inbox[c]) /\ ~in_txn[c]
    BY <1>1 DEF TypesOK, VerifierOK
  <2> QED
    BY <1>1, <1>2, <2>1, GetsStay
<1> QED
  BY <1>1, <1>2, <1>3

\* A refused request changes nothing.
LEMMA RefusedStep ==
  ASSUME StressInv, NEW c \in Client, UNCHANGED testVars, NextLine(c),
         NEW line, line = Head(inbox[c]),
         NEW text \in {"ERR TXN_ALREADY_STARTED", "ERR NO_ACTIVE_TXN", "ERR BAD_CMD"},
         Refuses(c, text),
         \/ line[1] = "START" /\ in_txn[c]
         \/ line = <<"COMMIT">> /\ ~in_txn[c]
         \/ line[1] \notin {"START", "COMMIT"},
         Aligned(c) => Aligned(c)'
  PROVE  StressInv'
<1>1. /\ TypesOK /\ in_txn[c] \in BOOLEAN /\ (in_txn[c] <=> ctx[c] # NULL)
      /\ c = Verifier => ~in_txn[c]
  BY TheLine
<1>2. UNCHANGED <<db, ctx, rc>> /\ in_txn' = in_txn /\ AnswerWith(c, Say(text))
  BY DEF Refuses, apiVars
<1>3. OthersTxn(c) /\ db' = db /\ (in_txn[c] <=> ctx'[c] # NULL)
  <2>1. SameEngine
    BY <1>1, <1>2 DEF SameEngine, TypesOK, EngineTypeOK
  <2> QED
    BY <1>1, <1>2, <2>1, EngineStays DEF OthersTxn
<1>4. in_txn' = [in_txn EXCEPT ![c] = in_txn[c]]
  BY <1>1, <1>2 DEF TypesOK, ServerTypeOK
<1>5. PICK b \in BOOLEAN : b = in_txn[c]
  BY <1>1
<1>6. PICK r \in Replies : r = Say(text) /\ r.text # "OK COMMIT" /\ \A x : IsOfKind(r, x)
  <2>1. Say(text).text = text /\ text # "OK COMMIT"
    BY DEF Say, Reply
  <2>2. Say(text) \in Replies /\ \A x : IsOfKind(Say(text), x)
    BY ReplyKinds
  <2> QED
    BY <2>1, <2>2
<1> QED
  BY <1>1, <1>2, <1>3, <1>4, <1>5, <1>6, AnswerStep

LEMMA StartLineStep ==
  ASSUME StressInv, NEW c \in Client, UNCHANGED testVars, NextLine(c),
         NEW line, line = Head(inbox[c]), StartLine(c, line)
  PROVE  StressInv'
<1>1. /\ TypesOK /\ inbox[c] # <<>> /\ line = inbox[c][1] /\ in_txn[c] \in BOOLEAN
      /\ c = Verifier => line[1] = "GET"
  BY TheLine
<1>2. line = <<"START">> /\ line[1] = "START"
  BY LinesToSend DEF StartLine
<1>3. CASE ServesStart(c)
  <2>1. /\ ~in_txn[c] /\ begin_txn(c) /\ in_txn' = [in_txn EXCEPT ![c] = TRUE]
        /\ AnswerWith(c, Reply("OK TXN", TxnNo))
    BY <1>3 DEF ServesStart
  <2>2. PICK r \in Replies : r = Reply("OK TXN", TxnNo) /\ IsOfKind(r, "T") /\ r.text # "OK COMMIT"
    <3>1. Reply("OK TXN", TxnNo).text = "OK TXN"
      BY DEF Reply
    <3> QED
      BY <3>1, ReplyKinds
  <2>3. OthersTxn(c) /\ db' = db /\ ctx'[c] # NULL /\ Fresh(c)'
    BY <1>1, <2>1, BeginEffect
  <2>4. \A x \in Kind : AsksKind(inbox[c], in_txn[c], 1, x) => IsOfKind(r, x)
    BY <1>1, <1>2, <2>1, <2>2, FirstKind
  <2>5. Aligned(c) => Aligned(c)'
    <3> SUFFICES ASSUME Aligned(c) PROVE Aligned(c)'
      OBVIOUS
    <3>1. at[c] = "START"
      BY <1>1, <1>2, AlignedCommand
    <3>2. Answered(c, r)' /\ at'[c] = at[c]
      BY <1>1, <2>1, <2>2, AlignedAnswered
    <3> QED
      BY <2>2, <2>3, <3>1, <3>2 DEF Aligned
  <2>6. c # Verifier
    BY <1>1, <1>2
  <2>7. PICK b \in BOOLEAN : b = TRUE
    OBVIOUS
  <2>8. in_txn' = [in_txn EXCEPT ![c] = b] /\ (b <=> ctx'[c] # NULL) /\ AnswerWith(c, r)
    BY <2>1, <2>2, <2>3, <2>7
  <2>9. line[1] = "START" /\ b /\ c # Verifier
    BY <1>2, <2>6, <2>7
  <2> QED
    BY <2>2, <2>3, <2>4, <2>5, <2>8, <2>9, AnswerStep
<1>4. CASE in_txn[c] /\ Refuses(c, "ERR TXN_ALREADY_STARTED")
  <2>1. PICK r \in Replies : r = Say("ERR TXN_ALREADY_STARTED")
    BY ReplyKinds
  <2>2. Aligned(c) => Aligned(c)'
    <3> SUFFICES ASSUME Aligned(c) PROVE Aligned(c)'
      OBVIOUS
    <3>1. at[c] = "START"
      BY <1>1, <1>2, AlignedCommand
    <3>2. AnswerWith(c, r) /\ in_txn' = [in_txn EXCEPT ![c] = in_txn[c]]
      BY <1>1, <1>4, <2>1 DEF Refuses, TypesOK, ServerTypeOK
    <3>3. Answered(c, r)' /\ at'[c] = at[c]
      BY <1>1, <3>2, AlignedAnswered
    <3> QED
      BY <2>1, <3>1, <3>3 DEF Aligned
  <2> QED
    BY <1>2, <1>4, <2>2, RefusedStep
<1> QED
  BY <1>3, <1>4 DEF StartLine

LEMMA GetLineStep ==
  ASSUME StressInv, NEW c \in Client, UNCHANGED testVars, NextLine(c),
         NEW line, line = Head(inbox[c]), GetLineOf(c, line)
  PROVE  StressInv'
<1>1. /\ TypesOK /\ inbox[c] # <<>> /\ line = inbox[c][1] /\ in_txn[c] \in BOOLEAN
      /\ (in_txn[c] <=> ctx[c] # NULL) /\ (c = Verifier => ~in_txn[c])
  BY TheLine
<1>2. PICK k \in Rec : line = <<"GET", SP, k>> /\ ServesGet(c, k)
  BY DEF GetLineOf
<1>3. /\ in_txn[c] /\ get(c, k) /\ in_txn' = in_txn
      /\ \/ rc'[c] = "OK" /\ AnswerWith(c, Reply("OK VALUE", value_out(c, k)))
         \/ rc'[c] # "OK" /\ AnswerWith(c, Say("ERR NOT_FOUND"))
  BY <1>2 DEF ServesGet
<1>4. /\ OthersTxn(c) /\ db' = db /\ ctx'[c] # NULL
      /\ rc'[c] = "OK" =>
           \E n \in Nat : n = value_out(c, k) /\ (Fresh(c) => HasRead(c, k, n)')
  BY <1>1, <1>3, GetEffect
<1>5. line[1] = "GET" /\ line[3] = k
  BY <1>2
<1>6. in_txn' = [in_txn EXCEPT ![c] = in_txn[c]] /\ c \in Worker
  BY <1>1, <1>3, ClientAssumption DEF TypesOK, ServerTypeOK
<1>7. ASSUME NEW r \in Replies, AnswerWith(c, r), Aligned(c)
      PROVE  Answered(c, r)' /\ at'[c] = "GET" /\ key'[c] = k /\ Fresh(c)
  <2>1. at[c] = "GET" /\ line = <<"GET", SP, key[c]>> /\ Fresh(c)
    BY <1>1, <1>5, <1>6, <1>7, AlignedCommand
  <2>2. Answered(c, r)' /\ at'[c] = at[c] /\ key' = key
    BY <1>1, <1>6, <1>7, AlignedAnswered
  <2>3. key[c] = k
    BY <1>5, <2>1
  <2> QED
    BY <2>1, <2>2, <2>3
<1>8. ASSUME NEW r \in Replies, AnswerWith(c, r), r.text # "OK COMMIT", IsOfKind(r, "V"),
             Aligned(c) => Aligned(c)'
      PROVE  StressInv'
  <2>1. \A x \in Kind : AsksKind(inbox[c], in_txn[c], 1, x) => IsOfKind(r, x)
    BY <1>1, <1>5, <1>8, FirstKind
  <2>2. PICK b \in BOOLEAN : b = in_txn[c]
    BY <1>1
  <2>3. b <=> ctx'[c] # NULL
    BY <1>3, <1>4, <2>2
  <2> QED
    BY <1>4, <1>5, <1>6, <1>8, <2>1, <2>2, <2>3, AnswerStep
<1>9. CASE rc'[c] = "OK"
  <2>1. PICK n \in Nat : n = value_out(c, k) /\ (Fresh(c) => HasRead(c, k, n)')
    BY <1>4, <1>9
  <2>2. PICK r \in Replies : r = Reply("OK VALUE", n) /\ IsOfKind(r, "V") /\ r.text # "OK COMMIT"
    <3>1. Reply("OK VALUE", n).text = "OK VALUE"
      BY DEF Reply
    <3> QED
      BY <3>1, ReplyKinds
  <2>3. AnswerWith(c, r)
    BY <1>3, <1>9, <2>1, <2>2
  <2>4. ASSUME Aligned(c) PROVE Aligned(c)'
    <3>1. Answered(c, r)' /\ at'[c] = "GET" /\ key'[c] = k /\ Fresh(c)
      BY <1>7, <2>3, <2>4
    <3>2. HasRead(c, k, n)'
      BY <2>1, <3>1
    <3> QED
      BY <1>6, <2>2, <3>1, <3>2 DEF Aligned
  <2> QED
    BY <1>8, <2>2, <2>3, <2>4
<1>10. CASE rc'[c] # "OK"
  <2>1. PICK r \in Replies : r = Say("ERR NOT_FOUND") /\ IsOfKind(r, "V") /\ r.text # "OK COMMIT"
    <3>1. Say("ERR NOT_FOUND").text = "ERR NOT_FOUND"
      BY DEF Say, Reply
    <3> QED
      BY <3>1, ReplyKinds
  <2>2. AnswerWith(c, r)
    BY <1>3, <1>10, <2>1
  <2>3. ASSUME Aligned(c) PROVE Aligned(c)'
    <3>1. Answered(c, r)' /\ at'[c] = "GET"
      BY <1>7, <2>2, <2>3
    <3> QED
      BY <1>6, <2>1, <3>1 DEF Aligned
  <2> QED
    BY <1>8, <2>1, <2>2, <2>3
<1> QED
  BY <1>9, <1>10

LEMMA PutLineStep ==
  ASSUME StressInv, NEW c \in Client, UNCHANGED testVars, NextLine(c),
         NEW line, line = Head(inbox[c]), PutLineOf(c, line)
  PROVE  StressInv'
<1>1. /\ TypesOK /\ inbox[c] # <<>> /\ line = inbox[c][1] /\ in_txn[c] \in BOOLEAN
      /\ (in_txn[c] <=> ctx[c] # NULL) /\ (c = Verifier => ~in_txn[c])
  BY TheLine
<1>2. PICK k \in Rec, n \in Nat : line = <<"PUT", SP, k, SP, n>> /\ ServesPut(c, k, n)
  BY DEF PutLineOf
<1>3. /\ in_txn[c] /\ put(c, k, n) /\ in_txn' = in_txn
      /\ \/ rc'[c] = "OK" /\ AnswerWith(c, Say("OK"))
         \/ rc'[c] # "OK" /\ AnswerWith(c, Say("ERR PUT_FAIL"))
  BY <1>2 DEF ServesPut
<1>0. db[k] + 1 <= LARGEST
  <2>1. db[k] + Cardinality(Committing) <= InitVal + Cardinality(Turns) /\ db[k] \in Nat
    BY <1>1, TxnTypes DEF StressInv, CountsOK
  <2>2. /\ Cardinality(Committing) \in Nat /\ Cardinality(Turns) \in Nat
        /\ Cardinality(Turns) <= TXN_PER_THREAD * Cardinality(Worker)
    BY CountSizes, TurnsCount
  <2>3. /\ InitVal \in Nat
        /\ TXN_PER_THREAD * Cardinality(Worker) \in Nat
    BY ClientAssumption, FS_CardinalityType
  <2>4. PICK d \in Nat : d = TXN_PER_THREAD * Cardinality(Worker)
    BY <2>3
  <2> QED
    BY <2>1, <2>2, <2>3, <2>4 DEF LARGEST
<1>4. /\ OthersTxn(c) /\ db' = db /\ ctx'[c] # NULL
      /\ \A m \in Nat : rc'[c] = "OK" /\ HasRead(c, k, m) /\ n = m + 1 => HasWritten(c, k)'
  BY <1>0, <1>1, <1>3, PutEffect
<1>5. line[1] = "PUT" /\ line[3] = k /\ line[5] = n
  BY <1>2
<1>6. in_txn' = [in_txn EXCEPT ![c] = in_txn[c]] /\ c \in Worker
  BY <1>1, <1>3, ClientAssumption DEF TypesOK, ServerTypeOK
<1>7. ASSUME NEW r \in Replies, AnswerWith(c, r), Aligned(c)
      PROVE  /\ Answered(c, r)' /\ at'[c] = "PUT" /\ key'[c] = k
             /\ \E m \in Nat : n = m + 1 /\ HasRead(c, k, m)
  <2>1. at[c] = "PUT" /\ line = <<"PUT", SP, key[c], SP, cur[c] + 1>> /\ HasRead(c, key[c], cur[c])
    BY <1>1, <1>5, <1>7, AlignedCommand
  <2>2. Answered(c, r)' /\ at'[c] = at[c] /\ key' = key
    BY <1>1, <1>6, <1>7, AlignedAnswered
  <2>3. key[c] = k /\ n = cur[c] + 1
    BY <1>5, <2>1
  <2>4. cur[c] \in Nat
    BY <1>1, <1>6, <2>1 DEF TypesOK, TurnOK
  <2> QED
    BY <2>1, <2>2, <2>3, <2>4
<1>8. ASSUME NEW r \in Replies, AnswerWith(c, r), r.text # "OK COMMIT", IsOfKind(r, "O"),
             Aligned(c) => Aligned(c)'
      PROVE  StressInv'
  <2>1. \A x \in Kind : AsksKind(inbox[c], in_txn[c], 1, x) => IsOfKind(r, x)
    BY <1>1, <1>5, <1>8, FirstKind
  <2>2. PICK b \in BOOLEAN : b = in_txn[c]
    BY <1>1
  <2>3. b <=> ctx'[c] # NULL
    BY <1>3, <1>4, <2>2
  <2> QED
    BY <1>4, <1>5, <1>6, <1>8, <2>1, <2>2, <2>3, AnswerStep
<1>9. CASE rc'[c] = "OK"
  <2>1. PICK r \in Replies : r = Say("OK") /\ IsOfKind(r, "O") /\ r.text # "OK COMMIT"
    <3>1. Say("OK").text = "OK"
      BY DEF Say, Reply
    <3> QED
      BY <3>1, ReplyKinds
  <2>2. AnswerWith(c, r)
    BY <1>3, <1>9, <2>1
  <2>3. ASSUME Aligned(c) PROVE Aligned(c)'
    <3>1. Answered(c, r)' /\ at'[c] = "PUT" /\ key'[c] = k
      BY <1>7, <2>2, <2>3
    <3>2. HasWritten(c, k)'
      BY <1>4, <1>7, <1>9, <2>2, <2>3
    <3> QED
      BY <2>1, <3>1, <3>2 DEF Aligned
  <2> QED
    BY <1>8, <2>1, <2>2, <2>3
<1>10. CASE rc'[c] # "OK"
  <2>1. PICK r \in Replies : r = Say("ERR PUT_FAIL") /\ IsOfKind(r, "O") /\ r.text # "OK COMMIT"
    <3>1. Say("ERR PUT_FAIL").text = "ERR PUT_FAIL"
      BY DEF Say, Reply
    <3> QED
      BY <3>1, ReplyKinds
  <2>2. AnswerWith(c, r)
    BY <1>3, <1>10, <2>1
  <2>3. ASSUME Aligned(c) PROVE Aligned(c)'
    <3>1. Answered(c, r)' /\ at'[c] = "PUT"
      BY <1>7, <2>2, <2>3
    <3> QED
      BY <2>1, <3>1 DEF Aligned
  <2> QED
    BY <1>8, <2>1, <2>2, <2>3
<1> QED
  BY <1>9, <1>10

\* GET, PUT and COMMIT out of a transaction, and ROLLBACK.
LEMMA RefusedLineStep ==
  ASSUME StressInv, NEW c \in Client, UNCHANGED testVars, NextLine(c),
         NEW line, line = Head(inbox[c]), line \in TestLines,
         IdleLine(c, line) \/ RollbackLine(c, line)
  PROVE  StressInv'
<1>1. /\ TypesOK /\ inbox[c] # <<>> /\ line = inbox[c][1] /\ in_txn[c] \in BOOLEAN
      /\ (in_txn[c] <=> ctx[c] # NULL)
  BY TheLine
<1>2. ASSUME NEW text \in {"ERR NO_ACTIVE_TXN", "ERR BAD_CMD"}, Refuses(c, text), Aligned(c)
      PROVE  Answered(c, Say(text))' /\ at'[c] = at[c]
  <2>1. PICK r \in Replies : r = Say(text)
    BY ReplyKinds
  <2>2. AnswerWith(c, r) /\ in_txn' = [in_txn EXCEPT ![c] = in_txn[c]]
    BY <1>1, <1>2, <2>1 DEF Refuses, TypesOK, ServerTypeOK
  <2>3. Answered(c, r)' /\ at'[c] = at[c]
    BY <1>1, <1>2, <2>2, AlignedAnswered
  <2> QED
    BY <2>1, <2>3
<1>3. CASE IdleLine(c, line)
  <2>1. line[1] \in {"GET", "PUT", "COMMIT"} /\ ~in_txn[c] /\ Refuses(c, "ERR NO_ACTIVE_TXN")
    BY <1>3 DEF IdleLine
  <2>2. ASSUME Aligned(c) PROVE Aligned(c)'
    <3>1. c = Verifier /\ at[c] = "GET"
      <4>1. ~Open0(c)
        BY <1>1, <2>1 DEF Open0
      <4> QED
        BY <1>1, <2>1, <2>2, <4>1, AlignedCommand, ClientAssumption DEF Fresh, HasRead, HasWritten
    <3>2. Answered(c, Say("ERR NO_ACTIVE_TXN"))' /\ at'[c] = at[c]
      BY <1>2, <2>1, <2>2
    <3> QED
      BY <3>1, <3>2 DEF Aligned
  <2>3. \/ line = <<"COMMIT">> /\ ~in_txn[c]
        \/ line[1] \notin {"START", "COMMIT"}
    BY <2>1, LineKinds
  <2> QED
    BY <2>1, <2>2, <2>3, RefusedStep
<1>4. CASE RollbackLine(c, line)
  <2>1. line[1] = "ROLLBACK" /\ Refuses(c, "ERR BAD_CMD")
    BY <1>4, LinesToSend DEF RollbackLine
  <2>2. ASSUME Aligned(c) PROVE Aligned(c)'
    <3>1. at[c] = "ROLLBACK"
      BY <1>1, <2>1, <2>2, AlignedCommand
    <3>2. Answered(c, Say("ERR BAD_CMD"))' /\ at'[c] = at[c]
      BY <1>2, <2>1, <2>2
    <3> QED
      BY <3>1, <3>2 DEF Aligned
  <2> QED
    BY <2>1, <2>2, RefusedStep
<1> QED
  BY <1>3, <1>4
-----------------------------------------------------------------------------
(* A COMMIT is served: the record grows by one, and the COMMIT waits no more. *)

LEMMA CommittedCounts ==
  ASSUME StressInv, NEW c \in Worker, UNCHANGED testVars, OthersStay(c),
         NEW k \in Rec, db' = [db EXCEPT ![k] = db[k] + 1],
         AsksCommit(inbox[c]), ~AsksCommit(inbox'[c]),
         \A j \in Rec : ~Counted(c, j) /\ (Counted(c, j)' => j = k),
         timeouts = 0 => Counted(c, k)'
  PROVE  CountsOK'
<1>1. /\ TypesOK /\ TestTypeOK' /\ c \in Client /\ db \in [Rec -> Nat] /\ applied \in [Rec -> Nat]
      /\ UNCHANGED <<at, iter, key, cur, applied, timeouts>> /\ InitVal \in Nat
  BY TestSame, ClientAssumption DEF StressInv, TypesOK, EngineTypeOK, TestTypeOK
<1>2. \A v \in Worker \ {c} :
        /\ \A j \in Rec : Counted(v, j)' <=> Counted(v, j)
        /\ inbox'[v] = inbox[v] /\ TurnsOf(v)' = TurnsOf(v)
  BY <1>1, OthersCount
<1>3. Cardinality(Committing') = Cardinality(Committing) - 1
  <2>1. Committing' = Committing \ {c} /\ c \in Committing
    BY <1>2 DEF Committing
  <2>2. Cardinality(Committing \ {c}) =
          IF c \in Committing THEN Cardinality(Committing) - 1 ELSE Cardinality(Committing)
    BY CountSizes, FS_RemoveElement, Zenon
  <2> QED
    BY <2>1, <2>2
<1>4. Turns' = Turns
  <2>1. TurnsOf(c)' = TurnsOf(c)
    BY <1>1, Zenon DEF TurnsOf
  <2> QED
    BY <1>2, <2>1 DEF Turns
<1>5. \A j \in Rec \ {k} : ToCount(j)' = ToCount(j)
  BY <1>2 DEF ToCount
<1>6. /\ Cardinality(ToCount(k)') <= Cardinality(ToCount(k)) + 1
      /\ timeouts = 0 => Cardinality(ToCount(k)') = Cardinality(ToCount(k)) + 1
  <2>1. Cardinality(ToCount(k)) \in Nat /\ c \notin ToCount(k)
    BY CountSizes DEF ToCount
  <2>2. CASE Counted(c, k)'
    <3>1. ToCount(k)' = ToCount(k) \cup {c}
      BY <1>2, <2>2 DEF ToCount
    <3>2. Cardinality(ToCount(k) \cup {c}) = Cardinality(ToCount(k)) + 1
      BY <2>1, CountSizes, FS_AddElement, Zenon
    <3>3. Cardinality(ToCount(k)') = Cardinality(ToCount(k)) + 1
      BY <3>1, <3>2
    <3> QED
      BY <2>1, <3>3
  <2>3. CASE ~Counted(c, k)'
    <3>1. ToCount(k)' = ToCount(k)
      BY <1>2, <2>3 DEF ToCount
    <3> QED
      BY <2>1, <2>3, <3>1
  <2> QED
    BY <2>2, <2>3
<1>7. ASSUME NEW j \in Rec
      PROVE  /\ InitVal + applied'[j] + Cardinality(ToCount(j)') <= db'[j]
             /\ timeouts' = 0 => db'[j] = InitVal + applied'[j] + Cardinality(ToCount(j)')
             /\ db'[j] + Cardinality(Committing') <= InitVal + Cardinality(Turns')
  <2>1. /\ InitVal + applied[j] + Cardinality(ToCount(j)) <= db[j]
        /\ timeouts = 0 => db[j] = InitVal + applied[j] + Cardinality(ToCount(j))
        /\ db[j] + Cardinality(Committing) <= InitVal + Cardinality(Turns)
    BY DEF StressInv, CountsOK
  <2>2. /\ db[j] \in Nat /\ applied[j] \in Nat /\ InitVal \in Nat
        /\ Cardinality(ToCount(j)) \in Nat /\ Cardinality(ToCount(j)') \in Nat
        /\ Cardinality(Committing) \in Nat /\ Cardinality(Turns) \in Nat
        /\ Cardinality(Turns') = Cardinality(Turns)
    BY <1>1, <1>4, CountSizes, CountSizesNext
  <2>3. applied'[j] = applied[j] /\ timeouts' = timeouts
    BY <1>1
  <2>4. CASE j = k
    <3>1. db'[j] = db[j] + 1
      BY <1>1, <2>4
    <3>2. InitVal + applied[j] + Cardinality(ToCount(j)') <= db[j] + 1
      BY <1>6, <2>1, <2>2, <2>4
    <3>3. timeouts = 0 => db[j] + 1 = InitVal + applied[j] + Cardinality(ToCount(j)')
      BY <1>6, <2>1, <2>2, <2>4
    <3>4. db[j] + 1 + Cardinality(Committing') <= InitVal + Cardinality(Turns')
      BY <1>3, <2>1, <2>2
    <3> QED
      BY <2>3, <3>1, <3>2, <3>3, <3>4
  <2>5. CASE j # k
    <3>1. db'[j] = db[j] /\ ToCount(j)' = ToCount(j)
      BY <1>1, <1>5, <2>5
    <3>2. db[j] + Cardinality(Committing') <= InitVal + Cardinality(Turns')
      BY <1>3, <2>1, <2>2
    <3> QED
      BY <2>1, <2>3, <3>1, <3>2
  <2> QED
    BY <2>4, <2>5
<1> QED
  BY <1>7 DEF CountsOK

LEMMA CommitLineStep ==
  ASSUME StressInv, NEW c \in Client, UNCHANGED testVars, NextLine(c),
         NEW line, line = Head(inbox[c]), CommitLine(c, line)
  PROVE  StressInv'
<1>1. /\ TypesOK /\ StepOK(c) /\ inbox[c] # <<>> /\ line = inbox[c][1] /\ in_txn[c] \in BOOLEAN
      /\ (in_txn[c] <=> ctx[c] # NULL) /\ (c = Verifier => ~in_txn[c])
      /\ inbox[c] \in Seq(TestLines)
  BY TheLine DEF StressInv, StepsOK, StepOK, TypesOK, ServerTypeOK
<1>2. line = <<"COMMIT">> /\ line[1] = "COMMIT" /\ ServesCommit(c)
  BY LinesToSend DEF CommitLine
<1>3. /\ in_txn[c] /\ commit(c) /\ in_txn' = [in_txn EXCEPT ![c] = FALSE]
      /\ \/ rc'[c] = "OK" /\ AnswerWith(c, Say("OK COMMIT"))
         \/ rc'[c] # "OK" /\ AnswerWith(c, Say("ERR ABORT"))
  BY <1>2 DEF ServesCommit
<1>4. c \in Worker
  BY <1>1, <1>3, ClientAssumption
<1>5. AsksCommit(inbox[c])
  <2>1. 1 \in 1..Len(inbox[c])
    BY <1>1
  <2> QED
    BY <1>1, <1>2, <2>1 DEF AsksCommit
<1>6. PICK k \in Rec : HasWritten(c, k)
  <2>1. CommitOK(c) /\ 1 \in 1..Len(inbox[c])
    BY <1>1 DEF StepOK
  <2> QED
    BY <1>1, <1>2, <2>1 DEF CommitOK
<1>7. /\ OthersTxn(c) /\ ctx'[c] = NULL
      /\ \/ rc'[c] = "OK" /\ db' = [db EXCEPT ![k] = db[k] + 1]
         \/ rc'[c] # "OK" /\ db' = db
  BY <1>1, <1>3, <1>6, CommitEffect
<1>8. ASSUME Aligned(c) PROVE at[c] = "COMMIT" /\ key[c] = k
  <2>1. at[c] = "COMMIT" /\ HasWritten(c, key[c])
    BY <1>1, <1>2, <1>8, AlignedCommand
  <2>2. ctx[c].wr = {key[c]} /\ ctx[c].wr = {k}
    BY <1>6, <2>1 DEF HasWritten
  <2> QED
    BY <2>1, <2>2
<1>9. ASSUME NEW r \in Replies, AnswerWith(c, r), Aligned(c)
      PROVE  Answered(c, r)' /\ at'[c] = "COMMIT" /\ key'[c] = k
  BY <1>1, <1>3, <1>8, <1>9, AlignedAnswered
<1>10. ASSUME NEW r \in Replies, IsOfKind(r, "O")
       PROVE  \A x \in Kind : AsksKind(inbox[c], in_txn[c], 1, x) => IsOfKind(r, x)
  BY <1>1, <1>2, <1>10, FirstKind
<1>11. PICK b \in BOOLEAN : b = FALSE
  OBVIOUS
<1>12. in_txn' = [in_txn EXCEPT ![c] = b] /\ (b <=> ctx'[c] # NULL) /\ ~b
  BY <1>3, <1>7, <1>11
<1>13. CASE rc'[c] # "OK"
  <2>1. PICK r \in Replies : r = Say("ERR ABORT") /\ IsOfKind(r, "O") /\ r.text # "OK COMMIT"
    <3>1. Say("ERR ABORT").text = "ERR ABORT"
      BY DEF Say, Reply
    <3> QED
      BY <3>1, ReplyKinds
  <2>2. AnswerWith(c, r)
    BY <1>3, <1>13, <2>1
  <2>3. ASSUME Aligned(c) PROVE Aligned(c)'
    <3>1. Answered(c, r)' /\ at'[c] = "COMMIT"
      BY <1>9, <2>2, <2>3
    <3> QED
      BY <2>1, <3>1 DEF Aligned
  <2> QED
    BY <1>2, <1>7, <1>10, <1>12, <1>13, <2>1, <2>2, <2>3, AnswerStep
<1>14. CASE rc'[c] = "OK"
  <2>1. PICK r \in Replies : r = Say("OK COMMIT") /\ IsOfKind(r, "O")
    BY ReplyKinds
  <2>2. AnswerWith(c, r)
    BY <1>3, <1>14, <2>1
  <2>3. ASSUME Aligned(c) PROVE Aligned(c)'
    <3>1. Answered(c, r)' /\ at'[c] = "COMMIT"
      BY <1>9, <2>2, <2>3
    <3> QED
      BY <2>1, <3>1 DEF Aligned
  <2>4. TypesOK' /\ StepsOK' /\ OthersStay(c) /\ ~AsksCommit(inbox'[c])
    BY <1>2, <1>7, <1>10, <1>12, <2>1, <2>2, <2>3, AnswerSuffices
  <2>5. \A j \in Rec : ~Counted(c, j)
    <3>1. \A s : ~Answered(c, s)
      BY <1>1, <1>3, <2>1, <2>2, AnsweredNext
    <3> QED
      BY <3>1 DEF Counted
  <2>6. UNCHANGED <<at, key, timeouts>>
    BY <1>1, TestSame
  <2>7. \A j \in Rec : Counted(c, j)' => j = k
    <3>1. SUFFICES ASSUME NEW j \in Rec, at[c] = "COMMIT", key[c] = j PROVE j = k
      BY <2>6 DEF Counted
    <3>2. Aligned(c)
      BY <1>1, <3>1 DEF StepOK, Strayed, StrayedAt, Waits, Adrift, Gone
    <3> QED
      BY <1>8, <3>1, <3>2
  <2>8. timeouts = 0 => Counted(c, k)'
    <3> SUFFICES ASSUME timeouts = 0 PROVE Counted(c, k)'
      OBVIOUS
    <3>1. Aligned(c)
      BY <1>1, <1>4, ClientAssumption DEF StepOK, Strayed, Adrift, Gone
    <3>2. Answered(c, r)' /\ at'[c] = "COMMIT" /\ key'[c] = k
      BY <1>9, <2>2, <3>1
    <3> QED
      BY <2>1, <3>2 DEF Counted
  <2>9. db' = [db EXCEPT ![k] = db[k] + 1]
    BY <1>7, <1>14
  <2>10. CountsOK'
    BY <1>4, <1>5, <2>4, <2>5, <2>7, <2>8, <2>9, CommittedCounts
  <2> QED
    BY <2>4, <2>10 DEF StressInv
<1> QED
  BY <1>13, <1>14
-----------------------------------------------------------------------------
(* StressInv is an invariant. *)

LEMMA ServerKeeps ==
  ASSUME StressInv, NEW c \in Client, ServerStep(c)
  PROVE  StressInv'
<1>1. UNCHANGED testVars /\ Serve(c)
  BY DEF ServerStep
<1>2. CASE Accept(c) \/ SendReply(c) \/ Disconnect(c)
  BY <1>1, <1>2, AcceptStep, SendReplyStep, DisconnectStep
<1>3. CASE SendSigpipe(c)
  BY <1>1, <1>3, StillStep DEF SendSigpipe
<1>4. CASE Reject(c) \/ (inbox[c] # <<>> /\ \E r \in {NextRequest(c)} : Execute(c, r))
  <2>1. PICK line \in TestLines : line = Head(inbox[c]) /\ NextLine(c) /\ Serves(c, line)
    <3>1. TypesOK
      BY DEF StressInv
    <3> QED
      BY <1>4, <3>1, ServedLine
  <2> QED
    BY <1>1, <2>1, StartLineStep, GetLineStep, PutLineStep, CommitLineStep, RefusedLineStep DEF Serves
<1> QED
  BY <1>1, <1>2, <1>3, <1>4 DEF Serve

LEMMA StressStart == Init => StressInv
<1> SUFFICES ASSUME Init PROVE StressInv
  OBVIOUS
<1>1. /\ db = [k \in Rec |-> InitVal] /\ ctx = [c \in Client |-> NULL] /\ rc = [c \in Client |-> "none"]
      /\ peer = [c \in Client |-> "none"] /\ inbox = [c \in Client |-> <<>>]
      /\ outbox = [c \in Client |-> <<>>] /\ thread = [c \in Client |-> "none"]
      /\ in_txn = [c \in Client |-> FALSE] /\ reply = [c \in Client |-> NULL]
      /\ at = [c \in Client |-> "new"] /\ iter = [w \in Worker |-> 0]
      /\ key = [w \in Worker |-> NULL] /\ cur = [w \in Worker |-> NULL]
      /\ applied = [k \in Rec |-> 0] /\ timeouts = 0
  BY DEF Init, SessionInit, ApiInit
<1>2. TypesOK
  <2>1. EngineTypeOK /\ ServerTypeOK
    BY <1>1, ClientAssumption DEF EngineTypeOK, ServerTypeOK
  <2>2. TestTypeOK
    <3>1. 0 \in 0..TXN_PER_THREAD /\ "new" \in Labels
      BY ClientAssumption DEF Labels
    <3> QED
      BY <1>1, <3>1 DEF TestTypeOK
  <2>3. \A w \in Worker : TurnOK(w)
    BY <1>1, ClientAssumption DEF TurnOK, InTurn
  <2>4. VerifierOK /\ \A c \in Client : in_txn[c] <=> ctx[c] # NULL
    <3>1. inbox[Verifier] = <<>> /\ 1..Len(<<>>) = {}
      BY <1>1, ClientAssumption
    <3>2. OnlyGets(inbox[Verifier])
      BY <3>1 DEF OnlyGets
    <3> QED
      BY <1>1, <3>2, ClientAssumption DEF VerifierOK
  <2> QED
    BY <2>1, <2>2, <2>3, <2>4 DEF TypesOK
<1>3. ASSUME NEW c \in Client PROVE CommitOK(c) /\ Aligned(c)
  <2>1. Aligned(c)
    BY <1>1 DEF Aligned, Unaccepted
  <2>2. inbox[c] = <<>> /\ 1..Len(<<>>) = {}
    BY <1>1
  <2> QED
    BY <2>1, <2>2 DEF CommitOK
<1>4. CountsOK
  <2>1. \A k : ToCount(k) = {}
    BY <1>1, ClientAssumption DEF ToCount, Counted
  <2>2. Committing = {}
    <3>1. \A w \in Worker : inbox[w] = <<>> /\ 1..Len(<<>>) = {}
      BY <1>1, ClientAssumption
    <3> QED
      BY <3>1 DEF Committing, AsksCommit
  <2>3. Cardinality({}) = 0
    BY FS_EmptySet
  <2>4. Cardinality(Turns) \in Nat
    BY CountSizes
  <2>5. InitVal \in Nat
    BY ClientAssumption
  <2>6. InitVal + 0 + 0 <= InitVal /\ InitVal = InitVal + 0 + 0
        /\ InitVal + 0 <= InitVal + Cardinality(Turns)
    BY <2>4, <2>5
  <2> QED
    BY <1>1, <2>1, <2>2, <2>3, <2>6, Zenon DEF CountsOK
<1> QED
  BY <1>2, <1>3, <1>4 DEF StressInv, StepsOK

LEMMA StressStep ==
  ASSUME StressInv, [Next]_vars
  PROVE  StressInv'
<1>1. CASE UNCHANGED vars
  BY <1>1, StillStep DEF vars, sessionVars
<1>2. CASE Stopped
  BY <1>1, <1>2 DEF Stopped
<1>3. CASE (\E w \in Worker : Work(w) \/ TimeOut(w)) \/ Verify \/ TimeOutFinal
  BY <1>3, TestStep
<1>4. CASE \E c \in Client : ServerStep(c)
  BY <1>4, ServerKeeps
<1> QED
  BY <1>1, <1>2, <1>3, <1>4 DEF Next

\* Clients and sessions are in step or have strayed as described above, and the
\* counts agree, in every state of the test.
THEOREM StressIsInvariant == Spec => []StressInv
<1> QED
  BY StressStart, StressStep, PTL DEF Spec
-----------------------------------------------------------------------------
(* What follows from it. *)

\* Once the workers are joined, nothing is left to count.
LEMMA NothingLeft ==
  ASSUME Joined, NEW k
  PROVE  Cardinality(ToCount(k)) = 0
<1>1. ToCount(k) = {}
  BY DEF Joined, ToCount, Counted
<1> QED
  BY <1>1, FS_EmptySet

\* Without time-outs, no acknowledged increment is lost and none is applied and
\* not counted, whatever the number of workers, keys and transactions
\* (db_test.py:168 and 414-415).
THEOREM NoUpdateIsLost == Spec => []NoLostUpdate
<1>1. StressInv => NoLostUpdate
  <2> SUFFICES ASSUME StressInv, timeouts = 0, Joined, NEW k \in Rec
               PROVE  db[k] = InitVal + applied[k]
    BY DEF NoLostUpdate, CountsAreExact
  <2>1. db[k] = InitVal + applied[k] + Cardinality(ToCount(k))
    BY DEF StressInv, CountsOK
  <2>2. InitVal \in Nat /\ applied[k] \in Nat
    BY ClientAssumption DEF StressInv, TypesOK, TestTypeOK
  <2> QED
    BY <2>1, <2>2, NothingLeft
<1> QED
  BY <1>1, StressIsInvariant, PTL

\* With any number of time-outs, what the test counts has been written, and no
\* key holds more than all turns together can have added to it.
THEOREM CountedAreWritten == Spec => []CountedIsWritten
<1>1. StressInv => CountedIsWritten
  <2> SUFFICES ASSUME StressInv, NEW k \in Rec
               PROVE  /\ Joined => InitVal + applied[k] <= db[k]
                      /\ db[k] <= InitVal + TXN_PER_THREAD * Cardinality(Worker)
    BY DEF CountedIsWritten
  <2>1. /\ InitVal + applied[k] + Cardinality(ToCount(k)) <= db[k]
        /\ db[k] + Cardinality(Committing) <= InitVal + Cardinality(Turns)
    BY DEF StressInv, CountsOK
  <2>2. /\ InitVal \in Nat /\ applied[k] \in Nat /\ db[k] \in Nat
        /\ Cardinality(Committing) \in Nat /\ Cardinality(Turns) \in Nat
    BY ClientAssumption, CountSizes DEF StressInv, TypesOK, TestTypeOK, EngineTypeOK
  <2>3. Joined => InitVal + applied[k] <= db[k]
    BY <2>1, <2>2, NothingLeft
  <2>4. Cardinality(Turns) <= TXN_PER_THREAD * Cardinality(Worker)
    BY CountSizes, TurnsCount
  <2>5. TXN_PER_THREAD * Cardinality(Worker) \in Nat
    <3>1. TXN_PER_THREAD \in Nat /\ Cardinality(Worker) \in Nat
      BY ClientAssumption, FS_CardinalityType
    <3> QED
      BY <3>1
  <2>6. PICK most \in Nat : most = TXN_PER_THREAD * Cardinality(Worker)
    BY <2>5
  <2>7. db[k] <= InitVal + most
    BY <2>1, <2>2, <2>4, <2>6
  <2> QED
    BY <2>3, <2>6, <2>7
<1> QED
  BY <1>1, StressIsInvariant, PTL

\* Without time-outs, what a client reads is the answer to what it asked
\* (db_test.py:114).
THEOREM RepliesStayAligned == Spec => []RepliesAligned
<1>1. StressInv => RepliesAligned
  <2> SUFFICES ASSUME StressInv, timeouts = 0, NEW c \in Client, outbox[c] # <<>>
               PROVE  Head(outbox[c]).text \in AnswersTo(at[c])
    BY DEF RepliesAligned
  <2>1. Aligned(c)
    <3>1. Gone(c) => FALSE
      BY DEF Gone
    <3> QED
      BY <3>1 DEF StressInv, StepsOK, Strayed, Adrift
  <2>2. ASSUME NEW r, Answered(c, r) PROVE Head(outbox[c]) = r
    <3>1. Head(<<r>>) = r
      OBVIOUS
    <3> QED
      BY <2>2, <3>1 DEF Answered
  <2>3. /\ \A t : Say(t).text = t
        /\ \A t, n : Reply(t, n).text = t
    BY DEF Say, Reply
  <2>4. ~Quiet(c) /\ ~Unaccepted(c) /\ \A line : ~Sent(c, line)
    BY DEF Quiet, Unaccepted, Sent
  <2>5. CASE at[c] = "greeting"
    BY <2>1, <2>2, <2>3, <2>4, <2>5 DEF Aligned, AnswersTo
  <2>6. CASE at[c] = "START"
    BY <2>1, <2>2, <2>3, <2>4, <2>6 DEF Aligned, AnswersTo
  <2>7. CASE at[c] = "GET"
    <3>1. \/ \E n \in Nat : Answered(c, Reply("OK VALUE", n))
          \/ Answered(c, Say("ERR NOT_FOUND")) \/ Answered(c, Say("ERR NO_ACTIVE_TXN"))
      BY <2>1, <2>4, <2>7 DEF Aligned
    <3>2. Head(outbox[c]).text \in {"OK VALUE", "ERR NOT_FOUND", "ERR NO_ACTIVE_TXN"}
      BY <2>2, <2>3, <3>1
    <3> QED
      BY <2>7, <3>2 DEF AnswersTo
  <2>8. CASE at[c] = "PUT"
    BY <2>1, <2>2, <2>3, <2>4, <2>8 DEF Aligned, AnswersTo
  <2>9. CASE at[c] = "COMMIT"
    BY <2>1, <2>2, <2>3, <2>4, <2>9 DEF Aligned, AnswersTo
  <2>10. CASE at[c] = "ROLLBACK"
    BY <2>1, <2>2, <2>3, <2>4, <2>10 DEF Aligned, AnswersTo
  <2> QED
    BY <2>1, <2>4, <2>5, <2>6, <2>7, <2>8, <2>9, <2>10 DEF Aligned
<1> QED
  BY <1>1, StressIsInvariant, PTL
=============================================================================
