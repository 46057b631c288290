---------------------------- MODULE SessionProofs ----------------------------
(***************************************************************************)
(* Proofs about the server's sessions, for any number of clients, records, *)
(* values and lines in flight.                                             *)
(***************************************************************************)
EXTENDS MCSession, WellFoundedInduction, FiniteSetTheorems, TLAPS

OpenTxn == [copy : [Rec -> Texts], wr : SUBSET Keys, stale : SUBSET Keys]

\* The engine's state as the API shows it, and the lines sent.
TypeOK ==
  /\ db \in [Rec -> Texts]
  /\ ctx \in [Client -> OpenTxn \cup {NULL}]
  /\ DOMAIN rc = Client
  /\ in_txn \in [Client -> BOOLEAN]
  /\ inbox \in [Client -> Seq(Lines)]
  /\ DOMAIN reply = Client
  /\ thread \in [Client -> {"none", "serving", "ended"}]

\* A thread about to say BYE has closed its transaction, and will not open another.
ByeIsLast ==
  \A c \in Client : thread[c] = "serving" /\ reply[c] # NULL /\ reply[c].text = "BYE" => ~in_txn[c]

SessionInv == TypeOK /\ InTxnIsHandle /\ ByeIsLast
-----------------------------------------------------------------------------
\* The constants: what is no transaction, and what a line may ask for.
LEMMA ConstantFacts ==
  /\ NULL \notin OpenTxn /\ NewTxn \in OpenTxn /\ NULL \in Texts /\ InitVal \in Texts /\ Rec \subseteq Keys
  /\ \A text \in Lines : LET r == Parse(read_line(text)) IN
       r.cmd # "EMPTY" => buffered(r.val) \in Texts /\ r.rec \in Keys
<1>1. NULL \notin OpenTxn
  BY NullIsNoTxn DEF OpenTxn
<1>2. NewTxn \in OpenTxn /\ NULL \in Texts /\ InitVal \in Texts /\ Rec \subseteq Keys
  BY DEF NewTxn, OpenTxn, Texts, Keys
<1>3. ASSUME NEW text \in Lines, Parse(read_line(text)).cmd # "EMPTY"
      PROVE  buffered(Parse(read_line(text)).val) \in Texts /\ Parse(read_line(text)).rec \in Keys
  <2>1. Parse(read_line(text)) \in Requests
    BY <1>3 DEF Requests
  <2> QED
    BY <2>1 DEF Texts, Keys
<1> QED
  BY <1>1, <1>2, <1>3

\* The first line of an inbox is a line, and so are the others.
LEMMA HeadOfInbox ==
  ASSUME TypeOK, NEW c \in Client, inbox[c] # <<>>
  PROVE  Head(inbox[c]) \in Lines /\ Tail(inbox[c]) \in Seq(Lines)
BY DEF TypeOK

\* The engine's calls keep the types, open and close the caller's transaction
\* as they say, and leave alone whether others have one.
Others(c) == \A d \in Client \ {c} : ctx'[d] = NULL <=> ctx[d] = NULL
ApiTypeOK ==
  db \in [Rec -> Texts] /\ ctx \in [Client -> OpenTxn \cup {NULL}] /\ DOMAIN rc = Client

\* begin_txn opens a transaction of c and of nobody else.
LEMMA BeginCall ==
  ASSUME ApiTypeOK, NEW c \in Client, begin_txn(c)
  PROVE  ApiTypeOK' /\ ctx'[c] # NULL /\ Others(c)
BY ConstantFacts DEF begin_txn, ApiTypeOK, Others, Answer

\* get opens and closes no transaction.
LEMMA GetCall ==
  ASSUME ApiTypeOK, NEW c \in Client, NEW p \in Keys, get(c, p)
  PROVE  ApiTypeOK' /\ ctx'[c] # NULL /\ Others(c)
<1>1. CASE CanUse(c, p)
  <2>1. ctx' = [ctx EXCEPT ![c].copy[p] = value_out(c, p)] /\ UNCHANGED db
    BY <1>1 DEF get
  <2>2. ctx[c] \in OpenTxn
    BY DEF get, ApiTypeOK
  <2>3. p \in Rec => value_out(c, p) \in Texts
    BY <2>2 DEF value_out, Used, OpenTxn, ApiTypeOK
  <2>4. ctx'[c] \in OpenTxn
    BY <2>1, <2>2, <2>3 DEF OpenTxn, ApiTypeOK
  <2>5. DOMAIN rc' = Client
    BY DEF get, Answer, ApiTypeOK
  <2> QED
    BY <2>1, <2>4, <2>5, ConstantFacts DEF ApiTypeOK, Others
<1> QED
  BY <1>1 DEF get, ApiTypeOK, Others, Answer

\* put opens and closes no transaction.
LEMMA PutCall ==
  ASSUME ApiTypeOK, NEW c \in Client, NEW p \in Keys, NEW v, buffered(v) \in Texts, put(c, p, v)
  PROVE  ApiTypeOK' /\ ctx'[c] # NULL /\ Others(c)
<1>1. CASE CanUse(c, p)
  <2>1. /\ ctx' = [ctx EXCEPT ![c].copy[p] = buffered(v), ![c].wr = ctx[c].wr \cup {p}]
        /\ UNCHANGED db
    BY <1>1 DEF put
  <2>2. ctx[c] \in OpenTxn
    BY DEF put, ApiTypeOK
  <2>4. ctx'[c] \in OpenTxn
    BY <2>1, <2>2 DEF OpenTxn, ApiTypeOK
  <2>5. DOMAIN rc' = Client
    BY DEF put, Answer, ApiTypeOK
  <2> QED
    BY <2>1, <2>4, <2>5, ConstantFacts DEF ApiTypeOK, Others
<1> QED
  BY <1>1 DEF put, ApiTypeOK, Others, Answer

\* commit closes c's transaction and no other.
LEMMA CommitCall ==
  ASSUME ApiTypeOK, NEW c \in Client, commit(c)
  PROVE  ApiTypeOK' /\ ctx'[c] = NULL /\ Others(c)
<1>1. ctx[c] \in OpenTxn
  BY DEF commit, ApiTypeOK
<1>2. db' \in [Rec -> Texts]
  BY <1>1 DEF commit, ApiTypeOK, OpenTxn
<1>3. ASSUME NEW d \in Client, d # c, ctx[d] # NULL
      PROVE  ctx'[d] \in OpenTxn
  <2>1. ctx[d] \in OpenTxn
    BY <1>3 DEF ApiTypeOK
  <2>2. ctx'[d] = [ctx[d] EXCEPT !.stale = IF Valid(c) THEN ctx[d].stale \cup ctx[c].wr ELSE ctx[d].stale]
    BY <1>3 DEF commit
  <2> QED
    BY <1>1, <2>1, <2>2 DEF OpenTxn
<1>4. \A d \in Client : d = c \/ ctx[d] = NULL => ctx'[d] = NULL
  BY DEF commit
<1>5. ctx' \in [Client -> OpenTxn \cup {NULL}]
  <2>1. \A d \in Client : ctx'[d] \in OpenTxn \cup {NULL}
    BY <1>3, <1>4
  <2> QED
    BY <2>1 DEF commit
<1>6. DOMAIN rc' = Client
  BY DEF commit, Answer, ApiTypeOK
<1> QED
  BY <1>2, <1>3, <1>4, <1>5, <1>6, ConstantFacts DEF ApiTypeOK, Others

\* abort_txn closes c's transaction and no other.
LEMMA AbortCall ==
  ASSUME ApiTypeOK, NEW c \in Client, abort_txn(c)
  PROVE  ApiTypeOK' /\ ctx'[c] = NULL /\ Others(c)
BY DEF abort_txn, ApiTypeOK, Others, Answer
-----------------------------------------------------------------------------
\* What any line that is read must do for the invariant: in_txn follows the
\* transaction, and BYE is answered only without one.
LEMMA AnsweredLine ==
  ASSUME SessionInv, NEW c \in Client, NextLine(c), ApiTypeOK', Others(c),
         NEW b \in BOOLEAN, in_txn' = [in_txn EXCEPT ![c] = b], b <=> ctx'[c] # NULL,
         NEW a, AnswerWith(c, a), a.text = "BYE" => ~b
  PROVE  SessionInv'
<1> USE DEF SessionInv, NextLine
<1>1. TypeOK'
  BY HeadOfInbox DEF TypeOK, ApiTypeOK, AnswerWith
<1>2. InTxnIsHandle'
  BY DEF InTxnIsHandle, TypeOK, Others
<1>3. ByeIsLast'
  BY DEF ByeIsLast, TypeOK, AnswerWith
<1> QED
  BY <1>1, <1>2, <1>3

\* A step that leaves alone the engine and in_txn, and ends no thread but one
\* that has said BYE.
LEMMA QuietStep ==
  ASSUME SessionInv, TypeOK', UNCHANGED <<ctx, in_txn>>,
         \A c \in Client : thread'[c] = "ended" =>
           \/ thread[c] = "ended"
           \/ thread[c] = "serving" /\ reply[c] # NULL /\ reply[c].text = "BYE",
         \A c \in Client : thread'[c] = "serving" /\ reply'[c] # NULL /\ reply'[c].text = "BYE" =>
           thread[c] = "serving" /\ reply'[c] = reply[c]
  PROVE  SessionInv'
BY DEF SessionInv, InTxnIsHandle, ByeIsLast

\* A client's socket calls do not reach the engine.
LEMMA ClientStep ==
  ASSUME SessionInv, NEW c \in Client, AnyClient(c)
  PROVE  SessionInv'
<1> USE DEF SessionInv, TypeOK
<1>1. CASE Connect(c) \/ ReadReply(c) \/ Close(c)
  BY <1>1, QuietStep DEF Connect, ReadReply, Close, apiVars
<1>2. ASSUME NEW text \in Lines, SendLine(c, text) PROVE SessionInv'
  BY <1>2, QuietStep DEF SendLine, apiVars
<1> QED
  BY <1>1, <1>2 DEF AnyClient

\* START, GET and PUT reach the engine, and COMMIT, ABORT and END close the
\* transaction, as the guards in Rejected leave them: START without and the
\* others with a transaction.
LEMMA ExecuteStep ==
  ASSUME SessionInv, NEW c \in Client, NEW r, r = NextRequest(c), inbox[c] # <<>>, Execute(c, r)
  PROVE  SessionInv'
<1> USE DEF SessionInv
<1>1. ApiTypeOK /\ in_txn[c] \in BOOLEAN /\ (in_txn[c] <=> ctx[c] # NULL)
  BY DEF TypeOK, ApiTypeOK, InTxnIsHandle
<1>2. r.cmd # "EMPTY" => r.rec \in Keys /\ buffered(r.val) \in Texts
  BY HeadOfInbox, ConstantFacts DEF NextRequest
<1>3. CASE Start(c, r)
  <2>1. NextLine(c) /\ begin_txn(c) /\ AnswerWith(c, Reply("OK TXN", TxnNo))
    BY <1>3 DEF Start, Line
  <2>2. Reply("OK TXN", TxnNo).text # "BYE"
    BY DEF Reply
  <2> QED
    BY <1>1, <1>3, <2>1, <2>2, BeginCall, AnsweredLine DEF Start
<1>4. CASE Get(c, r)
  <2> DEFINE a == IF rc'[c] = "OK" THEN Reply("OK VALUE", value_out(c, r.rec)) ELSE Say("ERR NOT_FOUND")
  <2>1. NextLine(c) /\ get(c, r.rec) /\ AnswerWith(c, a) /\ r.cmd = "GET" /\ UNCHANGED in_txn
    BY <1>4 DEF Get, Line
  <2>2. a.text # "BYE"
    BY DEF Reply, Say
  <2>3. ApiTypeOK' /\ ctx'[c] # NULL /\ Others(c) /\ ctx[c] # NULL
    BY <1>1, <1>2, <2>1, GetCall DEF get
  <2>4. in_txn' = [in_txn EXCEPT ![c] = TRUE]
    BY <1>1, <2>1, <2>3 DEF TypeOK
  <2> QED
    BY <2>1, <2>2, <2>3, <2>4, AnsweredLine
<1>5. CASE Put(c, r)
  <2> DEFINE a == IF rc'[c] = "OK" THEN Say("OK") ELSE Say("ERR PUT_FAIL")
  <2>1. NextLine(c) /\ put(c, r.rec, r.val) /\ AnswerWith(c, a) /\ r.cmd = "PUT" /\ UNCHANGED in_txn
    BY <1>5 DEF Put, Line
  <2>2. a.text # "BYE"
    BY DEF Reply, Say
  <2>3. ApiTypeOK' /\ ctx'[c] # NULL /\ Others(c) /\ ctx[c] # NULL
    BY <1>1, <1>2, <2>1, PutCall DEF put
  <2>4. in_txn' = [in_txn EXCEPT ![c] = TRUE]
    BY <1>1, <2>1, <2>3 DEF TypeOK
  <2> QED
    BY <2>1, <2>2, <2>3, <2>4, AnsweredLine
<1>6. CASE Commit(c, r)
  <2> DEFINE a == IF rc'[c] = "OK" THEN Say("OK COMMIT") ELSE Say("ERR ABORT")
  <2>1. NextLine(c) /\ commit(c) /\ AnswerWith(c, a)
    BY <1>6 DEF Commit, Line
  <2>2. a.text # "BYE"
    BY DEF Reply, Say
  <2> QED
    BY <1>1, <1>6, <2>1, <2>2, CommitCall, AnsweredLine DEF Commit
<1>7. CASE Abort(c, r)
  <2>1. NextLine(c) /\ abort_txn(c) /\ AnswerWith(c, Say("OK ABORT"))
    BY <1>7 DEF Abort, Line
  <2> QED
    BY <1>1, <1>7, <2>1, AbortCall, AnsweredLine DEF Abort
<1>8. CASE End(c, r)
  <2>1. NextLine(c) /\ AbortOpen(c) /\ AnswerWith(c, Say("BYE"))
    BY <1>8 DEF End, Line
  <2>2. ApiTypeOK' /\ ctx'[c] = NULL /\ Others(c) /\ in_txn' = [in_txn EXCEPT ![c] = FALSE]
    BY <1>1, <2>1, AbortCall DEF AbortOpen, apiVars, ApiTypeOK, Others
  <2> QED
    BY <2>1, <2>2, AnsweredLine
<1> QED
  BY <1>3, <1>4, <1>5, <1>6, <1>7, <1>8 DEF Execute

\* No line is rejected with BYE.
LEMMA RejectedText ==
  ASSUME NEW r, NEW b, Rejected(r, b) # NULL
  PROVE  Rejected(r, b).text # "BYE"
BY DEF Rejected, Say, Reply

\* Every step of a server thread keeps SessionInv.
LEMMA ServeStep ==
  ASSUME SessionInv, NEW c \in Client, Serve(c)
  PROVE  SessionInv'
<1> USE DEF SessionInv
<1>1. CASE Accept(c)
  BY <1>1, QuietStep DEF Accept, Say, Reply, TypeOK, apiVars
<1>2. CASE SendReply(c)
  BY <1>2, QuietStep DEF SendReply, TypeOK, apiVars
<1>3. CASE SendSigpipe(c)
  BY <1>3, QuietStep DEF SendSigpipe, TypeOK, apiVars
<1>4. CASE Reject(c)
  <2>0. PICK r : Rejected(r, in_txn[c]) # NULL /\ AnswerWith(c, Rejected(r, in_txn[c]))
    BY <1>4 DEF Reject
  <2> DEFINE a == Rejected(r, in_txn[c])
  <2>1. NextLine(c) /\ AnswerWith(c, a) /\ a.text # "BYE" /\ UNCHANGED <<apiVars, in_txn>>
    BY <1>4, <2>0, RejectedText DEF Reject
  <2>2. /\ ApiTypeOK' /\ Others(c) /\ in_txn[c] \in BOOLEAN /\ (in_txn[c] <=> ctx'[c] # NULL)
        /\ in_txn' = [in_txn EXCEPT ![c] = in_txn[c]]
    BY <2>1 DEF TypeOK, ApiTypeOK, Others, InTxnIsHandle, apiVars
  <2> QED
    BY <2>1, <2>2, AnsweredLine
<1>5. CASE Disconnect(c)
  <2>1. /\ AbortOpen(c) /\ thread' = [thread EXCEPT ![c] = "ended"]
        /\ UNCHANGED <<inbox, reply>> /\ reply[c] = NULL
    BY <1>5 DEF Disconnect
  <2>2. ApiTypeOK' /\ ctx'[c] = NULL /\ Others(c) /\ in_txn' = [in_txn EXCEPT ![c] = FALSE]
    BY <2>1, AbortCall DEF AbortOpen, apiVars, ApiTypeOK, Others, TypeOK, InTxnIsHandle
  <2>3. TypeOK'
    BY <2>1, <2>2 DEF TypeOK, ApiTypeOK
  <2>4. InTxnIsHandle' /\ ByeIsLast'
    BY <2>1, <2>2 DEF InTxnIsHandle, ByeIsLast, Others, TypeOK
  <2> QED
    BY <2>3, <2>4
<1>6. ASSUME inbox[c] # <<>>, NEW r, r = NextRequest(c), Execute(c, r)
      PROVE  SessionInv'
  BY <1>6, ExecuteStep
<1> QED
  BY <1>1, <1>2, <1>3, <1>4, <1>5, <1>6 DEF Serve

\* Every reachable state satisfies SessionInv.
LEMMA SessionIsInvariant == SessionSpec => []SessionInv
<1>1. SessionInit => SessionInv
  BY ConstantFacts DEF SessionInit, ApiInit, SessionInv, TypeOK, InTxnIsHandle, ByeIsLast
<1>2. SessionInv /\ [SessionNext]_serverVars => SessionInv'
  <2>1. ASSUME SessionInv, UNCHANGED serverVars PROVE SessionInv'
    BY <2>1, QuietStep DEF serverVars, apiVars, sessionVars, SessionInv, TypeOK
  <2> QED
    BY <2>1, ClientStep, ServeStep DEF SessionNext, SessionStopped, serverVars
<1> QED
  BY <1>1, <1>2, PTL DEF SessionSpec

\* in_txn says exactly whether the connection's handle holds a transaction,
\* through every path of handle_client and whatever its client does, and no
\* thread ends with a transaction open.
THEOREM InTxnFollowsHandle == SessionSpec => []InTxnIsHandle
<1>1. SessionInv => InTxnIsHandle
  BY DEF SessionInv
<1> QED
  BY <1>1, SessionIsInvariant, PTL
-----------------------------------------------------------------------------
\* Two numbers in their order.
NumberOrder == {p \in Nat \X Nat : p[1] < p[2]}

\* A set of numbers has a smallest one, and Min finds it.
LEMMA SmallestNumber ==
  ASSUME NEW S \in SUBSET Nat, S # {}
  PROVE  Min(S) \in S /\ \A y \in S : Min(S) <= y
<1>1. IsWellFoundedOn(NumberOrder, Nat)
  BY NatLessThanWellFounded DEF OpToRel, NumberOrder
<1>2. PICK x \in S : \A y \in S : <<y, x>> \notin NumberOrder
  BY <1>1, WFMin
<1>3. \A y \in S : x <= y
  <2> TAKE y \in S
  <2>1. x \in Nat /\ y \in Nat /\ <<y, x>> \in Nat \X Nat
    OBVIOUS
  <2>2. ~(y < x)
    BY <1>2, <2>1 DEF NumberOrder
  <2> QED
    BY <2>1, <2>2
<1> QED
  BY <1>3 DEF Min

\* A number that is least in a set is its Min.
LEMMA MinIs ==
  ASSUME NEW S \in SUBSET Nat, NEW m \in S, \A y \in S : m <= y
  PROVE  Min(S) = m
<1>1. Min(S) \in S /\ Min(S) <= m
  BY SmallestNumber
<1>2. Min(S) \in Nat /\ m \in Nat /\ m <= Min(S)
  BY <1>1
<1> QED
  BY <1>1, <1>2

\* One round of read_line's loop, and the states of its out.
Pushed(text, n, before) == IF text[n] = CR THEN before ELSE Append(before, text[n])
Outs(text, out) ==
  out = [n \in 0..Len(text) |->
           IF n = 0 THEN <<>>
           ELSE IF text[n] = CR THEN out[n - 1] ELSE Append(out[n - 1], text[n])]

\* The loop has run for n characters.
RanTo(text, n, out) ==
  /\ DOMAIN out = 0..n
  /\ out[0] = <<>>
  /\ \A i \in 1..n : out[i] = Pushed(text, i, out[i - 1])

\* read_line's loop runs to the end of the text.
LEMMA LoopRuns ==
  ASSUME NEW W, NEW text \in Seq(W)
  PROVE  \E out : RanTo(text, Len(text), out)
<1> DEFINE Bad == {n \in 0..Len(text) : ~ \E out : RanTo(text, n, out)}
<1>1. ASSUME Bad # {} PROVE FALSE
  <2>1. PICK n : n = Min(Bad)
    OBVIOUS
  <2>2. n \in Bad /\ \A m \in Bad : n <= m
    <3>1. Bad \in SUBSET Nat
      OBVIOUS
    <3> HIDE DEF Bad
    <3> QED
      BY <1>1, <2>1, <3>1, SmallestNumber
  <2>3. n # 0
    <3>1. RanTo(text, 0, [i \in 0..0 |-> <<>>])
      BY DEF RanTo
    <3> QED
      BY <2>2, <3>1
  <2>4. n \in 1..Len(text) /\ n - 1 \in 0..Len(text) /\ n - 1 \notin Bad
    BY <2>2, <2>3
  <2>5. PICK f : RanTo(text, n - 1, f)
    BY <2>4
  <2> DEFINE g == [i \in 0..n |-> IF i = n THEN Pushed(text, n, f[n - 1]) ELSE f[i]]
  <2>6. RanTo(text, n, g)
    BY <2>4, <2>5 DEF RanTo
  <2> QED
    BY <2>2, <2>6
<1>2. Len(text) \in 0..Len(text)
  OBVIOUS
<1> QED
  BY <1>1, <1>2

\* So read_line returns the last state of its out.
LEMMA ReadLineRuns ==
  ASSUME NEW W, NEW text \in Seq(W)
  PROVE  \E out : RanTo(text, Len(text), out) /\ read_line(text) = out[Len(text)]
<1>1. PICK f : RanTo(text, Len(text), f)
  BY LoopRuns
<1>2. Len(text) \in Nat
  OBVIOUS
<1>3. f = [i \in 0..Len(text) |-> f[i]]
  BY <1>1 DEF RanTo
<1>4. Outs(text, f)
  <2> DEFINE h == [n \in 0..Len(text) |->
                     IF n = 0 THEN <<>>
                     ELSE IF text[n] = CR THEN f[n - 1] ELSE Append(f[n - 1], text[n])]
  <2>1. ASSUME NEW i \in 0..Len(text) PROVE f[i] = h[i]
    <3>1. CASE i = 0
      BY <1>1, <3>1 DEF RanTo
    <3>2. CASE i \in 1..Len(text)
      <4>1. f[i] = Pushed(text, i, f[i - 1]) /\ i # 0
        BY <1>1, <3>2 DEF RanTo
      <4> QED
        BY <4>1 DEF Pushed
    <3> QED
      BY <1>2, <3>1, <3>2
  <2> QED
    BY <1>3, <2>1 DEF Outs
<1> DEFINE out == CHOOSE out : Outs(text, out)
<1>5. Outs(text, out)
  BY <1>4
<1>6. read_line(text) = out[Len(text)]
  BY DEF read_line, Outs
<1>7. RanTo(text, Len(text), out)
  <2> HIDE DEF out
  <2>1. \A n \in 0..Len(text) : out[n] = IF n = 0 THEN <<>>
          ELSE IF text[n] = CR THEN out[n - 1] ELSE Append(out[n - 1], text[n])
    BY <1>5 DEF Outs
  <2>2. DOMAIN out = 0..Len(text)
    BY <1>5 DEF Outs
  <2>3. 0 \in 0..Len(text) /\ \A i \in 1..Len(text) : i \in 0..Len(text) /\ i # 0
    BY <1>2
  <2>4. out[0] = <<>>
    BY <2>1, <2>3
  <2>5. ASSUME NEW i \in 1..Len(text) PROVE out[i] = Pushed(text, i, out[i - 1])
    BY <2>1, <2>3 DEF Pushed
  <2> QED
    BY <2>2, <2>4, <2>5 DEF RanTo
<1> QED
  BY <1>6, <1>7

\* What read_line returns is no longer than the text, and begins as the text
\* does, up to the first '\r' or further than it.
LEMMA ReadLine ==
  ASSUME NEW W, NEW text \in Seq(W)
  PROVE  /\ read_line(text) \in Seq(W) /\ Len(read_line(text)) <= Len(text)
         /\ \A m \in 0..Len(text) : (\A i \in 1..m : text[i] # CR) =>
              /\ m <= Len(read_line(text))
              /\ \A i \in 1..m : read_line(text)[i] = text[i]
<1>1. PICK out : RanTo(text, Len(text), out) /\ read_line(text) = out[Len(text)]
  BY ReadLineRuns
<1>2. Len(text) \in Nat
  OBVIOUS
<1> DEFINE Good(n) ==
      /\ out[n] \in Seq(W) /\ Len(out[n]) <= n
      /\ \A m \in 0..n : (\A i \in 1..m : text[i] # CR) =>
           m <= Len(out[n]) /\ \A i \in 1..m : out[n][i] = text[i]
<1> DEFINE Bad == {n \in 0..Len(text) : ~Good(n)}
<1>3. ASSUME Bad # {} PROVE FALSE
  <2>1. PICK n : n = Min(Bad)
    OBVIOUS
  <2>2. n \in Bad /\ \A m \in Bad : n <= m
    <3>1. Bad \in SUBSET Nat
      OBVIOUS
    <3> HIDE DEF Bad
    <3> QED
      BY <1>3, <2>1, <3>1, SmallestNumber
  <2>3. n # 0
    <3>1. out[0] = <<>> /\ \A m \in 0..0 : m = 0
      BY <1>1 DEF RanTo
    <3>2. Good(0)
      BY <3>1
    <3> QED
      BY <2>2, <3>2
  <2>4. n \in 1..Len(text) /\ n - 1 \in 0..Len(text) /\ n - 1 \notin Bad
    BY <2>2, <2>3
  <2>5. Good(n - 1)
    BY <2>4
  <2>6. out[n] = Pushed(text, n, out[n - 1]) /\ text[n] \in W
    BY <1>1, <2>4 DEF RanTo
  <2>7. /\ out[n] \in Seq(W) /\ Len(out[n]) <= n
        /\ Len(out[n - 1]) \in Nat /\ Len(out[n - 1]) <= Len(out[n])
        /\ \A i \in 1..Len(out[n - 1]) : out[n][i] = out[n - 1][i]
    BY <2>4, <2>5, <2>6 DEF Pushed
  <2>8. ASSUME NEW m \in 0..n, \A i \in 1..m : text[i] # CR
        PROVE  m <= Len(out[n]) /\ \A i \in 1..m : out[n][i] = text[i]
    <3>1. CASE m < n
      <4>1. m \in 0..(n - 1)
        BY <2>4, <3>1
      <4>2. m <= Len(out[n - 1]) /\ \A i \in 1..m : out[n - 1][i] = text[i]
        BY <2>5, <2>8, <4>1
      <4> QED
        BY <2>7, <4>2
    <3>2. CASE m = n
      <4>1. n - 1 \in 0..(n - 1) /\ text[n] # CR /\ \A i \in 1..(n - 1) : text[i] # CR
        BY <2>4, <2>8, <3>2
      <4>2. n - 1 <= Len(out[n - 1]) /\ \A i \in 1..(n - 1) : out[n - 1][i] = text[i]
        BY <2>5, <4>1
      <4>3. Len(out[n - 1]) = n - 1
        BY <2>4, <2>5, <4>2
      <4>4. out[n] = Append(out[n - 1], text[n])
        BY <2>6, <4>1 DEF Pushed
      <4>5. Len(out[n]) = n /\ out[n][n] = text[n]
        BY <2>4, <2>5, <2>6, <4>3, <4>4
      <4> QED
        BY <2>4, <2>7, <3>2, <4>2, <4>3, <4>5
    <3> QED
      BY <2>4, <2>8, <3>1, <3>2
  <2>9. Good(n)
    BY <2>7, <2>8
  <2> QED
    BY <2>2, <2>9
<1>4. Good(Len(text))
  BY <1>2, <1>3
<1> QED
  BY <1>1, <1>4

\* A text without '\r' is read as it is.
LEMMA ReadWhole ==
  ASSUME NEW W, NEW text \in Seq(W), \A i \in 1..Len(text) : text[i] # CR
  PROVE  read_line(text) = text
<1>1. /\ read_line(text) \in Seq(W) /\ Len(read_line(text)) = Len(text)
      /\ \A i \in 1..Len(text) : read_line(text)[i] = text[i]
  <2>1. Len(text) \in 0..Len(text)
    OBVIOUS
  <2> QED
    BY <2>1, ReadLine
<1> QED
  BY <1>1
-----------------------------------------------------------------------------
\* Two things are two.
LEMMA PairCardinality ==
  ASSUME NEW i, NEW j, i # j
  PROVE  IsFiniteSet({i} \cup {j}) /\ Cardinality({i} \cup {j}) = 2
<1>1. IsFiniteSet({i}) /\ Cardinality({i}) = 1
  BY FS_Singleton, Zenon
<1>2. j \notin {i}
  OBVIOUS
<1>3. IsFiniteSet({i} \cup {j}) /\ Cardinality({i} \cup {j}) = Cardinality({i}) + 1
  BY <1>1, <1>2, FS_AddElement, Zenon
<1> QED
  BY <1>1, <1>3

\* The first two of some positions, when those before them are none of them.
LEMMA FirstTwo ==
  ASSUME NEW W, NEW line \in Seq(W), NEW P \in SUBSET DOMAIN line,
         NEW i \in P, NEW j \in P, i < j, \A n \in P : n <= i \/ j <= n, \A n \in P : i <= n
  PROVE  Min(P) = i /\ Second(P) = j /\ Cardinality(P) \in Nat /\ Cardinality(P) >= 2
<1>1. P \in SUBSET Nat
  OBVIOUS
<1>2. Min(P) = i
  BY <1>1, MinIs
<1>3. Min(P \ {i}) = j
  <2>1. P \ {i} \in SUBSET Nat /\ j \in P \ {i}
    BY <1>1
  <2>2. \A n \in P \ {i} : j <= n
    BY <1>1
  <2> QED
    BY <2>1, <2>2, MinIs
<1>4. IsFiniteSet(P)
  <2>1. IsFiniteSet(1..Len(line))
    BY FS_Interval
  <2> QED
    BY <2>1, FS_Subset
<1>5. i # j
  BY <1>1
<1>6. IsFiniteSet({i} \cup {j}) /\ Cardinality({i} \cup {j}) = 2
  BY <1>5, PairCardinality
<1>7. Cardinality(P) \in Nat /\ Cardinality({i} \cup {j}) <= Cardinality(P)
  <2>1. {i} \cup {j} \in SUBSET P
    OBVIOUS
  <2> QED
    BY <1>4, <2>1, FS_CardinalityType, FS_Subset
<1> QED
  BY <1>2, <1>3, <1>6, <1>7 DEF Second

\* A plain PUT asks for its second word and for all that stands behind the
\* second blank.
LEMMA PlainRequest ==
  ASSUME NEW W, NEW line \in Seq(W), Plain(line), upper(line[1]) = "PUT"
  PROVE  LET r == Parse(line) IN
         /\ r.cmd = "PUT" /\ r.words >= 3 /\ r.words \in Nat
         /\ r.rec = line[3] /\ r.val = Str(SubSeq(line, 5, Len(line)))
<1>1. /\ DOMAIN line = 1..Len(line) /\ Len(line) \in Nat /\ Len(line) >= 5
      /\ line[2] = SP /\ line[4] = SP
      /\ line[1] \notin {SP, TAB} /\ line[3] \notin {SP, TAB} /\ line[5] \notin {SP, TAB}
  <2>1. DOMAIN line = 1..Len(line) /\ Len(line) \in Nat
    OBVIOUS
  <2>2. {line[1], line[3], line[5]} \cap {SP, TAB} = {} /\ Len(line) >= 5 /\ line[2] = SP /\ line[4] = SP
    BY DEF Plain
  <2>3. line[1] \notin {SP, TAB} /\ line[3] \notin {SP, TAB} /\ line[5] \notin {SP, TAB}
    BY <2>2
  <2> QED
    BY <2>1, <2>2, <2>3
<1> DEFINE parts == split_ws(line)
           spaces == {n \in DOMAIN line : line[n] = SP}
<1>2. parts \in SUBSET DOMAIN line /\ 1 \in parts /\ 3 \in parts /\ 5 \in parts /\ 2 \notin parts
  BY <1>1 DEF split_ws
<1>3. Min(parts) = 1 /\ Second(parts) = 3 /\ Cardinality(parts) \in Nat
  <2>1. \A n \in parts : (n <= 1 \/ 3 <= n) /\ 1 <= n
    BY <1>1, <1>2
  <2> HIDE DEF parts
  <2> QED
    BY <1>2, <2>1, FirstTwo
<1>4. Cardinality(parts) >= 3
  <2>1. Cardinality({1} \cup {3} \cup {5}) = 3
    <3>1. IsFiniteSet({1} \cup {3}) /\ Cardinality({1} \cup {3}) = 2
      <4>1. 1 # 3
        OBVIOUS
      <4> QED
        BY <4>1, PairCardinality
    <3>2. 5 \notin {1} \cup {3}
      OBVIOUS
    <3>3. Cardinality({1} \cup {3} \cup {5}) = Cardinality({1} \cup {3}) + 1
      BY <3>1, <3>2, FS_AddElement, Zenon
    <3>4. 2 + 1 = 3
      OBVIOUS
    <3> QED
      BY <3>1, <3>3, <3>4
  <2>2. IsFiniteSet(parts)
    <3>1. IsFiniteSet(1..Len(line))
      BY <1>1, FS_Interval
    <3> QED
      BY <1>1, <1>2, <3>1, FS_Subset
  <2>3. {1} \cup {3} \cup {5} \in SUBSET parts
    BY <1>2
  <2> HIDE DEF parts
  <2> QED
    BY <1>3, <2>1, <2>2, <2>3, FS_Subset
<1>5. Min(spaces) = 2 /\ Second(spaces) = 4 /\ Cardinality(spaces) \in Nat /\ Cardinality(spaces) >= 2
  <2>1. spaces \in SUBSET DOMAIN line /\ 2 \in spaces /\ 4 \in spaces /\ 1 \notin spaces /\ 3 \notin spaces
    BY <1>1, BlankAssumption
  <2>2. \A n \in spaces : (n <= 2 \/ 4 <= n) /\ 2 <= n
    BY <1>1, <2>1
  <2> HIDE DEF spaces
  <2> QED
    BY <2>1, <2>2, FirstTwo
<1>6. put_value(line) = SubSeq(line, 5, Len(line))
  <2>1. ~(Cardinality(spaces) < 2) /\ Second(spaces) + 1 = 5
    BY <1>5
  <2> QED
    BY <2>1 DEF put_value
<1>7. Command(line[1]) = "PUT"
  BY DEF Command
<1>8. Parse(line) = [cmd |-> Command(line[1]), words |-> Cardinality(parts),
                     rec |-> line[3], val |-> Str(put_value(line))]
  BY <1>2, <1>3, <1>4 DEF Parse
<1> QED
  BY <1>3, <1>4, <1>6, <1>7, <1>8

\* The words and blanks of lines.
Chars == Commands \cup {SP, TAB, CR} \cup Rec \cup Value

\* The forms of the lines.
LEMMA LineForms ==
  ASSUME NEW text \in Lines
  PROVE  \/ \E cmd \in {"start", "COMMIT", "ABORT", "END", "ROLLBACK", "PUT"} : text = <<cmd>>
         \/ text = <<TAB, CR>>
         \/ \E k \in Rec : text = <<"GET", TAB, k, CR>>
         \/ \E k \in Rec, v \in Value : text = <<"PUT", SP, k, SP, v, SP, SP, v, CR>>
         \/ \E k \in Rec, v \in Value : text = <<"put", SP, SP, k, SP, v>>
         \/ \E k \in Rec, v \in Value : text = <<"PUT", TAB, k, SP, v>>
         \/ text = [n \in 1..(MAX_LINE + 1) |-> SP]
<1>1. CASE text \in {<<"PUT", SP, k, SP, v, SP, SP, v, CR>> : k \in Rec, v \in Value}
  BY <1>1
<1>2. CASE text \in {<<"put", SP, SP, k, SP, v>> : k \in Rec, v \in Value}
  BY <1>2
<1>3. CASE text \in {<<"PUT", TAB, k, SP, v>> : k \in Rec, v \in Value}
  BY <1>3
<1>4. CASE text \in {<<"GET", TAB, k, CR>> : k \in Rec}
  BY <1>4
<1>5. CASE text \in {<<cmd>> : cmd \in {"start", "COMMIT", "ABORT", "END", "ROLLBACK", "PUT"}}
  BY <1>5
<1>6. CASE text \in {<<TAB, CR>>} \/ text \in {[n \in 1..(MAX_LINE + 1) |-> SP]}
  BY <1>6
<1> QED
  BY <1>1, <1>2, <1>3, <1>4, <1>5, <1>6 DEF Lines

\* Every line is one of characters.
LEMMA LinesAreText ==
  ASSUME NEW text \in Lines
  PROVE  text \in Seq(Chars)
<1> DEFINE Words == {"start", "COMMIT", "ABORT", "END", "ROLLBACK", "PUT"}
<1>1. /\ \A word \in Words \cup {"GET", "put"} : word \in Chars
      /\ SP \in Chars /\ TAB \in Chars /\ CR \in Chars
      /\ \A v \in Value : v \in Chars
      /\ \A k \in Rec : k \in Chars
  BY DEF Chars, Commands
<1>2. "GET" \in Chars /\ "put" \in Chars /\ "PUT" \in Chars
  BY <1>1
<1>3. ASSUME NEW cmd \in Words, text = <<cmd>> PROVE text \in Seq(Chars)
  <2>1. cmd \in Chars
    BY <1>1
  <2> HIDE DEF Words
  <2> QED
    BY <1>3, <2>1
<1>4. text = <<TAB, CR>> => text \in Seq(Chars)
  <2>1. <<TAB, CR>> \in Seq(Chars)
    BY <1>1
  <2> QED
    BY <2>1
<1>5. ASSUME NEW k \in Rec, text = <<"GET", TAB, k, CR>> PROVE text \in Seq(Chars)
  BY <1>1, <1>2, <1>5
<1>6. ASSUME NEW k \in Rec, NEW v \in Value, text = <<"PUT", SP, k, SP, v, SP, SP, v, CR>>
      PROVE  text \in Seq(Chars)
  <2>1. k \in Chars /\ v \in Chars
    BY <1>1
  <2> QED
    BY <1>1, <1>2, <1>6, <2>1
<1>7. ASSUME NEW k \in Rec, NEW v \in Value, text = <<"put", SP, SP, k, SP, v>>
      PROVE  text \in Seq(Chars)
  <2>1. k \in Chars /\ v \in Chars
    BY <1>1
  <2> QED
    BY <1>1, <1>2, <1>7, <2>1
<1>8. ASSUME NEW k \in Rec, NEW v \in Value, text = <<"PUT", TAB, k, SP, v>>
      PROVE  text \in Seq(Chars)
  <2>1. k \in Chars /\ v \in Chars
    BY <1>1
  <2> QED
    BY <1>1, <1>2, <1>8, <2>1
<1>9. CASE text = [n \in 1..(MAX_LINE + 1) |-> SP]
  BY <1>1, <1>9, LengthAssumption
<1> QED
  BY <1>3, <1>4, <1>5, <1>6, <1>7, <1>8, <1>9, LineForms

\* A plain PUT among the lines has a record's key.
LEMMA PlainKey ==
  ASSUME NEW text \in Lines, Plain(read_line(text))
  PROVE  read_line(text)[3] \in Rec
<1> DEFINE line == read_line(text)
<1>1. /\ line \in Seq(Chars) /\ Len(line) <= Len(text)
      /\ \A m \in 0..Len(text) : (\A i \in 1..m : text[i] # CR) => \A i \in 1..m : line[i] = text[i]
  BY LinesAreText, ReadLine
<1>2. /\ Len(line) >= 5 /\ Len(line) \in Nat /\ line[2] = SP
      /\ line[1] \notin {SP, TAB} /\ line[3] \notin {SP, TAB}
  <2>1. {line[1], line[3], line[5]} \cap {SP, TAB} = {} /\ Len(line) >= 5 /\ line[2] = SP
    BY DEF Plain
  <2>2. line[1] \notin {SP, TAB} /\ line[3] \notin {SP, TAB}
    BY <2>1
  <2>3. Len(line) \in Nat
    BY <1>1
  <2> QED
    BY <2>1, <2>2, <2>3
<1> HIDE DEF line
<1>3. Len(text) \in Nat /\ Len(text) >= 5
  <2>1. Len(text) \in Nat
    BY LinesAreText
  <2> QED
    BY <1>1, <1>2, <2>1
<1>4. ASSUME NEW cmd, text = <<cmd>> PROVE FALSE
  BY <1>3, <1>4
<1>5. text # <<TAB, CR>> /\ \A k \in Rec : text # <<"GET", TAB, k, CR>>
  <2>1. ASSUME text = <<TAB, CR>> PROVE FALSE
    BY <1>3, <2>1
  <2>2. ASSUME NEW k \in Rec, text = <<"GET", TAB, k, CR>> PROVE FALSE
    BY <1>3, <2>2
  <2> QED
    BY <2>1, <2>2
<1>6. ASSUME NEW k \in Rec, NEW v \in Value, text = <<"PUT", SP, k, SP, v, SP, SP, v, CR>>
      PROVE  line[3] \in Rec
  <2>1. text[1] = "PUT" /\ text[2] = SP /\ text[3] = k
    BY <1>6
  <2>2. text[1] # CR /\ text[2] # CR /\ text[3] # CR
    BY <2>1, BlankAssumption DEF Commands
  <2>3. 3 \in 0..Len(text) /\ \A i \in 1..3 : text[i] # CR
    BY <1>3, <2>2
  <2> QED
    BY <1>1, <2>1, <2>3
<1>7. ASSUME NEW k, NEW v, text = <<"put", SP, SP, k, SP, v>> PROVE FALSE
  <2>1. text[1] = "put" /\ text[2] = SP /\ text[3] = SP
    BY <1>7
  <2>2. text[1] # CR /\ text[2] # CR /\ text[3] # CR
    BY <2>1, BlankAssumption DEF Commands
  <2>3. 3 \in 0..Len(text) /\ \A i \in 1..3 : text[i] # CR
    BY <1>3, <2>2
  <2> QED
    BY <1>1, <1>2, <2>1, <2>3
<1>8. ASSUME NEW k, NEW v, text = <<"PUT", TAB, k, SP, v>> PROVE FALSE
  <2>1. text[1] = "PUT" /\ text[2] = TAB
    BY <1>8
  <2>2. text[1] # CR /\ text[2] # CR
    BY <2>1, BlankAssumption DEF Commands
  <2>3. 2 \in 0..Len(text) /\ \A i \in 1..2 : text[i] # CR
    BY <1>3, <2>2
  <2> QED
    BY <1>1, <1>2, <2>1, <2>3, BlankAssumption
<1>9. CASE text = [n \in 1..(MAX_LINE + 1) |-> SP]
  <2>1. text[1] = SP /\ 1 \in 0..Len(text) /\ \A i \in 1..1 : text[i] # CR
    BY <1>3, <1>9, LengthAssumption, BlankAssumption
  <2> QED
    BY <1>1, <1>2, <2>1
<1> QED
  BY <1>4, <1>5, <1>6, <1>7, <1>8, <1>9, LineForms DEF line
-----------------------------------------------------------------------------
\* put, answered OK, leaves in the transaction's copy of the record what the buffer
\* holds of the value.
LEMMA PutWrites ==
  ASSUME ApiTypeOK, NEW c \in Client, NEW p \in Rec, NEW v, put(c, p, v),
         rc'[c] = "OK"
  PROVE  ctx'[c].copy[p] = buffered(v)
<1>1. ctx[c] \in OpenTxn
  BY DEF put, ApiTypeOK
<1>2. CanUse(c, p)
  BY DEF put, Answer, ApiTypeOK
<1>3. ctx' = [ctx EXCEPT ![c].copy[p] = buffered(v), ![c].wr = ctx[c].wr \cup {p}]
  BY <1>2 DEF put
<1> QED
  BY <1>1, <1>3 DEF OpenTxn, ApiTypeOK
\* To take a line off a queue neither leaves nor appends to it.
LEMMA TailIsShorter ==
  ASSUME NEW S, NEW s \in Seq(S), s # <<>>
  PROVE  Tail(s) # s /\ \A x : Tail(s) # Append(s, x)
<1>1. Len(s) \in Nat /\ Len(Tail(s)) = Len(s) - 1
  OBVIOUS
<1>2. \A x : Len(Append(s, x)) = Len(s) + 1
  OBVIOUS
<1>3. Tail(s) # s
  <2> SUFFICES ASSUME Tail(s) = s PROVE FALSE
    OBVIOUS
  <2> QED
    BY <1>1
<1>4. ASSUME NEW x, Tail(s) = Append(s, x) PROVE FALSE
  <2>1. Len(s) - 1 = Len(s) + 1
    BY <1>1, <1>2, <1>4
  <2> QED
    BY <1>1, <2>1
<1> QED
  BY <1>3, <1>4

\* A step of a server thread that takes a plain PUT off the inbox and answers OK
\* has put the rest of the line, cut to the buffer.
LEMMA PlainPutStep ==
  ASSUME SessionInv, NEW c \in Client, NEW d \in Client, AnyClient(d) \/ Serve(d),
         inbox[c] # <<>>, inbox'[c] = Tail(inbox[c]), reply'[c] = Say("OK"),
         NEW line, line = read_line(Head(inbox[c])), Plain(line), upper(line[1]) = "PUT"
  PROVE  ctx'[c].copy[line[3]] = buffered(Str(SubSeq(line, 5, Len(line))))
<1>1. Head(inbox[c]) \in Lines /\ inbox \in [Client -> Seq(Lines)] /\ DOMAIN reply = Client
  BY HeadOfInbox DEF SessionInv, TypeOK
<1>2. inbox'[c] # inbox[c] /\ \A text : inbox'[c] # Append(inbox[c], text)
  <2>1. inbox[c] \in Seq(Lines) /\ inbox[c] # <<>>
    BY <1>1
  <2> QED
    BY <2>1, TailIsShorter
<1> DEFINE r == Parse(line)
<1>3. r.cmd = "PUT" /\ r.words >= 3 /\ r.words \in Nat /\ r.rec \in Rec
      /\ r.rec = line[3] /\ r.val = Str(SubSeq(line, 5, Len(line)))
  <2>1. line \in Seq(Chars)
    BY <1>1, LinesAreText, ReadLine
  <2> QED
    BY <1>1, <2>1, PlainRequest, PlainKey
<1>4. r = NextRequest(c)
  BY DEF NextRequest
<1> HIDE DEF r
<1>5. Say("OK") # Say("ERR NO_ACTIVE_TXN") /\ Say("OK") # Say("ERR PUT_FAIL")
  <2>1. Say("OK").text = "OK" /\ Say("ERR NO_ACTIVE_TXN").text = "ERR NO_ACTIVE_TXN"
        /\ Say("ERR PUT_FAIL").text = "ERR PUT_FAIL"
    BY DEF Say, Reply
  <2> QED
    BY <2>1
<1>6. ~AnyClient(d)
  BY <1>1, <1>2 DEF AnyClient, Connect, ReadReply, Close, SendLine
<1>7. ~(Accept(d) \/ SendReply(d) \/ SendSigpipe(d) \/ Disconnect(d))
  BY <1>2 DEF Accept, SendReply, SendSigpipe, Disconnect
<1>8. NextLine(d) => d = c
  BY <1>1, <1>2 DEF NextLine
<1>9. ~Reject(d)
  <2> SUFFICES ASSUME Reject(d) PROVE FALSE
    OBVIOUS
  <2>1. d = c
    BY <1>8 DEF Reject
  <2>2. Rejected(r, in_txn[c]) # NULL /\ AnswerWith(c, Rejected(r, in_txn[c]))
    BY <1>4, <2>1 DEF Reject
  <2>3. Rejected(r, in_txn[c]) \in {Say("ERR NO_ACTIVE_TXN"), NULL}
    <3>0. r.cmd = "PUT" /\ ~(r.words < 3)
      BY <1>3
    <3>1. Rejected(r, TRUE) = NULL
      BY <3>0 DEF Rejected
    <3>2. Rejected(r, FALSE) = Say("ERR NO_ACTIVE_TXN")
      BY <3>0 DEF Rejected
    <3>3. in_txn[c] \in BOOLEAN
      BY DEF SessionInv, TypeOK
    <3> QED
      BY <3>1, <3>2, <3>3
  <2> QED
    BY <1>1, <1>5, <2>2, <2>3 DEF AnswerWith
<1>10. Execute(d, NextRequest(d))
  BY <1>6, <1>7, <1>9 DEF Serve
<1>11. d = c /\ Put(c, r)
  <2>1. d = c
    BY <1>8, <1>10 DEF Execute, Start, Get, Put, Commit, Abort, End, Line
  <2> QED
    BY <1>3, <1>4, <1>10, <2>1 DEF Execute, Start, Get, Commit, Abort, End, Line
<1>12. put(c, r.rec, r.val) /\ rc'[c] = "OK"
  <2>1. reply'[c] = IF rc'[c] = "OK" THEN Say("OK") ELSE Say("ERR PUT_FAIL")
    BY <1>1, <1>11 DEF Put, AnswerWith
  <2> QED
    BY <1>5, <1>11, <2>1 DEF Put
<1>13. ApiTypeOK
  BY DEF SessionInv, TypeOK, ApiTypeOK
<1> QED
  BY <1>3, <1>12, <1>13, PutWrites

\* A PUT of the form its usage gives, answered OK, has given the record the rest
\* of the line, whatever blanks are in it, as far as the engine's buffer holds it,
\* and nothing of the command, the key or the line's end: what split_ws and the
\* search for the second blank make of one line agrees.
THEOREM PlainPutsAreExact == SessionSpec => PlainPutIsExact
<1> DEFINE Exact ==
      \A c \in Client :
        LET line == read_line(Head(inbox[c]))
            rest == SubSeq(line, 5, Len(line))
        IN /\ inbox[c] # <<>> /\ Plain(line) /\ upper(line[1]) = "PUT"
           /\ inbox'[c] = Tail(inbox[c]) /\ reply'[c] = Say("OK")
           => ctx'[c].copy[line[3]] = buffered(IF Len(rest) = 1 THEN rest[1] ELSE rest)
<1>1. SessionInv /\ [SessionNext]_serverVars => [Exact]_serverVars
  <2> SUFFICES ASSUME SessionInv, SessionNext, ~(UNCHANGED serverVars) PROVE Exact
    OBVIOUS
  <2> TAKE c \in Client
  <2> DEFINE line == read_line(Head(inbox[c]))
             rest == SubSeq(line, 5, Len(line))
  <2> SUFFICES ASSUME inbox[c] # <<>>, inbox'[c] = Tail(inbox[c]), reply'[c] = Say("OK"),
                      Plain(line), upper(line[1]) = "PUT"
               PROVE  ctx'[c].copy[line[3]] = buffered(IF Len(rest) = 1 THEN rest[1] ELSE rest)
    OBVIOUS
  <2>1. PICK d \in Client : AnyClient(d) \/ Serve(d)
    BY DEF SessionNext, SessionStopped, serverVars
  <2> QED
    BY <2>1, PlainPutStep DEF Str
<1> HIDE DEF Exact
<1>2. SessionSpec => [][Exact]_serverVars
  BY <1>1, SessionIsInvariant, PTL DEF SessionSpec
<1> QED
  BY <1>2 DEF PlainPutIsExact, Exact
=============================================================================
