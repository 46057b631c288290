----------------------------- MODULE AgentProofs -----------------------------
(***************************************************************************)
(* Proofs about the agent: any number of transactions, keys and values,    *)
(* any number and length of the model's answers, any calls in them.        *)
(***************************************************************************)
EXTENDS MCAgent, TLAPS

\* A transaction as _tx_map keeps it.
Entry == [snapshot : [Key -> Value \cup {NULL}], writes : [Key -> Value \cup {NULL}]]

\* A tool call as the answer holds it.
ToolCall == [id : Nat, call : Calls]

\* What RunTool may find in todo.
TodoOK ==
  /\ todo \in Seq(ToolCall)
  /\ asked \in Seq(Nat) /\ answered \in Seq(Nat)

TypeOK ==
  /\ store \in [Key -> Value \cup {NULL}] /\ replay \in [Key -> Value \cup {NULL}]
  /\ tx_map \in [TxId -> Entry \cup {NULL}]
  /\ drawn \subseteq TxId
  /\ sent \in [TxId -> [Key -> Value \cup {NULL}]]
  /\ began \in [TxId -> [Key -> Value \cup {NULL}]]
  /\ overlapped \subseteq TxId
  /\ TodoOK

\* An open transaction has been drawn, and its writes are those the tool
\* messages have accepted; of an id not yet drawn nothing has been accepted.
OpenIsSent ==
  /\ \A x \in TxId : tx_map[x] # NULL => x \in drawn /\ tx_map[x].writes = sent[x]
  /\ \A x \in TxId \ drawn : sent[x] = Empty /\ x \notin overlapped

\* As long as no other transaction has committed, an open one sees the
\* committed writes of its start.
AloneSeesStart ==
  \A x \in TxId \ overlapped : tx_map[x] # NULL => began[x] = replay

StoreInv == TypeOK /\ OpenIsSent /\ AloneSeesStart /\ StoreIsReplay

\* The messages of an answer: those already sent and the calls still to run
\* make up the answer's calls.
AnsweredSoFar ==
  /\ TodoOK
  /\ \A n \in 1..Len(asked) : asked[n] = n
  /\ \A n \in 1..Len(answered) : answered[n] = n
  /\ pc = "tools" => /\ Len(answered) + Len(todo) = Len(asked)
                     /\ \A n \in 1..Len(todo) : todo[n].id = Len(answered) + n
  /\ pc \in {"input", "model"} => Len(answered) = Len(asked)
-----------------------------------------------------------------------------
\* A call of the model that RunTool carries out: tx_get and tx_put with an id have
\* a key, and only a tx_put carries a value.
LEMMA CallFacts ==
  ASSUME NEW c \in Calls, c.args = "fit"
  PROVE  /\ c.name \in {"tx_start", "other", "tx_get", "tx_put", "tx_commit", "tx_rollback"}
         /\ c.tx_id # NULL => c.tx_id \in TxId
         /\ c.tx_id # NULL /\ c.name \in {"tx_get", "tx_put"} => c.key \in Key
         /\ c.tx_id # NULL /\ c.name = "tx_put" => c.value \in Value
<1>1. CASE c \in {Call("tx_start", "fit", NULL, NULL, NULL), Call("other", "fit", NULL, NULL, NULL),
                  Call("tx_put", "fit", NULL, NULL, NULL)}
  BY <1>1 DEF Call
<1>2. CASE \E x \in TxId, k \in Key :
             \/ \E v \in Value : c = Call("tx_put", "fit", x, k, v)
             \/ c = Call("tx_get", "fit", x, k, NULL)
  BY <1>2 DEF Call
<1>3. CASE \E name \in {"tx_commit", "tx_rollback"}, x \in TxId : c = Call(name, "fit", x, NULL, NULL)
  BY <1>3 DEF Call
<1>4. c # Call("tx_get", "unfit", NULL, NULL, NULL)
  BY DEF Call
<1> QED
  BY <1>1, <1>2, <1>3, <1>4 DEF Calls

\* What Report leaves in result, and what Learn makes of it.
LEMMA ReportFacts ==
  ASSUME NEW c, NEW ok, NEW value, Report(c, ok, value)
  PROVE  result'.call = c /\ result'.ok = ok /\ result'.value = value
BY DEF Report

\* The first call to run, and the rest.
LEMMA HeadOfTodo ==
  ASSUME TodoOK, todo # <<>>
  PROVE  /\ Head(todo) = todo[1] /\ Head(todo) \in ToolCall
         /\ Tail(todo) \in Seq(ToolCall) /\ Len(Tail(todo)) = Len(todo) - 1
         /\ \A n \in 1..Len(Tail(todo)) : Tail(todo)[n] = todo[n + 1]
BY DEF TodoOK

\* An empty store is a store.
LEMMA EmptyType == Empty \in [Key -> Value \cup {NULL}]
BY DEF Empty
-----------------------------------------------------------------------------
\* One lemma per tool: c is the call RunTool carries out.
LEMMA StartStep ==
  ASSUME StoreInv, NEW c, c.name = "tx_start", tx_start(c), Learn,
         todo' \in Seq(ToolCall), answered' \in Seq(Nat), UNCHANGED asked
  PROVE  StoreInv'
<1> USE EmptyType DEF StoreInv, TypeOK, TodoOK, OpenIsSent, AloneSeesStart, StoreIsReplay
<1>1. PICK x \in TxId \ drawn :
         /\ tx_map' = [tx_map EXCEPT ![x] = [snapshot |-> store, writes |-> Empty]]
         /\ drawn' = drawn \cup {x}
         /\ Report(c, TRUE, x)
         /\ UNCHANGED store
  BY DEF tx_start
<1>2. began' = [began EXCEPT ![x] = replay] /\ UNCHANGED <<sent, replay, overlapped>>
  BY <1>1, ReportFacts DEF Learn, Is
<1>3. TypeOK'
  BY <1>1, <1>2 DEF Entry
<1>4. OpenIsSent'
  BY <1>1, <1>2
<1>5. AloneSeesStart'
  BY <1>1, <1>2
<1> QED
  BY <1>1, <1>2, <1>3, <1>4, <1>5

\* tx_put writes into its own transaction only.
LEMMA PutStep ==
  ASSUME StoreInv, NEW c \in Calls, c.args = "fit", c.name = "tx_put", tx_put(c), Learn,
         todo' \in Seq(ToolCall), answered' \in Seq(Nat), UNCHANGED asked
  PROVE  StoreInv'
<1> USE CallFacts DEF StoreInv, TypeOK, TodoOK, OpenIsSent, AloneSeesStart, StoreIsReplay
<1> DEFINE x == c.tx_id
           k == c.key
<1>1. CASE active(x) /\ k # NULL
  <2>1. x \in TxId /\ k \in Key /\ c.value \in Value /\ tx_map[x] # NULL
    BY <1>1 DEF active
  <2>2. /\ tx_map' = [tx_map EXCEPT ![x].writes[k] = c.value]
        /\ Report(c, TRUE, NULL)
        /\ UNCHANGED <<store, drawn>>
    BY <1>1 DEF tx_put
  <2>3. sent' = [sent EXCEPT ![x][k] = c.value] /\ UNCHANGED <<replay, began, overlapped>>
    BY <2>2, ReportFacts DEF Learn, Is
  <2>4. tx_map[x] \in Entry
    BY <2>1
  <2>5. TypeOK'
    BY <2>1, <2>2, <2>3, <2>4 DEF Entry
  <2>6. OpenIsSent'
    BY <2>1, <2>2, <2>3, <2>4 DEF Entry
  <2>7. AloneSeesStart'
    BY <2>1, <2>2, <2>3
  <2> QED
    BY <2>2, <2>3, <2>5, <2>6, <2>7
<1>2. CASE ~(active(x) /\ k # NULL)
  <2>1. UNCHANGED <<db, history>>
    BY <1>2, ReportFacts DEF tx_put, Fail, Learn, Is, history
  <2> QED
    BY <2>1 DEF db, history
<1> QED
  BY <1>1, <1>2

\* tx_commit applies the accepted writes and closes the transaction.
LEMMA CommitStep ==
  ASSUME StoreInv, NEW c \in Calls, c.args = "fit", c.name = "tx_commit", tx_commit(c), Learn,
         todo' \in Seq(ToolCall), answered' \in Seq(Nat), UNCHANGED asked
  PROVE  StoreInv'
<1> USE CallFacts DEF StoreInv, TypeOK, TodoOK, OpenIsSent, AloneSeesStart, StoreIsReplay
<1> DEFINE x == c.tx_id
<1>1. CASE active(x)
  <2>1. x \in TxId /\ tx_map[x] # NULL /\ tx_map[x] \in Entry /\ tx_map[x].writes = sent[x]
    BY <1>1 DEF active
  <2>2. /\ store' = [k \in Key |-> get(x, k)]
        /\ tx_map' = [tx_map EXCEPT ![x] = NULL]
        /\ Report(c, TRUE, NULL)
        /\ UNCHANGED drawn
    BY <1>1 DEF tx_commit, Forget
  <2>3. /\ replay' = Over(replay, sent[x])
        /\ overlapped' = {y \in TxId : tx_map'[y] # NULL}
        /\ sent' = [sent EXCEPT ![x] = Empty] /\ began' = [began EXCEPT ![x] = Empty]
    BY <2>2, ReportFacts DEF Learn, Is, Forgotten
  <2>4. store' = replay' /\ store' \in [Key -> Value \cup {NULL}]
    BY <2>1, <2>2, <2>3 DEF get, Over
  <2>5. TypeOK'
    <3>1. sent' \in [TxId -> [Key -> Value \cup {NULL}]]
      BY <2>3, EmptyType
    <3>2. began' \in [TxId -> [Key -> Value \cup {NULL}]]
      BY <2>3, EmptyType
    <3>3. tx_map' \in [TxId -> Entry \cup {NULL}]
      BY <2>2
    <3>4. overlapped' \subseteq TxId
      BY <2>3
    <3> QED
      BY <2>2, <2>4, <3>1, <3>2, <3>3, <3>4
  <2>6. OpenIsSent'
    BY <2>1, <2>2, <2>3
  <2>7. AloneSeesStart'
    BY <2>1, <2>2, <2>3
  <2> QED
    BY <2>4, <2>5, <2>6, <2>7
<1>2. CASE ~active(x)
  <2>1. UNCHANGED <<db, history>>
    BY <1>2, ReportFacts DEF tx_commit, Fail, Learn, Is, history
  <2> QED
    BY <2>1 DEF db, history
<1> QED
  BY <1>1, <1>2

\* tx_rollback closes the transaction and forgets its writes; tx_get changes nothing,
\* and "other" fails.
LEMMA OtherToolsStep ==
  ASSUME StoreInv, NEW c \in Calls, c.args = "fit", Learn,
         \/ c.name = "tx_get" /\ tx_get(c)
         \/ c.name = "tx_rollback" /\ tx_rollback(c)
         \/ c.name = "other" /\ Fail(c),
         todo' \in Seq(ToolCall), answered' \in Seq(Nat), UNCHANGED asked
  PROVE  StoreInv'
<1> USE CallFacts DEF StoreInv, TypeOK, TodoOK, OpenIsSent, AloneSeesStart, StoreIsReplay
<1> DEFINE x == c.tx_id
<1>1. CASE c.name = "tx_rollback" /\ active(x)
  <2>1. x \in TxId
    BY <1>1 DEF active
  <2>2. /\ tx_map' = [tx_map EXCEPT ![x] = NULL]
        /\ Report(c, TRUE, NULL)
        /\ UNCHANGED <<store, drawn>>
    BY <1>1 DEF tx_rollback, Forget
  <2>3. /\ overlapped' = overlapped \ {x}
        /\ sent' = [sent EXCEPT ![x] = Empty] /\ began' = [began EXCEPT ![x] = Empty]
        /\ UNCHANGED replay
    BY <1>1, <2>2, ReportFacts DEF Learn, Is, Forgotten
  <2>4. TypeOK'
    <3>1. sent' \in [TxId -> [Key -> Value \cup {NULL}]]
      BY <2>3, EmptyType
    <3>2. began' \in [TxId -> [Key -> Value \cup {NULL}]]
      BY <2>3, EmptyType
    <3>3. tx_map' \in [TxId -> Entry \cup {NULL}]
      BY <2>2
    <3>4. overlapped' \subseteq TxId
      BY <2>3
    <3> QED
      BY <2>2, <2>3, <3>1, <3>2, <3>3, <3>4
  <2>5. OpenIsSent'
    BY <2>1, <2>2, <2>3
  <2>6. AloneSeesStart'
    BY <2>1, <2>2, <2>3
  <2> QED
    BY <2>2, <2>3, <2>4, <2>5, <2>6
<1>2. CASE ~(c.name = "tx_rollback" /\ active(x))
  <2>1. UNCHANGED <<db, history>>
    BY <1>2, ReportFacts DEF tx_get, tx_rollback, Fail, Learn, Is, history
  <2> QED
    BY <2>1 DEF db, history
<1> QED
  BY <1>1, <1>2

\* Every tool call keeps StoreInv.
LEMMA RunToolStep ==
  ASSUME StoreInv, RunTool, Learn
  PROVE  StoreInv'
<1> DEFINE c == Head(todo).call
<1>1. /\ c \in Calls /\ c.args = "fit" /\ tool_router(c)
      /\ todo' \in Seq(ToolCall) /\ answered' \in Seq(Nat) /\ UNCHANGED asked
  BY HeadOfTodo DEF StoreInv, TypeOK, TodoOK, RunTool, ToolCall
<1> QED
  BY <1>1, StartStep, PutStep, CommitStep, OtherToolsStep DEF tool_router

\* The steps of main and chat_with_tools: of the store they change nothing.
LEMMA LoopStep ==
  ASSUME StoreInv, UNCHANGED <<db, history>>, TodoOK'
  PROVE  StoreInv'
BY DEF StoreInv, TypeOK, OpenIsSent, AloneSeesStart, StoreIsReplay, db, history

\* What each step of the loop does to the tool calls and their messages.
LEMMA TodoStep ==
  ASSUME TodoOK, Chat \/ User \/ Ended \/ UNCHANGED <<vars, history>>
  PROVE  TodoOK'
<1> USE DEF TodoOK
<1>1. ASSUME NEW n \in 1..MaxCalls, NEW cs \in [1..n -> Calls], Answer(cs)
      PROVE  TodoOK'
  <2>1. n \in Nat /\ cs \in Seq(Calls)
    BY BoundsAreNumbers
  <2>2. [i \in DOMAIN cs |-> i] \in Seq(Nat)
    BY <2>1
  <2>3. [i \in DOMAIN cs |-> [id |-> i, call |-> cs[i]]] \in Seq(ToolCall)
    BY <2>1 DEF ToolCall
  <2> QED
    BY <1>1, <2>1, <2>2, <2>3 DEF Answer
<1>2. CASE RunTool
  BY <1>2, HeadOfTodo DEF RunTool, ToolCall
<1>3. CASE UNCHANGED <<todo, asked, answered>>
  BY <1>3
<1> QED
  BY <1>1, <1>2, <1>3 DEF Chat, User, Ended, Ask, Quit, Finish, RoundEnds, Raise, vars, loop

\* Every step keeps StoreInv.
LEMMA StoreInvStep ==
  ASSUME StoreInv, [Chat \/ User \/ Ended]_<<vars, history>>
  PROVE  StoreInv'
<1>1. TodoOK'
  BY TodoStep DEF StoreInv, TypeOK
<1>2. CASE RunTool /\ Learn
  BY <1>2, RunToolStep
<1>3. CASE UNCHANGED <<db, history>>
  BY <1>1, <1>3, LoopStep
<1> QED
  BY <1>2, <1>3 DEF Chat, User, Ended, Answer, Ask, Quit, Finish, RoundEnds, Raise, vars

\* The empty store satisfies StoreInv.
LEMMA StoreInvInit == MCInit => StoreInv
BY EmptyType DEF MCInit, Init, StoreInv, TypeOK, TodoOK, OpenIsSent, AloneSeesStart, StoreIsReplay

\* The store always holds the accepted writes of the transactions reported as
\* committed, in the order of their commits, and nothing else.
THEOREM StoreOnlyCommits == FairSpec => []StoreIsReplay
<1>1. StoreInv => StoreIsReplay
  BY DEF StoreInv
<1> QED
  BY <1>1, StoreInvInit, StoreInvStep, PTL DEF FairSpec
-----------------------------------------------------------------------------
\* A tx_get that succeeds returns the transaction's own last write, or else the
\* committed value, which is that of its start unless others have committed.
THEOREM GetsAnswerRight == FairSpec => GetsAreRight
<1> DEFINE c == result'.call
           of(d) == IF sent[c.tx_id][c.key] # NULL THEN sent[c.tx_id][c.key] ELSE d[c.key]
           Right == (result' # result /\ Is("tx_get")) =>
                       /\ result'.value = of(replay)
                       /\ c.tx_id \notin overlapped => result'.value = of(began[c.tx_id])
<1>1. ASSUME StoreInv, RunTool PROVE Right
  <2> DEFINE d == Head(todo).call
  <2> SUFFICES ASSUME Is("tx_get") PROVE Right
    OBVIOUS
  <2>1. d \in Calls /\ d.args = "fit" /\ tool_router(d)
    BY <1>1, HeadOfTodo DEF StoreInv, TypeOK, TodoOK, RunTool, ToolCall
  <2>2. c = d
    BY <2>1, ReportFacts
       DEF tool_router, tx_start, tx_get, tx_put, tx_commit, tx_rollback, Fail
  <2>3. d.name = "tx_get" /\ tx_get(d) /\ result'.ok
    BY <2>1, <2>2 DEF Is, tool_router
  <2>4. active(d.tx_id) /\ d.key # NULL /\ Report(d, TRUE, get(d.tx_id, d.key))
    BY <2>3, ReportFacts DEF tx_get, Fail
  <2>5. d.tx_id \in TxId /\ d.key \in Key /\ tx_map[d.tx_id] # NULL
    BY <2>1, <2>3, <2>4, CallFacts DEF active
  <2>6. result'.value = get(d.tx_id, d.key)
    BY <2>4, ReportFacts
  <2>7. tx_map[d.tx_id].writes = sent[d.tx_id] /\ store = replay
    BY <1>1, <2>5 DEF StoreInv, OpenIsSent, StoreIsReplay
  <2>8. d.tx_id \notin overlapped => began[d.tx_id] = replay
    BY <1>1, <2>5 DEF StoreInv, AloneSeesStart
  <2> QED
    BY <2>2, <2>6, <2>7, <2>8 DEF get
<1>2. ASSUME StoreInv, [Chat \/ User \/ Ended]_<<vars, history>>
      PROVE  [Right]_<<vars, history>>
  <2>1. CASE RunTool
    BY <1>1, <1>2, <2>1
  <2>2. CASE UNCHANGED result
    BY <2>2
  <2> QED
    BY <1>2, <2>1, <2>2
       DEF Chat, User, Ended, Answer, Ask, Quit, Finish, RoundEnds, Raise, vars
<1>3. FairSpec => [][Right]_<<vars, history>>
  BY <1>2, StoreInvInit, StoreInvStep, PTL DEF FairSpec
<1> QED
  BY <1>3 DEF GetsAreRight
-----------------------------------------------------------------------------
\* Before the first answer nothing is asked or answered.
LEMMA AnsweredInit == MCInit => AnsweredSoFar
BY DEF MCInit, Init, AnsweredSoFar, TodoOK

\* Every step keeps AnsweredSoFar.
LEMMA AnsweredStep ==
  ASSUME AnsweredSoFar, [Chat \/ User \/ Ended]_<<vars, history>>
  PROVE  AnsweredSoFar'
<1> USE DEF AnsweredSoFar
<1>1. TodoOK'
  BY TodoStep
<1>2. ASSUME NEW n \in 1..MaxCalls, NEW cs \in [1..n -> Calls], Answer(cs)
      PROVE  AnsweredSoFar'
  <2>1. n \in Nat /\ DOMAIN cs = 1..n /\ Len(cs) = n
    BY BoundsAreNumbers
  <2>2. /\ pc' = "tools" /\ answered' = <<>> /\ asked' = [i \in 1..n |-> i]
        /\ todo' = [i \in 1..n |-> [id |-> i, call |-> cs[i]]]
    BY <1>2, <2>1 DEF Answer
  <2>3. Len(asked') = n /\ Len(answered') = 0 /\ Len(todo') = n
    BY <2>1, <2>2
  <2>4. /\ \A i \in 1..Len(asked') : asked'[i] = i
        /\ \A i \in 1..Len(todo') : todo'[i].id = i
    BY <2>2, <2>3
  <2> QED
    BY <1>1, <2>1, <2>2, <2>3, <2>4
<1>3. CASE RunTool
  <2> DEFINE n == Len(answered)
  <2>0. n \in Nat /\ Len(todo) \in Nat \ {0} /\ pc = "tools" /\ pc' = "tools"
    BY <1>3 DEF RunTool, TodoOK
  <2>1. answered' = Append(answered, n + 1)
    BY <1>3, <2>0, HeadOfTodo DEF RunTool
  <2>2. Len(answered') = n + 1 /\ \A i \in 1..n + 1 : answered'[i] = i
    BY <2>1 DEF TodoOK
  <2>3. /\ Len(todo') = Len(todo) - 1
        /\ \A i \in 1..Len(todo') : todo'[i] = todo[i + 1]
    BY <1>3, HeadOfTodo DEF RunTool
  <2>4. \A i \in 1..Len(todo') : todo'[i].id = Len(answered') + i
    BY <2>0, <2>2, <2>3
  <2>5. Len(answered') + Len(todo') = Len(asked') /\ UNCHANGED asked
    BY <1>3, <2>0, <2>2, <2>3 DEF RunTool, TodoOK
  <2> QED
    BY <1>1, <2>0, <2>2, <2>4, <2>5
<1>4. CASE RoundEnds
  <2>1. Len(todo) = 0
    BY <1>4 DEF RoundEnds
  <2>2. Len(answered) = Len(asked)
    BY <1>4, <2>1 DEF RoundEnds, TodoOK
  <2> QED
    BY <1>1, <1>4, <2>2 DEF RoundEnds
<1>5. CASE Ask \/ Finish
  BY <1>1, <1>5 DEF Ask, Finish
<1>6. CASE Quit \/ Raise \/ Ended \/ UNCHANGED <<vars, history>>
  BY <1>1, <1>6 DEF Quit, Raise, Ended, vars, loop
<1> QED
  BY <1>2, <1>3, <1>4, <1>5, <1>6 DEF Chat, User

\* When the model is asked again, each call of its last answer has its message,
\* in order, however many calls there were and whichever of them failed.
THEOREM AllCallsAnswered == FairSpec => []EveryCallAnswered
<1>1. ASSUME AnsweredSoFar, pc = "model" PROVE answered = asked
  <2>1. asked \in [1..Len(asked) -> Nat] /\ answered \in [1..Len(answered) -> Nat]
    BY <1>1 DEF AnsweredSoFar, TodoOK
  <2> QED
    BY <1>1, <2>1 DEF AnsweredSoFar
<1>2. AnsweredSoFar => EveryCallAnswered
  BY <1>1 DEF EveryCallAnswered
<1> QED
  BY <1>2, AnsweredInit, AnsweredStep, PTL DEF FairSpec
=============================================================================
