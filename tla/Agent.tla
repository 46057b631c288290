------------------------------- MODULE Agent -------------------------------
(***************************************************************************)
(* The chat agent of Agent/: main (app.py) hands each question to          *)
(* chat_with_tools (llm.py), which asks a language model, carries out the  *)
(* tool calls of its answer and asks again.  The tools (tools/kv_tools.py) *)
(* work on the transactional store in memory of db_client.py.              *)
(*                                                                         *)
(* The model may call any tool with any arguments.  A call is the name of  *)
(* a tool and its arguments tx_id, key and value; NULL stands for one that *)
(* is missing or empty, and args = "unfit" for arguments that are JSON but *)
(* have not the types the schema asks for, so that args.get or strip       *)
(* raises outside the tool's try.  Arguments that are no JSON become {}:   *)
(* all are missing.                                                        *)
(***************************************************************************)
EXTENDS Naturals, Sequences

CONSTANTS
  Key, Value,
  TxId,        \* uuids, each drawn at most once
  max_rounds,
  MaxCalls,    \* bound: tool calls in one answer of the model
  MaxChats,    \* bound: questions of the user
  NULL

ASSUME NullIsNoId == NULL \notin TxId \cup Key \cup Value
ASSUME BoundsAreNumbers == {max_rounds, MaxCalls, MaxChats} \subseteq Nat

Empty == [k \in Key |-> NULL]

VARIABLES
  store,     \* MiniDBClient._store
  tx_map,    \* _tx_map: tx_map[x]: [snapshot, writes], or NULL
  drawn,     \* uuids drawn so far
  pc,        \* "input", "model", "tools" or "ended"
  round,     \* of chat_with_tools
  todo,      \* msg.tool_calls not yet carried out: [id, call]
  asked, answered,  \* ids of the last answer's tool calls, and tool_call_ids of the
                    \* tool messages after it
  chats,     \* questions so far
  result     \* the last tool message: [call, ok, value], or NULL

db == <<store, tx_map, drawn>>
loop == <<pc, round, todo, asked, answered, chats>>
vars == <<db, loop, result>>

Init ==
  /\ store = Empty /\ tx_map = [x \in TxId |-> NULL] /\ drawn = {}
  /\ pc = "input" /\ round = 0 /\ todo = <<>> /\ asked = <<>> /\ answered = <<>>
  /\ chats = 0 /\ result = NULL
-----------------------------------------------------------------------------
(* The tools; each ends with the message that reports its result. *)

\* Operators named Mut_... are plausible mistakes in the code.

Call(name, args, tx_id, key, value) ==
  [name |-> name, args |-> args, tx_id |-> tx_id, key |-> key, value |-> value]

Report(c, ok, value) == result' = [call |-> c, ok |-> ok, value |-> value]
Fail(c) == Report(c, FALSE, NULL) /\ UNCHANGED db

\* _require_tx: transactions leave _tx_map as soon as they are inactive.
active(x) == x # NULL /\ tx_map[x] # NULL

tx_start(c) ==
  \E x \in TxId \ drawn :
    /\ tx_map' = [tx_map EXCEPT ![x] = [snapshot |-> store, writes |-> Empty]]
    /\ drawn' = drawn \cup {x}
    /\ Report(c, TRUE, x)
    /\ UNCHANGED store

\* MiniDBClient.get
get(x, k) == IF tx_map[x].writes[k] # NULL THEN tx_map[x].writes[k] ELSE store[k]

tx_get(c) ==
  IF active(c.tx_id) /\ c.key # NULL
  THEN Report(c, TRUE, get(c.tx_id, c.key)) /\ UNCHANGED db
  ELSE Fail(c)

\* A second write of a key is dropped.
Mut_first_write(c) ==
  IF active(c.tx_id) /\ c.key # NULL
  THEN /\ tx_map' = [tx_map EXCEPT ![c.tx_id].writes[c.key] = IF @ = NULL THEN c.value ELSE @]
       /\ Report(c, TRUE, NULL)
       /\ UNCHANGED <<store, drawn>>
  ELSE Fail(c)

\* A value that is missing or no string is written as JSON: a value like others.
tx_put(c) ==
  IF active(c.tx_id) /\ c.key # NULL
  THEN /\ tx_map' = [tx_map EXCEPT ![c.tx_id].writes[c.key] = c.value]
       /\ Report(c, TRUE, NULL)
       /\ UNCHANGED <<store, drawn>>
  ELSE Fail(c)

Forget(x) == tx_map' = [tx_map EXCEPT ![x] = NULL]

\* The snapshot is written back with the writes.
Mut_commit_snapshot(c) ==
  IF active(c.tx_id)
  THEN /\ store' = [k \in Key |-> IF tx_map[c.tx_id].writes[k] # NULL
                                  THEN tx_map[c.tx_id].writes[k]
                                  ELSE tx_map[c.tx_id].snapshot[k]]
       /\ Forget(c.tx_id)
       /\ Report(c, TRUE, NULL)
       /\ UNCHANGED drawn
  ELSE Fail(c)

tx_commit(c) ==
  IF active(c.tx_id)
  THEN /\ store' = [k \in Key |-> get(c.tx_id, k)]
       /\ Forget(c.tx_id)
       /\ Report(c, TRUE, NULL)
       /\ UNCHANGED drawn
  ELSE Fail(c)

tx_rollback(c) ==
  IF active(c.tx_id)
  THEN Forget(c.tx_id) /\ Report(c, TRUE, NULL) /\ UNCHANGED <<store, drawn>>
  ELSE Fail(c)

\* tool_router.  image_analyze changes nothing; to the store it is an unknown tool.
tool_router(c) ==
  \/ c.name = "tx_start" /\ tx_start(c)
  \/ c.name = "tx_get" /\ tx_get(c)
  \/ c.name = "tx_put" /\ tx_put(c)
  \/ c.name = "tx_commit" /\ tx_commit(c)
  \/ c.name = "tx_rollback" /\ tx_rollback(c)
  \/ c.name = "other" /\ Fail(c)
-----------------------------------------------------------------------------
(* main and chat_with_tools *)

\* The user asks.
Ask ==
  /\ pc = "input" /\ chats < MaxChats
  /\ chats' = chats + 1
  /\ pc' = "model" /\ round' = 0
  /\ UNCHANGED <<db, todo, asked, answered, result>>

Quit ==
  /\ pc = "input"
  /\ pc' = "ended"
  /\ UNCHANGED <<db, round, todo, asked, answered, chats, result>>

\* The model answers with tool calls; the service gives each an id of its own.
Answer(cs) ==
  /\ pc = "model" /\ round < max_rounds
  /\ pc' = "tools"
  /\ todo' = [n \in DOMAIN cs |-> [id |-> n, call |-> cs[n]]]
  /\ asked' = [n \in DOMAIN cs |-> n] /\ answered' = <<>>
  /\ UNCHANGED <<db, round, chats, result>>

\* It answers with a text, or it has had its rounds.
Finish ==
  /\ pc = "model"
  /\ pc' = "input"
  /\ UNCHANGED <<db, round, todo, asked, answered, chats, result>>

\* A failed call ends the round.
Mut_stop_at_failure ==
  /\ pc = "tools" /\ todo # <<>> /\ Head(todo).call.args = "fit"
  /\ tool_router(Head(todo).call)
  /\ todo' = IF result'.ok THEN Tail(todo) ELSE <<>>
  /\ answered' = Append(answered, Head(todo).id)
  /\ UNCHANGED <<pc, round, asked, chats>>

\* The next tool call, and its message.
RunTool ==
  /\ pc = "tools" /\ todo # <<>> /\ Head(todo).call.args = "fit"
  /\ tool_router(Head(todo).call)
  /\ todo' = Tail(todo)
  /\ answered' = Append(answered, Head(todo).id)
  /\ UNCHANGED <<pc, round, asked, chats>>

\* Rounds are not counted.
Mut_no_count ==
  /\ pc = "tools" /\ todo = <<>>
  /\ pc' = "model" /\ UNCHANGED round
  /\ UNCHANGED <<db, todo, asked, answered, chats, result>>

RoundEnds ==
  /\ pc = "tools" /\ todo = <<>>
  /\ pc' = "model" /\ round' = round + 1
  /\ UNCHANGED <<db, todo, asked, answered, chats, result>>

\* An exception that nobody catches: the service fails, or a tool is given unfit
\* arguments.  The process ends, and the store with it.
Raise ==
  /\ \/ pc = "model" /\ round < max_rounds
     \/ pc = "tools" /\ todo # <<>> /\ Head(todo).call.args = "unfit"
  /\ pc' = "ended"
  /\ UNCHANGED <<db, round, todo, asked, answered, chats, result>>
=============================================================================
