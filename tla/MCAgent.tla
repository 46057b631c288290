------------------------------ MODULE MCAgent ------------------------------
(***************************************************************************)
(* The agent under a language model that calls tools as it likes, seen     *)
(* from outside: what the tool messages have said so far determines what   *)
(* the store holds.                                                        *)
(***************************************************************************)
EXTENDS Agent, FiniteSetsExt

\* Any tool for any transaction, key and value, some of which are missing, unknown
\* or unfit.
Calls ==
  {Call("tx_start", "fit", NULL, NULL, NULL), Call("other", "fit", NULL, NULL, NULL),
   Call("tx_get", "unfit", NULL, NULL, NULL), Call("tx_put", "fit", NULL, NULL, NULL)}
  \cup {Call("tx_put", "fit", x, k, v) : x \in TxId, k \in Key, v \in Value}
  \cup {Call("tx_get", "fit", x, k, NULL) : x \in TxId, k \in Key}
  \cup {Call(name, "fit", x, NULL, NULL) : name \in {"tx_commit", "tx_rollback"}, x \in TxId}

\* TxId bounds the transactions of a behaviour.
EnoughIds(cs) ==
  Cardinality({n \in DOMAIN cs : cs[n].name = "tx_start"}) <= Cardinality(TxId \ drawn)

VARIABLES
  sent,        \* sent[x]: what tool messages have accepted as the open x's writes
  replay,      \* the accepted writes of the transactions reported as committed, in order
  began,       \* began[x]: replay when the open x was started
  overlapped   \* open transactions during which another one committed

history == <<sent, replay, began, overlapped>>

Over(d, e) == [k \in Key |-> IF e[k] # NULL THEN e[k] ELSE d[k]]

Is(name) == result'.ok /\ result'.call.name = name

\* x is over: what was known of it is forgotten.
Forgotten(x) ==
  /\ sent' = [sent EXCEPT ![x] = Empty]
  /\ began' = [began EXCEPT ![x] = Empty]

\* What is known after the message result'.
Learn ==
  LET c == result'.call IN
  \/ /\ Is("tx_start")
     /\ began' = [began EXCEPT ![result'.value] = replay]
     /\ UNCHANGED <<sent, replay, overlapped>>
  \/ /\ Is("tx_put")
     /\ sent' = [sent EXCEPT ![c.tx_id][c.key] = c.value]
     /\ UNCHANGED <<replay, began, overlapped>>
  \/ /\ Is("tx_commit")
     /\ replay' = Over(replay, sent[c.tx_id])
     /\ overlapped' = {x \in TxId : tx_map'[x] # NULL}
     /\ Forgotten(c.tx_id)
  \/ /\ Is("tx_rollback")
     /\ overlapped' = overlapped \ {c.tx_id}
     /\ Forgotten(c.tx_id) /\ UNCHANGED replay
  \/ /\ ~(Is("tx_start") \/ Is("tx_put") \/ Is("tx_commit") \/ Is("tx_rollback"))
     /\ UNCHANGED history

Chat ==
  \/ /\ \/ \E n \in 1..MaxCalls : \E cs \in [1..n -> Calls] : EnoughIds(cs) /\ Answer(cs)
        \/ Finish \/ RoundEnds \/ Raise
     /\ UNCHANGED history
  \/ RunTool /\ Learn

User == (Ask \/ Quit) /\ UNCHANGED history

Ended == pc = "ended" /\ UNCHANGED <<vars, history>>

MCInit ==
  /\ Init
  /\ sent = [x \in TxId |-> Empty] /\ replay = Empty
  /\ began = [x \in TxId |-> Empty] /\ overlapped = {}

\* The process runs on, and the service answers or fails; the user may go away.
FairSpec ==
  /\ MCInit /\ [][Chat \/ User \/ Ended]_<<vars, history>>
  /\ WF_<<vars, history>>(Chat)
-----------------------------------------------------------------------------
\* The store holds the writes that were accepted in transactions that were
\* reported as committed, applied transaction by transaction in the order of the
\* commits, and nothing else: nothing of a transaction that is open, was rolled
\* back or was left behind by an earlier chat (db_client.py:44-59).
StoreIsReplay == store = replay

\* A tx_get that succeeds returns the transaction's own last write of the key,
\* or else the committed value; and as long as no other transaction commits, the
\* committed value is the one of the transaction's start (db_client.py:38-42: the
\* snapshot taken at line 28 is never read, so commits of others do show).
GetsAreRight ==
  [][(result' # result /\ Is("tx_get")) =>
       LET c == result'.call
           of(d) == IF sent[c.tx_id][c.key] # NULL THEN sent[c.tx_id][c.key] ELSE d[c.key]
       IN /\ result'.value = of(replay)
          /\ c.tx_id \notin overlapped => result'.value = of(began[c.tx_id])]_<<vars, history>>

\* Whenever the model is asked again, each tool call of its last answer has its
\* message, in order, whether or not the calls failed; the service refuses a
\* conversation without them (llm.py:52-69).
EveryCallAnswered == pc = "model" => answered = asked

\* Every chat comes to its end, with an answer, after max_rounds, or with an
\* exception: a model that calls tools for ever is stopped (llm.py:24 and 74).
ChatEnds == (pc = "model") ~> (pc \in {"input", "ended"})
=============================================================================
