----------------------------- MODULE MCSession -----------------------------
(***************************************************************************)
(* Sessions whose clients may do anything: send any line at any time, up   *)
(* to Pipeline lines ahead of the server, read or not read the replies,    *)
(* and close the connection in any state.                                  *)
(***************************************************************************)
EXTENDS Session, TLC

CONSTANTS
  Pipeline,  \* lines and replies in flight on one connection
  MAX_VALUE  \* length of the longest value that is not cut (1023 in the code)

\* Every command, well formed or not; in capitals or not; PUTs whose value has
\* blanks, and PUTs with white space that put_value does not expect; and a line
\* with too much of it.
Lines ==
  {<<cmd>> : cmd \in {"start", "COMMIT", "ABORT", "END", "ROLLBACK", "PUT"}}
  \cup {<<TAB, CR>>} \cup {<<"GET", TAB, k, CR>> : k \in Rec}
  \cup {<<"PUT", SP, k, SP, v, SP, SP, v, CR>> : k \in Rec, v \in Value}
  \cup {<<"put", SP, SP, k, SP, v>> : k \in Rec, v \in Value}
  \cup {<<"PUT", TAB, k, SP, v>> : k \in Rec, v \in Value}
  \cup {[n \in 1..(MAX_LINE + 1) |-> SP]}

\* What such lines ask for: their keys and the values of their PUTs.
Requests == {r \in {Parse(read_line(text)) : text \in Lines} : r.cmd # "EMPTY"}
Keys == Rec \cup {r.rec : r \in Requests}
Texts == {InitVal, NULL} \cup {buffered(r.val) : r \in Requests}

\* The parts of lines that are too long for the engine's buffer, and what is left
\* of them.
LongValues ==
  {part \in UNION {{SubSeq(text, m, n) : m, n \in DOMAIN text} :
                     text \in {read_line(t) : t \in Lines}} : Len(part) > MAX_VALUE}
MCValCut == [value \in LongValues |-> Str(SubSeq(value, 1, MAX_VALUE))]

\* A null pointer is no transaction.
ASSUME NullIsNoTxn == NULL \notin [copy : [Rec -> Texts], wr : SUBSET Keys, stale : SUBSET Keys]

AnyClient(c) ==
  \/ Connect(c) \/ ReadReply(c) \/ Close(c)
  \/ /\ Len(inbox[c]) + Len(outbox[c]) < Pipeline
     /\ \E text \in Lines : SendLine(c, text)

SessionStopped ==
  /\ crashed \/ \A c \in Client : peer[c] = "closed" /\ thread[c] = "ended"
  /\ UNCHANGED <<apiVars, sessionVars>>

SessionNext ==
  \/ ~crashed /\ \E c \in Client : AnyClient(c) \/ Serve(c)
  \/ SessionStopped

serverVars == <<apiVars, sessionVars>>

SessionSpec == SessionInit /\ [][SessionNext]_serverVars

\* The server's threads run; the clients need not.
FairSessionSpec == SessionSpec /\ \A c \in Client : WF_serverVars(~crashed /\ Serve(c))

ClientSymmetry == Permutations(Client)
-----------------------------------------------------------------------------
\* in_txn says exactly whether the handle holds a transaction, through every
\* path of handle_client, so no engine call is made without a transaction, none
\* is begun over an open one, and no ended thread leaves one open
\* (session.cpp:34-134; begin_txn would leak the transaction it overwrites).
InTxnIsHandle ==
  \A c \in Client :
    /\ in_txn[c] <=> ctx[c] # NULL
    /\ thread[c] = "ended" => ctx[c] = NULL

\* A client that goes away, whatever it has sent and in whatever state, leaves
\* no thread and no open transaction behind (session.cpp:43-50).
ClosedClientIsForgotten ==
  \A c \in Client :
    peer[c] = "closed" ~> (thread[c] = "ended" /\ ctx[c] = NULL) \/ crashed

\* A PUT line of the form that its usage gives, PUT <key> <value> with one blank
\* between the words.
Plain(line) ==
  Len(line) >= 5 /\ line[2] = SP /\ line[4] = SP /\ {line[1], line[3], line[5]} \cap {SP, TAB} = {}

\* Such a PUT, answered OK, gives the record the rest of the line, blanks included,
\* as far as the engine's buffer holds it, and nothing of the command, the key or
\* the line's end (session.cpp:96-101 cuts the value out by other rules than
\* split_ws the words; what strncpy drops, txn.cpp:188-190, is answered OK too).
PlainPutIsExact ==
  [][\A c \in Client :
       LET line == read_line(Head(inbox[c]))
           rest == SubSeq(line, 5, Len(line))
       IN /\ inbox[c] # <<>> /\ Plain(line) /\ upper(line[1]) = "PUT"
          /\ inbox'[c] = Tail(inbox[c]) /\ reply'[c] = Say("OK")
          => ctx'[c].copy[line[3]] = buffered(IF Len(rest) = 1 THEN rest[1] ELSE rest)]_serverVars

\* session.cpp:43-49 catches a lost connection: it ends the session's own
\* transaction and thread, and the server goes on.  A reply to a connection that
\* was reset kills the process instead (server.cpp:69).
DisconnectCaught == ~crashed
=============================================================================
