------------------------------ MODULE Session ------------------------------
(***************************************************************************)
(* The server's sessions: run_accept_loop, handle_client, read_line and    *)
(* send_all (Server/server.cpp, Server/session.cpp), one thread per        *)
(* connection, over the engine as module KvApi describes it.               *)
(*                                                                         *)
(* A connection carries complete lines in one direction and replies in the *)
(* other, reliably and in order (TCP).  A line is a sequence of words and  *)
(* of the white space between them, without its end.  An unterminated last *)
(* line is dropped by read_line, so it is no line at all.                  *)
(***************************************************************************)
EXTENDS KvApi, Naturals, Sequences, FiniteSetsExt

CONSTANTS
  TxnNo,     \* the transaction number of "OK TXN <n>", abstracted to one
  MAX_LINE,  \* length of the longest line read_line returns (64K in the code)
  SP, TAB, CR   \* the characters ' ', '\t' and '\r'

\* The words of commands, as clients write them.
Commands ==
  {"START", "GET", "PUT", "COMMIT", "ABORT", "END", "QUIT", "EXIT", "ROLLBACK", "start", "put"}

\* White space is no word.
ASSUME BlankAssumption ==
  /\ SP # TAB /\ SP # CR /\ TAB # CR
  /\ {SP, TAB, CR} \cap (Rec \cup Value \cup Commands) = {}

ASSUME LengthAssumption == MAX_LINE \in Nat

VARIABLES
  peer,    \* peer[c]: the client's end, "none", "open" or "closed"
  inbox,   \* inbox[c]: lines sent and not yet read by the server
  outbox,  \* outbox[c]: replies sent and not yet read by the client
  thread,  \* thread[c]: "none", "serving" or "ended"
  in_txn,  \* in_txn[c] of handle_client
  reply,   \* reply[c]: what the thread is about to pass to send_all, or NULL
  reset,   \* reset[c]: the peer has answered a reply with a TCP reset
  crashed  \* SIGPIPE has killed the process

sessionVars == <<peer, inbox, outbox, thread, in_txn, reply, reset, crashed>>

Reply(text, val) == [text |-> text, val |-> val]
Say(text) == Reply(text, NULL)

SessionInit ==
  /\ ApiInit
  /\ peer = [c \in Client |-> "none"]
  /\ inbox = [c \in Client |-> <<>>]
  /\ outbox = [c \in Client |-> <<>>]
  /\ thread = [c \in Client |-> "none"]
  /\ in_txn = [c \in Client |-> FALSE]
  /\ reply = [c \in Client |-> NULL]
  /\ reset = [c \in Client |-> FALSE]
  /\ crashed = FALSE
-----------------------------------------------------------------------------
(* Lines *)

\* What read_line makes of the characters before the '\n'.
read_line(text) ==
  LET out[n \in 0..Len(text)] ==
        IF n = 0 THEN <<>>
        ELSE IF text[n] = CR THEN out[n - 1] ELSE Append(out[n - 1], text[n])
  IN out[Len(text)]

\* read_line gives up before it has seen the end of the line.
TooLong(text) == Len(read_line(text)) > MAX_LINE

\* split_ws: where the words are; two words are never adjacent in a line.
split_ws(line) == {n \in DOMAIN line : line[n] \notin {SP, TAB}}

\* The second of some positions in a line.
Second(places) == Min(places \ {Min(places)})

\* The words that the clients of the model write in lower case.
upper(w) ==
  LET capital == [start |-> "START", put |-> "PUT"]
  IN IF w \in DOMAIN capital THEN capital[w] ELSE w

\* END has two synonyms.
Command(w) == IF upper(w) \in {"QUIT", "EXIT"} THEN "END" ELSE upper(w)

\* The last word of the line, if it is not the command or the key.
Mut_last_word(line) ==
  LET parts == split_ws(line)
  IN IF Cardinality(parts) < 3 THEN <<>> ELSE SubSeq(line, Max(parts), Max(parts))

\* The value of a PUT: what stands behind the second ' ' of the line, wherever
\* the words are; nothing if there is no second one.
put_value(line) ==
  LET spaces == {n \in DOMAIN line : line[n] = SP}
  IN IF Cardinality(spaces) < 2 THEN <<>>
     ELSE SubSeq(line, Second(spaces) + 1, Len(line))

\* A string of one word is that word.
Str(text) == IF Len(text) = 1 THEN text[1] ELSE text

\* The command, key and value that handle_client takes from a line.
Parse(line) ==
  LET parts == split_ws(line) IN
  IF parts = {} THEN [cmd |-> "EMPTY", words |-> 0]
  ELSE [cmd |-> Command(line[Min(parts)]), words |-> Cardinality(parts),
        rec |-> IF Cardinality(parts) > 1 THEN line[Second(parts)] ELSE NULL,
        val |-> Str(put_value(line))]
-----------------------------------------------------------------------------
(* The client's socket calls; what a client does with them is its program. *)

Connect(c) ==
  /\ peer[c] = "none"
  /\ peer' = [peer EXCEPT ![c] = "open"]
  /\ UNCHANGED <<apiVars, inbox, outbox, thread, in_txn, reply, reset, crashed>>

SendLine(c, text) ==
  /\ peer[c] = "open"
  /\ inbox' = [inbox EXCEPT ![c] = Append(inbox[c], text)]
  /\ UNCHANGED <<apiVars, peer, outbox, thread, in_txn, reply, reset, crashed>>

ReadReply(c) ==
  /\ peer[c] = "open" /\ outbox[c] # <<>>
  /\ outbox' = [outbox EXCEPT ![c] = Tail(outbox[c])]
  /\ UNCHANGED <<apiVars, peer, inbox, thread, in_txn, reply, reset, crashed>>

\* Closing a socket with replies in it answers them with a reset at once.
Close(c) ==
  /\ peer[c] = "open"
  /\ peer' = [peer EXCEPT ![c] = "closed"]
  /\ reset' = [reset EXCEPT ![c] = outbox[c] # <<>>]
  /\ outbox' = [outbox EXCEPT ![c] = <<>>]
  /\ UNCHANGED <<apiVars, inbox, thread, in_txn, reply, crashed>>
-----------------------------------------------------------------------------
(* The server's thread for connection c. *)

\* accept, and the thread's first statement, the greeting.
Accept(c) ==
  /\ peer[c] # "none" /\ thread[c] = "none"
  /\ thread' = [thread EXCEPT ![c] = "serving"]
  /\ reply' = [reply EXCEPT ![c] = Say("WELCOME")]
  /\ UNCHANGED <<apiVars, peer, inbox, outbox, in_txn, reset, crashed>>

\* A reply for a closed peer is lost, and answered by a reset.
SendReply(c) ==
  /\ thread[c] = "serving" /\ reply[c] # NULL
  /\ reply' = [reply EXCEPT ![c] = NULL]
  /\ IF peer[c] = "open"
     THEN outbox' = [outbox EXCEPT ![c] = Append(outbox[c], reply[c])] /\ UNCHANGED reset
     ELSE reset' = [reset EXCEPT ![c] = TRUE] /\ UNCHANGED outbox
  /\ thread' = [thread EXCEPT ![c] = IF reply[c].text = "BYE" THEN "ended" ELSE "serving"]
  /\ UNCHANGED <<apiVars, peer, inbox, in_txn, crashed>>

\* send on a connection that was reset raises SIGPIPE: send_all passes no
\* MSG_NOSIGNAL, and nobody ignores the signal.
SendSigpipe(c) ==
  /\ thread[c] = "serving" /\ reply[c] # NULL /\ reset[c]
  /\ crashed' = TRUE
  /\ UNCHANGED <<apiVars, peer, inbox, outbox, thread, in_txn, reply, reset>>

\* The next line is handed to the handler.
NextLine(c) ==
  /\ thread[c] = "serving" /\ reply[c] = NULL
  /\ inbox[c] # <<>> /\ ~TooLong(Head(inbox[c]))
  /\ inbox' = [inbox EXCEPT ![c] = Tail(inbox[c])]
  /\ UNCHANGED <<peer, outbox, thread, reset, crashed>>

\* The next line, taken apart.
NextRequest(c) == Parse(read_line(Head(inbox[c])))

\* The handler answers with r and goes on.
AnswerWith(c, r) == reply' = [reply EXCEPT ![c] = r]

\* A line that does not reach the engine.
Rejected(r, inTxn) ==
  CASE r.cmd = "START" /\ inTxn -> Say("ERR TXN_ALREADY_STARTED")
    [] r.cmd \in {"GET", "PUT", "COMMIT", "ABORT"} /\ ~inTxn -> Say("ERR NO_ACTIVE_TXN")
    [] r.cmd = "GET" /\ inTxn /\ r.words # 2 -> Say("ERR USAGE")
    [] r.cmd = "PUT" /\ inTxn /\ r.words < 3 -> Say("ERR USAGE")
    [] r.cmd = "EMPTY" -> Say("ERR EMPTY_CMD")
    [] r.cmd \notin {"START", "GET", "PUT", "COMMIT", "ABORT", "END", "EMPTY"} ->
         Say("ERR BAD_CMD")
    [] OTHER -> NULL

Reject(c) ==
  /\ NextLine(c)
  /\ \E r \in {NextRequest(c)} :
       LET a == Rejected(r, in_txn[c]) IN a # NULL /\ AnswerWith(c, a)
  /\ UNCHANGED <<apiVars, in_txn>>

\* The next line, r, is a command of the given name, and is carried out.
Line(c, cmd, r) ==
  /\ r.cmd = cmd /\ Rejected(r, in_txn[c]) = NULL
  /\ NextLine(c)

Start(c, r) ==
  /\ Line(c, "START", r)
  /\ begin_txn(c)
  /\ in_txn' = [in_txn EXCEPT ![c] = TRUE]
  /\ AnswerWith(c, Reply("OK TXN", TxnNo))

Get(c, r) ==
  /\ Line(c, "GET", r)
  /\ get(c, r.rec)
  /\ AnswerWith(c, IF rc'[c] = "OK" THEN Reply("OK VALUE", value_out(c, r.rec))
                   ELSE Say("ERR NOT_FOUND"))
  /\ UNCHANGED in_txn

Put(c, r) ==
  /\ Line(c, "PUT", r)
  /\ put(c, r.rec, r.val)
  /\ AnswerWith(c, IF rc'[c] = "OK" THEN Say("OK") ELSE Say("ERR PUT_FAIL"))
  /\ UNCHANGED in_txn

Commit(c, r) ==
  /\ Line(c, "COMMIT", r)
  /\ commit(c)
  /\ AnswerWith(c, IF rc'[c] = "OK" THEN Say("OK COMMIT") ELSE Say("ERR ABORT"))
  /\ in_txn' = [in_txn EXCEPT ![c] = FALSE]

\* ABORT that leaves in_txn set.
Mut_abort_keeps_in_txn(c, r) ==
  /\ Line(c, "ABORT", r)
  /\ abort_txn(c)
  /\ AnswerWith(c, Say("OK ABORT"))
  /\ UNCHANGED in_txn

Abort(c, r) ==
  /\ Line(c, "ABORT", r)
  /\ abort_txn(c)
  /\ AnswerWith(c, Say("OK ABORT"))
  /\ in_txn' = [in_txn EXCEPT ![c] = FALSE]

\* The engine is not told.
Mut_forget_open(c) == in_txn' = [in_txn EXCEPT ![c] = FALSE] /\ UNCHANGED apiVars

\* What END and a lost connection do with the open transaction.
AbortOpen(c) ==
  /\ IF in_txn[c] THEN abort_txn(c) ELSE UNCHANGED apiVars
  /\ in_txn' = [in_txn EXCEPT ![c] = FALSE]

End(c, r) ==
  /\ Line(c, "END", r)
  /\ AbortOpen(c)
  /\ AnswerWith(c, Say("BYE"))

\* read_line fails: the peer has closed or reset the connection, or the line
\* is too long.  The thread ends and closes its socket.
Disconnect(c) ==
  /\ thread[c] = "serving" /\ reply[c] = NULL
  /\ IF inbox[c] = <<>> THEN peer[c] = "closed" ELSE TooLong(Head(inbox[c]))
  /\ AbortOpen(c)
  /\ thread' = [thread EXCEPT ![c] = "ended"]
  /\ UNCHANGED <<peer, inbox, outbox, reply, reset, crashed>>

Execute(c, r) ==
  Start(c, r) \/ Get(c, r) \/ Put(c, r) \/ Commit(c, r) \/ Abort(c, r) \/ End(c, r)

Serve(c) ==
  \/ Accept(c) \/ SendReply(c) \/ SendSigpipe(c) \/ Reject(c) \/ Disconnect(c)
  \/ inbox[c] # <<>> /\ \E r \in {NextRequest(c)} : Execute(c, r)
=============================================================================
