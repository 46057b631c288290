----------------------------- MODULE StressTest -----------------------------
(***************************************************************************)
(* db_test.py: worker threads that increment hot keys, one transaction per *)
(* increment, and the check of the final values, run against the sessions  *)
(* of module Session.  preload_keys has run: every key is committed with   *)
(* value InitVal.                                                          *)
(*                                                                         *)
(* A request whose reply does not come within SOCKET_TIMEOUT raises an     *)
(* exception; the reply may still come, and is then read as the answer to  *)
(* a later request.                                                        *)
(***************************************************************************)
EXTENDS Session

CONSTANTS
  Worker, Verifier,  \* the clients
  TXN_PER_THREAD,
  MaxTimeouts        \* bound: requests of the whole test that time out

ASSUME ClientAssumption ==
  /\ Client = Worker \cup {Verifier} /\ Verifier \notin Worker
  /\ InitVal \in Nat /\ TxnNo \in Nat
  /\ TXN_PER_THREAD \in Nat /\ MaxTimeouts \in Nat
  /\ IsFiniteSet(Worker)

\* The test's lines are not too long, and white space is no number.
ASSUME TestLineAssumption == MAX_LINE >= 5 /\ {SP, TAB, CR} \cap Nat = {}

\* No increment makes a number too long for the engine's buffer (1023 digits), and
\* what is left of a longer one is a number.
LARGEST == InitVal + TXN_PER_THREAD * Cardinality(Worker) + 1
ASSUME NumberAssumption ==
  \A n \in {m \in DOMAIN val_cut : m \in Nat} : n > LARGEST /\ val_cut[n] \in Nat

\* What the sessions may answer to those lines.
ReplyTexts ==
  {"WELCOME", "OK", "OK TXN", "OK VALUE", "OK COMMIT", "ERR TXN_ALREADY_STARTED",
   "ERR NO_ACTIVE_TXN", "ERR NOT_FOUND", "ERR PUT_FAIL", "ERR ABORT", "ERR BAD_CMD"}

\* A null pointer is no number, no reply and no transaction.
ASSUME TestNullAssumption ==
  /\ NULL \notin Nat
  /\ NULL \notin [text : ReplyTexts, val : Nat \cup {NULL}]
  /\ NULL \notin [copy : [Rec -> Nat \cup {NULL}], wr : SUBSET Rec, stale : SUBSET Rec]

VARIABLES
  at,        \* at[c]: where the client is
  iter,      \* iter[w]: transactions that w has tried
  key, cur,  \* key[w], cur[w]: of the current transaction
  applied,   \* applied_increments
  checked,   \* checked[k]: what verify_final_values made of key k
  timeouts   \* requests timed out so far

testVars == <<at, iter, key, cur, applied, checked, timeouts>>
vars == <<apiVars, sessionVars, testVars>>

Init ==
  /\ SessionInit
  /\ at = [c \in Client |-> "new"]
  /\ iter = [w \in Worker |-> 0]
  /\ key = [w \in Worker |-> NULL]
  /\ cur = [w \in Worker |-> NULL]
  /\ applied = [k \in Rec |-> 0]
  /\ checked = [k \in Rec |-> "no"]
  /\ timeouts = 0
-----------------------------------------------------------------------------
is_ok(r) == r.text \in {"OK", "OK TXN", "OK VALUE", "OK COMMIT", "OK ABORT"}

\* parse_int_from_resp: the last integer of the reply, whatever the reply is.
parse_int(r) == r.val

At(c, label) == at' = [at EXCEPT ![c] = label]

\* request: send the line, then wait for a reply.
Ask(c, from, line, label) ==
  /\ at[c] = from
  /\ SendLine(c, line)
  /\ At(c, label)

\* The reply that a waiting client reads.
Hear(c, label) == at[c] = label /\ ReadReply(c)
heard(c) == Head(outbox[c])

\* The greeting is left unread.
Mut_skip_greeting(c) ==
  /\ at[c] = "new"
  /\ Connect(c)
  /\ At(c, "next")
  /\ UNCHANGED <<iter, key, cur, applied, checked, timeouts>>

\* The connection is made and the greeting read.
Open(c) ==
  /\ at[c] = "new"
  /\ Connect(c)
  /\ At(c, "greeting")
  /\ UNCHANGED <<iter, key, cur, applied, checked, timeouts>>

Greet(c) ==
  /\ Hear(c, "greeting")
  /\ At(c, "next")
  /\ UNCHANGED <<iter, key, cur, applied, checked, timeouts>>
-----------------------------------------------------------------------------
(* worker *)

\* The end of one turn of the loop.
EndTurn(w) ==
  /\ At(w, "next")
  /\ iter' = [iter EXCEPT ![w] = iter[w] + 1]
  /\ key' = [key EXCEPT ![w] = NULL]
  /\ cur' = [cur EXCEPT ![w] = NULL]

AskStart(w, k) ==
  /\ iter[w] < TXN_PER_THREAD
  /\ Ask(w, "next", <<"START">>, "START")
  /\ key' = [key EXCEPT ![w] = k]
  /\ UNCHANGED <<iter, cur, applied, checked, timeouts>>

\* A failed START is tried again and not counted as a transaction.
Mut_retry_start(w) ==
  /\ Hear(w, "START")
  /\ At(w, IF is_ok(heard(w)) THEN "get" ELSE "next")
  /\ UNCHANGED <<iter, key, cur, applied, checked, timeouts>>

HearStart(w) ==
  /\ Hear(w, "START")
  /\ IF is_ok(heard(w)) THEN At(w, "get") /\ UNCHANGED <<iter, key, cur>> ELSE EndTurn(w)
  /\ UNCHANGED <<applied, checked, timeouts>>

AskGet(w) ==
  /\ Ask(w, "get", <<"GET", SP, key[w]>>, "GET")
  /\ UNCHANGED <<iter, key, cur, applied, checked, timeouts>>

HearGet(w) ==
  LET v == parse_int(heard(w)) IN
  /\ Hear(w, "GET")
  /\ At(w, IF v = NULL THEN "rollback" ELSE "put")
  /\ cur' = [cur EXCEPT ![w] = v]
  /\ UNCHANGED <<iter, key, applied, checked, timeouts>>

AskPut(w) ==
  /\ Ask(w, "put", <<"PUT", SP, key[w], SP, cur[w] + 1>>, "PUT")
  /\ UNCHANGED <<iter, key, cur, applied, checked, timeouts>>

HearPut(w) ==
  /\ Hear(w, "PUT")
  /\ At(w, IF is_ok(heard(w)) THEN "commit" ELSE "rollback")
  /\ UNCHANGED <<iter, key, cur, applied, checked, timeouts>>

AskCommit(w) ==
  /\ Ask(w, "commit", <<"COMMIT">>, "COMMIT")
  /\ UNCHANGED <<iter, key, cur, applied, checked, timeouts>>

\* Every COMMIT that was answered counts.
Mut_count_every_commit(w) ==
  /\ Hear(w, "COMMIT")
  /\ applied' = [applied EXCEPT ![key[w]] = @ + 1]
  /\ EndTurn(w)
  /\ UNCHANGED <<checked, timeouts>>

HearCommit(w) ==
  /\ Hear(w, "COMMIT")
  /\ applied' = IF is_ok(heard(w)) THEN [applied EXCEPT ![key[w]] = @ + 1] ELSE applied
  /\ EndTurn(w)
  /\ UNCHANGED <<checked, timeouts>>

\* CMD_ROLLBACK is no command of the server.
AskRollback(w, from, label) ==
  /\ Ask(w, from, <<"ROLLBACK">>, label)
  /\ UNCHANGED <<iter, key, cur, applied, checked, timeouts>>

HearRollback(w) ==
  /\ Hear(w, "ROLLBACK") \/ Hear(w, "EXC_ROLLBACK")
  /\ EndTurn(w)
  /\ UNCHANGED <<applied, checked, timeouts>>

\* socket.timeout in a worker.  connect goes on without the greeting; the loop's
\* except clause sends a ROLLBACK, whose own failure ends the turn.
TimeOut(w) ==
  /\ timeouts < MaxTimeouts /\ outbox[w] = <<>>
  /\ timeouts' = timeouts + 1
  /\ \/ at[w] = "greeting" /\ At(w, "next") /\ UNCHANGED <<iter, key, cur>>
     \/ /\ at[w] \in {"START", "GET", "PUT", "COMMIT", "ROLLBACK"}
        /\ At(w, "exception") /\ UNCHANGED <<iter, key, cur>>
     \/ at[w] = "EXC_ROLLBACK" /\ EndTurn(w)
  /\ UNCHANGED <<apiVars, sessionVars, applied, checked>>

Leave(w) ==
  /\ at[w] = "next" /\ iter[w] = TXN_PER_THREAD
  /\ Close(w)
  /\ At(w, "closed")
  /\ UNCHANGED <<iter, key, cur, applied, checked, timeouts>>

Work(w) ==
  \/ Open(w) \/ Greet(w) \/ \E k \in Rec : AskStart(w, k)
  \/ HearStart(w) \/ AskGet(w) \/ HearGet(w) \/ AskPut(w) \/ HearPut(w)
  \/ AskCommit(w) \/ HearCommit(w)
  \/ AskRollback(w, "rollback", "ROLLBACK") \/ AskRollback(w, "exception", "EXC_ROLLBACK")
  \/ HearRollback(w) \/ Leave(w)
-----------------------------------------------------------------------------
(* verify_final_values, after all threads are joined: a GET for every key, in *)
(* no transaction.                                                            *)

Joined == \A w \in Worker : at[w] = "closed"

AskFinal(k) ==
  /\ checked[k] = "no"
  /\ Ask(Verifier, "next", <<"GET", SP, k>>, "GET")
  /\ checked' = [checked EXCEPT ![k] = "asked"]
  /\ UNCHANGED <<iter, key, cur, applied, timeouts>>

HearFinal(k) ==
  LET v == parse_int(heard(Verifier)) IN
  /\ checked[k] = "asked"
  /\ Hear(Verifier, "GET")
  /\ At(Verifier, "next")
  /\ checked' = [checked EXCEPT ![k] =
                   IF v = NULL THEN "unreadable"
                   ELSE IF v = InitVal + applied[k] THEN "match" ELSE "mismatch"]
  /\ UNCHANGED <<iter, key, cur, applied, timeouts>>

CloseFinal ==
  /\ at[Verifier] = "next" /\ \A k \in Rec : checked[k] \notin {"no", "asked"}
  /\ Close(Verifier)
  /\ At(Verifier, "closed")
  /\ UNCHANGED <<iter, key, cur, applied, checked, timeouts>>

\* socket.timeout in the check.  connect goes on without the greeting; after a
\* GET the exception leaves verify_final_values, whose finally clause closes the
\* connection.
TimeOutFinal ==
  /\ Joined
  /\ timeouts < MaxTimeouts /\ outbox[Verifier] = <<>>
  /\ timeouts' = timeouts + 1
  /\ \/ /\ at[Verifier] = "greeting" /\ At(Verifier, "next")
        /\ UNCHANGED <<apiVars, sessionVars>>
     \/ at[Verifier] = "GET" /\ Close(Verifier) /\ At(Verifier, "closed")
  /\ UNCHANGED <<iter, key, cur, applied, checked>>

Verify ==
  /\ Joined
  /\ \/ Open(Verifier) \/ Greet(Verifier) \/ CloseFinal
     \/ \E k \in Rec : AskFinal(k) \/ HearFinal(k)
-----------------------------------------------------------------------------
ServerStep(c) == Serve(c) /\ UNCHANGED testVars

Stopped ==
  /\ crashed \/ \A c \in Client : at[c] = "closed" /\ thread[c] = "ended"
  /\ UNCHANGED vars

Next ==
  \/ /\ ~crashed
     /\ \/ \E w \in Worker : Work(w) \/ TimeOut(w)
        \/ Verify \/ TimeOutFinal
        \/ \E c \in Client : ServerStep(c)
  \/ Stopped

Spec == Init /\ [][Next]_vars

\* Both programs run; a time-out never has to happen.
FairSpec ==
  /\ Spec
  /\ \A w \in Worker : WF_vars(~crashed /\ Work(w))
  /\ WF_vars(~crashed /\ Verify)
  /\ \A c \in Client : WF_vars(~crashed /\ ServerStep(c))
=============================================================================
